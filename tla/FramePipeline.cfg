CONSTANTS
    Size <- WideAndHigh
    Colour = {red}
    Blank = Blank
    Junk = Junk
    Buffer = {b1, b2}
    NoBuffer = NoBuffer
    MaxChanges = 1
    MaxConnects = 2
    MaxQueue = 2
SPECIFICATION FairSpec
\* a remote side that has used up its bounds paints no more
CHECK_DEADLOCK FALSE
INVARIANTS
    TypeOK
    UploadsFit
    PictureCurrentAtRest
    JunkIsReplaced
PROPERTIES
    ScreenCatchesUp
