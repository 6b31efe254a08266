CONSTANTS
    Size <- WideAndNarrow
    Colour = {red}
    Blank = Blank
    Junk = Junk
    Buffer = {b1, b2}
    NoBuffer = NoBuffer
    MaxChanges = 2
    MaxConnects = 1
    MaxQueue = 3
SPECIFICATION Spec
\* a remote side that has used up its bounds paints no more
CHECK_DEADLOCK FALSE
INVARIANTS
    MismatchedFramesSkipped
