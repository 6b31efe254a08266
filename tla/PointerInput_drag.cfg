CONSTANTS
    View <- SquareAndWide
    ContentScale = 2
    Texture <- SquareAndWider
    Point <- InAndAround
    Delta <- SmallAndLarge
SPECIFICATION Spec
INVARIANTS
    DragEnds
