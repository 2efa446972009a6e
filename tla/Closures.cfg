SPECIFICATION HistorySpec
CONSTANTS
    Data = {nil}
    NIL = nil
    Globals = {g}
    FRAMES_MAX = 2
    STACK_MAX = 4
    MaxArity = 1
    MaxLinks = 2
    MaxClosures = 3
    MaxErrors = 1
CONSTRAINT
    Families
INVARIANTS
    TypeOK
    FramesNested
    OpenSorted
    OpenIsCaptured
    NoDangling
    SharedValue
PROPERTIES
    ImplementsCells
CHECK_DEADLOCK FALSE
