SPECIFICATION Spec
CONSTANTS
    Data = {nil}
    NIL = nil
    Globals = {g}
    FRAMES_MAX = 2
    STACK_MAX = 4
    MaxArity = 0
    MaxLinks = 1
    MaxClosures = 3
    MaxErrors = 1
INVARIANT
    CapturesSurvive
CHECK_DEADLOCK FALSE
