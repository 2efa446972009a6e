SPECIFICATION Spec
CONSTANTS
    UINT8_COUNT = 2
    Families <- Programs
    MaxUpvalues = 2
INVARIANTS
    ProgramIsRead
    DisassemblerAgrees
CHECK_DEADLOCK FALSE
