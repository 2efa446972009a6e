SPECIFICATION Spec
CONSTANTS
    UINT8_COUNT = 2
    Families <- ManyNames
    MaxUpvalues = 0
INVARIANT
    ConstantsAreMeant
CHECK_DEADLOCK FALSE
