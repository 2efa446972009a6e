SPECIFICATION Spec
CONSTANTS
    a = a
    b = b
    d = d
    Names <- AllNames
    UINT8_COUNT = 3
    Families <- Everything
SYMMETRY Interchangeable
INVARIANTS
    TypeOK
    SlotsMatchInOrder
    LexicalScopeInOrder
    UpvaluesResolve
    NoGlobalThis
    JoinsAgreeInOrder
    JumpsPatched
    LoopNesting
    NothingOutlivesItsScope
PROPERTIES
    ContinueStaysInLoop
