SPECIFICATION FairSpec
CONSTANTS
    super = super
    sub = sub
    k1 = k1
    k2 = k2
    k3 = k3
    Tables = {super, sub}
    Keys = {k1, k2, k3}
    NIL = nil
    TRUE_VAL = true
    Values = {nil, true}
    ABSENT = absent
    VOID = void
    NULL = null
    Hash <- MCHash
    MIN_CAPACITY = 2
    MaxCount <- MCMaxCount
INVARIANTS
    TypeOK
    CountIsUsed
    SearchesEnd
    KeysAreFound
    MaskIsRemainder
PROPERTIES
    ImplementsMap
    CallsReturn
