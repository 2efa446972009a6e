SPECIFICATION Spec
CONSTANTS
    a = a
    b = b
    d = d
    Names <- AllNames
    UINT8_COUNT = 8
    Families <- ContinueBlock
INVARIANT
    LexicalScope
