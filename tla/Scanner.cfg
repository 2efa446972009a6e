SPECIFICATION Spec
CONSTANTS
    Letters <- SomeLetters
    Digits = {"1"}
    Emoji = {"emoji"}
    Keywords <- Or
    Families <- Texts
INVARIANTS
    TokensAreLexemes
PROPERTIES
    EveryTextIsScanned
CHECK_DEADLOCK FALSE
