SPECIFICATION ReprintSpec
CONSTANTS
    a = a
    b = b
    Names <- TwoNames
    MAX_ARGS = 2
    Families <- Programs
    MaxAfter = 1
INVARIANTS
    AcceptsTheGrammar
    TreeIsTheReading
    PrintedTextReparses
PROPERTIES
    ErrorsAreErrors
    EveryTextEnds
