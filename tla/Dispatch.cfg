SPECIFICATION Spec
CONSTANTS
    initString = init
    name = name
    FUN = fun
    Names = {init, name}
    Arity <- MCArity
    OBJECT = Object
    CLOCK = clock
    Globals = {Object, clock}
    FRAMES_MAX = 3
    MaxTemporaries = 2
    STACK_MAX = 4
    MaxClasses = 3
    MaxMethods = 2
    MaxInstances = 2
    MaxFields = 1
    FunctionNames = {clock}
CHECK_DEADLOCK FALSE
INVARIANTS
    TypeOK
    MethodsAreInherited
    ThisBelongs
    InvokeIsGetAndCall
    HeightsMatch
PROPERTIES
    ConstructorsYieldTheirInstance
