SPECIFICATION Spec
CONSTANTS
    NULL = "null"
    VirtualRoot = "root"
    Shapes = {"straight", "if", "loopInIf", "loop"}
    Callees = {"g", "h", "printf", "null"}
    Aliasings = {"local", "shared", "global"}
    Declarations = {"printf"}
    Functions <- MCFunctions
    BlocksOf <- MCBlocksOf
    InstsOf <- MCInstsOf
    Formals <- MCFormals
    OtherValues <- MCOtherValues
    Calls <- MCCalls
    Rets <- MCRets
    Loads <- MCLoads
    Stores <- MCStores
    Programs <- MCPrograms
    Criteria <- MCCriteria
CHECK_DEADLOCK FALSE
INVARIANTS
    MarkedAreKeptIfRooted
    SourcesAreKept
    CallsAreKept
PROPERTIES
    NoEdgeLost
