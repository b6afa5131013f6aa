SPECIFICATION Spec
CONSTANTS
    NULL = "null"
    VirtualRoot = "root"
    Shapes = {"loop"}
    Callees = {"g", "h", "printf", "null"}
    Aliasings = {"local"}
    Declarations = {"printf"}
    Functions <- MCFunctions
    BlocksOf <- MCBlocksOf
    InstsOf <- MCInstsOf
    Formals <- MCFormals
    OtherValues <- MCOtherValues
    Calls <- MCCalls
    Rets <- MCRets
    Loads <- MCLoads
    Stores <- MCStores
    Programs <- MCPrograms
    Criteria <- MCCriteria
CHECK_DEADLOCK FALSE
INVARIANTS
    MarkedAreKept
