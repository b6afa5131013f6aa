SPECIFICATION PassSpec
CONSTANTS
    MaxEdges = 3
    AuxNode = {}
    Function <- MCFunction
    Instruction <- MCInstruction
    FunctionOf <- MCFunctionOf
    Graphs <- MCGraphs
    Criteria <- MCCriteria
CHECK_DEADLOCK FALSE
INVARIANTS
    TypeOK
    MarkedIsSlice
    Frontier
    DependencesKept
    ForwardMarkedIsSlice
    NoAffectedDeleted
PROPERTIES
    Terminates
