SPECIFICATION ForwardSpec
CONSTANTS
    MaxEdges = 2
    AuxNode = {}
    Function <- MCFunction
    Instruction <- MCInstruction
    FunctionOf <- MCFunctionOf
    Graphs <- MCGraphs
    Criteria <- MCCriteria
CHECK_DEADLOCK FALSE
INVARIANTS
    StaysOutOfCallees
