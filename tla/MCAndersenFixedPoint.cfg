SPECIFICATION AndersenSpec
CONSTANTS
    NumNodes = 4
    MaxExtra = 2
    Problems <- AllProblems
    Options <- HybridOnly
    Passes <- PassesFor
INVARIANT FixedPointReached
