SPECIFICATION AndersenSpec
CONSTANTS
    NumNodes = 4
    MaxExtra = 2
    Problems <- AllProblems
    Options <- AllOptions
    Passes <- PassesFor
INVARIANTS AndersenTypeOK SolutionIsLeast AliasAnswersHold HandedOn OnlyRepresentatives
PROPERTIES NothingLost Terminates
