SPECIFICATION Spec
CONSTANT Programs <- AllPrograms
CONSTANT MaxDepth = 3
CHECK_DEADLOCK FALSE
INVARIANTS CollectionIsSound OrdinaryProgramsAreRead
