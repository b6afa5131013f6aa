SPECIFICATION Spec
CONSTANT Programs <- IndirectPrograms
CONSTANT MaxDepth = 3
CHECK_DEADLOCK FALSE
INVARIANT NoAliasHolds
