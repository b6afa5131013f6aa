SPECIFICATION FairSpec
CONSTANTS
    NULL = NULL
    VirtualRoot = VirtualRoot
    Functions <- MCFunctions
    BlocksOf <- MCBlocksOf
    CFGs <- MCCFGs
CHECK_DEADLOCK FALSE
INVARIANTS
    TypeOK
    Complete
PROPERTIES
    Terminates
    CrashExactly
