SPECIFICATION FairSpec
CONSTANTS
    p1 = p1
    p2 = p2
    a1 = a1
    n1 = n1
    a2 = a2
    n2 = n2
    n3 = n3
    NoCall = NoCall
    MultiInstance = TRUE
    Procs <- MCProcs
    Keys <- MCKeys
    Calls <- MCCalls
    ProcOf <- MCProcOf
    KeyOf <- MCKeyOf
    Parent <- MCParent
INVARIANTS
    TypeOK
    InProcessMutex
    FileLockExclusive
    EntryWhileInUse
    NoDeadlock
PROPERTIES
    ServedInOrder
    EveryCallEnds
    ImplementsMutex
CHECK_DEADLOCK FALSE
