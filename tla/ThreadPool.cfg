\* Eight workers and enough connections to go round twice.
CONSTANTS
    ThreadNumber = 8
    MaxConnections = 17
    MainLoop = main
    NULL = NULL
SPECIFICATION Spec
INVARIANTS
    NoNullLoop
    NoLostSignal
    LoadsBalanced
PROPERTY PoolServes
\* The pool stops at the bound on connections.
CHECK_DEADLOCK FALSE
