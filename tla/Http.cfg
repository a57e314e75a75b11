\* Two connections that pipeline, with requests that arrive in any pieces.
CONSTANTS
    Connections = {c, d}
    MaxRequests = 2
    ResponseSize = 2
    SendCapacity = 4
    Split = TRUE
    Pipelining = TRUE
    NULL = NULL
SPECIFICATION Spec
INVARIANTS
    ResponsesInOrder
    NoCrash
PROPERTIES
    ServiceStep
    CompleteRequestReturns
\* Clients need not ask, and the process may have crashed.
CHECK_DEADLOCK FALSE
