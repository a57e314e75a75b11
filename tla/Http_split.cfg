\* lib_http.h:13: the parser waits while a request is incomplete.
CONSTANTS
    Connections = {c}
    MaxRequests = 1
    ResponseSize = 1
    SendCapacity = 1
    Split = TRUE
    Pipelining = FALSE
    NULL = NULL
SPECIFICATION Spec
PROPERTY ParserReturns
\* Clients need not ask, and the process may have crashed.
CHECK_DEADLOCK FALSE
