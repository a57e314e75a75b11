\* channel.h:25: a channel's data may be a connection; a response does not fit.
CONSTANTS
    Connections = {c}
    MaxRequests = 1
    ResponseSize = 2
    SendCapacity = 1
    Split = FALSE
    Pipelining = FALSE
    NULL = NULL
SPECIFICATION SafeSpec
INVARIANT NoCrash
\* Clients need not ask, and the process may have crashed.
CHECK_DEADLOCK FALSE
