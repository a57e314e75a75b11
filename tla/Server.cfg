\* No workers, and two; fewer descriptors than clients, which may reset: a descriptor
\* goes from one loop to the other.  accept may fail at any time.
CONSTANTS
    l1 = l1
    l2 = l2
    Clients = {a, b, c}
    Main = main
    Pools <- SomePools
    Fds = {5, 6}
    MaxMessages = 1
    Resets = TRUE
    MaxFailures = 1
    NoClient = NoClient
    NULL = NULL
SPECIFICATION Spec
INVARIANTS
    EventReachesOwner
    CrashOnlyInTheGap
PROPERTIES
    EveryMessageHandled
    AcceptedWhileFdsLast
\* When all clients have gone, the loops sleep in epoll_wait.
CHECK_DEADLOCK FALSE
