\* A worker's loop: two threads add channels; the pair holds one byte.
CONSTANTS
    w = w
    l = l
    a = a
    b = b
    c = c
    x = x
    p = p
    q = q
    Owner = owner
    Posters = {p, q}
    Channels <- WorkerChannels
    Wake = w
    Acceptors = {}
    FdOf <- WorkerFds
    MapSizes <- Sizes
    MaxEvents = 2
    PairCapacity = 1
    Overflows = FALSE
    NULL = NULL
SPECIFICATION Spec
INVARIANTS
    TypeOK
    MutexDiscipline
    NoLostWakeup
    EventHasChannel
    NoCrash
PROPERTIES
    RegistryStep
    RequestHandled
    WakeupReturns
\* With every channel added and none ready, the loop sleeps in epoll_wait.
CHECK_DEADLOCK FALSE
