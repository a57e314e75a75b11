\* The main loop, which listens, accepts and serves; a response may be longer
\* than a socket takes.
CONSTANTS
    w = w
    l = l
    a = a
    b = b
    c = c
    x = x
    p = p
    q = q
    Owner = owner
    Posters = {}
    Channels <- MainChannels
    Wake = w
    Acceptors = {l}
    FdOf <- MainFds
    MapSizes <- Sizes
    MaxEvents = 3
    PairCapacity = 1
    Overflows = TRUE
    NULL = NULL
SPECIFICATION SafeSpec
INVARIANTS
    EventReachesHolder
    NoCrash
\* With every channel added and none ready, the loop sleeps in epoll_wait;
\* after a switch of the write interest the model says no more.
CHECK_DEADLOCK FALSE
