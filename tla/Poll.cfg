\* The main loop, which listens, and a worker's, which is handed connections;
\* there is a slot for each descriptor.
CONSTANTS
    Connections = {2, 3, 4}
    WakeFd = 0
    ListenFd = 1
    PollMax = 5
SPECIFICATION Spec
INVARIANTS
    SlotsMatchMap
    NoCrash
PROPERTIES
    ImplementsDispatcher
    Served
\* After a switch of the write interest the model says no more.
CHECK_DEADLOCK FALSE
