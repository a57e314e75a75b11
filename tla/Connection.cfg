\* Five bytes through a send buffer of two.
CONSTANTS
    MaxBytes = 5
    MaxMessages = 3
    SendCapacity = 2
SPECIFICATION Spec
INVARIANT NeverStalls
PROPERTIES
    StreamDelivers
    FaultEndsConnection
\* A connection that was closed stays so.
CHECK_DEADLOCK FALSE
