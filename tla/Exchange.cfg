\* Two requests of up to two headers.
CONSTANTS
    MaxExchanges = 2
    MaxHeaders = 2
    Terminated = FALSE
    Absent = Absent
SPECIFICATION ExchangeSpec
INVARIANT KnownResponseEnds
PROPERTY DecidedByOwnHeaders
\* The client may leave, or wait for ever.
CHECK_DEADLOCK FALSE
