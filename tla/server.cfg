\* Five connections, accepted before, between and after the calls of async_start,
\* async_stop, stop and the destructor; accept may fail at any time.
CONSTANTS
    MaxConnections = 5
    AcceptErrors = TRUE
SPECIFICATION FairSpec
INVARIANTS OneAccept
PROPERTIES IsAsyncService AcceptingStopCompletes ConnectionsHandedOver
CHECK_DEADLOCK TRUE
