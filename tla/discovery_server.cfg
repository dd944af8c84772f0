\* Three runs of the server with resets between them, which come when nothing is left
\* of the run before; three datagrams, so that two replies are on their way when a third
\* request meets the stop.
CONSTANTS
    Identifiers = 1
    MaxStarts = 3
    MaxRequests = 3
    StaleResets = FALSE
SPECIFICATION FairSpec
INVARIANTS OneReceive StopIsQuiet
PROPERTY StopCompletes
CHECK_DEADLOCK TRUE
