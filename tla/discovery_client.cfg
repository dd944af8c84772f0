\* Three runs of the client with resets between them, which come when nothing is left
\* of the run before; any of sending and receiving may fail.
CONSTANTS
    MaxStarts = 3
    FaultSets = {{}, {"send"}, {"receive"}, {"send", "receive"}}
    StaleResets = FALSE
SPECIFICATION FairSpec
INVARIANTS OneRequest Listening StopIsQuiet
PROPERTIES RequestsGoOn StopCompletes
CHECK_DEADLOCK TRUE
