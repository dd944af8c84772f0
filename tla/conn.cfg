\* Two cells in each buffer and three bytes each way: a write that overlaps the next
\* one being queued, a buffer filled up to its end, a reset after a partial consume.
\* One read at a time, and a connection-lost callback.
CONSTANTS
    RxCapacity = 2
    TxCapacity = 2
    MaxRx = 3
    MaxTx = 3
    MaxReads = 1
    LostCallback = TRUE
SPECIFICATION FairPeerSpec
INVARIANTS SentStreamIntact ReceivedStreamIntact OneWrite ReceptionGoesOn
PROPERTIES IsAsyncService StopCompletes AnnouncedIsSent
CHECK_DEADLOCK TRUE
