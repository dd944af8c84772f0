\* A connection-lost callback is set.
CONSTANTS
    RxCapacity = 1
    TxCapacity = 1
    MaxRx = 1
    MaxTx = 1
    MaxReads = 1
    LostCallback = TRUE
SPECIFICATION Spec
INVARIANT NoDanglingHandler
CHECK_DEADLOCK TRUE
