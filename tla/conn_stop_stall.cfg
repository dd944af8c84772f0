\* A peer that may stop reading at any time: nothing is assumed of it.
CONSTANTS
    RxCapacity = 1
    TxCapacity = 2
    MaxRx = 1
    MaxTx = 2
    MaxReads = 1
    LostCallback = FALSE
SPECIFICATION FairSpec
PROPERTY StopCompletes
CHECK_DEADLOCK TRUE
