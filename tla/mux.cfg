\* A sending buffer with room for the largest frame, a receiving buffer that ends in the
\* middle of the second one.
CONSTANTS
    ByteSize = 4
    FieldSizes <- MCFieldSizes
    OutCapacity = 20
    InCapacity = 11
    MaxRecords = 3
SPECIFICATION FairSpec
INVARIANTS InStep FailureHasCause
PROPERTY AcceptedIsDelivered
CHECK_DEADLOCK TRUE
