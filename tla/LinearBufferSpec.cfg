\* Four cells and two byte values: enough for a write after a partial read, a
\* buffer filled to its end but not full, and every refused commit and consume.
CONSTANTS
    Byte = {1, 2}
    Capacity = 4
SPECIFICATION BufferSpec
INVARIANTS BufferWellFormed ReservationValid
PROPERTY IsByteQueue
CHECK_DEADLOCK TRUE
