---------------------------- MODULE LinearBuffer ----------------------------
(***************************************************************************)
(* The data type LinearBuffer of eestv/data/linear_buffer.{hpp,cpp}: a     *)
(* byte array with a write index (head), a read index (tail) and a byte    *)
(* count (size).  The class is a value with member functions, so it is a   *)
(* record here and every member function is an operator from records to    *)
(* records.  Pointers into the array are indices into mem.                 *)
(***************************************************************************)
EXTENDS Integers, Sequences

NullPtr == -1   \* nullptr

Blank == 0      \* a byte of the zero-initialised std::vector

\* LinearBuffer::LinearBuffer(size).  cap is _buffer.size(), which never changes.
NewBuffer(cap) ==
    [cap |-> cap, mem |-> [i \in 0 .. cap-1 |-> Blank],
     head |-> 0, tail |-> 0, size |-> 0]

Buffer(Byte, cap) ==
    [cap : {cap}, mem : [0 .. cap-1 -> Byte \cup {Blank}],
     head : Nat, tail : Nat, size : Nat]

\* A region of the array handed out by get_read_head / get_write_head.
Region(ptr, len) == [ptr |-> ptr, len |-> len]

get_read_head(b) ==
    Region(IF b.size > 0 THEN b.tail ELSE NullPtr, b.size)

get_write_head(b) ==
    LET space_to_end == b.cap - b.head
        total_free   == b.cap - b.size
        size_out     == IF space_to_end < total_free THEN space_to_end ELSE total_free
    IN  Region(IF size_out > 0 THEN b.head ELSE NullPtr, size_out)

\* b with its three numbers assigned; the array is the same.
Indices(b, head, tail, size) ==
    [cap |-> b.cap, mem |-> b.mem, head |-> head, tail |-> tail, size |-> size]

\* Mutated: no reset, the indices only ever grow.
reset_if_empty_forgotten(b) == b

\* Mutated: the write index is not reset.
reset_if_empty_half(b) ==
    IF b.size = 0 THEN Indices(b, b.head, 0, b.size) ELSE b

reset_if_empty(b) ==
    IF b.size = 0 THEN Indices(b, 0, 0, b.size) ELSE b

\* Mutated: the write index moves back by what was consumed, to make room at the end.
consume_compacts(b, n) ==
    IF n > b.size THEN b
    ELSE reset_if_empty(Indices(b, b.head - n, b.tail, b.size - n))

\* A refused consume (the member function returns false) leaves the buffer alone.
consume(b, n) ==
    IF n > b.size THEN b
    ELSE reset_if_empty(Indices(b, b.head, b.tail + n, b.size - n))

\* A refused commit (the member function returns false) leaves the buffer alone.
commit(b, n) ==
    IF n > get_write_head(b).len THEN b
    ELSE Indices(b, b.head + n, b.tail, b.size + n)

\* What the holder of a write pointer does with it: memcpy, or the kernel's read.
fill(b, ptr, bytes) ==
    [cap |-> b.cap, head |-> b.head, tail |-> b.tail, size |-> b.size,
     mem |-> [i \in DOMAIN b.mem |->
        IF i \in ptr .. ptr + Len(bytes) - 1 THEN bytes[i - ptr + 1] ELSE b.mem[i]]]

\* The bytes found in len array cells from ptr on.
BytesAt(b, ptr, len) == [i \in 1 .. len |-> b.mem[ptr + i - 1]]

\* The readable bytes, in the order in which they will be consumed.
Contents(b) == BytesAt(b, b.tail, b.size)

(***************************************************************************)
(* What makes the three numbers mean something: the readable bytes are the *)
(* contiguous cells tail .. head-1 of the array, and an empty buffer has   *)
(* both indices at 0.  The implementation recomputes none of this.         *)
(***************************************************************************)
WellFormed(b) ==
    /\ b.head = b.tail + b.size
    /\ b.head <= b.cap
    /\ b.size = 0 => b.head = 0
=============================================================================
