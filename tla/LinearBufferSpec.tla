-------------------------- MODULE LinearBufferSpec --------------------------
(***************************************************************************)
(* A LinearBuffer in the hands of its two users.  The producer works in    *)
(* two steps, as TcpConnection::async_receive / on_receive and Serializer  *)
(* do: it asks for the write head, somebody writes through that pointer,   *)
(* and later the number of bytes written is committed.  The consumer takes *)
(* bytes away at any time in between.                                      *)
(*                                                                         *)
(* The one rule for the consumer: do not empty the buffer while a write    *)
(* pointer is out, because reset_if_empty would move the write head away   *)
(* from under it (tcp_connection.hpp lines 280-281 and the order of calls  *)
(* in on_receive: commit, callback, and only then the next reservation).   *)
(***************************************************************************)
EXTENDS LinearBuffer

CONSTANTS Byte,      \* the byte values that are written
          Capacity   \* the size given to the constructor

ASSUME CapacityAssumption == Capacity \in Nat

VARIABLES buf,       \* the LinearBuffer
          reserved,  \* the region handed out by get_write_head and not yet committed
          moved      \* history: what the last accepted commit or consume put in or took out

bufferVars == <<buf, reserved, moved>>

NoRegion == Region(NullPtr, 0)

BufferTypeOK ==
    /\ buf \in Buffer(Byte, Capacity)
    /\ reserved \in [ptr : 0 .. Capacity, len : 1 .. Capacity] \cup {NoRegion}
    /\ moved \in Seq(Byte \cup {Blank})

BufferInit ==
    /\ buf = NewBuffer(Capacity)
    /\ reserved = NoRegion
    /\ moved = << >>

\* get_write_head: a full buffer (or a buffer filled up to its end) gives nullptr.
Reserve ==
    /\ reserved = NoRegion
    /\ get_write_head(buf).ptr # NullPtr
    /\ reserved' = get_write_head(buf)
    /\ UNCHANGED <<buf, moved>>

\* Bytes are written through the reserved pointer, then commit(n) is called.  The
\* bytes stay inside the region; n itself may be too large, and is then refused.
WriteAndCommit(n) ==
    /\ reserved # NoRegion
    /\ \E m \in 0 .. reserved.len :
          /\ n <= reserved.len => m = n
          /\ \E s \in [1 .. m -> Byte] :
                /\ buf' = commit(fill(buf, reserved.ptr, s), n)
                /\ moved' = IF n <= reserved.len THEN s ELSE moved
    /\ reserved' = NoRegion

\* The consumer looks at n bytes behind the read head, then calls consume(n); n may be
\* larger than what is readable, and is then refused.
Consume(n) ==
    /\ reserved # NoRegion => n # buf.size
    /\ buf' = consume(buf, n)
    /\ moved' = IF n <= buf.size THEN BytesAt(buf, buf.tail, n) ELSE moved
    /\ UNCHANGED reserved

BufferNext ==
    \/ Reserve
    \/ \E n \in 0 .. Capacity + 1 : WriteAndCommit(n) \/ Consume(n)

BufferSpec == BufferInit /\ [][BufferNext]_bufferVars

-----------------------------------------------------------------------------
\* The readable bytes are always the contiguous, in-bounds cells tail .. head-1
\* (reset_if_empty, commit and consume together; linear_buffer.hpp lines 11-13).
BufferWellFormed == WellFormed(buf)

\* A pointer obtained from get_write_head is still the write head, with the same
\* room behind it, when the bytes written through it are committed, whatever has
\* been consumed meanwhile.
ReservationValid == reserved # NoRegion => reserved = get_write_head(buf)

\* The buffer is a first-in-first-out queue of bytes: commit puts exactly the bytes
\* written through the reserved pointer at the end, consume takes exactly the bytes
\* seen behind the read head off the front.
Queue == INSTANCE ByteQueue WITH bytes <- Contents(buf), moved <- moved

IsByteQueue == Queue!Spec
=============================================================================
