----------------------------- MODULE ByteQueue -----------------------------
(***************************************************************************)
(* What a LinearBuffer promises its two users: a bounded first-in-first-   *)
(* out queue of bytes.  Bytes come out in the order in which they were     *)
(* put in, none is lost, duplicated or invented.                           *)
(***************************************************************************)
EXTENDS Integers, Sequences

CONSTANTS Byte,       \* the values of a byte
          Capacity    \* how many bytes fit

VARIABLES bytes,      \* the bytes put and not yet taken, oldest first
          moved       \* the bytes the last call put in or took out

Init == bytes = << >> /\ moved = << >>

\* Put a run of bytes at the end.
Put == \E n \in 0 .. Capacity - Len(bytes) :
          \E s \in [1 .. n -> Byte] : bytes' = bytes \o s /\ moved' = s

\* Take n bytes from the front.
Take == \E n \in 0 .. Len(bytes) :
           /\ moved' = SubSeq(bytes, 1, n)
           /\ bytes' = SubSeq(bytes, n + 1, Len(bytes))

Next == Put \/ Take

Spec == Init /\ [][Next]_<<bytes, moved>>
=============================================================================
