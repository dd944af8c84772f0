----------------------------- MODULE IoContext -----------------------------
(***************************************************************************)
(* What the network classes rely on in boost::asio::io_context, which is   *)
(* not part of this repository.  One thread runs the context; it takes     *)
(* ready handlers in the order in which they became ready.  post() makes a *)
(* handler ready at once.  The handler of an asynchronous operation        *)
(* becomes ready when the operation completes, in the thread of the        *)
(* context; cancelling an operation completes it with operation_aborted.   *)
(*                                                                         *)
(* A handler is a record: the function it will call, the error code and    *)
(* the byte count it will be called with.                                  *)
(***************************************************************************)
EXTENDS Integers, Sequences, FiniteSets

ErrorCodes == {"ok", "aborted", "failed"}

Handler(fn, ec, n) == [fn |-> fn, ec |-> ec, n |-> n]

\* The handler of boost::asio::post.
Posted(fn) == Handler(fn, "ok", 0)

\* The io thread takes the next ready handler, which calls fn.
Next_is(q, fn) == q # << >> /\ Head(q).fn = fn

\* Some handler in q will call fn.
Queued(q, fn) == \E i \in DOMAIN q : q[i].fn = fn

\* No two handlers in q call fn.
AtMostOnce(q, fn) == \A i, j \in DOMAIN q : q[i].fn = fn /\ q[j].fn = fn => i = j

\* How many handlers in q call fn.
HowMany(q, fn) == Cardinality({i \in DOMAIN q : q[i].fn = fn})

\* cancel() on an I/O object: every operation of the object becomes ready.
Aborted(ops, fn) == [i \in DOMAIN ops |-> Handler(fn, "aborted", 0)]
=============================================================================
