--------------------------- MODULE TcpConnection ---------------------------
(***************************************************************************)
(* eestv/net/connection/tcp_connection.hpp: a socket with a receive and a  *)
(* send buffer, driven by user threads (the public member functions) and   *)
(* by the io thread (the posted lambdas and the completion handlers).      *)
(* Every locked section is one action.                                     *)
(*                                                                         *)
(* Bytes are numbered: the i-th byte the user queues, and the i-th byte    *)
(* the peer sends, has the value i.  The history variables wire and        *)
(* delivered are the bytes the peer has got and the bytes the data         *)
(* callback has taken.                                                     *)
(***************************************************************************)
EXTENDS IoContext, LinearBuffer, FiniteSets

CONSTANTS RxCapacity, TxCapacity,  \* receive_buffer_size, send_buffer_size
          MaxRx, MaxTx,            \* bound: bytes the peer sends, bytes the user queues
          MaxReads,                \* bound: reads the user's start_receiving() calls cause
          LostCallback             \* whether a connection-lost callback is set

ASSUME ConnectionAssumption ==
    /\ RxCapacity \in Nat /\ TxCapacity \in Nat
    /\ MaxRx \in Nat /\ MaxTx \in Nat /\ MaxReads \in Nat
    /\ LostCallback \in BOOLEAN

VARIABLES
    flags,                  \* _flags
    disconnected_callback,  \* whether _disconnected_callback holds a function
    queue,                  \* ready handlers of the io_context
    reads, writes,          \* outstanding socket operations: the regions they work on
    rx, tx,                 \* _receive_buffer, _send_buffer
    broken,                 \* directions of the socket that have failed
    owner,                  \* where the owning thread is
    stopped,                \* the stopped callback has run
    produced, announced,    \* bytes queued; bytes queued when start_sending was last called
    wire,                   \* bytes that reached the peer
    arrived, delivered      \* bytes read from the socket; bytes the data callback took

conn_vars == <<flags, disconnected_callback, queue, reads, writes, rx, tx>>
env_vars  == <<broken, owner, stopped>>
history   == <<produced, announced, wire, arrived, delivered>>
vars      == <<conn_vars, env_vars, history>>

States == {"start_sending", "sending", "start_receiving", "receiving",
           "closing", "stop_signaled", "lost"}

\* The functions that ready handlers call; all but "stopped" capture this.
Functions == {"start_sending", "async_receive", "cancel_async_operations",
              "on_receive", "on_send", "connection_lost", "stopped"}

\* Non-empty regions inside an array of cap bytes.
Regions(cap) == {r \in [ptr : 0 .. cap, len : 1 .. cap] : r.ptr + r.len <= cap}

TypeOK ==
    /\ flags \subseteq States
    /\ disconnected_callback \in BOOLEAN
    /\ queue \in Seq([fn : Functions, ec : ErrorCodes, n : Nat])
    /\ reads \in Seq(Regions(RxCapacity)) /\ writes \in Seq(Regions(TxCapacity))
    /\ rx \in Buffer(1 .. MaxRx, RxCapacity) /\ tx \in Buffer(1 .. MaxTx, TxCapacity)
    /\ broken \subseteq {"read", "write"}
    /\ owner \in {"free", "stop", "destructor", "gone"}
    /\ stopped \in BOOLEAN
    /\ produced \in 0 .. MaxTx /\ announced \in 0 .. produced
    /\ arrived \in 0 .. MaxRx
    /\ wire \in Seq(0 .. MaxTx) /\ delivered \in Seq(0 .. MaxRx)

Init ==
    /\ flags = {} /\ disconnected_callback = FALSE
    /\ queue = << >> /\ reads = << >> /\ writes = << >>
    /\ rx = NewBuffer(RxCapacity) /\ tx = NewBuffer(TxCapacity)
    /\ broken = {} /\ owner = "free" /\ stopped = FALSE
    /\ produced = 0 /\ announced = 0 /\ wire = << >>
    /\ arrived = 0 /\ delivered = << >>

-----------------------------------------------------------------------------
(***************************************************************************)
(* Functions called with the lock held.                                    *)
(***************************************************************************)

Active == {"closing", "start_sending", "sending", "start_receiving", "receiving"}

\* Mutated: the flags of the operations in progress are not looked at.
resolve_on_stopped_early(f, before, after) ==
    IF disconnected_callback /\ "closing" \notin f
    THEN /\ queue' = Append(before, Posted("stopped")) \o after
         /\ disconnected_callback' = FALSE
    ELSE /\ queue' = before \o after
         /\ UNCHANGED disconnected_callback

\* With the flags at f: post the stopped callback if nothing is active.  The caller
\* has made before of the ready handlers, and posts after once this returns.
resolve_on_stopped(f, before, after) ==
    IF disconnected_callback /\ Active \cap f = {}
    THEN /\ queue' = Append(before, Posted("stopped")) \o after
         /\ disconnected_callback' = FALSE
    ELSE /\ queue' = before \o after
         /\ UNCHANGED disconnected_callback

\* async_receive() with the receive buffer at b: reserve the write head and read
\* into it.  A buffer without room at its end ends the reception.
async_receive(b) ==
    LET f == flags \ {"start_receiving"} IN
    /\ flags' = f
    /\ rx' = b
    /\ \/ /\ "stop_signaled" \notin f
          /\ reads' = IF get_write_head(b).ptr = NullPtr THEN reads
                      ELSE Append(reads, get_write_head(b))
          /\ queue' = Tail(queue)
          /\ UNCHANGED disconnected_callback
       \/ /\ "stop_signaled" \in f
          /\ resolve_on_stopped(f, Tail(queue), << >>)
          /\ UNCHANGED reads

\* async_send() with the flags at f and the send buffer at b: write all of it.
async_send(f, b) ==
    /\ tx' = b
    /\ \/ /\ get_read_head(b).ptr = NullPtr
          /\ flags' = f \ {"sending"}
          /\ UNCHANGED writes
       \/ /\ get_read_head(b).ptr # NullPtr
          /\ flags' = f
          /\ writes' = Append(writes, get_read_head(b))

-----------------------------------------------------------------------------
(***************************************************************************)
(* User threads.  A member function may be called until destruction begins *)
(* and must not be called on the io thread from a callback (the callbacks  *)
(* run with the lock held, tcp_connection.hpp lines 46-48).                *)
(***************************************************************************)

Callable == owner \in {"free", "stop"}

\* call_queue_send_function: the user's callback writes k bytes behind the write head.
call_queue_send_function(k) ==
    /\ Callable
    /\ produced + k <= MaxTx
    /\ k <= get_write_head(tx).len
    /\ tx' = commit(fill(tx, get_write_head(tx).ptr, [i \in 1 .. k |-> produced + i]), k)
    /\ produced' = produced + k
    /\ UNCHANGED <<flags, disconnected_callback, queue, reads, writes, rx, env_vars,
                   announced, wire, arrived, delivered>>

\* Mutated: a write in progress is not looked at.
start_sending_unguarded ==
    /\ Callable
    /\ announced' = produced
    /\ IF flags \cap {"start_sending", "stop_signaled"} = {}
       THEN /\ flags' = flags \cup {"start_sending"}
            /\ queue' = Append(queue, Posted("start_sending"))
       ELSE UNCHANGED <<flags, queue>>
    /\ UNCHANGED <<disconnected_callback, reads, writes, rx, tx, env_vars,
                   produced, wire, arrived, delivered>>

start_sending ==
    /\ Callable
    /\ announced' = produced
    /\ IF flags \cap {"start_sending", "sending", "stop_signaled"} = {}
       THEN /\ flags' = flags \cup {"start_sending"}
            /\ queue' = Append(queue, Posted("start_sending"))
       ELSE UNCHANGED <<flags, queue>>
    /\ UNCHANGED <<disconnected_callback, reads, writes, rx, tx, env_vars,
                   produced, wire, arrived, delivered>>

\* The flag receiving is tested here and cleared in on_receive, but set nowhere.  How
\* many reads the calls may cause is up to the user: MaxReads.
Receptions == {i \in DOMAIN queue : queue[i].fn \in {"on_receive", "async_receive"}}

start_receiving ==
    /\ Callable
    /\ Len(reads) + Cardinality(Receptions) < MaxReads
    /\ IF flags \cap {"start_receiving", "receiving", "stop_signaled"} = {}
       THEN /\ flags' = flags \cup {"start_receiving"}
            /\ queue' = Append(queue, Posted("async_receive"))
       ELSE UNCHANGED <<flags, queue>>
    /\ UNCHANGED <<disconnected_callback, reads, writes, rx, tx, env_vars, history>>

\* async_stop(on_disconnected): TRUE is returned when the stop was not signaled before.
async_stop ==
    IF "stop_signaled" \notin flags
    THEN /\ flags' = flags \cup {"stop_signaled", "closing"}
         /\ disconnected_callback' = TRUE
         /\ queue' = Append(queue, Posted("cancel_async_operations"))
    ELSE UNCHANGED <<flags, disconnected_callback, queue>>

AsyncStop ==
    /\ owner = "free"
    /\ async_stop
    /\ UNCHANGED <<reads, writes, rx, tx, env_vars, history>>

\* stop() off the io thread: spin until the callback has run, if async_stop said TRUE.
stop ==
    /\ owner = "free"
    /\ async_stop
    /\ owner' = IF "stop_signaled" \notin flags THEN "stop" ELSE "free"
    /\ UNCHANGED <<reads, writes, rx, tx, broken, stopped, history>>

\* The members go: closing the socket aborts what is outstanding on it.
Release ==
    /\ owner' = "gone"
    /\ queue' = queue \o Aborted(reads, "on_receive") \o Aborted(writes, "on_send")
    /\ reads' = << >> /\ writes' = << >>

\* ~TcpConnection() calls stop().  After an async_stop of its own the user waits for
\* that stop's callback before the object goes: stop() would return at once.
destructor ==
    /\ owner = "free"
    /\ "stop_signaled" \in flags => stopped
    /\ IF "stop_signaled" \notin flags
       THEN async_stop /\ owner' = "destructor" /\ UNCHANGED <<reads, writes>>
       ELSE Release /\ UNCHANGED <<flags, disconnected_callback>>
    /\ UNCHANGED <<rx, tx, broken, stopped, history>>

\* The spinning thread sees stopped.
stop_returns ==
    /\ stopped
    /\ \/ owner = "stop" /\ owner' = "free" /\ UNCHANGED <<queue, reads, writes>>
       \/ owner = "destructor" /\ Release
    /\ UNCHANGED <<flags, disconnected_callback, rx, tx, broken, stopped, history>>

\* while (!stopped) {}
spin == owner \in {"stop", "destructor"} /\ ~stopped /\ UNCHANGED vars

-----------------------------------------------------------------------------
(***************************************************************************)
(* The io thread: one action per handler.  The object must still be there. *)
(***************************************************************************)

Runs(fn) == owner # "gone" /\ Next_is(queue, fn)

\* The lambda posted by start_sending.
run_start_sending ==
    /\ Runs("start_sending")
    /\ LET f == flags \ {"start_sending"} IN
       \/ /\ "stop_signaled" \notin f
          /\ async_send(f \cup {"sending"}, tx)
          /\ queue' = Tail(queue)
          /\ UNCHANGED disconnected_callback
       \/ /\ "stop_signaled" \in f
          /\ flags' = f
          /\ resolve_on_stopped(f, Tail(queue), << >>)
          /\ UNCHANGED <<writes, tx>>
    /\ UNCHANGED <<reads, rx, env_vars, history>>

\* The lambda posted by start_receiving.
run_async_receive ==
    /\ Runs("async_receive")
    /\ async_receive(rx)
    /\ UNCHANGED <<writes, tx, env_vars, history>>

\* socket.cancel() aborts the reads and the writes; a prefix of what was being
\* written may have reached the peer.
cancel_async_operations ==
    /\ Runs("cancel_async_operations")
    /\ flags' = flags \ {"closing"}
    /\ resolve_on_stopped(flags', Tail(queue) \o Aborted(reads, "on_receive")
                                             \o Aborted(writes, "on_send"), << >>)
    /\ \/ writes = << >> /\ UNCHANGED wire
       \/ /\ writes # << >>
          /\ \E k \in 0 .. Head(writes).len - 1 :
                wire' = IF "write" \in broken THEN wire
                        ELSE wire \o BytesAt(tx, Head(writes).ptr, k)
    /\ reads' = << >> /\ writes' = << >>
    /\ UNCHANGED <<rx, tx, env_vars, produced, announced, arrived, delivered>>

lost_notice == IF LostCallback THEN <<Posted("connection_lost")>> ELSE << >>

\* on_receive, error branch.
on_receive_error ==
    /\ Runs("on_receive") /\ Head(queue).ec # "ok"
    /\ flags' = flags \ {"receiving"}
    /\ IF "stop_signaled" \in flags
       THEN resolve_on_stopped(flags', Tail(queue), lost_notice)
       ELSE queue' = Tail(queue) \o lost_notice /\ UNCHANGED disconnected_callback
    /\ UNCHANGED <<reads, writes, rx, tx, env_vars, history>>

\* Mutated: the next read is issued before the data callback consumes, if there is room.
on_receive_data_rearms_first ==
    /\ Runs("on_receive") /\ Head(queue).ec = "ok"
    /\ LET b == commit(rx, Head(queue).n) IN
       \E k \in 0 .. b.size :
          LET c == IF get_write_head(b).ptr = NullPtr THEN consume(b, k) ELSE b IN
          /\ delivered' = delivered \o BytesAt(b, b.tail, k)
          /\ rx' = consume(b, k)
          /\ reads' = IF get_write_head(c).ptr = NullPtr \/ "stop_signaled" \in flags
                      THEN reads ELSE Append(reads, get_write_head(c))
    /\ queue' = Tail(queue)
    /\ UNCHANGED <<flags, disconnected_callback, writes, tx, env_vars,
                   produced, announced, wire, arrived>>

\* Mutated: no new read while the data callback leaves bytes in the buffer.
on_receive_data_waits ==
    /\ Runs("on_receive") /\ Head(queue).ec = "ok"
    /\ LET b == commit(rx, Head(queue).n) IN
       \E k \in 0 .. b.size :
          /\ delivered' = delivered \o BytesAt(b, b.tail, k)
          /\ IF k = b.size THEN async_receive(consume(b, k))
             ELSE /\ rx' = consume(b, k) /\ queue' = Tail(queue)
                  /\ UNCHANGED <<flags, disconnected_callback, reads>>
    /\ UNCHANGED <<writes, tx, env_vars, produced, announced, wire, arrived>>

\* on_receive, data branch: commit, let the data callback take some k bytes, read on.
on_receive_data ==
    /\ Runs("on_receive") /\ Head(queue).ec = "ok"
    /\ LET b == commit(rx, Head(queue).n) IN
       \E k \in 0 .. b.size :
          /\ delivered' = delivered \o BytesAt(b, b.tail, k)
          /\ async_receive(consume(b, k))
    /\ UNCHANGED <<writes, tx, env_vars, produced, announced, wire, arrived>>

\* Mutated: an aborted write does not complete the stop.
on_send_error_forgets ==
    /\ Runs("on_send") /\ Head(queue).ec # "ok"
    /\ flags' = flags \ {"sending"}
    /\ queue' = Tail(queue) \o lost_notice
    /\ UNCHANGED <<disconnected_callback, reads, writes, rx, tx, env_vars, history>>

\* on_send, error branch.
on_send_error ==
    /\ Runs("on_send") /\ Head(queue).ec # "ok"
    /\ flags' = flags \ {"sending"}
    /\ IF "stop_signaled" \in flags
       THEN resolve_on_stopped(flags', Tail(queue), lost_notice)
       ELSE queue' = Tail(queue) \o lost_notice /\ UNCHANGED disconnected_callback
    /\ UNCHANGED <<reads, writes, rx, tx, env_vars, history>>

\* Mutated: what was written is not consumed.
on_send_written_keeps ==
    /\ Runs("on_send") /\ Head(queue).ec = "ok"
    /\ async_send(flags, tx)
    /\ IF "sending" \notin flags' /\ "stop_signaled" \in flags'
       THEN resolve_on_stopped(flags', Tail(queue), << >>)
       ELSE queue' = Tail(queue) /\ UNCHANGED disconnected_callback
    /\ UNCHANGED <<reads, rx, env_vars, history>>

\* Mutated: what was queued during the write is not looked at.
on_send_written_ends ==
    /\ Runs("on_send") /\ Head(queue).ec = "ok"
    /\ tx' = consume(tx, Head(queue).n)
    /\ flags' = flags \ {"sending"}
    /\ IF "stop_signaled" \in flags'
       THEN resolve_on_stopped(flags', Tail(queue), << >>)
       ELSE queue' = Tail(queue) /\ UNCHANGED disconnected_callback
    /\ UNCHANGED <<writes, reads, rx, env_vars, history>>

\* on_send, success branch: consume what was written and write what has been queued
\* since, also after a stop.
on_send_written ==
    /\ Runs("on_send") /\ Head(queue).ec = "ok"
    /\ async_send(flags, consume(tx, Head(queue).n))
    /\ IF "sending" \notin flags' /\ "stop_signaled" \in flags'
       THEN resolve_on_stopped(flags', Tail(queue), << >>)
       ELSE queue' = Tail(queue) /\ UNCHANGED disconnected_callback
    /\ UNCHANGED <<reads, rx, env_vars, history>>

\* The user's connection-lost callback runs; it does not touch the connection.
run_connection_lost ==
    /\ Runs("connection_lost")
    /\ queue' = Tail(queue)
    /\ UNCHANGED <<flags, disconnected_callback, reads, writes, rx, tx, env_vars, history>>

\* The function passed to async_stop runs: stopped = true.
run_stopped ==
    /\ Runs("stopped")
    /\ stopped' = TRUE
    /\ queue' = Tail(queue)
    /\ UNCHANGED <<flags, disconnected_callback, reads, writes, rx, tx, broken, owner, history>>

-----------------------------------------------------------------------------
(***************************************************************************)
(* The socket and the peer.                                                *)
(***************************************************************************)

\* The oldest outstanding read gets k bytes.
read_completes ==
    /\ owner # "gone" /\ reads # << >> /\ "read" \notin broken
    /\ \E k \in 1 .. Head(reads).len :
          /\ arrived + k <= MaxRx
          /\ rx' = fill(rx, Head(reads).ptr, [i \in 1 .. k |-> arrived + i])
          /\ arrived' = arrived + k
          /\ queue' = Append(queue, Handler("on_receive", "ok", k))
    /\ reads' = Tail(reads)
    /\ UNCHANGED <<flags, disconnected_callback, writes, tx, env_vars,
                   produced, announced, wire, delivered>>

\* End of file or a connection error; every later read fails as well.
read_fails ==
    /\ owner # "gone" /\ reads # << >>
    /\ broken' = broken \cup {"read"}
    /\ queue' = Append(queue, Handler("on_receive", "failed", 0))
    /\ reads' = Tail(reads)
    /\ UNCHANGED <<flags, disconnected_callback, writes, rx, tx, owner, stopped, history>>

\* async_write completes when the peer has taken the whole region.
write_completes ==
    /\ owner # "gone" /\ writes # << >> /\ "write" \notin broken
    /\ wire' = wire \o BytesAt(tx, Head(writes).ptr, Head(writes).len)
    /\ queue' = Append(queue, Handler("on_send", "ok", Head(writes).len))
    /\ writes' = Tail(writes)
    /\ UNCHANGED <<flags, disconnected_callback, reads, rx, tx, env_vars,
                   produced, announced, arrived, delivered>>

\* The connection breaks after k bytes of the region; every later write fails.
write_fails ==
    /\ owner # "gone" /\ writes # << >>
    /\ \E k \in 0 .. Head(writes).len - 1 :
          /\ "write" \in broken => k = 0
          /\ wire' = wire \o BytesAt(tx, Head(writes).ptr, k)
          /\ queue' = Append(queue, Handler("on_send", "failed", k))
    /\ broken' = broken \cup {"write"}
    /\ writes' = Tail(writes)
    /\ UNCHANGED <<flags, disconnected_callback, reads, rx, tx, owner, stopped,
                   produced, announced, arrived, delivered>>

\* After destruction the program goes on without the connection.
Terminated == owner = "gone" /\ UNCHANGED vars

User == \/ \E k \in 1 .. MaxTx : call_queue_send_function(k)
        \/ start_sending \/ start_receiving \/ AsyncStop \/ stop \/ destructor

IoThread == \/ run_start_sending \/ run_async_receive \/ cancel_async_operations
            \/ on_receive_error \/ on_receive_data \/ on_send_error \/ on_send_written
            \/ run_connection_lost \/ run_stopped

Peer == read_completes \/ read_fails \/ write_completes \/ write_fails

Next == User \/ spin \/ stop_returns \/ IoThread \/ Peer \/ Terminated

Spec == Init /\ [][Next]_vars

(***************************************************************************)
(* Fairness.  The io thread is running (its handlers never block for long) *)
(* and a spinning thread is scheduled.  That the peer takes what is        *)
(* written, or the connection breaks, is the environment's doing and is    *)
(* assumed separately.                                                     *)
(***************************************************************************)
FairIo == WF_vars(IoThread) /\ WF_vars(stop_returns)

FairSpec     == Spec /\ FairIo
FairPeerSpec == FairSpec /\ WF_vars(write_completes \/ write_fails)

-----------------------------------------------------------------------------
\* Properties.

\* The peer gets the user's bytes in order, none twice, none invented, whatever the
\* user queues while a write is in progress (async_send, on_send).
SentStreamIntact == \A i \in DOMAIN wire : wire[i] = i

\* The data callback gets the peer's bytes in order, without gaps (async_receive,
\* on_receive).
ReceivedStreamIntact == \A i \in DOMAIN delivered : delivered[i] = i

\* The flag sending stands for exactly one write, outstanding or completed and not
\* yet handled: two never overlap (start_sending, async_send, on_send).
OneWrite ==
    /\ Len(writes) <= 1
    /\ AtMostOnce(queue, "on_send")
    /\ Queued(queue, "on_send") => writes = << >>
    /\ "sending" \in flags <=> writes # << >> \/ Queued(queue, "on_send")

\* Reception ends only for a stop, a failed socket, or a receive buffer with no room
\* at its end; async_receive and on_receive never drop it otherwise.
ReceptionGoesOn ==
    arrived > 0 /\ "stop_signaled" \notin flags /\ "read" \notin broken =>
        \/ reads # << >> \/ Queued(queue, "on_receive") \/ Queued(queue, "async_receive")
        \/ get_write_head(rx).ptr = NullPtr

\* Once the object is gone no ready handler refers to it (async_stop,
\* resolve_on_stopped; the destructor spins for exactly this).
NoDanglingHandler == owner = "gone" => \A i \in DOMAIN queue : queue[i].fn = "stopped"

\* The connection keeps the promise of AsyncService: the stopped callback comes when
\* nothing of the connection is left but, possibly, notices that it was lost, and
\* nothing starts afterwards.
Busy == \/ reads # << >> \/ writes # << >>
        \/ \E i \in DOMAIN queue : queue[i].fn \notin {"stopped", "connection_lost"}
Phase == CASE owner = "gone" -> "released"
           [] owner # "gone" /\ stopped -> "stopped"
           [] owner # "gone" /\ ~stopped /\ "stop_signaled" \in flags -> "stopping"
           [] OTHER -> "up"
Service == INSTANCE AsyncService WITH phase <- Phase, busy <- Busy
IsAsyncService == Service!Spec

\* A thread in stop() or in the destructor comes out of it.
StopCompletes == owner \in {"stop", "destructor"} ~> owner \in {"free", "gone"}

\* What was announced reaches the peer, unless the connection is stopped or broken.
AnnouncedIsSent ==
    \A k \in 1 .. MaxTx :
        announced >= k ~> \/ Len(wire) >= k
                          \/ "stop_signaled" \in flags \/ "write" \in broken
=============================================================================
