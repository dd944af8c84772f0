----------------------------- MODULE TcpServer -----------------------------
(***************************************************************************)
(* eestv/net/connection/tcp_server.hpp: an acceptor that hands every       *)
(* accepted connection to a callback.  Every locked section is one action. *)
(***************************************************************************)
EXTENDS IoContext

CONSTANTS MaxConnections,  \* bound: connections that peers open
          AcceptErrors     \* whether accept can fail for another reason than a cancel

ASSUME ServerAssumption == MaxConnections \in Nat /\ AcceptErrors \in BOOLEAN

VARIABLES
    flags,             \* _flags
    stopped_callback,  \* whether _stopped_callback holds a function
    queue,             \* ready handlers of the io_context
    accepts,           \* how many async_accept operations are outstanding
    owner,             \* where the owning thread is
    stopped,           \* the stopped callback has run
    accepted,          \* connections accepted by the operating system for this server
    handed             \* connections handed to the connection callback

vars == <<flags, stopped_callback, queue, accepts, owner, stopped, accepted, handed>>

States == {"start_signaled", "start_accepting", "accepting", "stopping", "stop_signaled"}

Functions == {"async_accept", "cancel", "handle_accept", "stopped"}

TypeOK ==
    /\ flags \subseteq States
    /\ stopped_callback \in BOOLEAN /\ stopped \in BOOLEAN
    /\ queue \in Seq([fn : Functions, ec : ErrorCodes, n : {0}])
    /\ accepts \in 0 .. 1
    /\ owner \in {"free", "stop", "destructor", "gone"}
    /\ accepted \in 0 .. MaxConnections /\ handed \in 0 .. MaxConnections

Init ==
    /\ flags = {} /\ stopped_callback = FALSE
    /\ queue = << >> /\ accepts = 0
    /\ owner = "free" /\ stopped = FALSE
    /\ accepted = 0 /\ handed = 0

-----------------------------------------------------------------------------
\* resolve_on_stopped() with the flags at f and q left of the ready handlers.
resolve_on_stopped(f, q) ==
    IF stopped_callback /\ {"start_accepting", "accepting"} \cap f = {}
    THEN queue' = Append(q, Posted("stopped")) /\ stopped_callback' = FALSE
    ELSE queue' = q /\ UNCHANGED stopped_callback

\* async_accept() with the flags at f.
async_accept(f) ==
    IF "stopping" \notin f
    THEN /\ flags' = (f \ {"start_accepting"}) \cup {"accepting"}
         /\ accepts' = accepts + 1
         /\ queue' = Tail(queue)
         /\ UNCHANGED stopped_callback
    ELSE /\ flags' = f \ {"start_accepting"}
         /\ resolve_on_stopped(flags', Tail(queue))
         /\ UNCHANGED accepts

-----------------------------------------------------------------------------
(***************************************************************************)
(* User threads.                                                           *)
(***************************************************************************)
Callable == owner \in {"free", "stop"}

async_start ==
    /\ Callable
    /\ flags \cap {"start_signaled", "stopping"} = {}
    /\ flags' = flags \cup {"start_signaled", "start_accepting"}
    /\ queue' = Append(queue, Posted("async_accept"))
    /\ UNCHANGED <<stopped_callback, accepts, owner, stopped, accepted, handed>>

\* Whether async_stop returns TRUE.
CanStop == "stop_signaled" \notin flags /\ "start_signaled" \in flags

async_stop ==
    IF CanStop
    THEN /\ flags' = flags \cup {"stop_signaled", "stopping"}
         /\ stopped_callback' = TRUE
         /\ queue' = Append(queue, Posted("cancel"))
    ELSE UNCHANGED <<flags, stopped_callback, queue>>

AsyncStop ==
    /\ owner = "free"
    /\ async_stop
    /\ UNCHANGED <<accepts, owner, stopped, accepted, handed>>

stop ==
    /\ owner = "free"
    /\ async_stop
    /\ owner' = IF CanStop THEN "stop" ELSE "free"
    /\ UNCHANGED <<accepts, stopped, accepted, handed>>

\* The members go: closing the acceptor aborts an outstanding accept.
Release ==
    /\ owner' = "gone"
    /\ queue' = queue \o [i \in 1 .. accepts |-> Handler("handle_accept", "aborted", 0)]
    /\ accepts' = 0

\* ~TcpServer() calls stop().  After an async_stop of its own the user waits for that
\* stop's callback before the object goes: stop() would return at once.
destructor ==
    /\ owner = "free"
    /\ "stop_signaled" \in flags => stopped
    /\ IF CanStop
       THEN async_stop /\ owner' = "destructor" /\ UNCHANGED accepts
       ELSE Release /\ UNCHANGED <<flags, stopped_callback>>
    /\ UNCHANGED <<stopped, accepted, handed>>

stop_returns ==
    /\ stopped
    /\ \/ owner = "stop" /\ owner' = "free" /\ UNCHANGED <<queue, accepts>>
       \/ owner = "destructor" /\ Release
    /\ UNCHANGED <<flags, stopped_callback, stopped, accepted, handed>>

\* while (!stopped) {}
spin == owner \in {"stop", "destructor"} /\ ~stopped /\ UNCHANGED vars

-----------------------------------------------------------------------------
(***************************************************************************)
(* The io thread: one action per handler.                                  *)
(***************************************************************************)
Runs(fn) == owner # "gone" /\ Next_is(queue, fn)

\* The lambda posted by async_start.
run_async_accept ==
    /\ Runs("async_accept")
    /\ async_accept(flags)
    /\ UNCHANGED <<owner, stopped, accepted, handed>>

\* Mutated: the stopped callback is posted before the accept is cancelled.
run_cancel_swapped ==
    /\ Runs("cancel")
    /\ flags' = flags \cup {"stopping"}
    /\ queue' = (IF stopped_callback THEN Append(Tail(queue), Posted("stopped")) ELSE Tail(queue))
                 \o [i \in 1 .. accepts |-> Handler("handle_accept", "aborted", 0)]
    /\ stopped_callback' = FALSE
    /\ accepts' = 0
    /\ UNCHANGED <<owner, stopped, accepted, handed>>

\* The lambda posted by async_stop.  Nothing ever closes the acceptor, so is_open()
\* is TRUE and the branch that calls resolve_on_stopped is never taken.
run_cancel ==
    /\ Runs("cancel")
    /\ flags' = flags \cup {"stopping"}
    /\ queue' = Tail(queue) \o [i \in 1 .. accepts |-> Handler("handle_accept", "aborted", 0)]
    /\ accepts' = 0
    /\ UNCHANGED <<stopped_callback, owner, stopped, accepted, handed>>

\* Mutated: an aborted accept leaves the flag set.
handle_accept_error_keeps ==
    /\ Runs("handle_accept") /\ Head(queue).ec # "ok"
    /\ UNCHANGED flags
    /\ resolve_on_stopped(flags, Tail(queue))
    /\ UNCHANGED <<accepts, owner, stopped, accepted, handed>>

\* handle_accept, error branch: no new accept is issued.
handle_accept_error ==
    /\ Runs("handle_accept") /\ Head(queue).ec # "ok"
    /\ flags' = flags \ {"accepting"}
    /\ resolve_on_stopped(flags', Tail(queue))
    /\ UNCHANGED <<accepts, owner, stopped, accepted, handed>>

\* Mutated: a connection accepted while stopping is dropped.
handle_accept_connection_drops ==
    /\ Runs("handle_accept") /\ Head(queue).ec = "ok"
    /\ IF "stopping" \notin flags
       THEN handed' = handed + 1 /\ async_accept(flags)
       ELSE /\ flags' = flags \ {"accepting"}
            /\ resolve_on_stopped(flags', Tail(queue))
            /\ UNCHANGED <<accepts, handed>>
    /\ UNCHANGED <<owner, stopped, accepted>>

\* Mutated: a connection accepted while stopping does not complete the stop.
handle_accept_connection_forgets ==
    /\ Runs("handle_accept") /\ Head(queue).ec = "ok"
    /\ handed' = handed + 1
    /\ IF "stopping" \notin flags
       THEN async_accept(flags)
       ELSE /\ flags' = flags \ {"accepting"}
            /\ queue' = Tail(queue)
            /\ UNCHANGED <<stopped_callback, accepts>>
    /\ UNCHANGED <<owner, stopped, accepted>>

\* handle_accept, success branch: the connection goes to the callback in any case.
handle_accept_connection ==
    /\ Runs("handle_accept") /\ Head(queue).ec = "ok"
    /\ handed' = handed + 1
    /\ IF "stopping" \notin flags
       THEN async_accept(flags)
       ELSE /\ flags' = flags \ {"accepting"}
            /\ resolve_on_stopped(flags', Tail(queue))
            /\ UNCHANGED accepts
    /\ UNCHANGED <<owner, stopped, accepted>>

\* The function passed to async_stop runs.
run_stopped ==
    /\ Runs("stopped")
    /\ stopped' = TRUE
    /\ queue' = Tail(queue)
    /\ UNCHANGED <<flags, stopped_callback, accepts, owner, accepted, handed>>

-----------------------------------------------------------------------------
\* A peer connects: the outstanding accept completes.
accept_completes ==
    /\ owner # "gone" /\ accepts > 0 /\ accepted < MaxConnections
    /\ accepts' = accepts - 1
    /\ accepted' = accepted + 1
    /\ queue' = Append(queue, Handler("handle_accept", "ok", 0))
    /\ UNCHANGED <<flags, stopped_callback, owner, stopped, handed>>

\* accept fails (no descriptors left, connection aborted by the peer, ...).
accept_fails ==
    /\ AcceptErrors
    /\ owner # "gone" /\ accepts > 0
    /\ accepts' = accepts - 1
    /\ queue' = Append(queue, Handler("handle_accept", "failed", 0))
    /\ UNCHANGED <<flags, stopped_callback, owner, stopped, accepted, handed>>

\* After destruction the program goes on without the server.
Terminated == owner = "gone" /\ UNCHANGED vars

IoThread == \/ run_async_accept \/ run_cancel \/ handle_accept_error
            \/ handle_accept_connection \/ run_stopped

Next == \/ async_start \/ AsyncStop \/ stop \/ destructor \/ stop_returns \/ spin
        \/ IoThread \/ accept_completes \/ accept_fails \/ Terminated

Spec == Init /\ [][Next]_vars

\* The io thread is running and a spinning thread is scheduled.  Nothing is assumed
\* of the peers.
FairSpec == Spec /\ WF_vars(IoThread) /\ WF_vars(stop_returns)

-----------------------------------------------------------------------------
\* Properties.

\* The state has its type, and the flag accepting, which is_running() returns, stands
\* for exactly one accept, outstanding or completed and not yet handled.
OneAccept ==
    /\ TypeOK
    /\ AtMostOnce(queue, "handle_accept")
    /\ Queued(queue, "handle_accept") => accepts = 0
    /\ "accepting" \in flags <=> accepts = 1 \/ Queued(queue, "handle_accept")

\* The server keeps the promise of AsyncService: the stopped callback comes when no
\* accept and no handler of the server is left, and none starts afterwards.
Busy == accepts > 0 \/ \E i \in DOMAIN queue : queue[i].fn # "stopped"
Phase == CASE owner = "gone" -> "released"
           [] owner # "gone" /\ stopped -> "stopped"
           [] owner # "gone" /\ ~stopped /\ "stop_signaled" \in flags -> "stopping"
           [] OTHER -> "up"
Service == INSTANCE AsyncService WITH phase <- Phase, busy <- Busy
IsAsyncService == Service!Spec

\* Every accepted connection is handed to the callback, also one that is accepted
\* while the server is being stopped (handle_accept).
ConnectionsHandedOver == accepted > handed ~> accepted = handed

\* A thread in stop() or in the destructor comes out of it if there is an accept to
\* cancel, or one about to be issued: whether that accept is cancelled, fails or has got
\* a connection, its handler completes the stop.
AcceptingStopCompletes ==
    owner \in {"stop", "destructor"} /\ flags \cap {"start_accepting", "accepting"} # {} ~>
        owner \in {"free", "gone"}
=============================================================================
