------------------------- MODULE UdpDiscoveryServer -------------------------
(***************************************************************************)
(* eestv/net/discovery/udp_discovery_server.cpp: receive requests, look    *)
(* the identifier up among the discoverables, and send the reply.  Every   *)
(* locked section is one action.  async_start and async_stop post their    *)
(* lambda after they have released the lock: the post is an action of its  *)
(* own.                                                                    *)
(*                                                                         *)
(* Identifiers are numbers from 1 on; the n of a handle_receive is the     *)
(* identifier received, 0 for an empty datagram.                           *)
(***************************************************************************)
EXTENDS IoContext

CONSTANTS Identifiers,  \* how many identifiers there are
          MaxStarts,    \* bound: accepted calls of async_start
          MaxRequests,  \* bound: datagrams that arrive, errors included
          StaleResets   \* whether reset() may come while handlers of the last run are left

ASSUME DiscoveryServerAssumption ==
    /\ Identifiers \in Nat /\ MaxStarts \in Nat /\ MaxRequests \in Nat
    /\ StaleResets \in BOOLEAN

VARIABLES
    flags,          \* _flags
    on_stopped,     \* whether _on_stopped holds a function
    discoverables,  \* _discoverables: the identifiers that are registered
    queue,          \* ready handlers of the io_context
    posting,        \* lambdas of calls that have unlocked and not yet posted
    receives,       \* outstanding async_receive_from operations
    sends,          \* outstanding async_send_to operations
    owner,          \* where the owning thread is
    stopped,        \* the stopped callback has run (and no reset since)
    starts,         \* accepted calls of async_start
    requests        \* datagrams and errors the socket has delivered

user_vars == <<owner, stopped, starts>>
vars == <<flags, on_stopped, discoverables, queue, posting, receives, sends, user_vars, requests>>

States == {"running", "stopping", "timer_running", "sending_async", "receiving_async"}

Functions == {"start", "cancel", "handle_receive", "handle_send", "stopped"}

TypeOK ==
    /\ flags \subseteq States
    /\ on_stopped \in BOOLEAN /\ stopped \in BOOLEAN
    /\ discoverables \subseteq 1 .. Identifiers
    /\ queue \in Seq([fn : Functions, ec : ErrorCodes, n : 0 .. Identifiers])
    /\ posting \subseteq {"start", "cancel"}
    /\ receives \in 0 .. 1 /\ sends \in 0 .. MaxRequests
    /\ owner \in {"free", "stop", "destructor", "gone"}
    /\ starts \in 0 .. MaxStarts /\ requests \in 0 .. MaxRequests

Init ==
    /\ flags = {} /\ on_stopped = FALSE /\ discoverables = {}
    /\ queue = << >> /\ posting = {}
    /\ receives = 0 /\ sends = 0
    /\ owner = "free" /\ stopped = FALSE /\ starts = 0
    /\ requests = 0

-----------------------------------------------------------------------------
Repeat(k, fn) == [i \in 1 .. k |-> Handler(fn, "aborted", 0)]

\* resolve_on_stopped() with the flags at f and q left of the ready handlers.
resolve_on_stopped(f, q) ==
    IF "stopping" \in f /\ on_stopped /\ f \cap {"receiving_async", "sending_async"} = {}
    THEN queue' = Append(q, Posted("stopped")) /\ on_stopped' = FALSE
    ELSE queue' = q /\ UNCHANGED on_stopped

-----------------------------------------------------------------------------
(***************************************************************************)
(* User threads.                                                           *)
(***************************************************************************)
Callable == owner \in {"free", "stop"}

\* emplace: an identifier that is registered stays as it is.
add_discoverable ==
    /\ Callable
    /\ \E id \in 1 .. Identifiers : discoverables' = discoverables \cup {id}
    /\ UNCHANGED <<flags, on_stopped, queue, posting, receives, sends, user_vars, requests>>

async_start ==
    /\ Callable /\ starts < MaxStarts
    /\ flags \cap {"running", "stopping"} = {}
    /\ flags' = flags \cup {"running"}
    /\ posting' = posting \cup {"start"}
    /\ starts' = starts + 1
    /\ UNCHANGED <<on_stopped, discoverables, queue, receives, sends, owner, stopped, requests>>

\* boost::asio::post after the lock has been released.
post(fn) ==
    /\ fn \in posting
    /\ posting' = posting \ {fn}
    /\ queue' = Append(queue, Posted(fn))
    /\ UNCHANGED <<flags, on_stopped, discoverables, receives, sends, user_vars, requests>>

\* TRUE is returned when the stop was not signaled before.
async_stop ==
    IF "stopping" \notin flags
    THEN /\ flags' = flags \cup {"stopping"}
         /\ on_stopped' = TRUE
         /\ posting' = posting \cup {"cancel"}
    ELSE UNCHANGED <<flags, on_stopped, posting>>

AsyncStop ==
    /\ owner = "free"
    /\ async_stop
    /\ UNCHANGED <<discoverables, queue, receives, sends, user_vars, requests>>

\* stop() off the io thread: spin until the callback has run, if async_stop said TRUE.
stop ==
    /\ owner = "free"
    /\ async_stop
    /\ owner' = IF "stopping" \notin flags THEN "stop" ELSE "free"
    /\ UNCHANGED <<discoverables, queue, receives, sends, stopped, starts, requests>>

\* reset(), after a stop has completed.  The caller cannot tell what is left of it.
reset ==
    /\ owner = "free" /\ stopped /\ posting = {}
    /\ ~StaleResets => queue = << >> /\ sends = 0
    /\ flags' = {}
    /\ stopped' = FALSE
    /\ UNCHANGED <<on_stopped, discoverables, queue, posting, receives, sends, owner, starts,
                   requests>>

\* The members go: the socket aborts what is outstanding.
Release ==
    /\ owner' = "gone"
    /\ queue' = queue \o Repeat(receives, "handle_receive") \o Repeat(sends, "handle_send")
    /\ receives' = 0 /\ sends' = 0

\* ~UdpDiscoveryServer() calls stop().  After an async_stop of its own the user waits
\* for that stop's callback before the object goes: stop() would return at once.
destructor ==
    /\ owner = "free" /\ posting = {}
    /\ "stopping" \in flags => stopped
    /\ IF "stopping" \notin flags
       THEN async_stop /\ owner' = "destructor" /\ UNCHANGED <<queue, receives, sends>>
       ELSE Release /\ UNCHANGED <<flags, on_stopped, posting>>
    /\ UNCHANGED <<discoverables, stopped, starts, requests>>

stop_returns ==
    /\ stopped /\ posting = {}
    /\ \/ owner = "stop" /\ owner' = "free" /\ UNCHANGED <<queue, receives, sends>>
       \/ owner = "destructor" /\ Release
    /\ UNCHANGED <<flags, on_stopped, discoverables, posting, stopped, starts, requests>>

\* while (!stopped) {}
spin == owner \in {"stop", "destructor"} /\ ~stopped /\ UNCHANGED vars

-----------------------------------------------------------------------------
(***************************************************************************)
(* The io thread: one action per handler.                                  *)
(***************************************************************************)
Runs(fn) == owner # "gone" /\ Next_is(queue, fn)

\* The lambda posted by async_start; start_receive().
run_start ==
    /\ Runs("start")
    /\ IF "stopping" \notin flags
       THEN /\ flags' = flags \cup {"receiving_async"}
            /\ receives' = receives + 1
            /\ queue' = Tail(queue)
            /\ UNCHANGED on_stopped
       ELSE /\ resolve_on_stopped(flags, Tail(queue))
            /\ UNCHANGED <<flags, receives>>
    /\ UNCHANGED <<discoverables, posting, sends, user_vars, requests>>

\* The lambda posted by async_stop.
run_cancel ==
    /\ Runs("cancel")
    /\ IF "running" \in flags
       THEN /\ queue' = Tail(queue) \o Repeat(receives, "handle_receive")
                                    \o Repeat(sends, "handle_send")
            /\ receives' = 0 /\ sends' = 0
            /\ UNCHANGED on_stopped
       ELSE /\ queue' = IF on_stopped THEN Append(Tail(queue), Posted("stopped"))
                        ELSE Tail(queue)
            /\ on_stopped' = FALSE
            /\ UNCHANGED <<receives, sends>>
    /\ UNCHANGED <<flags, discoverables, posting, user_vars, requests>>

\* Whether the request at the head of the queue may be answered; the discoverable's
\* function may still return an empty reply.
Answerable == Head(queue).ec = "ok" /\ Head(queue).n \in discoverables

\* Mutated: reception ends with an error.
handle_receive_ends ==
    /\ Runs("handle_receive")
    /\ \E reply \in IF Answerable THEN BOOLEAN ELSE {FALSE} :
       LET f == flags \cup (IF reply THEN {"sending_async"} ELSE {}) IN
       /\ sends' = IF reply THEN sends + 1 ELSE sends
       /\ IF "stopping" \notin f /\ Head(queue).ec = "ok"
          THEN /\ flags' = f
               /\ receives' = receives + 1
               /\ queue' = Tail(queue)
               /\ UNCHANGED on_stopped
          ELSE /\ flags' = f \ {"receiving_async"}
               /\ resolve_on_stopped(flags', Tail(queue))
               /\ UNCHANGED receives
    /\ UNCHANGED <<discoverables, posting, user_vars, requests>>

\* Mutated: the next receive is issued also when the server is being stopped.
handle_receive_rearms ==
    /\ Runs("handle_receive")
    /\ \E reply \in IF Answerable THEN BOOLEAN ELSE {FALSE} :
       LET f == flags \cup (IF reply THEN {"sending_async"} ELSE {}) IN
       /\ sends' = IF reply THEN sends + 1 ELSE sends
       /\ receives' = IF Head(queue).ec = "ok" THEN receives + 1 ELSE receives
       /\ IF "stopping" \notin f
          THEN /\ flags' = f
               /\ queue' = Tail(queue)
               /\ UNCHANGED on_stopped
          ELSE /\ flags' = f \ {"receiving_async"}
               /\ resolve_on_stopped(flags', Tail(queue))
    /\ UNCHANGED <<discoverables, posting, user_vars, requests>>

\* Reply if there is a reply, also when being stopped; then receive again unless being
\* stopped, also after an error.
handle_receive ==
    /\ Runs("handle_receive")
    /\ \E reply \in IF Answerable THEN BOOLEAN ELSE {FALSE} :
       LET f == flags \cup (IF reply THEN {"sending_async"} ELSE {}) IN
       /\ sends' = IF reply THEN sends + 1 ELSE sends
       /\ IF "stopping" \notin f
          THEN /\ flags' = f
               /\ receives' = receives + 1
               /\ queue' = Tail(queue)
               /\ UNCHANGED on_stopped
          ELSE /\ flags' = f \ {"receiving_async"}
               /\ resolve_on_stopped(flags', Tail(queue))
               /\ UNCHANGED receives
    /\ UNCHANGED <<discoverables, posting, user_vars, requests>>

\* Mutated: the end of a send does not complete the stop.
handle_send_forgets ==
    /\ Runs("handle_send")
    /\ flags' = flags \ {"sending_async"}
    /\ queue' = Tail(queue)
    /\ UNCHANGED <<on_stopped, discoverables, posting, receives, sends, user_vars, requests>>

\* The one flag is cleared although other sends may be outstanding.
handle_send ==
    /\ Runs("handle_send")
    /\ flags' = flags \ {"sending_async"}
    /\ resolve_on_stopped(flags', Tail(queue))
    /\ UNCHANGED <<discoverables, posting, receives, sends, user_vars, requests>>

\* The function passed to async_stop runs.
run_stopped ==
    /\ Runs("stopped")
    /\ queue' = Tail(queue)
    /\ stopped' = TRUE
    /\ UNCHANGED <<flags, on_stopped, discoverables, posting, receives, sends, owner, starts,
                   requests>>

-----------------------------------------------------------------------------
(***************************************************************************)
(* The network.                                                            *)
(***************************************************************************)
\* A datagram arrives, possibly an empty one, or the receive fails.
receive_completes ==
    /\ owner # "gone" /\ receives > 0 /\ requests < MaxRequests
    /\ \/ \E n \in 0 .. Identifiers : queue' = Append(queue, Handler("handle_receive", "ok", n))
       \/ queue' = Append(queue, Handler("handle_receive", "failed", 0))
    /\ receives' = receives - 1
    /\ requests' = requests + 1
    /\ UNCHANGED <<flags, on_stopped, discoverables, posting, sends, user_vars>>

send_completes ==
    /\ owner # "gone" /\ sends > 0
    /\ \E ec \in {"ok", "failed"} : queue' = Append(queue, Handler("handle_send", ec, 0))
    /\ sends' = sends - 1
    /\ UNCHANGED <<flags, on_stopped, discoverables, posting, receives, user_vars, requests>>

\* After destruction the program goes on without the server.
Terminated == owner = "gone" /\ UNCHANGED vars

Posting == \E fn \in {"start", "cancel"} : post(fn)

IoThread == \/ run_start \/ run_cancel \/ handle_receive \/ handle_send \/ run_stopped

Next == \/ add_discoverable \/ async_start \/ Posting \/ AsyncStop \/ stop \/ reset
        \/ destructor \/ stop_returns \/ spin \/ IoThread
        \/ receive_completes \/ send_completes \/ Terminated

Spec == Init /\ [][Next]_vars

\* The io thread runs, a thread inside a call is scheduled, and the operating system
\* ends a send.  Nothing is assumed of the peers.
FairSpec == Spec /\ WF_vars(IoThread) /\ WF_vars(Posting) /\ WF_vars(stop_returns)
                 /\ WF_vars(send_completes)

-----------------------------------------------------------------------------
\* Properties.

\* The state has its type, and a started server has exactly one receive, outstanding
\* or completed and not yet handled, until it is stopped: requests it cannot answer,
\* empty datagrams, errors and cancelled operations of an earlier run do not end the
\* reception, and no second receive ever shares _recv_buffer and _remote_endpoint
\* with it.
OneReceive ==
    /\ TypeOK
    /\ AtMostOnce(queue, "handle_receive")
    /\ Queued(queue, "handle_receive") => receives = 0
    /\ "running" \in flags /\ "stopping" \notin flags =>
          \/ receives = 1 \/ Queued(queue, "handle_receive")
          \/ "start" \in posting \/ Queued(queue, "start")

\* When the stopped callback has run no receive is left and no start is pending.
StopIsQuiet ==
    stopped => /\ receives = 0 /\ "start" \notin posting
               /\ flags \subseteq {"running", "stopping"}
               /\ ~ Queued(queue, "handle_receive") /\ ~ Queued(queue, "start")

\* A thread in stop() or in the destructor comes out of it.
StopCompletes == owner \in {"stop", "destructor"} ~> owner \in {"free", "gone"}
=============================================================================
