------------------------- MODULE UdpDiscoveryClient -------------------------
(***************************************************************************)
(* eestv/net/discovery/udp_discovery_client.cpp: broadcast a request,      *)
(* repeat it when a timer expires, and hand every response to a callback.  *)
(* Every locked section is one action.  async_start and async_stop post    *)
(* their lambda after they have released the lock: the post is an action   *)
(* of its own.                                                             *)
(***************************************************************************)
EXTENDS IoContext

CONSTANTS MaxStarts,  \* bound: accepted calls of async_start
          FaultSets,  \* the sets of socket directions that may fail together
          StaleResets \* whether reset() may come while handlers of the last run are left

ASSUME DiscoveryClientAssumption ==
    /\ MaxStarts \in Nat /\ StaleResets \in BOOLEAN
    /\ FaultSets \subseteq SUBSET {"send", "receive"}

VARIABLES
    flags,       \* _flags
    on_stopped,  \* whether _on_stopped holds a function
    queue,       \* ready handlers of the io_context
    posting,     \* lambdas of calls that have unlocked and not yet posted
    receives,    \* outstanding async_receive_from operations
    sends,       \* outstanding async_send_to operations
    timer,       \* whether _timer is being waited for
    owner,       \* where the owning thread is
    stopped,     \* the stopped callback has run (and no reset since)
    starts,      \* accepted calls of async_start
    faults,      \* directions that may fail; an empty datagram counts as a failure
    deaf         \* a receive has failed or got an empty datagram (and no reset since)

user_vars == <<owner, stopped, starts>>
env_vars  == <<faults, deaf>>
vars == <<flags, on_stopped, queue, posting, receives, sends, timer, user_vars, env_vars>>

States == {"running", "stopping", "timer_running", "sending_async", "receiving_async"}

Functions == {"start", "cancel", "handle_send_complete", "handle_response",
              "handle_timeout", "stopped"}

TypeOK ==
    /\ flags \subseteq States
    /\ on_stopped \in BOOLEAN /\ timer \in BOOLEAN /\ stopped \in BOOLEAN
    /\ queue \in Seq([fn : Functions, ec : ErrorCodes, n : 0 .. 1])
    /\ posting \subseteq {"start", "cancel"}
    /\ receives \in 0 .. 1 /\ sends \in 0 .. 1
    /\ owner \in {"free", "stop", "destructor", "gone"}
    /\ starts \in 0 .. MaxStarts
    /\ faults \in FaultSets /\ deaf \in BOOLEAN

Init ==
    /\ flags = {} /\ on_stopped = FALSE
    /\ queue = << >> /\ posting = {}
    /\ receives = 0 /\ sends = 0 /\ timer = FALSE
    /\ owner = "free" /\ stopped = FALSE /\ starts = 0
    /\ faults \in FaultSets /\ deaf = FALSE

-----------------------------------------------------------------------------
Repeat(k, fn) == [i \in 1 .. k |-> Handler(fn, "aborted", 0)]

\* resolve_on_stopped() with the flags at f and q left of the ready handlers.
resolve_on_stopped(f, q) ==
    IF /\ "stopping" \in f /\ on_stopped
       /\ f \cap {"receiving_async", "sending_async", "timer_running"} = {}
    THEN queue' = Append(q, Posted("stopped")) /\ on_stopped' = FALSE
    ELSE queue' = q /\ UNCHANGED on_stopped

-----------------------------------------------------------------------------
(***************************************************************************)
(* User threads.                                                           *)
(***************************************************************************)
Callable == owner \in {"free", "stop"}

async_start ==
    /\ Callable /\ starts < MaxStarts
    /\ flags \cap {"running", "stopping"} = {}
    /\ flags' = flags \cup {"running"}
    /\ posting' = posting \cup {"start"}
    /\ starts' = starts + 1
    /\ UNCHANGED <<on_stopped, queue, receives, sends, timer, owner, stopped, env_vars>>

\* boost::asio::post after the lock has been released.
post(fn) ==
    /\ fn \in posting
    /\ posting' = posting \ {fn}
    /\ queue' = Append(queue, Posted(fn))
    /\ UNCHANGED <<flags, on_stopped, receives, sends, timer, user_vars, env_vars>>

\* TRUE is returned when the stop was not signaled before.
async_stop ==
    IF "stopping" \notin flags
    THEN /\ flags' = flags \cup {"stopping"}
         /\ on_stopped' = TRUE
         /\ posting' = posting \cup {"cancel"}
    ELSE UNCHANGED <<flags, on_stopped, posting>>

AsyncStop ==
    /\ owner = "free"
    /\ async_stop
    /\ UNCHANGED <<queue, receives, sends, timer, user_vars, env_vars>>

\* stop() off the io thread: spin until the callback has run, if async_stop said TRUE.
stop ==
    /\ owner = "free"
    /\ async_stop
    /\ owner' = IF "stopping" \notin flags THEN "stop" ELSE "free"
    /\ UNCHANGED <<queue, receives, sends, timer, stopped, starts, env_vars>>

\* reset(), after a stop has completed.  The caller cannot tell what is left of it.
reset ==
    /\ owner = "free" /\ stopped /\ posting = {}
    /\ ~StaleResets => queue = << >> /\ receives = 0
    /\ flags' = {}
    /\ stopped' = FALSE /\ deaf' = FALSE
    /\ UNCHANGED <<on_stopped, queue, posting, receives, sends, timer, owner, starts, faults>>

\* The members go: the timer and the socket abort what is outstanding.
Release ==
    /\ owner' = "gone"
    /\ queue' = queue \o (IF timer THEN Repeat(1, "handle_timeout") ELSE << >>)
                      \o Repeat(receives, "handle_response")
                      \o Repeat(sends, "handle_send_complete")
    /\ receives' = 0 /\ sends' = 0 /\ timer' = FALSE

\* ~UdpDiscoveryClient() calls stop().  After an async_stop of its own the user waits
\* for that stop's callback before the object goes: stop() would return at once.
destructor ==
    /\ owner = "free" /\ posting = {}
    /\ "stopping" \in flags => stopped
    /\ IF "stopping" \notin flags
       THEN async_stop /\ owner' = "destructor" /\ UNCHANGED <<queue, receives, sends, timer>>
       ELSE Release /\ UNCHANGED <<flags, on_stopped, posting>>
    /\ UNCHANGED <<stopped, starts, env_vars>>

stop_returns ==
    /\ stopped /\ posting = {}
    /\ \/ owner = "stop" /\ owner' = "free" /\ UNCHANGED <<queue, receives, sends, timer>>
       \/ owner = "destructor" /\ Release
    /\ UNCHANGED <<flags, on_stopped, posting, stopped, starts, env_vars>>

\* while (!stopped) {}
spin == owner \in {"stop", "destructor"} /\ ~stopped /\ UNCHANGED vars

-----------------------------------------------------------------------------
(***************************************************************************)
(* The io thread: one action per handler.                                  *)
(***************************************************************************)
Runs(fn) == owner # "gone" /\ Next_is(queue, fn)

\* The lambda posted by async_start: receive, and send_discovery_request().
run_start ==
    /\ Runs("start")
    /\ IF "stopping" \notin flags
       THEN /\ flags' = flags \cup {"receiving_async", "sending_async"}
            /\ receives' = receives + 1 /\ sends' = sends + 1
            /\ queue' = Tail(queue)
            /\ UNCHANGED on_stopped
       ELSE /\ resolve_on_stopped(flags, Tail(queue))
            /\ UNCHANGED <<flags, receives, sends>>
    /\ UNCHANGED <<posting, timer, user_vars, env_vars>>

\* The lambda posted by async_stop.
run_cancel ==
    /\ Runs("cancel")
    /\ IF "running" \in flags
       THEN /\ queue' = Tail(queue)
                        \o (IF timer THEN Repeat(1, "handle_timeout") ELSE << >>)
                        \o Repeat(receives, "handle_response")
                        \o Repeat(sends, "handle_send_complete")
            /\ receives' = 0 /\ sends' = 0 /\ timer' = FALSE
            /\ UNCHANGED on_stopped
       ELSE /\ queue' = IF on_stopped THEN Append(Tail(queue), Posted("stopped"))
                        ELSE Tail(queue)
            /\ on_stopped' = FALSE
            /\ UNCHANGED <<receives, sends, timer>>
    /\ UNCHANGED <<flags, posting, user_vars, env_vars>>

\* Mutated: the timer is armed also when the client is being stopped, after the stop
\* was looked at.
handle_send_complete_rearms ==
    /\ Runs("handle_send_complete")
    /\ LET arm == Head(queue).ec = "ok"
       IN  /\ flags' = (flags \cup (IF arm THEN {"timer_running"} ELSE {})) \ {"sending_async"}
           /\ timer' = (timer \/ arm)
    /\ resolve_on_stopped(flags' \ {"timer_running"}, Tail(queue))
    /\ UNCHANGED <<posting, receives, sends, user_vars, env_vars>>

\* A request that could not be sent is not repeated.
handle_send_complete ==
    /\ Runs("handle_send_complete")
    /\ LET arm == Head(queue).ec = "ok" /\ "stopping" \notin flags
       IN  /\ flags' = (flags \cup (IF arm THEN {"timer_running"} ELSE {})) \ {"sending_async"}
           /\ timer' = (timer \/ arm)
    /\ resolve_on_stopped(flags', Tail(queue))
    /\ UNCHANGED <<posting, receives, sends, user_vars, env_vars>>

\* Mutated: one response is enough.
handle_response_ends ==
    /\ Runs("handle_response")
    /\ flags' = flags \ {"receiving_async"}
    /\ resolve_on_stopped(flags', Tail(queue))
    /\ UNCHANGED <<posting, receives, sends, timer, user_vars, env_vars>>

\* A response is handed to the callback and the next one waited for, with the flag
\* cleared and whether or not the client is being stopped.
handle_response ==
    /\ Runs("handle_response")
    /\ receives' = IF Head(queue).ec = "ok" /\ Head(queue).n > 0
                   THEN receives + 1 ELSE receives
    /\ flags' = flags \ {"receiving_async"}
    /\ resolve_on_stopped(flags', Tail(queue))
    /\ UNCHANGED <<posting, sends, timer, user_vars, env_vars>>

\* Mutated: the wait for the timer is not marked as over.
handle_timeout_keeps ==
    /\ Runs("handle_timeout")
    /\ LET send == Head(queue).ec = "ok"
       IN  /\ flags' = flags \cup (IF send THEN {"sending_async"} ELSE {})
           /\ sends' = IF send THEN sends + 1 ELSE sends
    /\ resolve_on_stopped(flags', Tail(queue))
    /\ UNCHANGED <<posting, receives, timer, user_vars, env_vars>>

\* Mutated: the request is not repeated once somebody has answered.
handle_timeout_answered ==
    /\ Runs("handle_timeout")
    /\ LET send == Head(queue).ec = "ok" /\ "receiving_async" \in flags
       IN  /\ flags' = (flags \cup (IF send THEN {"sending_async"} ELSE {})) \ {"timer_running"}
           /\ sends' = IF send THEN sends + 1 ELSE sends
    /\ resolve_on_stopped(flags', Tail(queue))
    /\ UNCHANGED <<posting, receives, timer, user_vars, env_vars>>

\* Mutated: a cancelled wait does not complete the stop.
handle_timeout_forgets ==
    /\ Runs("handle_timeout")
    /\ LET send == Head(queue).ec = "ok"
       IN  /\ flags' = (flags \cup (IF send THEN {"sending_async"} ELSE {})) \ {"timer_running"}
           /\ sends' = IF send THEN sends + 1 ELSE sends
    /\ queue' = Tail(queue)
    /\ UNCHANGED <<on_stopped, posting, receives, timer, user_vars, env_vars>>

\* The timer has expired: send_discovery_request(), also when being stopped.
handle_timeout ==
    /\ Runs("handle_timeout")
    /\ LET send == Head(queue).ec = "ok"
       IN  /\ flags' = (flags \cup (IF send THEN {"sending_async"} ELSE {})) \ {"timer_running"}
           /\ sends' = IF send THEN sends + 1 ELSE sends
    /\ resolve_on_stopped(flags', Tail(queue))
    /\ UNCHANGED <<posting, receives, timer, user_vars, env_vars>>

\* The function passed to async_stop runs.
run_stopped ==
    /\ Runs("stopped")
    /\ queue' = Tail(queue)
    /\ stopped' = TRUE
    /\ UNCHANGED <<flags, on_stopped, posting, receives, sends, timer, owner, starts, env_vars>>

-----------------------------------------------------------------------------
(***************************************************************************)
(* The network and the clock.                                              *)
(***************************************************************************)
Completes(fn, ec, n) == queue' = Append(queue, Handler(fn, ec, n))

datagram_arrives ==
    /\ owner # "gone" /\ receives > 0
    /\ \E n \in IF "receive" \in faults THEN 0 .. 1 ELSE {1} :
          Completes("handle_response", "ok", n) /\ deaf' = (deaf \/ n = 0)
    /\ receives' = receives - 1
    /\ UNCHANGED <<flags, on_stopped, posting, sends, timer, user_vars, faults>>

receive_fails ==
    /\ owner # "gone" /\ receives > 0 /\ "receive" \in faults
    /\ Completes("handle_response", "failed", 0) /\ deaf' = TRUE
    /\ receives' = receives - 1
    /\ UNCHANGED <<flags, on_stopped, posting, sends, timer, user_vars, faults>>

send_completes ==
    /\ owner # "gone" /\ sends > 0
    /\ \E ec \in IF "send" \in faults THEN {"ok", "failed"} ELSE {"ok"} :
          Completes("handle_send_complete", ec, 0)
    /\ sends' = sends - 1
    /\ UNCHANGED <<flags, on_stopped, posting, receives, timer, user_vars, env_vars>>

timer_expires ==
    /\ owner # "gone" /\ timer
    /\ Completes("handle_timeout", "ok", 0)
    /\ timer' = FALSE
    /\ UNCHANGED <<flags, on_stopped, posting, receives, sends, user_vars, env_vars>>

\* After destruction the program goes on without the client.
Terminated == owner = "gone" /\ UNCHANGED vars

Posting == \E fn \in {"start", "cancel"} : post(fn)

IoThread == \/ run_start \/ run_cancel \/ handle_send_complete \/ handle_response
            \/ handle_timeout \/ run_stopped

Next == \/ async_start \/ Posting \/ AsyncStop \/ stop \/ reset \/ destructor
        \/ stop_returns \/ spin \/ IoThread
        \/ datagram_arrives \/ receive_fails \/ send_completes \/ timer_expires
        \/ Terminated

Spec == Init /\ [][Next]_vars

\* The io thread runs, a thread inside a call is scheduled, the operating system ends
\* a send, and the clock goes on.  Nothing is assumed of the peers.
FairSpec == Spec /\ WF_vars(IoThread) /\ WF_vars(Posting) /\ WF_vars(stop_returns)
                 /\ WF_vars(send_completes) /\ WF_vars(timer_expires)

-----------------------------------------------------------------------------
\* Properties.

\* The state has its type, and there is never more than one request on its way or
\* scheduled: sending_async stands for the request, timer_running for the wait that
\* precedes the next one.
OneRequest ==
    /\ TypeOK
    /\ AtMostOnce(queue, "handle_send_complete") /\ AtMostOnce(queue, "handle_timeout")
    /\ "sending_async" \in flags <=> sends = 1 \/ Queued(queue, "handle_send_complete")
    /\ "timer_running" \in flags <=> timer \/ Queued(queue, "handle_timeout")
    /\ ~ ({"sending_async", "timer_running"} \subseteq flags)

\* A started client hears its peers until it is stopped or a receive fails, although
\* receiving_async is cleared by the first response.
Listening ==
    "running" \in flags /\ "stopping" \notin flags /\ ~deaf =>
        \/ receives > 0 \/ Queued(queue, "handle_response")
        \/ "start" \in posting \/ Queued(queue, "start")

\* When the stopped callback has run no request is sent or scheduled any more, and a
\* stopped client has no start pending.
StopIsQuiet ==
    stopped => /\ sends = 0 /\ ~timer /\ "start" \notin posting
               /\ flags \subseteq {"running", "stopping"}
               /\ \A i \in DOMAIN queue : queue[i].fn \in {"cancel", "handle_response"}

\* The request is repeated for as long as the client runs, if it can be sent at all.
RequestsGoOn ==
    "running" \in flags ~> \/ flags \cap {"sending_async", "stopping"} # {}
                           \/ "send" \in faults

\* A thread in stop() or in the destructor comes out of it, if not both directions of
\* the socket may fail.
StopCompletes ==
    owner \in {"stop", "destructor"} /\ faults # {"send", "receive"} ~>
        owner \in {"free", "gone"}
=============================================================================
