----------------------------- MODULE TcpClient -----------------------------
(***************************************************************************)
(* eestv/net/connection/tcp_client.{hpp,cpp}: resolve a host, connect, and *)
(* hand the socket or an error to a callback; stop and reset.  Every       *)
(* locked section is one action.  async_connect and async_stop post their  *)
(* lambda after they have released the lock: the post is an action of its  *)
(* own.                                                                    *)
(***************************************************************************)
EXTENDS IoContext

CONSTANT MaxAttempts   \* bound: accepted calls of async_connect

ASSUME ClientAssumption == MaxAttempts \in Nat

VARIABLES
    flags,                   \* _flags
    on_connection_complete,  \* whether _on_connection_complete holds a function
    on_stopped,              \* whether _on_stopped holds a function
    queue,                   \* ready handlers of the io_context
    posting,                 \* lambdas of calls that have unlocked and not yet posted
    resolve,                 \* the resolver: "idle", "running" or "cancelled"
    connect,                 \* whether an async_connect on the socket is outstanding
    owner,                   \* where the owning thread is
    stopped,                 \* the stopped callback has run (and no reset since)
    attempts, answered       \* accepted calls of async_connect; callbacks run

user_vars == <<owner, stopped>>
vars == <<flags, on_connection_complete, on_stopped, queue, posting, resolve, connect,
          user_vars, attempts, answered>>

States == {"schedule_resolving", "resolving", "connecting", "stopping", "stop_singaled"}

\* "complete" is the lambda that runs the callback with an error; it captures this.
Functions == {"async_resolve", "cancel", "handle_resolve", "handle_connect",
              "complete", "stopped"}

TypeOK ==
    /\ flags \subseteq States
    /\ {on_connection_complete, on_stopped, connect, stopped} \subseteq BOOLEAN
    /\ queue \in Seq([fn : Functions, ec : ErrorCodes, n : {0}])
    /\ posting \subseteq {"async_resolve", "cancel"}
    /\ resolve \in {"idle", "running", "cancelled"}
    /\ owner \in {"free", "stop", "destructor", "gone"}
    /\ attempts \in 0 .. MaxAttempts /\ answered \in 0 .. attempts

Init ==
    /\ flags = {} /\ on_connection_complete = FALSE /\ on_stopped = FALSE
    /\ queue = << >> /\ posting = {} /\ resolve = "idle" /\ connect = FALSE
    /\ owner = "free" /\ stopped = FALSE
    /\ attempts = 0 /\ answered = 0

-----------------------------------------------------------------------------
\* Mutated: an outstanding connect is not looked at.
resolve_on_stopped_early(f, before, after) ==
    IF on_stopped /\ {"stopping", "schedule_resolving", "resolving"} \cap f = {}
    THEN queue' = Append(before, Posted("stopped")) \o after /\ on_stopped' = FALSE
    ELSE queue' = before \o after /\ UNCHANGED on_stopped

\* With the flags at f: post the stopped callback if nothing is in progress.  The
\* caller has made before of the ready handlers, and posts after once this returns.
resolve_on_stopped(f, before, after) ==
    IF on_stopped /\ {"stopping", "schedule_resolving", "resolving", "connecting"} \cap f = {}
    THEN queue' = Append(before, Posted("stopped")) \o after /\ on_stopped' = FALSE
    ELSE queue' = before \o after /\ UNCHANGED on_stopped

-----------------------------------------------------------------------------
(***************************************************************************)
(* User threads.  Different threads may be inside async_connect and        *)
(* async_stop at the same time; the object is not destroyed before they    *)
(* have left.                                                              *)
(***************************************************************************)
Callable == owner \in {"free", "stop"}

\* Mutated: a connect in progress is not looked at.
async_connect_again ==
    /\ Callable
    /\ "stop_singaled" \notin flags
    /\ attempts < MaxAttempts
    /\ flags \cap {"resolving", "schedule_resolving", "stopping"} = {}
    /\ flags' = flags \cup {"schedule_resolving"}
    /\ on_connection_complete' = TRUE
    /\ posting' = posting \cup {"async_resolve"}
    /\ attempts' = attempts + 1
    /\ UNCHANGED <<on_stopped, queue, resolve, connect, user_vars, answered>>

\* A call that returns TRUE.  By contract (tcp_client.hpp line 54) a stopped client is
\* reset before it connects again.
async_connect ==
    /\ Callable
    /\ "stop_singaled" \notin flags
    /\ attempts < MaxAttempts
    /\ flags \cap {"resolving", "schedule_resolving", "connecting", "stopping"} = {}
    /\ flags' = flags \cup {"schedule_resolving"}
    /\ on_connection_complete' = TRUE
    /\ posting' = posting \cup {"async_resolve"}
    /\ attempts' = attempts + 1
    /\ UNCHANGED <<on_stopped, queue, resolve, connect, user_vars, answered>>

\* boost::asio::post after the lock has been released.
post(fn) ==
    /\ fn \in posting
    /\ posting' = posting \ {fn}
    /\ queue' = Append(queue, Posted(fn))
    /\ UNCHANGED <<flags, on_connection_complete, on_stopped, resolve, connect,
                   user_vars, attempts, answered>>

\* async_stop: TRUE is returned when the stop was not signaled before.
async_stop ==
    IF "stop_singaled" \notin flags
    THEN /\ flags' = flags \cup {"stop_singaled", "stopping"}
         /\ on_stopped' = TRUE
         /\ posting' = posting \cup {"cancel"}
    ELSE UNCHANGED <<flags, on_stopped, posting>>

AsyncStop ==
    /\ owner = "free"
    /\ async_stop
    /\ UNCHANGED <<on_connection_complete, queue, resolve, connect, user_vars,
                   attempts, answered>>

\* stop() off the io thread: spin until the callback has run, if async_stop said TRUE.
stop ==
    /\ owner = "free"
    /\ async_stop
    /\ owner' = IF "stop_singaled" \notin flags THEN "stop" ELSE "free"
    /\ UNCHANGED <<on_connection_complete, queue, resolve, connect, stopped,
                   attempts, answered>>

\* reset(), after a stop has completed.
reset ==
    /\ owner = "free" /\ stopped /\ posting = {}
    /\ flags' = {}
    /\ stopped' = FALSE
    /\ UNCHANGED <<on_connection_complete, on_stopped, queue, posting, resolve, connect,
                   owner, attempts, answered>>

\* The members go: the resolver and the socket abort what is outstanding.
Release ==
    /\ owner' = "gone"
    /\ queue' = queue \o (IF resolve = "idle" THEN << >>
                          ELSE <<Handler("handle_resolve", "aborted", 0)>>)
                      \o (IF connect THEN <<Handler("handle_connect", "aborted", 0)>> ELSE << >>)
    /\ resolve' = "idle" /\ connect' = FALSE

\* ~TcpClient() calls stop().  After an async_stop of its own the user waits for that
\* stop's callback before the object goes: stop() would return at once.
destructor ==
    /\ owner = "free" /\ posting = {}
    /\ "stop_singaled" \in flags => stopped
    /\ IF "stop_singaled" \notin flags
       THEN async_stop /\ owner' = "destructor" /\ UNCHANGED <<queue, resolve, connect>>
       ELSE Release /\ UNCHANGED <<flags, on_stopped, posting>>
    /\ UNCHANGED <<on_connection_complete, stopped, attempts, answered>>

stop_returns ==
    /\ stopped /\ posting = {}
    /\ \/ owner = "stop" /\ owner' = "free" /\ UNCHANGED <<queue, resolve, connect>>
       \/ owner = "destructor" /\ Release
    /\ UNCHANGED <<flags, on_connection_complete, on_stopped, posting, stopped,
                   attempts, answered>>

\* while (!stopped) {}
spin == owner \in {"stop", "destructor"} /\ ~stopped /\ UNCHANGED vars

-----------------------------------------------------------------------------
(***************************************************************************)
(* The io thread: one action per handler.                                  *)
(***************************************************************************)
Runs(fn) == owner # "gone" /\ Next_is(queue, fn)

\* async_resolve: nothing is resolved, and nobody told, after a stop.
async_resolve ==
    /\ Runs("async_resolve")
    /\ LET f == flags \ {"schedule_resolving"} IN
       IF "stop_singaled" \in f
       THEN /\ flags' = f
            /\ resolve_on_stopped(f, Tail(queue), << >>)
            /\ UNCHANGED resolve
       ELSE /\ flags' = f \cup {"resolving"}
            /\ resolve' = "running"
            /\ queue' = Tail(queue)
            /\ UNCHANGED on_stopped
    /\ UNCHANGED <<on_connection_complete, posting, connect, user_vars, attempts, answered>>

complete_error == IF on_connection_complete THEN <<Posted("complete")>> ELSE << >>

\* handle_resolve, error branch: the callback is posted, then the stop is looked at.
handle_resolve_error ==
    /\ Runs("handle_resolve") /\ Head(queue).ec # "ok"
    /\ on_connection_complete' = FALSE
    /\ flags' = flags \ {"resolving"}
    /\ IF "stop_singaled" \in flags
       THEN resolve_on_stopped(flags', Tail(queue) \o complete_error, << >>)
       ELSE queue' = Tail(queue) \o complete_error /\ UNCHANGED on_stopped
    /\ UNCHANGED <<posting, resolve, connect, user_vars, attempts, answered>>

\* handle_resolve, success branch: connect, whether or not a stop was signaled.
handle_resolve_ok ==
    /\ Runs("handle_resolve") /\ Head(queue).ec = "ok"
    /\ connect' = TRUE
    /\ flags' = (flags \cup {"connecting"}) \ {"resolving"}
    /\ IF "stop_singaled" \in flags
       THEN resolve_on_stopped(flags', Tail(queue), << >>)
       ELSE queue' = Tail(queue) /\ UNCHANGED on_stopped
    /\ UNCHANGED <<on_connection_complete, posting, resolve, user_vars, attempts, answered>>

\* Mutated: the error branch keeps the callback, and a later attempt finds it.
handle_connect_error_keeps ==
    /\ Runs("handle_connect") /\ Head(queue).ec # "ok"
    /\ flags' = flags \ {"connecting"}
    /\ IF "stop_singaled" \in flags
       THEN resolve_on_stopped(flags', Tail(queue), complete_error)
       ELSE queue' = Tail(queue) \o complete_error /\ UNCHANGED on_stopped
    /\ UNCHANGED <<on_connection_complete, posting, resolve, connect, user_vars,
                   attempts, answered>>

\* Mutated: a failed connect does not complete the stop.
handle_connect_error_forgets ==
    /\ Runs("handle_connect") /\ Head(queue).ec # "ok"
    /\ on_connection_complete' = FALSE
    /\ flags' = flags \ {"connecting"}
    /\ queue' = Tail(queue) \o complete_error
    /\ UNCHANGED <<on_stopped, posting, resolve, connect, user_vars, attempts, answered>>

\* handle_connect, error branch: the stop is looked at, then the callback is posted.
handle_connect_error ==
    /\ Runs("handle_connect") /\ Head(queue).ec # "ok"
    /\ on_connection_complete' = FALSE
    /\ flags' = flags \ {"connecting"}
    /\ IF "stop_singaled" \in flags
       THEN resolve_on_stopped(flags', Tail(queue), complete_error)
       ELSE queue' = Tail(queue) \o complete_error /\ UNCHANGED on_stopped
    /\ UNCHANGED <<posting, resolve, connect, user_vars, attempts, answered>>

\* Mutated: success is not reported.
handle_connect_ok_silent ==
    /\ Runs("handle_connect") /\ Head(queue).ec = "ok"
    /\ flags' = flags \ {"connecting"}
    /\ IF "stop_singaled" \in flags
       THEN resolve_on_stopped(flags', Tail(queue), << >>)
       ELSE queue' = Tail(queue) /\ UNCHANGED on_stopped
    /\ UNCHANGED <<on_connection_complete, answered, posting, resolve, connect, user_vars,
                   attempts>>

\* handle_connect, success branch: after a stop nobody is told; otherwise the callback
\* gets the socket at once.
handle_connect_ok ==
    /\ Runs("handle_connect") /\ Head(queue).ec = "ok"
    /\ flags' = flags \ {"connecting"}
    /\ IF "stop_singaled" \in flags
       THEN /\ resolve_on_stopped(flags', Tail(queue), << >>)
            /\ UNCHANGED <<on_connection_complete, answered>>
       ELSE /\ queue' = Tail(queue)
            /\ answered' = IF on_connection_complete THEN answered + 1 ELSE answered
            /\ on_connection_complete' = FALSE
            /\ UNCHANGED on_stopped
    /\ UNCHANGED <<posting, resolve, connect, user_vars, attempts>>

\* The lambda posted by async_stop.  Cancelling the socket aborts the connect; a
\* cancelled resolver reports when its look-up is over.
run_cancel ==
    /\ Runs("cancel")
    /\ flags' = flags \ {"stopping"}
    /\ resolve_on_stopped(flags', Tail(queue) \o
           (IF connect THEN <<Handler("handle_connect", "aborted", 0)>> ELSE << >>), << >>)
    /\ connect' = FALSE
    /\ resolve' = IF resolve = "idle" THEN "idle" ELSE "cancelled"
    /\ UNCHANGED <<on_connection_complete, posting, user_vars, attempts, answered>>

\* The connection callback runs with an error.
run_complete ==
    /\ Runs("complete")
    /\ queue' = Tail(queue)
    /\ answered' = answered + 1
    /\ UNCHANGED <<flags, on_connection_complete, on_stopped, posting, resolve, connect,
                   user_vars, attempts>>

\* The function passed to async_stop runs.
run_stopped ==
    /\ Runs("stopped")
    /\ queue' = Tail(queue)
    /\ stopped' = TRUE
    /\ UNCHANGED <<flags, on_connection_complete, on_stopped, posting, resolve, connect,
                   owner, attempts, answered>>

-----------------------------------------------------------------------------
\* The resolver answers.
resolve_completes ==
    /\ owner # "gone" /\ resolve # "idle"
    /\ \E ec \in IF resolve = "running" THEN {"ok", "failed"} ELSE {"aborted"} :
          queue' = Append(queue, Handler("handle_resolve", ec, 0))
    /\ resolve' = "idle"
    /\ UNCHANGED <<flags, on_connection_complete, on_stopped, posting, connect,
                   user_vars, attempts, answered>>

\* The operating system answers: connected, refused, unreachable or timed out.
connect_completes ==
    /\ owner # "gone" /\ connect
    /\ \E ec \in {"ok", "failed"} :
          queue' = Append(queue, Handler("handle_connect", ec, 0))
    /\ connect' = FALSE
    /\ UNCHANGED <<flags, on_connection_complete, on_stopped, posting, resolve,
                   user_vars, attempts, answered>>

\* After destruction the program goes on without the client.
Terminated == owner = "gone" /\ UNCHANGED vars

Posting == \E fn \in {"async_resolve", "cancel"} : post(fn)

IoThread == \/ async_resolve \/ handle_resolve_error \/ handle_resolve_ok
            \/ handle_connect_error \/ handle_connect_ok
            \/ run_cancel \/ run_complete \/ run_stopped

Next == \/ async_connect \/ Posting \/ AsyncStop \/ stop \/ reset \/ destructor
        \/ stop_returns \/ spin \/ IoThread \/ resolve_completes \/ connect_completes
        \/ Terminated

Spec == Init /\ [][Next]_vars

\* The io thread runs, a thread inside a call is scheduled, a look-up ends, and the
\* operating system ends a connect, with a time-out at the latest.
FairSpec == Spec /\ WF_vars(IoThread) /\ WF_vars(Posting) /\ WF_vars(stop_returns)
                 /\ WF_vars(resolve_completes) /\ WF_vars(connect_completes)

-----------------------------------------------------------------------------
\* Properties.

\* The state has its type, there is never more than one attempt in progress, and each
\* flag stands for the step the attempt is at: waiting for the io thread, resolving, or connecting.
OneAttempt ==
    /\ TypeOK
    /\ \A fn \in {"async_resolve", "handle_resolve", "handle_connect"} : AtMostOnce(queue, fn)
    /\ "schedule_resolving" \in flags <=>
          "async_resolve" \in posting \/ Queued(queue, "async_resolve")
    /\ "resolving" \in flags <=> resolve # "idle" \/ Queued(queue, "handle_resolve")
    /\ "connecting" \in flags <=> connect \/ Queued(queue, "handle_connect")
    /\ \A s, t \in flags \cap {"schedule_resolving", "resolving", "connecting"} : s = t

\* When the stopped callback has run nothing of the attempt is left but, possibly, the
\* call of its callback.
StopIsClean ==
    stopped => /\ resolve = "idle" /\ ~connect /\ posting = {}
               /\ flags \subseteq {"stop_singaled"}
               /\ \A i \in DOMAIN queue : queue[i].fn = "complete"

\* A callback given to async_connect is called once at most: the callbacks that were
\* called, are about to be and may still be are not more than the accepted calls.
AnsweredAtMostOnce ==
    answered + HowMany(queue, "complete")
             + (IF on_connection_complete THEN 1 ELSE 0) <= attempts

\* A thread in stop() or in the destructor comes out of it.
StopCompletes == owner \in {"stop", "destructor"} ~> owner \in {"free", "gone"}

\* The callback of an accepted async_connect is called, unless a stop intervenes.
AnsweredUnlessStopped ==
    flags \cap {"schedule_resolving", "resolving", "connecting"} # {} ~>
        ~on_connection_complete \/ "stop_singaled" \in flags
=============================================================================
