-------------------------- MODULE TcpClientProofs --------------------------
(***************************************************************************)
(* Proofs about TcpClient, for every number of attempts: never more than   *)
(* one attempt is in progress, no callback is called twice, and a stop     *)
(* leaves nothing of the attempt behind.                                   *)
(***************************************************************************)
EXTENDS TcpClient, BufferAndQueueLemmas

USE ClientAssumption

-----------------------------------------------------------------------------
(***************************************************************************)
(* The inductive invariant.  OneAttempt needs each of its flags to stand   *)
(* for one thing at a time: the lambda is posted or about to be, the       *)
(* look-up is running or its handler is ready, and likewise the connect.   *)
(* StopIsClean needs the same of the flag stopping and the lambda cancel,  *)
(* and the course of a stop: on_stopped is held, then posted when no flag  *)
(* of an attempt is left, then has run; only reset() ends that.            *)
(***************************************************************************)
Ready == [fn : Functions, ec : ErrorCodes, n : {0}]

Progress == {"stopping", "schedule_resolving", "resolving", "connecting"}

AttemptInv ==
    /\ ~ ("async_resolve" \in posting /\ Queued(queue, "async_resolve"))
    /\ ~ (resolve # "idle" /\ Queued(queue, "handle_resolve"))
    /\ ~ (connect /\ Queued(queue, "handle_connect"))

StopInv ==
    /\ AtMostOnce(queue, "cancel") /\ AtMostOnce(queue, "stopped")
    /\ "stopping" \in flags <=> "cancel" \in posting \/ Queued(queue, "cancel")
    /\ ~ ("cancel" \in posting /\ Queued(queue, "cancel"))
    /\ "stop_singaled" \notin flags =>
          /\ "stopping" \notin flags /\ ~on_stopped /\ ~stopped /\ ~ Queued(queue, "stopped")
          /\ owner = "free"
    /\ "stop_singaled" \in flags /\ ~on_stopped => flags \cap Progress = {}
    /\ on_stopped => ~stopped /\ ~ Queued(queue, "stopped")
    /\ stopped => ~ Queued(queue, "stopped")
    /\ owner = "gone" => stopped

\* The parts of OneAttempt: each flag stands for what it says, and they exclude each other.
OneEach ==
    /\ AtMostOnce(queue, "async_resolve") /\ AtMostOnce(queue, "handle_resolve")
    /\ AtMostOnce(queue, "handle_connect")
    /\ "schedule_resolving" \in flags <=>
          "async_resolve" \in posting \/ Queued(queue, "async_resolve")
    /\ "resolving" \in flags <=> resolve # "idle" \/ Queued(queue, "handle_resolve")
    /\ "connecting" \in flags <=> connect \/ Queued(queue, "handle_connect")
    /\ ~ ("schedule_resolving" \in flags /\ "resolving" \in flags)
    /\ ~ ("schedule_resolving" \in flags /\ "connecting" \in flags)
    /\ ~ ("resolving" \in flags /\ "connecting" \in flags)

TypeParts ==
    /\ flags \subseteq States
    /\ on_connection_complete \in BOOLEAN /\ on_stopped \in BOOLEAN
    /\ connect \in BOOLEAN /\ stopped \in BOOLEAN
    /\ queue \in Seq(Ready)
    /\ posting \subseteq {"async_resolve", "cancel"}
    /\ resolve \in {"idle", "running", "cancelled"}
    /\ owner \in {"free", "stop", "destructor", "gone"}
    /\ attempts \in 0 .. MaxAttempts /\ answered \in Nat

Inv == TypeParts /\ OneEach /\ AnsweredAtMostOnce /\ AttemptInv /\ StopInv

LEMMA InvImpliesOneAttempt == Inv => OneAttempt
  <1> SUFFICES ASSUME Inv PROVE OneAttempt
    OBVIOUS
  <1>1. TypeParts /\ OneEach /\ AnsweredAtMostOnce
    BY DEF Inv
  <1>2. answered \in 0 .. attempts
    <2>1. HowMany(queue, "complete") \in Nat
      BY <1>1, HowManyType DEF TypeParts
    <2>2. QED
      BY <1>1, <2>1 DEF TypeParts, AnsweredAtMostOnce
  <1>3. TypeOK
    BY <1>1, <1>2 DEF TypeParts, TypeOK, Ready
  <1>4. QED
    BY <1>1, <1>3 DEF OneAttempt, OneEach

LEMMA InvImplies == Inv => OneAttempt /\ StopIsClean /\ AnsweredAtMostOnce
  <1> SUFFICES ASSUME Inv, stopped
               PROVE  /\ resolve = "idle" /\ ~connect /\ posting = {}
                      /\ flags \subseteq {"stop_singaled"}
                      /\ \A i \in DOMAIN queue : queue[i].fn = "complete"
    BY InvImpliesOneAttempt DEF Inv, StopIsClean
  <1>1. OneEach /\ TypeParts /\ AttemptInv /\ StopInv
    BY DEF Inv
  <1>2. "stop_singaled" \in flags /\ flags \cap Progress = {} /\ ~ Queued(queue, "stopped")
    BY <1>1 DEF StopInv, TypeParts
  <1>3. flags \subseteq {"stop_singaled"}
    BY <1>1, <1>2 DEF TypeParts, States, Progress
  <1>4. resolve = "idle" /\ ~connect /\ posting = {}
    BY <1>1, <1>2 DEF OneEach, StopInv, TypeParts, Progress
  <1>5. /\ ~ Queued(queue, "async_resolve") /\ ~ Queued(queue, "handle_resolve")
        /\ ~ Queued(queue, "handle_connect") /\ ~ Queued(queue, "cancel")
    BY <1>1, <1>2 DEF OneEach, StopInv, Progress
  <1>6. ASSUME NEW i \in DOMAIN queue
        PROVE  queue[i].fn = "complete"
    <2>1. queue[i] \in Ready
      BY <1>1 DEF TypeParts
    <2>2. queue[i].fn \in Functions /\ Queued(queue, queue[i].fn)
      BY <2>1 DEF Ready, Queued
    <2>3. QED
      BY <1>2, <1>5, <2>2 DEF Functions
  <1>7. QED
    BY <1>3, <1>4, <1>6

-----------------------------------------------------------------------------
(***************************************************************************)
(* Handlers.                                                               *)
(***************************************************************************)
LEMMA HandlerReady ==
    \A fn \in Functions, ec \in ErrorCodes :
        Handler(fn, ec, 0) \in Ready /\ Handler(fn, ec, 0).fn = fn
  BY DEF Handler, Ready

LEMMA PostedReady == \A fn \in Functions : Posted(fn) \in Ready /\ Posted(fn).fn = fn
  BY HandlerReady DEF Posted, ErrorCodes

\* One handler becomes ready.
LEMMA ReadyFacts ==
    ASSUME NEW q \in Seq(Ready), NEW fn \in Functions, NEW ec \in ErrorCodes
    PROVE  /\ Append(q, Handler(fn, ec, 0)) \in Seq(Ready)
           /\ q \o <<Handler(fn, ec, 0)>> = Append(q, Handler(fn, ec, 0))
           /\ Adds(q, Append(q, Handler(fn, ec, 0)), {fn})
  <1> DEFINE h == Handler(fn, ec, 0)
  <1>1. h \in Ready /\ h.fn = fn
    BY HandlerReady
  <1> HIDE DEF h
  <1>2. Append(q, h) \in Seq(Ready) /\ q \o <<h>> = Append(q, h) /\ Adds(q, Append(q, h), {fn})
    BY <1>1, AddsOne
  <1>3. QED
    BY <1>2 DEF h

LEMMA PostedFacts ==
    ASSUME NEW q \in Seq(Ready), NEW fn \in Functions
    PROVE  /\ Append(q, Posted(fn)) \in Seq(Ready)
           /\ q \o <<Posted(fn)>> = Append(q, Posted(fn))
           /\ Adds(q, Append(q, Posted(fn)), {fn})
  BY ReadyFacts DEF Posted, ErrorCodes

LEMMA TakeFacts ==
    ASSUME Inv, NEW fn, Runs(fn)
    PROVE  /\ Tail(queue) \in Seq(Ready) /\ Takes(queue, Tail(queue), fn)
           /\ Head(queue) \in Ready /\ owner # "gone"
  BY TakesHead DEF Inv, Runs, Next_is, TypeParts

\* The stopped callback is posted, or not; with it the handlers of F that come after.
LEMMA ResolveFacts ==
    ASSUME NEW f, NEW q \in Seq(Ready), NEW after, NEW F \in SUBSET {"complete"},
           \A r \in Seq(Ready) : r \o after \in Seq(Ready) /\ Adds(r, r \o after, F),
           resolve_on_stopped(f, q, after)
    PROVE  /\ queue' \in Seq(Ready)
           /\ \/ /\ on_stopped /\ f \cap Progress = {} /\ on_stopped' = FALSE
                 /\ Adds(q, queue', F \cup {"stopped"})
              \/ /\ ~ (on_stopped /\ f \cap Progress = {}) /\ UNCHANGED on_stopped
                 /\ Adds(q, queue', F)
  <1> DEFINE r == Append(q, Posted("stopped"))
  <1>1. r \in Seq(Ready) /\ Adds(q, r, {"stopped"})
    BY PostedFacts DEF Functions
  <1>2. \/ /\ on_stopped /\ f \cap Progress = {} /\ on_stopped' = FALSE
           /\ queue' = r \o after
        \/ /\ ~ (on_stopped /\ f \cap Progress = {}) /\ UNCHANGED on_stopped
           /\ queue' = q \o after
    BY DEF resolve_on_stopped, Progress
  <1> HIDE DEF r
  <1>3. r \o after \in Seq(Ready) /\ Adds(r, r \o after, F)
    BY <1>1
  <1>4. Adds(q, r \o after, {"stopped"} \cup F)
    <2>1. {"stopped"} \cap F = {}
      OBVIOUS
    <2>2. QED
      BY <1>1, <1>3, <2>1, AddsBoth
  <1>5. {"stopped"} \cup F = F \cup {"stopped"}
    OBVIOUS
  <1>6. QED
    BY <1>2, <1>3, <1>4, <1>5

LEMMA NothingAfter == \A r \in Seq(Ready) : r \o << >> \in Seq(Ready) /\ Adds(r, r \o << >>, {})
  BY AddsNone

\* What complete_error puts into a queue.
Completing == IF on_connection_complete THEN {"complete"} ELSE {}

LEMMA CompleteAfter ==
    \A r \in Seq(Ready) : r \o complete_error \in Seq(Ready) /\ Adds(r, r \o complete_error, Completing)
  <1> TAKE r \in Seq(Ready)
  <1>1. CASE on_connection_complete
    BY <1>1, PostedFacts DEF complete_error, Completing, Functions
  <1>2. CASE ~on_connection_complete
    BY <1>2, NothingAfter DEF complete_error, Completing
  <1>3. QED
    BY <1>1, <1>2

-----------------------------------------------------------------------------
(***************************************************************************)
(* User threads.                                                           *)
(***************************************************************************)
LEMMA InitInv == Init => Inv
  <1> SUFFICES ASSUME Init PROVE Inv
    OBVIOUS
  <1>1. queue \in Seq(Ready) /\ queue = << >>
    BY DEF Init
  <1>2. HowMany(queue, "complete") = 0
    BY <1>1, HowManyEmpty
  <1>3. TypeParts
    <2>1. /\ flags \subseteq States /\ posting \subseteq {"async_resolve", "cancel"}
          /\ resolve \in {"idle", "running", "cancelled"}
          /\ owner \in {"free", "stop", "destructor", "gone"}
      BY DEF Init
    <2>2. /\ on_connection_complete \in BOOLEAN /\ on_stopped \in BOOLEAN
          /\ connect \in BOOLEAN /\ stopped \in BOOLEAN
      BY DEF Init
    <2>3. attempts \in 0 .. MaxAttempts /\ answered \in Nat
      BY DEF Init
    <2>4. QED
      BY <1>1, <2>1, <2>2, <2>3 DEF TypeParts
  <1>4. OneEach
    BY <1>1, EmptyFacts DEF Init, OneEach
  <1>5. AnsweredAtMostOnce
    BY <1>2 DEF Init, AnsweredAtMostOnce
  <1>6. AttemptInv
    BY <1>1, EmptyFacts DEF Init, AttemptInv
  <1>7. StopInv
    BY <1>1, EmptyFacts DEF Init, StopInv
  <1>8. QED
    BY <1>3, <1>4, <1>5, <1>6, <1>7 DEF Inv

LEMMA CountType == Inv => HowMany(queue, "complete") \in Nat
  BY HowManyType DEF Inv, TypeParts

LEMMA AsyncConnectInv == Inv /\ async_connect => Inv'
  <1> SUFFICES ASSUME Inv, async_connect PROVE Inv'
    OBVIOUS
  <1>1. OneEach /\ TypeParts /\ AnsweredAtMostOnce /\ AttemptInv /\ StopInv
    BY DEF Inv
  <1>2. HowMany(queue, "complete") \in Nat
    BY CountType
  <1>3. TypeParts'
    BY <1>1 DEF async_connect, user_vars, TypeParts, States
  <1>4. OneEach'
    BY <1>1 DEF async_connect, user_vars, OneEach
  <1>5. AnsweredAtMostOnce'
    <2>1. /\ attempts' = attempts + 1 /\ answered' = answered /\ queue' = queue
          /\ on_connection_complete' = TRUE
      BY DEF async_connect
    <2>2. QED
      BY <1>1, <1>2, <2>1 DEF TypeParts, AnsweredAtMostOnce
  <1>6. AttemptInv'
    BY <1>1 DEF async_connect, AttemptInv, OneEach, TypeParts
  <1>7. StopInv'
    BY <1>1 DEF async_connect, user_vars, StopInv, TypeParts
  <1>8. QED
    BY <1>3, <1>4, <1>5, <1>6, <1>7 DEF Inv

LEMMA PostInv ==
    ASSUME Inv, NEW fn \in {"async_resolve", "cancel"}, post(fn)
    PROVE  Inv'
  <1>1. OneEach /\ TypeParts /\ AnsweredAtMostOnce /\ AttemptInv /\ StopInv
    BY DEF Inv
  <1>2. queue' \in Seq(Ready) /\ Adds(queue, queue', {fn})
    <2>1. fn \in Functions /\ queue \in Seq(Ready) /\ queue' = Append(queue, Posted(fn))
      BY <1>1 DEF Functions, post, TypeParts
    <2>2. QED
      BY <2>1, PostedFacts
  <1>3. fn \in posting /\ posting' = posting \ {fn} /\ ~ Queued(queue, fn)
    BY <1>1 DEF post, AttemptInv, StopInv
  <1>4. TypeParts'
    BY <1>1, <1>2 DEF post, user_vars, TypeParts
  <1>5. OneEach'
    BY <1>1, <1>2, <1>3 DEF post, OneEach, Adds
  <1>6. AnsweredAtMostOnce'
    <2>1. HowMany(queue', "complete") = HowMany(queue, "complete")
      BY <1>2, CountType DEF Adds
    <2>2. QED
      BY <1>1, <2>1 DEF post, AnsweredAtMostOnce
  <1>7. AttemptInv'
    BY <1>1, <1>2, <1>3 DEF post, AttemptInv, Adds
  <1>8. StopInv'
    BY <1>1, <1>2, <1>3 DEF post, user_vars, StopInv, Adds, TypeParts
  <1>9. QED
    BY <1>4, <1>5, <1>6, <1>7, <1>8 DEF Inv

\* A stop that is accepted, in any of its three callers.
LEMMA StopStepInv ==
    ASSUME Inv, async_stop, "stop_singaled" \notin flags,
           UNCHANGED <<on_connection_complete, queue, resolve, connect, stopped, attempts, answered>>,
           owner' \in {"free", "stop", "destructor"}
    PROVE  Inv'
  <1>1. TypeParts /\ OneEach /\ AnsweredAtMostOnce /\ AttemptInv /\ StopInv
    BY DEF Inv
  <1>2. /\ flags' = flags \cup {"stop_singaled", "stopping"}
        /\ on_stopped' = TRUE /\ posting' = posting \cup {"cancel"}
    BY DEF async_stop
  <1>3. TypeParts'
    BY <1>1, <1>2 DEF TypeParts, States
  <1>4. OneEach'
    BY <1>1, <1>2 DEF OneEach
  <1>5. AnsweredAtMostOnce' /\ AttemptInv'
    BY <1>1, <1>2 DEF AnsweredAtMostOnce, AttemptInv
  <1>6. StopInv'
    BY <1>1, <1>2 DEF StopInv, TypeParts
  <1>7. QED
    BY <1>3, <1>4, <1>5, <1>6 DEF Inv

\* Only where the owner is changes.
LEMMA OwnerInv ==
    ASSUME Inv, owner' = "free" \/ owner' = owner,
           UNCHANGED <<flags, on_connection_complete, on_stopped, queue, posting, resolve,
                       connect, stopped, attempts, answered>>
    PROVE  Inv'
  <1>1. TypeParts /\ OneEach /\ AnsweredAtMostOnce /\ AttemptInv /\ StopInv
    BY DEF Inv
  <1>2. TypeParts'
    BY <1>1 DEF TypeParts
  <1>3. OneEach' /\ AnsweredAtMostOnce' /\ AttemptInv'
    BY <1>1 DEF OneEach, AnsweredAtMostOnce, AttemptInv
  <1>4. StopInv'
    BY <1>1 DEF StopInv, TypeParts
  <1>5. QED
    BY <1>2, <1>3, <1>4 DEF Inv

LEMMA ResetInv == Inv /\ reset => Inv'
  <1> SUFFICES ASSUME Inv, reset PROVE Inv'
    OBVIOUS
  <1>1. TypeParts /\ OneEach /\ AnsweredAtMostOnce /\ AttemptInv /\ StopInv
    BY DEF Inv
  <1>2. /\ resolve = "idle" /\ connect = FALSE /\ posting = {}
        /\ flags \subseteq {"stop_singaled"} /\ on_stopped = FALSE
        /\ ~ Queued(queue, "stopped")
    BY <1>1, InvImplies DEF reset, StopIsClean, StopInv, TypeParts
  <1>3. TypeParts'
    BY <1>1 DEF reset, TypeParts
  <1>4. OneEach'
    BY <1>1, <1>2 DEF reset, OneEach
  <1>5. AnsweredAtMostOnce' /\ AttemptInv'
    BY <1>1 DEF reset, AnsweredAtMostOnce, AttemptInv
  <1>6. StopInv'
    BY <1>1, <1>2 DEF reset, StopInv, TypeParts
  <1>7. QED
    BY <1>3, <1>4, <1>5, <1>6 DEF Inv

\* The object goes after its stopped callback has run: nothing is left to abort.
LEMMA ReleaseInv ==
    ASSUME Inv, Release, stopped,
           UNCHANGED <<flags, on_connection_complete, on_stopped, posting, stopped,
                       attempts, answered>>
    PROVE  Inv'
  <1>1. TypeParts /\ OneEach /\ AnsweredAtMostOnce /\ AttemptInv /\ StopInv
    BY DEF Inv
  <1>2. resolve = "idle" /\ connect = FALSE
    BY <1>1, InvImplies DEF StopIsClean, TypeParts
  <1>3. queue \in Seq(Ready) /\ queue' = (queue \o << >>) \o << >>
    BY <1>1, <1>2 DEF Release, TypeParts
  <1>4. queue' = queue
    BY <1>3, AddsNone
  <1>5. resolve' = "idle" /\ connect' = FALSE /\ owner' = "gone"
    BY DEF Release
  <1>6. TypeParts'
    BY <1>1, <1>4, <1>5 DEF TypeParts
  <1>7. OneEach' /\ AnsweredAtMostOnce' /\ AttemptInv'
    BY <1>1, <1>2, <1>4, <1>5 DEF OneEach, AnsweredAtMostOnce, AttemptInv
  <1>8. StopInv'
    BY <1>1, <1>4, <1>5 DEF StopInv, TypeParts
  <1>9. QED
    BY <1>6, <1>7, <1>8 DEF Inv

LEMMA UserInv ==
    ASSUME Inv, async_connect \/ Posting \/ AsyncStop \/ stop \/ reset \/ destructor
                              \/ stop_returns \/ spin
    PROVE  Inv'
  <1>1. CASE async_connect
    BY <1>1, AsyncConnectInv
  <1>2. CASE Posting
    BY <1>2, PostInv DEF Posting
  <1>3. CASE AsyncStop
    <2>1. owner = "free" /\ owner' = owner /\ stopped' = stopped
      BY <1>3 DEF AsyncStop, user_vars
    <2>2. CASE "stop_singaled" \notin flags
      BY <1>3, <2>1, <2>2, StopStepInv DEF AsyncStop
    <2>3. CASE "stop_singaled" \in flags
      BY <1>3, <2>1, <2>3, OwnerInv DEF AsyncStop, async_stop
    <2>4. QED
      BY <2>2, <2>3
  <1>4. CASE stop
    <2>1. CASE "stop_singaled" \notin flags
      BY <1>4, <2>1, StopStepInv DEF stop
    <2>2. CASE "stop_singaled" \in flags
      BY <1>4, <2>2, OwnerInv DEF stop, async_stop
    <2>3. QED
      BY <2>1, <2>2
  <1>5. CASE reset
    BY <1>5, ResetInv
  <1>6. CASE destructor
    <2>1. CASE "stop_singaled" \notin flags
      BY <1>6, <2>1, StopStepInv DEF destructor
    <2>2. CASE "stop_singaled" \in flags
      BY <1>6, <2>2, ReleaseInv DEF destructor
    <2>3. QED
      BY <2>1, <2>2
  <1>7. CASE stop_returns
    <2>1. CASE owner = "stop" /\ owner' = "free" /\ UNCHANGED <<queue, resolve, connect>>
      BY <1>7, <2>1, OwnerInv DEF stop_returns
    <2>2. CASE owner = "destructor" /\ Release
      BY <1>7, <2>2, ReleaseInv DEF stop_returns
    <2>3. QED
      BY <1>7, <2>1, <2>2 DEF stop_returns
  <1>8. CASE spin
    BY <1>8, OwnerInv DEF spin, vars, user_vars
  <1>9. QED
    BY <1>1, <1>2, <1>3, <1>4, <1>5, <1>6, <1>7, <1>8

-----------------------------------------------------------------------------
(***************************************************************************)
(* The io thread.                                                          *)
(***************************************************************************)

\* How a handler that may complete the stop leaves the queue: t is what is left of it,
\* F the functions of the handlers posted, the stopped callback aside.
Leaves(t, F) ==
    /\ queue' \in Seq(Ready)
    /\ \/ /\ on_stopped /\ flags' \cap Progress = {} /\ on_stopped' = FALSE
          /\ Adds(t, queue', F \cup {"stopped"})
       \/ on_stopped' = on_stopped /\ Adds(t, queue', F)

LEMMA LeavesCount ==
    ASSUME Inv, NEW fn, NEW t \in Seq(Ready), Takes(queue, t, fn), NEW F, Leaves(t, F)
    PROVE  /\ HowMany(t, "complete") \in Nat
           /\ HowMany(queue, "complete") =
                 HowMany(t, "complete") + (IF fn = "complete" THEN 1 ELSE 0)
           /\ HowMany(queue', "complete") =
                 HowMany(t, "complete") + (IF "complete" \in F THEN 1 ELSE 0)
  <1>1. HowMany(t, "complete") \in Nat
    BY HowManyType
  <1>2. HowMany(queue, "complete") =
           HowMany(t, "complete") + (IF fn = "complete" THEN 1 ELSE 0)
    BY DEF Takes
  <1>3. HowMany(queue', "complete") =
           HowMany(t, "complete") + (IF "complete" \in F THEN 1 ELSE 0)
    BY DEF Leaves, Adds
  <1>4. QED
    BY <1>1, <1>2, <1>3

\* The part of the invariant about stopping, after a handler other than cancel and
\* stopped that adds no step of an attempt to the flags once a stop was signaled and the
\* callback posted.
LEMMA StopInvAfterHandler ==
    ASSUME Inv, NEW fn \in Functions \ {"cancel", "stopped"}, NEW t, Takes(queue, t, fn),
           NEW F \in SUBSET (Functions \ {"cancel", "stopped"}), Leaves(t, F),
           UNCHANGED <<posting, owner, stopped>>,
           "stopping" \in flags' <=> "stopping" \in flags,
           "stop_singaled" \in flags' <=> "stop_singaled" \in flags,
           flags \cap Progress = {} => flags' \cap Progress = {}
    PROVE  StopInv'
  <1>1. TypeParts /\ StopInv
    BY DEF Inv
  <1>2. CASE /\ on_stopped /\ flags' \cap Progress = {} /\ on_stopped' = FALSE
             /\ Adds(t, queue', F \cup {"stopped"})
    BY <1>1, <1>2 DEF StopInv, TypeParts, Takes, Adds
  <1>3. CASE on_stopped' = on_stopped /\ Adds(t, queue', F)
    BY <1>1, <1>3 DEF StopInv, TypeParts, Takes, Adds
  <1>4. QED
    BY <1>2, <1>3 DEF Leaves

LEMMA AsyncResolveInv == Inv /\ async_resolve => Inv'
  <1> SUFFICES ASSUME Inv, async_resolve PROVE Inv'
    OBVIOUS
  <1> DEFINE t == Tail(queue)
  <1>1. TypeParts /\ OneEach /\ AnsweredAtMostOnce /\ AttemptInv /\ StopInv
    BY DEF Inv
  <1>2. t \in Seq(Ready) /\ Takes(queue, t, "async_resolve")
    BY TakeFacts DEF async_resolve
  <1>3. UNCHANGED <<on_connection_complete, posting, connect, owner, stopped, attempts, answered>>
    BY DEF async_resolve, user_vars
  <1>4. \/ /\ "stop_singaled" \in flags /\ flags' = flags \ {"schedule_resolving"}
           /\ resolve_on_stopped(flags', t, << >>) /\ UNCHANGED resolve
        \/ /\ "stop_singaled" \notin flags
           /\ flags' = (flags \ {"schedule_resolving"}) \cup {"resolving"}
           /\ resolve' = "running" /\ queue' = t /\ UNCHANGED on_stopped
    BY DEF async_resolve
  <1> HIDE DEF t
  <1>5. Leaves(t, {})
    <2>1. CASE resolve_on_stopped(flags', t, << >>)
      BY <1>2, <2>1, ResolveFacts, NothingAfter DEF Leaves
    <2>2. CASE queue' = t /\ UNCHANGED on_stopped
      BY <1>2, <2>2, AddsNone DEF Leaves
    <2>3. QED
      BY <1>4, <2>1, <2>2
  <1>6. /\ \A g : g # "stopped" => (Queued(queue', g) <=> Queued(t, g))
        /\ \A g : g # "stopped" /\ AtMostOnce(t, g) => AtMostOnce(queue', g)
    BY <1>5 DEF Leaves, Adds
  <1>7. "schedule_resolving" \in flags /\ ~ Queued(t, "async_resolve") /\ "async_resolve" \notin posting
    BY <1>1, <1>2 DEF OneEach, AttemptInv, Takes
  <1>8. TypeParts'
    <2>1. queue' \in Seq(Ready) /\ on_stopped' \in BOOLEAN
      BY <1>1, <1>5 DEF Leaves, TypeParts
    <2>2. QED
      BY <1>1, <1>3, <1>4, <2>1 DEF TypeParts, States
  <1>9. OneEach'
    BY <1>1, <1>2, <1>3, <1>4, <1>6, <1>7 DEF OneEach, Takes
  <1>10. AnsweredAtMostOnce'
    <2>1. HowMany(queue', "complete") = HowMany(queue, "complete")
      BY <1>2, <1>5, LeavesCount
    <2>2. QED
      BY <1>1, <1>3, <2>1 DEF AnsweredAtMostOnce
  <1>11. AttemptInv'
    BY <1>1, <1>2, <1>3, <1>4, <1>6, <1>7 DEF AttemptInv, OneEach, Takes
  <1>12. StopInv'
    <2>1. /\ "stopping" \in flags' <=> "stopping" \in flags
          /\ "stop_singaled" \in flags' <=> "stop_singaled" \in flags
          /\ flags \cap Progress = {} => flags' \cap Progress = {}
      BY <1>4, <1>7 DEF Progress
    <2>2. QED
      BY <1>2, <1>3, <1>5, <2>1, StopInvAfterHandler DEF Functions
  <1>13. QED
    BY <1>8, <1>9, <1>10, <1>11, <1>12 DEF Inv

\* The callback is posted before the stop is looked at, after it, or not at all.
LEMMA CompleteLeaves ==
    ASSUME NEW t \in Seq(Ready),
           \/ resolve_on_stopped(flags', t \o complete_error, << >>)
           \/ resolve_on_stopped(flags', t, complete_error)
           \/ queue' = t \o complete_error /\ UNCHANGED on_stopped
    PROVE  Leaves(t, Completing)
  <1> DEFINE c == t \o complete_error
  <1>1. c \in Seq(Ready) /\ Adds(t, c, Completing) /\ Completing \in SUBSET {"complete"}
    BY CompleteAfter DEF Completing
  <1>2. CASE queue' = c /\ UNCHANGED on_stopped
    BY <1>1, <1>2 DEF Leaves
  <1>3. CASE resolve_on_stopped(flags', t, complete_error)
    <2>1. \A r \in Seq(Ready) : r \o complete_error \in Seq(Ready) /\ Adds(r, r \o complete_error, Completing)
      BY CompleteAfter
    <2>2. QED
      BY <1>1, <1>3, <2>1, ResolveFacts DEF Leaves
  <1>4. CASE resolve_on_stopped(flags', c, << >>)
    <2> HIDE DEF c
    <2>1. /\ queue' \in Seq(Ready)
          /\ \/ /\ on_stopped /\ flags' \cap Progress = {} /\ on_stopped' = FALSE
                /\ Adds(c, queue', {} \cup {"stopped"})
             \/ UNCHANGED on_stopped /\ Adds(c, queue', {})
      BY <1>1, <1>4, ResolveFacts, NothingAfter
    <2>2. Completing \cap ({} \cup {"stopped"}) = {} /\ Completing \cap {} = {}
      BY <1>1
    <2>3. ASSUME Adds(c, queue', {} \cup {"stopped"})
          PROVE  Adds(t, queue', Completing \cup ({} \cup {"stopped"}))
      BY <1>1, <2>1, <2>2, <2>3, AddsBoth
    <2>4. ASSUME Adds(c, queue', {})
          PROVE  Adds(t, queue', Completing \cup {})
      BY <1>1, <2>1, <2>2, <2>4, AddsBoth
    <2>5. /\ Completing \cup ({} \cup {"stopped"}) = Completing \cup {"stopped"}
          /\ Completing \cup {} = Completing
      OBVIOUS
    <2>6. QED
      BY <2>1, <2>3, <2>4, <2>5 DEF Leaves
  <1>5. QED
    BY <1>2, <1>3, <1>4

\* A look-up or a connect has failed: the attempt is over, and its callback posted.
LEMMA FailedInv ==
    ASSUME Inv, NEW fn \in {"handle_resolve", "handle_connect"}, Runs(fn),
           flags' = flags \ (IF fn = "handle_resolve" THEN {"resolving"} ELSE {"connecting"}),
           on_connection_complete' = FALSE,
           UNCHANGED <<posting, resolve, connect, owner, stopped, attempts, answered>>,
           \/ resolve_on_stopped(flags', Tail(queue) \o complete_error, << >>)
           \/ resolve_on_stopped(flags', Tail(queue), complete_error)
           \/ queue' = Tail(queue) \o complete_error /\ UNCHANGED on_stopped
    PROVE  Inv'
  <1> DEFINE t == Tail(queue)
  <1>1. TypeParts /\ OneEach /\ AnsweredAtMostOnce /\ AttemptInv /\ StopInv
    BY DEF Inv
  <1>2. t \in Seq(Ready) /\ Takes(queue, t, fn)
    BY TakeFacts
  <1>3. Leaves(t, Completing)
    BY <1>2, CompleteLeaves
  <1> HIDE DEF t
  <1>4. Completing \in SUBSET {"complete"} /\ ("complete" \in Completing <=> on_connection_complete)
    BY DEF Completing
  <1>5. /\ \A g : g \notin {"stopped", "complete"} => (Queued(queue', g) <=> Queued(t, g))
        /\ \A g : g \notin {"stopped", "complete"} /\ AtMostOnce(t, g) => AtMostOnce(queue', g)
    BY <1>3, <1>4 DEF Leaves, Adds
  <1>6. /\ fn = "handle_resolve" => ~ Queued(t, fn) /\ resolve = "idle" /\ "resolving" \in flags
        /\ fn = "handle_connect" => ~ Queued(t, fn) /\ connect = FALSE /\ "connecting" \in flags
    BY <1>1, <1>2 DEF OneEach, AttemptInv, Takes, TypeParts
  <1>7. TypeParts'
    <2>1. queue' \in Seq(Ready) /\ on_stopped' \in BOOLEAN
      BY <1>1, <1>3 DEF Leaves, TypeParts
    <2>2. QED
      BY <1>1, <2>1 DEF TypeParts
  <1>8. OneEach'
    BY <1>1, <1>2, <1>5, <1>6 DEF OneEach, Takes
  <1>9. AnsweredAtMostOnce'
    <2>1. /\ HowMany(t, "complete") \in Nat
          /\ HowMany(queue, "complete") = HowMany(t, "complete")
          /\ HowMany(queue', "complete") =
                HowMany(t, "complete") + (IF on_connection_complete THEN 1 ELSE 0)
      BY <1>2, <1>3, <1>4, LeavesCount
    <2>2. QED
      BY <1>1, <2>1 DEF AnsweredAtMostOnce, TypeParts
  <1>10. AttemptInv'
    BY <1>1, <1>2, <1>5 DEF AttemptInv, Takes
  <1>11. StopInv'
    <2>1. /\ "stopping" \in flags' <=> "stopping" \in flags
          /\ "stop_singaled" \in flags' <=> "stop_singaled" \in flags
          /\ flags \cap Progress = {} => flags' \cap Progress = {}
      BY DEF Progress
    <2>2. Completing \in SUBSET (Functions \ {"cancel", "stopped"})
      BY <1>4 DEF Functions
    <2>3. QED
      BY <1>2, <1>3, <2>1, <2>2, StopInvAfterHandler DEF Functions
  <1>12. QED
    BY <1>7, <1>8, <1>9, <1>10, <1>11 DEF Inv

LEMMA HandleResolveOkInv == Inv /\ handle_resolve_ok => Inv'
  <1> SUFFICES ASSUME Inv, handle_resolve_ok PROVE Inv'
    OBVIOUS
  <1> DEFINE t == Tail(queue)
  <1>1. TypeParts /\ OneEach /\ AnsweredAtMostOnce /\ AttemptInv /\ StopInv
    BY DEF Inv
  <1>2. t \in Seq(Ready) /\ Takes(queue, t, "handle_resolve")
    BY TakeFacts DEF handle_resolve_ok
  <1>3. /\ connect' = TRUE /\ flags' = (flags \cup {"connecting"}) \ {"resolving"}
        /\ UNCHANGED <<on_connection_complete, posting, resolve, owner, stopped, attempts, answered>>
    BY DEF handle_resolve_ok, user_vars
  <1>4. \/ resolve_on_stopped(flags', t, << >>)
        \/ queue' = t /\ UNCHANGED on_stopped
    BY DEF handle_resolve_ok
  <1> HIDE DEF t
  <1>5. Leaves(t, {})
    <2>1. CASE resolve_on_stopped(flags', t, << >>)
      BY <1>2, <2>1, ResolveFacts, NothingAfter DEF Leaves
    <2>2. CASE queue' = t /\ UNCHANGED on_stopped
      BY <1>2, <2>2, AddsNone DEF Leaves
    <2>3. QED
      BY <1>4, <2>1, <2>2
  <1>6. /\ \A g : g # "stopped" => (Queued(queue', g) <=> Queued(t, g))
        /\ \A g : g # "stopped" /\ AtMostOnce(t, g) => AtMostOnce(queue', g)
    BY <1>5 DEF Leaves, Adds
  <1>7. /\ "resolving" \in flags /\ ~ Queued(t, "handle_resolve") /\ resolve = "idle"
        /\ ~ Queued(t, "handle_connect") /\ connect = FALSE
    BY <1>1, <1>2 DEF OneEach, AttemptInv, Takes, TypeParts
  <1>8. TypeParts'
    <2>1. queue' \in Seq(Ready) /\ on_stopped' \in BOOLEAN
      BY <1>1, <1>5 DEF Leaves, TypeParts
    <2>2. QED
      BY <1>1, <1>3, <2>1 DEF TypeParts, States
  <1>9. OneEach'
    BY <1>1, <1>2, <1>3, <1>6, <1>7 DEF OneEach, Takes
  <1>10. AnsweredAtMostOnce'
    <2>1. HowMany(queue', "complete") = HowMany(queue, "complete")
      BY <1>2, <1>5, LeavesCount
    <2>2. QED
      BY <1>1, <1>3, <2>1 DEF AnsweredAtMostOnce
  <1>11. AttemptInv'
    BY <1>1, <1>2, <1>3, <1>6, <1>7 DEF AttemptInv, Takes
  <1>12. StopInv'
    <2>1. /\ "stopping" \in flags' <=> "stopping" \in flags
          /\ "stop_singaled" \in flags' <=> "stop_singaled" \in flags
          /\ flags \cap Progress = {} => flags' \cap Progress = {}
      BY <1>3, <1>7 DEF Progress
    <2>2. QED
      BY <1>2, <1>3, <1>5, <2>1, StopInvAfterHandler DEF Functions
  <1>13. QED
    BY <1>8, <1>9, <1>10, <1>11, <1>12 DEF Inv

LEMMA HandleConnectOkInv == Inv /\ handle_connect_ok => Inv'
  <1> SUFFICES ASSUME Inv, handle_connect_ok PROVE Inv'
    OBVIOUS
  <1> DEFINE t == Tail(queue)
  <1>1. TypeParts /\ OneEach /\ AnsweredAtMostOnce /\ AttemptInv /\ StopInv
    BY DEF Inv
  <1>2. t \in Seq(Ready) /\ Takes(queue, t, "handle_connect")
    BY TakeFacts DEF handle_connect_ok
  <1>3. /\ flags' = flags \ {"connecting"}
        /\ UNCHANGED <<posting, resolve, connect, owner, stopped, attempts>>
    BY DEF handle_connect_ok, user_vars
  <1>4. \/ resolve_on_stopped(flags', t, << >>) /\ UNCHANGED <<on_connection_complete, answered>>
        \/ /\ queue' = t /\ UNCHANGED on_stopped
           /\ answered' = IF on_connection_complete THEN answered + 1 ELSE answered
           /\ on_connection_complete' = FALSE
    BY DEF handle_connect_ok
  <1> HIDE DEF t
  <1>5. Leaves(t, {})
    <2>1. CASE resolve_on_stopped(flags', t, << >>)
      BY <1>2, <2>1, ResolveFacts, NothingAfter DEF Leaves
    <2>2. CASE queue' = t /\ UNCHANGED on_stopped
      BY <1>2, <2>2, AddsNone DEF Leaves
    <2>3. QED
      BY <1>4, <2>1, <2>2
  <1>6. /\ \A g : g # "stopped" => (Queued(queue', g) <=> Queued(t, g))
        /\ \A g : g # "stopped" /\ AtMostOnce(t, g) => AtMostOnce(queue', g)
    BY <1>5 DEF Leaves, Adds
  <1>7. "connecting" \in flags /\ ~ Queued(t, "handle_connect") /\ connect = FALSE
    BY <1>1, <1>2 DEF OneEach, AttemptInv, Takes, TypeParts
  <1>8. TypeParts'
    <2>1. queue' \in Seq(Ready) /\ on_stopped' \in BOOLEAN
      BY <1>1, <1>5 DEF Leaves, TypeParts
    <2>2. on_connection_complete' \in BOOLEAN /\ answered' \in Nat
      <3>1. on_connection_complete \in BOOLEAN /\ answered \in Nat
        BY <1>1 DEF TypeParts
      <3>2. on_connection_complete' = on_connection_complete \/ on_connection_complete' = FALSE
        BY <1>4
      <3>3. answered' = answered \/ answered' = answered + 1
        BY <1>4
      <3>4. on_connection_complete' \in BOOLEAN
        BY <3>1, <3>2, Zenon
      <3>5. answered' \in Nat
        BY <3>1, <3>3
      <3>6. QED
        BY <3>4, <3>5
    <2>3. QED
      BY <1>1, <1>3, <2>1, <2>2 DEF TypeParts
  <1>9. OneEach'
    BY <1>1, <1>2, <1>3, <1>6, <1>7 DEF OneEach, Takes
  <1>10. AnsweredAtMostOnce'
    <2>1. HowMany(queue', "complete") = HowMany(queue, "complete") /\ HowMany(queue, "complete") \in Nat
      BY <1>2, <1>5, LeavesCount
    <2>2. CASE UNCHANGED <<on_connection_complete, answered>>
      BY <1>1, <1>3, <2>1, <2>2 DEF AnsweredAtMostOnce
    <2>3. CASE /\ answered' = IF on_connection_complete THEN answered + 1 ELSE answered
               /\ on_connection_complete' = FALSE
      BY <1>1, <1>3, <2>1, <2>3 DEF AnsweredAtMostOnce, TypeParts
    <2>4. QED
      BY <1>4, <2>2, <2>3
  <1>11. AttemptInv'
    BY <1>1, <1>2, <1>3, <1>6, <1>7 DEF AttemptInv, Takes
  <1>12. StopInv'
    <2>1. /\ "stopping" \in flags' <=> "stopping" \in flags
          /\ "stop_singaled" \in flags' <=> "stop_singaled" \in flags
          /\ flags \cap Progress = {} => flags' \cap Progress = {}
      BY <1>3 DEF Progress
    <2>2. QED
      BY <1>2, <1>3, <1>5, <2>1, StopInvAfterHandler DEF Functions
  <1>13. QED
    BY <1>8, <1>9, <1>10, <1>11, <1>12 DEF Inv

LEMMA RunCancelInv == Inv /\ run_cancel => Inv'
  <1> SUFFICES ASSUME Inv, run_cancel PROVE Inv'
    OBVIOUS
  <1> DEFINE t == Tail(queue)
             aborted == IF connect THEN <<Handler("handle_connect", "aborted", 0)>> ELSE << >>
             A == IF connect THEN {"handle_connect"} ELSE {}
             c == t \o aborted
  <1>1. TypeParts /\ OneEach /\ AnsweredAtMostOnce /\ AttemptInv /\ StopInv
    BY DEF Inv
  <1>2. t \in Seq(Ready) /\ Takes(queue, t, "cancel") /\ owner # "gone"
    BY TakeFacts DEF run_cancel
  <1>3. /\ flags' = flags \ {"stopping"} /\ connect' = FALSE
        /\ resolve' = IF resolve = "idle" THEN "idle" ELSE "cancelled"
        /\ UNCHANGED <<on_connection_complete, posting, owner, stopped, attempts, answered>>
        /\ resolve_on_stopped(flags', c, << >>)
    BY DEF run_cancel, user_vars
  <1>4. c \in Seq(Ready) /\ Adds(t, c, A)
    <2>1. CASE connect
      <3>1. aborted = <<Handler("handle_connect", "aborted", 0)>> /\ A = {"handle_connect"}
        BY <2>1
      <3>2. QED
        BY <1>2, <3>1, ReadyFacts DEF Functions, ErrorCodes
    <2>2. CASE ~connect
      <3>1. aborted = << >> /\ A = {}
        BY <2>2
      <3>2. QED
        BY <1>2, <3>1, AddsNone
    <2>3. QED
      BY <2>1, <2>2
  <1>5. A \subseteq {"handle_connect"} /\ ("handle_connect" \in A <=> connect)
    OBVIOUS
  <1> HIDE DEF t, c, A
  <1>6. /\ queue' \in Seq(Ready)
        /\ \/ /\ on_stopped /\ flags' \cap Progress = {} /\ on_stopped' = FALSE
              /\ Adds(c, queue', {} \cup {"stopped"})
           \/ /\ ~ (on_stopped /\ flags' \cap Progress = {}) /\ on_stopped' = on_stopped
              /\ Adds(c, queue', {})
    BY <1>3, <1>4, ResolveFacts, NothingAfter
  <1>7. /\ \A g : g # "stopped" => (Queued(queue', g) <=> Queued(t, g) \/ g \in A)
        /\ \A g : g # "stopped" /\ AtMostOnce(t, g) /\ ~ (g \in A /\ Queued(t, g)) =>
                     AtMostOnce(queue', g)
        /\ HowMany(queue', "complete") = HowMany(c, "complete")
        /\ HowMany(c, "complete") = HowMany(t, "complete")
    <2>1. HowMany(c, "complete") \in Nat /\ HowMany(t, "complete") \in Nat
      BY <1>2, <1>4, HowManyType
    <2>2. HowMany(queue', "complete") = HowMany(c, "complete")
      BY <1>6, <2>1 DEF Adds
    <2>3. HowMany(c, "complete") = HowMany(t, "complete")
      BY <1>4, <1>5, <2>1 DEF Adds
    <2>4. /\ \A g : g # "stopped" => (Queued(queue', g) <=> Queued(c, g))
          /\ \A g : g # "stopped" /\ AtMostOnce(c, g) => AtMostOnce(queue', g)
      BY <1>6 DEF Adds
    <2>5. /\ \A g : Queued(c, g) <=> Queued(t, g) \/ g \in A
          /\ \A g : AtMostOnce(t, g) /\ ~ (g \in A /\ Queued(t, g)) => AtMostOnce(c, g)
      BY <1>4 DEF Adds
    <2>6. QED
      BY <2>2, <2>3, <2>4, <2>5
  <1>8. /\ "stopping" \in flags /\ "stop_singaled" \in flags /\ ~ Queued(t, "cancel")
        /\ "cancel" \notin posting
        /\ on_stopped = TRUE /\ stopped = FALSE /\ ~ Queued(t, "stopped")
    BY <1>1, <1>2 DEF StopInv, TypeParts, Takes, Progress
  <1>9. TypeParts'
    <2>1. on_stopped' \in BOOLEAN
      BY <1>1, <1>6 DEF TypeParts
    <2>2. QED
      BY <1>1, <1>3, <1>6, <2>1 DEF TypeParts
  <1>10. OneEach'
    BY <1>1, <1>2, <1>3, <1>5, <1>7 DEF OneEach, AttemptInv, Takes, TypeParts
  <1>11. AnsweredAtMostOnce'
    <2>1. HowMany(queue, "complete") = HowMany(t, "complete")
      <3>1. HowMany(t, "complete") \in Nat
        BY <1>2, HowManyType
      <3>2. QED
        BY <1>2, <3>1 DEF Takes
    <2>2. QED
      BY <1>1, <1>3, <1>7, <2>1 DEF AnsweredAtMostOnce
  <1>12. AttemptInv'
    BY <1>1, <1>2, <1>3, <1>5, <1>7 DEF AttemptInv, Takes, TypeParts
  <1>13. StopInv'
    <2>1. AtMostOnce(queue', "cancel") /\ ~ Queued(queue', "cancel")
      BY <1>1, <1>2, <1>5, <1>7, <1>8 DEF StopInv, Takes
    <2>2. ~ Queued(c, "stopped") /\ AtMostOnce(c, "stopped")
      BY <1>1, <1>2, <1>4, <1>5, <1>8 DEF StopInv, Takes, Adds
    <2>3. /\ AtMostOnce(queue', "stopped")
          /\ on_stopped' => ~ Queued(queue', "stopped")
      BY <1>6, <2>2 DEF Adds
    <2>4. /\ "stopping" \notin flags' /\ "stop_singaled" \in flags'
          /\ ~on_stopped' => flags' \cap Progress = {}
      BY <1>3, <1>6, <1>8
    <2>5. QED
      BY <1>2, <1>3, <1>8, <2>1, <2>3, <2>4 DEF StopInv
  <1>14. QED
    BY <1>9, <1>10, <1>11, <1>12, <1>13 DEF Inv

\* The handlers that run a callback of the user and touch nothing else.
LEMMA RunCallbackInv ==
    ASSUME Inv, NEW fn \in {"complete", "stopped"}, Runs(fn), queue' = Tail(queue),
           answered' = IF fn = "complete" THEN answered + 1 ELSE answered,
           fn = "complete" => stopped' = stopped,
           fn = "stopped" => stopped' = TRUE,
           UNCHANGED <<flags, on_connection_complete, on_stopped, posting, resolve, connect,
                       owner, attempts>>
    PROVE  Inv'
  <1>1. TypeParts /\ OneEach /\ AnsweredAtMostOnce /\ AttemptInv /\ StopInv
    BY DEF Inv
  <1>2. queue' \in Seq(Ready) /\ Takes(queue, queue', fn) /\ owner # "gone"
    BY TakeFacts
  <1>3. TypeParts'
    <2>1. stopped' \in BOOLEAN
      <3>1. stopped' = stopped \/ stopped' = TRUE
        OBVIOUS
      <3>2. QED
        BY <1>1, <3>1, Zenon DEF TypeParts
    <2>2. answered' \in Nat
      BY <1>1 DEF TypeParts
    <2>3. QED
      BY <1>1, <1>2, <2>1, <2>2 DEF TypeParts
  <1>4. OneEach'
    BY <1>1, <1>2 DEF OneEach, Takes
  <1>5. AnsweredAtMostOnce'
    <2>1. HowMany(queue', "complete") \in Nat
      BY <1>2, HowManyType
    <2>2. HowMany(queue, "complete") = HowMany(queue', "complete") + (IF fn = "complete" THEN 1 ELSE 0)
      BY <1>2 DEF Takes
    <2>3. QED
      BY <1>1, <2>1, <2>2 DEF AnsweredAtMostOnce, TypeParts
  <1>6. AttemptInv'
    BY <1>1, <1>2 DEF AttemptInv, Takes
  <1>7. StopInv'
    <2>1. CASE fn = "complete"
      BY <1>1, <1>2, <2>1 DEF StopInv, Takes, TypeParts
    <2>2. CASE fn = "stopped"
      BY <1>1, <1>2, <2>2 DEF StopInv, Takes, TypeParts
    <2>3. QED
      BY <2>1, <2>2
  <1>8. QED
    BY <1>3, <1>4, <1>5, <1>6, <1>7 DEF Inv

LEMMA IoThreadInv == Inv /\ IoThread => Inv'
  <1> SUFFICES ASSUME Inv, IoThread PROVE Inv'
    OBVIOUS
  <1>1. CASE handle_resolve_error
    <2>1. UNCHANGED <<owner, stopped>>
      BY <1>1 DEF handle_resolve_error, user_vars
    <2>2. QED
      BY <1>1, <2>1, FailedInv DEF handle_resolve_error
  <1>2. CASE handle_connect_error
    <2>1. UNCHANGED <<owner, stopped>>
      BY <1>2 DEF handle_connect_error, user_vars
    <2>2. QED
      BY <1>2, <2>1, FailedInv DEF handle_connect_error
  <1>3. CASE run_complete
    <2>1. UNCHANGED <<owner, stopped>>
      BY <1>3 DEF run_complete, user_vars
    <2>2. QED
      BY <1>3, <2>1, RunCallbackInv DEF run_complete
  <1>4. CASE run_stopped
    BY <1>4, RunCallbackInv DEF run_stopped
  <1>5. QED
    BY <1>1, <1>2, <1>3, <1>4, AsyncResolveInv, HandleResolveOkInv, HandleConnectOkInv,
       RunCancelInv DEF IoThread

-----------------------------------------------------------------------------
(***************************************************************************)
(* The resolver and the operating system.                                  *)
(***************************************************************************)
LEMMA AnswersInv ==
    ASSUME Inv, NEW fn \in {"handle_resolve", "handle_connect"}, NEW ec \in ErrorCodes,
           owner # "gone", queue' = Append(queue, Handler(fn, ec, 0)),
           IF fn = "handle_resolve" THEN resolve # "idle" /\ resolve' = "idle" /\ UNCHANGED connect
                                    ELSE connect /\ connect' = FALSE /\ UNCHANGED resolve,
           UNCHANGED <<flags, on_connection_complete, on_stopped, posting, owner, stopped,
                       attempts, answered>>
    PROVE  Inv'
  <1>1. TypeParts /\ OneEach /\ AnsweredAtMostOnce /\ AttemptInv /\ StopInv
    BY DEF Inv
  <1>2. queue' \in Seq(Ready) /\ Adds(queue, queue', {fn})
    <2>1. fn \in Functions /\ queue \in Seq(Ready)
      BY <1>1 DEF Functions, TypeParts
    <2>2. QED
      BY <2>1, ReadyFacts
  <1>3. ~ Queued(queue, fn)
    BY <1>1 DEF AttemptInv
  <1>4. TypeParts'
    BY <1>1, <1>2 DEF TypeParts
  <1>5. OneEach'
    BY <1>1, <1>2, <1>3 DEF OneEach, Adds, TypeParts
  <1>6. AnsweredAtMostOnce'
    <2>1. HowMany(queue', "complete") = HowMany(queue, "complete")
      BY <1>2, CountType DEF Adds
    <2>2. QED
      BY <1>1, <2>1 DEF AnsweredAtMostOnce
  <1>7. AttemptInv'
    BY <1>1, <1>2 DEF AttemptInv, Adds
  <1>8. StopInv'
    BY <1>1, <1>2 DEF StopInv, Adds, TypeParts
  <1>9. QED
    BY <1>4, <1>5, <1>6, <1>7, <1>8 DEF Inv

LEMMA NextInv == Inv /\ [Next]_vars => Inv'
  <1> SUFFICES ASSUME Inv, [Next]_vars PROVE Inv'
    OBVIOUS
  <1>1. CASE UNCHANGED vars
    BY <1>1, OwnerInv DEF vars, user_vars
  <1>2. CASE Terminated
    BY <1>2, OwnerInv DEF Terminated, vars, user_vars
  <1>3. CASE resolve_completes
    <2>1. PICK ec \in IF resolve = "running" THEN {"ok", "failed"} ELSE {"aborted"} :
             queue' = Append(queue, Handler("handle_resolve", ec, 0))
      BY <1>3 DEF resolve_completes
    <2>2. ec \in ErrorCodes
      BY DEF ErrorCodes
    <2>3. UNCHANGED <<owner, stopped>>
      BY <1>3 DEF resolve_completes, user_vars
    <2>4. QED
      BY <1>3, <2>1, <2>2, <2>3, AnswersInv DEF resolve_completes
  <1>4. CASE connect_completes
    <2>1. PICK ec \in {"ok", "failed"} : queue' = Append(queue, Handler("handle_connect", ec, 0))
      BY <1>4 DEF connect_completes
    <2>2. ec \in ErrorCodes
      BY DEF ErrorCodes
    <2>3. UNCHANGED <<owner, stopped>>
      BY <1>4 DEF connect_completes, user_vars
    <2>4. QED
      BY <1>4, <2>1, <2>2, <2>3, AnswersInv DEF connect_completes
  <1>5. QED
    BY <1>1, <1>2, <1>3, <1>4, UserInv, IoThreadInv DEF Next

\* Whatever the user, the resolver and the operating system do: never more than one
\* attempt is in progress and each flag of tcp_client.cpp stands for its step, a callback
\* given to async_connect is called once at most, and when the stopped callback has run
\* nothing of the attempt is left but, possibly, the call of its callback.
THEOREM ClientSafe == Spec => [](OneAttempt /\ StopIsClean /\ AnsweredAtMostOnce)
  <1>1. Inv => OneAttempt /\ StopIsClean /\ AnsweredAtMostOnce
    BY InvImplies
  <1>2. QED
    BY <1>1, InitInv, NextInv, PTL DEF Spec
=============================================================================
