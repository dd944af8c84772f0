---------------------- MODULE UdpDiscoveryClientProofs ----------------------
(***************************************************************************)
(* Proofs about UdpDiscoveryClient, for every number of runs and all       *)
(* combinations of failing directions, when reset() comes after nothing is *)
(* left of the run before: one request at most is on its way or scheduled, *)
(* a started client listens, and a stopped one sends nothing.              *)
(***************************************************************************)
EXTENDS UdpDiscoveryClient, BufferAndQueueLemmas

USE DiscoveryClientAssumption

-----------------------------------------------------------------------------
(***************************************************************************)
(* The inductive invariant.  One receive at most is outstanding or         *)
(* completed; a completed one that will not be followed by another is the  *)
(* work of a failure (deaf) or of a stop.  The request is in one of four   *)
(* places: being sent, sent, waited for, expired; the two flags tell       *)
(* which.  The lambda of async_start is posted once and finds nothing of   *)
(* an earlier run: this is what a reset() that comes too early destroys.   *)
(* on_stopped is held, posted when neither the flags nor a pending start   *)
(* stand in the way, then has run.                                         *)
(***************************************************************************)
Ready == [fn : Functions, ec : ErrorCodes, n : 0 .. 1]

\* Handlers that end the reception.
Endings == {h \in Ready : h.fn = "handle_response" /\ ~ (h.ec = "ok" /\ h.n > 0)}

StartPending == "start" \in posting \/ Queued(queue, "start")

ListenInv ==
    /\ AtMostOnce(queue, "handle_response")
    /\ Queued(queue, "handle_response") => receives = 0
    /\ "receiving_async" \in flags => receives = 1 \/ Queued(queue, "handle_response")
    /\ Waiting(queue, Endings) => deaf \/ "stopping" \in flags
    /\ Listening

RequestInv ==
    /\ AtMostOnce(queue, "handle_send_complete") /\ AtMostOnce(queue, "handle_timeout")
    /\ Queued(queue, "handle_send_complete") => sends = 0
    /\ Queued(queue, "handle_timeout") => ~timer
    /\ "sending_async" \in flags <=> sends = 1 \/ Queued(queue, "handle_send_complete")
    /\ "timer_running" \in flags <=> timer \/ Queued(queue, "handle_timeout")
    /\ ~ ("sending_async" \in flags /\ "timer_running" \in flags)

StartInv ==
    /\ AtMostOnce(queue, "start") /\ ~ ("start" \in posting /\ Queued(queue, "start"))
    /\ StartPending => "running" \in flags /\ flags \subseteq {"running", "stopping"}
    /\ "running" \notin flags => flags \subseteq {"stopping"}
    /\ StartPending \/ "running" \notin flags =>
          receives = 0 /\ ~ Queued(queue, "handle_response")

StopInv ==
    /\ AtMostOnce(queue, "stopped")
    /\ "stopping" \notin flags =>
          /\ ~on_stopped /\ ~stopped /\ ~ Queued(queue, "stopped") /\ owner = "free"
          /\ "cancel" \notin posting /\ ~ Queued(queue, "cancel")
    /\ "stopping" \in flags /\ ~on_stopped =>
          flags \subseteq {"running", "stopping"} /\ ~StartPending
    /\ on_stopped => ~stopped /\ ~ Queued(queue, "stopped")
    /\ stopped => ~ Queued(queue, "stopped")
    /\ owner = "gone" => stopped /\ posting = {}

Inv == TypeOK /\ ListenInv /\ RequestInv /\ StartInv /\ StopInv

LEMMA InvImplies == Inv => OneRequest /\ Listening /\ StopIsQuiet
  <1> SUFFICES ASSUME Inv PROVE OneRequest /\ Listening /\ StopIsQuiet
    OBVIOUS
  <1>1. TypeOK /\ ListenInv /\ RequestInv /\ StartInv /\ StopInv
    BY DEF Inv
  <1>2. OneRequest
    BY <1>1 DEF OneRequest, RequestInv
  <1>3. Listening
    BY <1>1 DEF ListenInv
  <1>4. StopIsQuiet
    <2>1. SUFFICES ASSUME stopped
                   PROVE  /\ sends = 0 /\ ~timer /\ "start" \notin posting
                          /\ flags \subseteq {"running", "stopping"}
                          /\ \A i \in DOMAIN queue : queue[i].fn \in {"cancel", "handle_response"}
      BY DEF StopIsQuiet
    <2>2. flags \subseteq {"running", "stopping"} /\ ~StartPending /\ ~ Queued(queue, "stopped")
      BY <1>1, <2>1 DEF StopInv, TypeOK
    <2>3. /\ sends = 0 /\ ~timer
          /\ ~ Queued(queue, "handle_send_complete") /\ ~ Queued(queue, "handle_timeout")
      BY <1>1, <2>2 DEF RequestInv, TypeOK
    <2>4. "start" \notin posting /\ ~ Queued(queue, "start")
      BY <2>2 DEF StartPending
    <2>5. ASSUME NEW i \in DOMAIN queue
          PROVE  queue[i].fn \in {"cancel", "handle_response"}
      <3>1. queue[i] \in Ready
        <4>1. queue \in Seq(Ready)
          BY <1>1 DEF TypeOK, Ready
        <4>2. QED
          BY <4>1
      <3>2. queue[i].fn \in Functions
        BY <3>1 DEF Ready
      <3>3. queue[i].fn \notin {"start", "stopped", "handle_send_complete", "handle_timeout"}
        BY <2>2, <2>3, <2>4 DEF Queued
      <3>4. QED
        BY <3>2, <3>3 DEF Functions
    <2>6. QED
      BY <2>2, <2>3, <2>4, <2>5
  <1>5. QED
    BY <1>2, <1>3, <1>4

-----------------------------------------------------------------------------
(***************************************************************************)
(* Handlers become ready: r has those of q and one for each function of F. *)
(***************************************************************************)
Gains(q, r, F) ==
    /\ r \in Seq(Ready)
    /\ \A g : Queued(r, g) <=> Queued(q, g) \/ g \in F
    /\ \A g : AtMostOnce(q, g) /\ ~ (g \in F /\ Queued(q, g)) => AtMostOnce(r, g)
    /\ "handle_response" \notin F => (Waiting(r, Endings) <=> Waiting(q, Endings))

LEMMA HandlerReady ==
    \A fn \in Functions, ec \in ErrorCodes, n \in 0 .. 1 :
        /\ Handler(fn, ec, n) \in Ready /\ Handler(fn, ec, n).fn = fn
        /\ Handler(fn, ec, n) \in Endings <=> fn = "handle_response" /\ ~ (ec = "ok" /\ n = 1)
  BY DEF Handler, Ready, Endings

LEMMA GainsNone == \A q \in Seq(Ready) : Gains(q, q, {})
  BY DEF Gains

LEMMA GainsOne ==
    \A q \in Seq(Ready), fn \in Functions, ec \in ErrorCodes, n \in 0 .. 1 :
        /\ Gains(q, Append(q, Handler(fn, ec, n)), {fn})
        /\ ec = "ok" /\ n = 1 =>
              (Waiting(Append(q, Handler(fn, ec, n)), Endings) <=> Waiting(q, Endings))
  <1>1. TAKE q \in Seq(Ready), fn \in Functions, ec \in ErrorCodes, n \in 0 .. 1
  <1> DEFINE h == Handler(fn, ec, n)
             r == Append(q, h)
  <1>2. h \in Ready /\ h.fn = fn /\ (h \in Endings => fn = "handle_response" /\ ~ (ec = "ok" /\ n = 1))
    BY HandlerReady
  <1> HIDE DEF h
  <1>3. /\ r \in Seq(Ready)
        /\ \A g : Queued(r, g) <=> Queued(q, g) \/ g = fn
        /\ \A g : AtMostOnce(q, g) /\ ~ (g = fn /\ Queued(q, g)) => AtMostOnce(r, g)
    BY <1>2, AppendFacts
  <1>4. Waiting(r, Endings) <=> Waiting(q, Endings) \/ h \in Endings
    BY <1>2, WaitingAppend
  <1> HIDE DEF r
  <1>5. Gains(q, r, {fn}) /\ (ec = "ok" /\ n = 1 => (Waiting(r, Endings) <=> Waiting(q, Endings)))
    BY <1>2, <1>3, <1>4 DEF Gains
  <1>6. QED
    BY <1>5 DEF h, r

LEMMA GainsPosted ==
    \A q \in Seq(Ready), fn \in Functions : Gains(q, Append(q, Posted(fn)), {fn})
  <1>1. "ok" \in ErrorCodes /\ 0 \in 0 .. 1
    BY DEF ErrorCodes
  <1>2. QED
    BY <1>1, GainsOne DEF Posted

LEMMA GainsBoth ==
    ASSUME NEW q, NEW r, NEW s, NEW F, NEW G, Gains(q, r, F), Gains(r, s, G), F \cap G = {}
    PROVE  Gains(q, s, F \cup G)
  <1>1. s \in Seq(Ready)
    BY DEF Gains
  <1>2. \A g : Queued(s, g) <=> Queued(q, g) \/ g \in F \cup G
    BY DEF Gains
  <1>3. ASSUME NEW g, AtMostOnce(q, g), ~ (g \in F \cup G /\ Queued(q, g))
        PROVE  AtMostOnce(s, g)
    <2>1. AtMostOnce(r, g)
      BY <1>3 DEF Gains
    <2>2. ~ (g \in G /\ Queued(r, g))
      BY <1>3 DEF Gains
    <2>3. QED
      BY <2>1, <2>2 DEF Gains
  <1>4. "handle_response" \notin F \cup G => (Waiting(s, Endings) <=> Waiting(q, Endings))
    BY DEF Gains
  <1>5. QED
    BY <1>1, <1>2, <1>3, <1>4 DEF Gains

\* cancel() on an object with k outstanding operations.
LEMMA GainsCancelled ==
    ASSUME NEW q \in Seq(Ready), NEW k \in 0 .. 1, NEW fn \in Functions
    PROVE  Gains(q, q \o Repeat(k, fn), {g \in {fn} : k = 1})
  <1> DEFINE a == Cancelled(k, fn)
             r == q \o a
  <1>1. k \in Nat /\ k <= 1 /\ (k > 0 <=> k = 1)
    OBVIOUS
  <1>2. /\ Handler(fn, "aborted", 0) \in Ready
        /\ Handler(fn, "aborted", 0) \in Endings => fn = "handle_response"
    <2>1. "aborted" \in ErrorCodes /\ 0 \in 0 .. 1
      BY DEF ErrorCodes
    <2>2. QED
      BY <2>1, HandlerReady
  <1>3. /\ \A g : Queued(a, g) <=> fn = g /\ k = 1
        /\ \A g : AtMostOnce(a, g)
        /\ k = 0 => a = << >>
    BY <1>1, CancelledFacts
  <1>4. a \in Seq(Ready)
    BY <1>1, <1>2, CancelledIn
  <1>5. fn # "handle_response" => ~ Waiting(a, Endings)
    BY <1>1, <1>2, WaitingCancelled
  <1>6. k = 0 => ~ Waiting(a, Endings)
    BY <1>3, WaitingEmpty
  <1> HIDE DEF a
  <1>7. /\ r \in Seq(Ready)
        /\ \A g : Queued(r, g) <=> Queued(q, g) \/ Queued(a, g)
        /\ \A g : AtMostOnce(q, g) /\ AtMostOnce(a, g) /\ ~ (Queued(q, g) /\ Queued(a, g)) =>
                     AtMostOnce(r, g)
        /\ Waiting(r, Endings) <=> Waiting(q, Endings) \/ Waiting(a, Endings)
    BY <1>4, ConcatFacts, WaitingConcat
  <1> HIDE DEF r
  <1>8. "handle_response" \notin {g \in {fn} : k = 1} => ~ Waiting(a, Endings)
    BY <1>1, <1>5, <1>6
  <1>9. Gains(q, r, {g \in {fn} : k = 1})
    BY <1>3, <1>7, <1>8 DEF Gains
  <1>10. QED
    BY <1>9 DEF r, a, Cancelled, Repeat

\* Everything outstanding is cancelled: timer t, k receives, m sends.
CancelAll(q, t, k, m) == q \o (IF t THEN Repeat(1, "handle_timeout") ELSE << >>)
                           \o Repeat(k, "handle_response") \o Repeat(m, "handle_send_complete")

AllCancelled(t, k, m) == {g \in {"handle_timeout"} : t} \cup {g \in {"handle_response"} : k = 1}
                            \cup {g \in {"handle_send_complete"} : m = 1}

LEMMA CancelGains ==
    ASSUME NEW q \in Seq(Ready), NEW t \in BOOLEAN, NEW k \in 0 .. 1, NEW m \in 0 .. 1
    PROVE  Gains(q, CancelAll(q, t, k, m), AllCancelled(t, k, m))
  <1> DEFINE F == {g \in {"handle_timeout"} : t}
             G == {g \in {"handle_response"} : k = 1}
             H == {g \in {"handle_send_complete"} : m = 1}
             a == q \o (IF t THEN Repeat(1, "handle_timeout") ELSE << >>)
             b == a \o Repeat(k, "handle_response")
             c == b \o Repeat(m, "handle_send_complete")
  <1>1. /\ "handle_timeout" \in Functions /\ "handle_response" \in Functions
        /\ "handle_send_complete" \in Functions
    BY DEF Functions
  <1>2. Gains(q, a, F)
    <2>1. CASE t
      <3>1. 1 \in 0 .. 1 /\ a = q \o Repeat(1, "handle_timeout")
        BY <2>1
      <3>2. Gains(q, q \o Repeat(1, "handle_timeout"), {g \in {"handle_timeout"} : 1 = 1})
        BY <1>1, <3>1, GainsCancelled
      <3>3. {g \in {"handle_timeout"} : 1 = 1} = F
        BY <2>1
      <3>4. QED
        BY <3>1, <3>2, <3>3
    <2>2. CASE ~t
      <3>1. a = q /\ F = {}
        BY <2>2
      <3>2. QED
        BY <3>1, GainsNone
    <2>3. QED
      BY <2>1, <2>2
  <1> HIDE DEF a
  <1>3. Gains(a, b, G)
    <2>1. a \in Seq(Ready)
      BY <1>2 DEF Gains
    <2>2. QED
      BY <1>1, <2>1, GainsCancelled
  <1> HIDE DEF b
  <1>4. Gains(b, c, H)
    <2>1. b \in Seq(Ready)
      BY <1>3 DEF Gains
    <2>2. QED
      BY <1>1, <2>1, GainsCancelled
  <1>5. F \cap G = {} /\ (F \cup G) \cap H = {}
    OBVIOUS
  <1> HIDE DEF F, G, H, c
  <1>6. Gains(q, b, F \cup G)
    BY <1>2, <1>3, <1>5, GainsBoth
  <1>7. Gains(q, c, F \cup G \cup H)
    BY <1>4, <1>5, <1>6, GainsBoth
  <1>8. QED
    BY <1>7 DEF a, b, c, F, G, H, CancelAll, AllCancelled

\* The io thread takes a handler that calls fn: r is left.
Loses(q, r, fn) ==
    /\ r \in Seq(Ready)
    /\ \A g : Queued(q, g) <=> g = fn \/ Queued(r, g)
    /\ \A g : AtMostOnce(q, g) => AtMostOnce(r, g)
    /\ AtMostOnce(q, fn) => ~ Queued(r, fn)
    /\ Waiting(r, Endings) => Waiting(q, Endings)

LEMMA TakeFacts ==
    ASSUME Inv, NEW fn, Runs(fn)
    PROVE  /\ Loses(queue, Tail(queue), fn)
           /\ Head(queue) \in Ready /\ Head(queue).fn = fn
           /\ Head(queue) \in Endings => Waiting(queue, Endings)
           /\ owner # "gone"
  <1>1. queue \in Seq(Ready) /\ queue # << >> /\ Head(queue).fn = fn /\ owner # "gone"
    BY DEF Inv, TypeOK, Ready, Runs, Next_is
  <1>2. /\ Tail(queue) \in Seq(Ready) /\ Head(queue) \in Ready
        /\ \A g : Queued(queue, g) <=> Head(queue).fn = g \/ Queued(Tail(queue), g)
        /\ \A g : AtMostOnce(queue, g) => AtMostOnce(Tail(queue), g)
        /\ \A g : AtMostOnce(queue, g) /\ Head(queue).fn = g => ~ Queued(Tail(queue), g)
    BY <1>1, TailFacts
  <1>3. Waiting(queue, Endings) <=> Head(queue) \in Endings \/ Waiting(Tail(queue), Endings)
    BY <1>1, WaitingTail
  <1>4. Loses(queue, Tail(queue), fn)
    BY <1>1, <1>2, <1>3 DEF Loses
  <1>5. QED
    BY <1>1, <1>2, <1>3, <1>4

\* The stopped callback is posted, or not.
LEMMA ResolveFacts ==
    ASSUME NEW f, NEW q \in Seq(Ready), resolve_on_stopped(f, q)
    PROVE  \/ /\ on_stopped /\ "stopping" \in f /\ on_stopped' = FALSE
              /\ f \cap {"receiving_async", "sending_async", "timer_running"} = {}
              /\ Gains(q, queue', {"stopped"})
           \/ on_stopped' = on_stopped /\ Gains(q, queue', {})
  <1>1. "stopped" \in Functions
    BY DEF Functions
  <1>2. QED
    BY <1>1, GainsPosted, GainsNone DEF resolve_on_stopped

-----------------------------------------------------------------------------
(***************************************************************************)
(* User threads.                                                           *)
(***************************************************************************)
LEMMA InitInv == Init => Inv
  <1> SUFFICES ASSUME Init PROVE Inv
    OBVIOUS
  <1>1. queue = << >> /\ queue \in Seq([fn : Functions, ec : ErrorCodes, n : 0 .. 1])
    BY DEF Init
  <1>2. TypeOK
    <2>1. /\ on_stopped \in BOOLEAN /\ timer \in BOOLEAN /\ stopped \in BOOLEAN /\ deaf \in BOOLEAN
      BY DEF Init
    <2>2. QED
      BY <1>1, <2>1 DEF Init, TypeOK
  <1>3. ListenInv
    BY <1>1, EmptyFacts, WaitingEmpty DEF Init, ListenInv, Listening
  <1>4. RequestInv /\ StartInv
    BY <1>1, EmptyFacts DEF Init, RequestInv, StartInv, StartPending
  <1>5. StopInv
    BY <1>1, EmptyFacts DEF Init, StopInv
  <1>6. QED
    BY <1>2, <1>3, <1>4, <1>5 DEF Inv

\* Only where the owner is changes.
LEMMA FrameInv ==
    ASSUME Inv, owner' = "free" \/ owner' = owner,
           UNCHANGED <<flags, on_stopped, queue, posting, receives, sends, timer, stopped,
                       starts, faults, deaf>>
    PROVE  Inv'
  <1>1. TypeOK /\ ListenInv /\ RequestInv /\ StartInv /\ StopInv
    BY DEF Inv
  <1>2. TypeOK'
    BY <1>1 DEF TypeOK
  <1>3. ListenInv' /\ RequestInv' /\ StartInv'
    BY <1>1 DEF ListenInv, Listening, RequestInv, StartInv, StartPending
  <1>4. StopInv'
    BY <1>1 DEF StopInv, TypeOK, StartPending
  <1>5. QED
    BY <1>2, <1>3, <1>4 DEF Inv

LEMMA AsyncStartInv == Inv /\ async_start => Inv'
  <1> SUFFICES ASSUME Inv, async_start PROVE Inv'
    OBVIOUS
  <1>1. TypeOK /\ ListenInv /\ RequestInv /\ StartInv /\ StopInv
    BY DEF Inv
  <1>2. flags = {} /\ flags' = {"running"}
    BY <1>1 DEF async_start, StartInv
  <1>3. UNCHANGED <<on_stopped, queue, receives, sends, timer, owner, stopped, faults, deaf>>
    BY DEF async_start, env_vars
  <1>4. ~StartPending /\ StartPending' /\ posting' = posting \cup {"start"}
    BY <1>1, <1>2 DEF async_start, StartInv, StartPending
  <1>5. TypeOK'
    <2>1. starts' \in 0 .. MaxStarts
      BY <1>1 DEF async_start, TypeOK
    <2>2. flags' \subseteq States
      BY <1>2 DEF States
    <2>3. QED
      BY <1>1, <1>3, <1>4, <2>1, <2>2 DEF TypeOK
  <1>6. ListenInv'
    BY <1>1, <1>2, <1>3, <1>4 DEF ListenInv, Listening
  <1>7. RequestInv'
    BY <1>1, <1>2, <1>3 DEF RequestInv
  <1>8. StartInv'
    BY <1>1, <1>2, <1>3, <1>4 DEF StartInv, StartPending
  <1>9. StopInv'
    BY <1>1, <1>2, <1>3, <1>4 DEF StopInv, TypeOK
  <1>10. QED
    BY <1>5, <1>6, <1>7, <1>8, <1>9 DEF Inv

LEMMA PostInv ==
    ASSUME Inv, NEW fn \in {"start", "cancel"}, post(fn)
    PROVE  Inv'
  <1>1. TypeOK /\ ListenInv /\ RequestInv /\ StartInv /\ StopInv
    BY DEF Inv
  <1>2. Gains(queue, queue', {fn})
    <2>1. fn \in Functions /\ queue \in Seq(Ready)
      BY <1>1 DEF Functions, TypeOK, Ready
    <2>2. QED
      BY <2>1, GainsPosted DEF post
  <1>3. /\ queue' \in Seq(Ready)
        /\ \A g : Queued(queue', g) <=> Queued(queue, g) \/ g = fn
        /\ \A g : AtMostOnce(queue, g) /\ ~ (g = fn /\ Queued(queue, g)) => AtMostOnce(queue', g)
        /\ Waiting(queue', Endings) <=> Waiting(queue, Endings)
    BY <1>2 DEF Gains
  <1>4. /\ fn \in posting /\ posting' = posting \ {fn}
        /\ UNCHANGED <<flags, on_stopped, receives, sends, timer, owner, stopped, starts, faults, deaf>>
    BY DEF post, user_vars, env_vars
  <1>5. StartPending' <=> StartPending
    BY <1>3, <1>4 DEF StartPending
  <1>6. TypeOK'
    BY <1>1, <1>3, <1>4 DEF TypeOK, Ready
  <1>7. ListenInv'
    <2>1. Listening'
      BY <1>1, <1>3, <1>4, <1>5 DEF ListenInv, Listening, StartPending
    <2>2. QED
      BY <1>1, <1>3, <1>4, <2>1 DEF ListenInv
  <1>8. RequestInv'
    BY <1>1, <1>3, <1>4 DEF RequestInv
  <1>9. StartInv'
    <2>1. AtMostOnce(queue', "start") /\ ~ ("start" \in posting' /\ Queued(queue', "start"))
      BY <1>1, <1>3, <1>4 DEF StartInv
    <2>2. Queued(queue', "handle_response") <=> Queued(queue, "handle_response")
      BY <1>3
    <2>3. QED
      BY <1>1, <1>4, <1>5, <2>1, <2>2 DEF StartInv
  <1>10. StopInv'
    BY <1>1, <1>3, <1>4, <1>5 DEF StopInv, TypeOK
  <1>11. QED
    BY <1>6, <1>7, <1>8, <1>9, <1>10 DEF Inv

\* A stop that is accepted, in any of its three callers.
LEMMA StopStepInv ==
    ASSUME Inv, async_stop, "stopping" \notin flags,
           UNCHANGED <<queue, receives, sends, timer, stopped, starts, faults, deaf>>,
           owner' \in {"free", "stop", "destructor"}
    PROVE  Inv'
  <1>1. TypeOK /\ ListenInv /\ RequestInv /\ StartInv /\ StopInv
    BY DEF Inv
  <1>2. /\ flags' = flags \cup {"stopping"} /\ on_stopped' = TRUE
        /\ posting' = posting \cup {"cancel"}
    BY DEF async_stop
  <1>3. StartPending' <=> StartPending
    BY <1>2 DEF StartPending
  <1>4. TypeOK'
    <2>1. flags' \subseteq States
      BY <1>1, <1>2 DEF TypeOK, States
    <2>2. QED
      BY <1>1, <1>2, <2>1 DEF TypeOK
  <1>5. ListenInv'
    BY <1>1, <1>2 DEF ListenInv, Listening
  <1>6. RequestInv'
    BY <1>1, <1>2 DEF RequestInv
  <1>7. StartInv'
    BY <1>1, <1>2, <1>3 DEF StartInv
  <1>8. StopInv'
    BY <1>1, <1>2, <1>3 DEF StopInv, TypeOK
  <1>9. QED
    BY <1>4, <1>5, <1>6, <1>7, <1>8 DEF Inv

\* reset() when nothing of the run before is left.
LEMMA ResetInv == Inv /\ reset /\ ~StaleResets => Inv'
  <1> SUFFICES ASSUME Inv, reset, ~StaleResets PROVE Inv'
    OBVIOUS
  <1>1. TypeOK /\ ListenInv /\ RequestInv /\ StartInv /\ StopInv
    BY DEF Inv
  <1>2. /\ queue = << >> /\ receives = 0 /\ posting = {} /\ flags' = {} /\ stopped' = FALSE
        /\ owner = "free" /\ stopped /\ deaf' = FALSE
        /\ UNCHANGED <<on_stopped, queue, posting, receives, sends, timer, owner, starts, faults>>
    BY DEF reset
  <1>3. sends = 0 /\ ~timer
    BY <1>2, InvImplies DEF StopIsQuiet
  <1>4. on_stopped = FALSE
    BY <1>1, <1>2 DEF StopInv, TypeOK
  <1>5. ~StartPending'
    BY <1>2, EmptyFacts DEF StartPending
  <1>6. TypeOK'
    BY <1>1, <1>2 DEF TypeOK
  <1>7. ListenInv'
    BY <1>2, EmptyFacts, WaitingEmpty DEF ListenInv, Listening
  <1>8. RequestInv'
    BY <1>2, <1>3, EmptyFacts DEF RequestInv
  <1>9. StartInv'
    BY <1>2, <1>5, EmptyFacts DEF StartInv
  <1>10. StopInv'
    BY <1>2, <1>4, EmptyFacts DEF StopInv
  <1>11. QED
    BY <1>6, <1>7, <1>8, <1>9, <1>10 DEF Inv

\* A cancellation of everything outstanding while the client is being stopped, by the
\* lambda of async_stop (q is the rest of the queue) or by the end of the members.
LEMMA CancelStepInv ==
    ASSUME Inv, NEW q \in Seq(Ready), "stopping" \in flags,
           \A g : g # "cancel" => (Queued(queue, g) <=> Queued(q, g)),
           \A g : AtMostOnce(queue, g) => AtMostOnce(q, g),
           queue' = CancelAll(q, timer, receives, sends), receives' = 0, sends' = 0, timer' = FALSE,
           UNCHANGED <<flags, on_stopped, posting, stopped, starts, faults, deaf>>,
           owner' \in {"free", "stop", "destructor", "gone"},
           owner' = "gone" => stopped /\ posting = {}
    PROVE  Inv'
  <1>1. TypeOK /\ ListenInv /\ RequestInv /\ StartInv /\ StopInv
    BY DEF Inv
  <1>2. /\ queue' \in Seq(Ready)
        /\ \A g : Queued(queue', g) <=> \/ Queued(q, g) \/ (g = "handle_timeout" /\ timer)
                                        \/ (g = "handle_response" /\ receives = 1)
                                        \/ (g = "handle_send_complete" /\ sends = 1)
        /\ \A g : /\ AtMostOnce(q, g)
                  /\ ~ (g = "handle_timeout" /\ timer /\ Queued(q, g))
                  /\ ~ (g = "handle_response" /\ receives = 1 /\ Queued(q, g))
                  /\ ~ (g = "handle_send_complete" /\ sends = 1 /\ Queued(q, g))
                  => AtMostOnce(queue', g)
    <2> DEFINE F == AllCancelled(timer, receives, sends)
    <2>1. timer \in BOOLEAN /\ receives \in 0 .. 1 /\ sends \in 0 .. 1
      BY <1>1 DEF TypeOK
    <2>2. Gains(q, queue', F)
      BY <2>1, CancelGains
    <2>3. \A g : g \in F <=> \/ (g = "handle_timeout" /\ timer)
                             \/ (g = "handle_response" /\ receives = 1)
                             \/ (g = "handle_send_complete" /\ sends = 1)
      BY DEF AllCancelled
    <2> HIDE DEF F
    <2>4. QED
      BY <2>2, <2>3 DEF Gains
  <1>3. StartPending' <=> StartPending
    BY <1>2 DEF StartPending
  <1>4. TypeOK'
    <2>1. queue' \in Seq([fn : Functions, ec : ErrorCodes, n : 0 .. 1])
      BY <1>2 DEF Ready
    <2>2. on_stopped' \in BOOLEAN /\ timer' \in BOOLEAN /\ stopped' \in BOOLEAN /\ deaf' \in BOOLEAN
      BY <1>1 DEF TypeOK
    <2>3. QED
      BY <1>1, <2>1, <2>2 DEF TypeOK
  <1>5. ListenInv'
    <2>1. AtMostOnce(queue', "handle_response")
      BY <1>1, <1>2 DEF ListenInv
    <2>2. Queued(queue', "handle_response") <=> receives = 1 \/ Queued(queue, "handle_response")
      BY <1>2
    <2>3. QED
      BY <1>1, <2>1, <2>2 DEF ListenInv, Listening
  <1>6. RequestInv'
    <2>1. AtMostOnce(queue', "handle_send_complete") /\ AtMostOnce(queue', "handle_timeout")
      BY <1>1, <1>2 DEF RequestInv
    <2>2. /\ Queued(queue', "handle_send_complete") <=> sends = 1 \/ Queued(queue, "handle_send_complete")
          /\ Queued(queue', "handle_timeout") <=> timer \/ Queued(queue, "handle_timeout")
      BY <1>2
    <2>3. QED
      BY <1>1, <2>1, <2>2 DEF RequestInv
  <1>7. StartInv'
    <2>1. AtMostOnce(queue', "start") /\ (Queued(queue', "start") <=> Queued(queue, "start"))
      BY <1>1, <1>2 DEF StartInv
    <2>2. Queued(queue', "handle_response") <=> receives = 1 \/ Queued(queue, "handle_response")
      BY <1>2
    <2>3. QED
      BY <1>1, <1>3, <2>1, <2>2 DEF StartInv
  <1>8. StopInv'
    <2>1. AtMostOnce(queue', "stopped") /\ (Queued(queue', "stopped") <=> Queued(queue, "stopped"))
      BY <1>1, <1>2 DEF StopInv
    <2>2. QED
      BY <1>1, <1>3, <2>1 DEF StopInv, TypeOK
  <1>9. QED
    BY <1>4, <1>5, <1>6, <1>7, <1>8 DEF Inv

\* The object goes after its stopped callback has run.
LEMMA ReleaseInv ==
    ASSUME Inv, Release, stopped, posting = {},
           UNCHANGED <<flags, on_stopped, posting, stopped, starts, faults, deaf>>
    PROVE  Inv'
  <1>1. "stopping" \in flags /\ queue \in Seq(Ready)
    BY DEF Inv, StopInv, TypeOK, Ready
  <1>2. QED
    BY <1>1, CancelStepInv DEF Release, CancelAll

LEMMA UserInv ==
    ASSUME Inv, ~StaleResets,
           \/ async_start \/ Posting \/ AsyncStop \/ stop \/ reset
           \/ destructor \/ stop_returns \/ spin
    PROVE  Inv'
  <1>1. CASE async_start
    BY <1>1, AsyncStartInv
  <1>2. CASE Posting
    BY <1>2, PostInv DEF Posting
  <1>3. CASE AsyncStop
    <2>1. owner = "free" /\ UNCHANGED <<owner, stopped, starts, faults, deaf>>
      BY <1>3 DEF AsyncStop, user_vars, env_vars
    <2>2. CASE "stopping" \notin flags
      BY <1>3, <2>1, <2>2, StopStepInv DEF AsyncStop
    <2>3. CASE "stopping" \in flags
      BY <1>3, <2>1, <2>3, FrameInv DEF AsyncStop, async_stop
    <2>4. QED
      BY <2>2, <2>3
  <1>4. CASE stop
    <2>1. CASE "stopping" \notin flags
      BY <1>4, <2>1, StopStepInv DEF stop, env_vars
    <2>2. CASE "stopping" \in flags
      BY <1>4, <2>2, FrameInv DEF stop, async_stop, env_vars
    <2>3. QED
      BY <2>1, <2>2
  <1>5. CASE reset
    BY <1>5, ResetInv
  <1>6. CASE destructor
    <2>1. CASE "stopping" \notin flags
      BY <1>6, <2>1, StopStepInv DEF destructor, env_vars
    <2>2. CASE "stopping" \in flags
      BY <1>6, <2>2, ReleaseInv DEF destructor, env_vars
    <2>3. QED
      BY <2>1, <2>2
  <1>7. CASE stop_returns
    <2>1. CASE owner = "stop" /\ owner' = "free" /\ UNCHANGED <<queue, receives, sends, timer>>
      BY <1>7, <2>1, FrameInv DEF stop_returns, env_vars
    <2>2. CASE owner = "destructor" /\ Release
      BY <1>7, <2>2, ReleaseInv DEF stop_returns, env_vars
    <2>3. QED
      BY <1>7, <2>1, <2>2 DEF stop_returns
  <1>8. CASE spin
    BY <1>8, FrameInv DEF spin, vars, user_vars, env_vars
  <1>9. QED
    BY <1>1, <1>2, <1>3, <1>4, <1>5, <1>6, <1>7, <1>8

-----------------------------------------------------------------------------
(***************************************************************************)
(* The io thread.                                                          *)
(***************************************************************************)
\* resolve_on_stopped() with no start pending keeps what is said of the stop.
LEMMA ResolveStopInv ==
    ASSUME Inv, NEW q \in Seq(Ready), resolve_on_stopped(flags', q),
           AtMostOnce(q, "stopped"), \A g : Queued(q, g) => Queued(queue, g),
           "stopping" \in flags <=> "stopping" \in flags',
           flags' \subseteq States,
           "stopping" \in flags /\ ~on_stopped => flags' \subseteq {"running", "stopping"},
           ~StartPending', owner # "gone", UNCHANGED <<posting, owner, stopped>>
    PROVE  StopInv'
  <1>1. TypeOK /\ StopInv
    BY DEF Inv
  <1>2. CASE on_stopped' = on_stopped /\ Gains(q, queue', {})
    <2>1. \A g : (Queued(queue', g) <=> Queued(q, g)) /\ (AtMostOnce(q, g) => AtMostOnce(queue', g))
      BY <1>2 DEF Gains
    <2>2. QED
      BY <1>1, <1>2, <2>1 DEF StopInv, TypeOK
  <1>3. CASE /\ on_stopped /\ "stopping" \in flags' /\ on_stopped' = FALSE
             /\ flags' \cap {"receiving_async", "sending_async", "timer_running"} = {}
             /\ Gains(q, queue', {"stopped"})
    <2>1. ~ Queued(q, "stopped") /\ ~stopped
      BY <1>1, <1>3 DEF StopInv
    <2>2. AtMostOnce(queue', "stopped")
      BY <1>3, <2>1 DEF Gains
    <2>3. flags' \subseteq {"running", "stopping"}
      BY <1>3 DEF States
    <2>4. QED
      BY <1>3, <2>1, <2>2, <2>3 DEF StopInv
  <1>4. QED
    BY <1>2, <1>3, ResolveFacts

\* A handler that calls fn is taken and the stop resolved: what is then queued.
LEMMA ResolvedQueue ==
    ASSUME NEW q \in Seq(Ready), NEW fn, NEW f, Loses(queue, q, fn), resolve_on_stopped(f, q),
           on_stopped \in BOOLEAN
    PROVE  /\ queue' \in Seq(Ready) /\ on_stopped' \in BOOLEAN
           /\ \A g : g # "stopped" => (Queued(queue', g) <=> Queued(q, g))
           /\ \A g : g # "stopped" /\ AtMostOnce(queue, g) => AtMostOnce(queue', g)
           /\ Waiting(queue', Endings) => Waiting(queue, Endings)
  <1>1. PICK F \in SUBSET {"stopped"} : Gains(q, queue', F) /\ on_stopped' \in BOOLEAN
    BY ResolveFacts
  <1>2. /\ queue' \in Seq(Ready)
        /\ \A g : g # "stopped" => (Queued(queue', g) <=> Queued(q, g))
        /\ \A g : g # "stopped" /\ AtMostOnce(q, g) => AtMostOnce(queue', g)
        /\ Waiting(queue', Endings) <=> Waiting(q, Endings)
    BY <1>1 DEF Gains
  <1>3. QED
    BY <1>1, <1>2 DEF Loses

LEMMA RunStartInv == Inv /\ run_start => Inv'
  <1> SUFFICES ASSUME Inv, run_start PROVE Inv'
    OBVIOUS
  <1> DEFINE q == Tail(queue)
  <1>1. TypeOK /\ ListenInv /\ RequestInv /\ StartInv /\ StopInv
    BY DEF Inv
  <1>2. Loses(queue, q, "start") /\ owner # "gone"
    BY TakeFacts DEF run_start
  <1>3. /\ q \in Seq(Ready)
        /\ \A g : Queued(queue, g) <=> g = "start" \/ Queued(q, g)
        /\ \A g : AtMostOnce(queue, g) => AtMostOnce(q, g)
        /\ AtMostOnce(queue, "start") => ~ Queued(q, "start")
        /\ Waiting(q, Endings) => Waiting(queue, Endings)
    BY <1>2 DEF Loses
  <1>4. UNCHANGED <<posting, timer, owner, stopped, starts, faults, deaf>>
    BY DEF run_start, user_vars, env_vars
  <1>5. /\ StartPending /\ "start" \notin posting /\ ~ Queued(q, "start")
        /\ "running" \in flags /\ flags \subseteq {"running", "stopping"}
        /\ receives = 0 /\ ~ Queued(queue, "handle_response")
    BY <1>1, <1>3 DEF StartPending, StartInv
  <1>6. /\ sends = 0 /\ ~ Queued(queue, "handle_send_complete")
        /\ ~timer /\ ~ Queued(queue, "handle_timeout")
    BY <1>1, <1>5 DEF RequestInv, TypeOK
  <1>7. CASE "stopping" \notin flags
    <2>1. /\ flags' = {"running", "receiving_async", "sending_async"}
          /\ receives' = 1 /\ sends' = 1 /\ queue' = q /\ on_stopped' = on_stopped
      <3>1. flags = {"running"}
        <4>1. "running" \in flags /\ \A x \in flags : x = "running"
          BY <1>5, <1>7
        <4>2. QED
          BY ONLY <4>1
      <3>2. flags' = flags \cup {"receiving_async", "sending_async"}
        BY <1>7 DEF run_start
      <3>3. receives' = 1 /\ sends' = 1 /\ queue' = q /\ on_stopped' = on_stopped
        BY <1>5, <1>6, <1>7 DEF run_start
      <3>4. QED
        BY <3>1, <3>2, <3>3
    <2> HIDE DEF q
    <2>2. ~StartPending'
      BY <1>4, <1>5, <2>1 DEF StartPending
    <2>3. TypeOK'
      <3>1. flags' \subseteq States /\ queue' \in Seq([fn : Functions, ec : ErrorCodes, n : 0 .. 1])
        BY <1>3, <2>1 DEF States, Ready
      <3>2. QED
        BY <1>1, <1>4, <2>1, <3>1 DEF TypeOK
    <2>4. ListenInv'
      <3>1. AtMostOnce(queue', "handle_response") /\ ~ Queued(queue', "handle_response")
        BY <1>1, <1>3, <1>5, <2>1 DEF ListenInv
      <3>2. Waiting(queue', Endings) => deaf' \/ "stopping" \in flags'
        BY <1>1, <1>3, <1>4, <1>7, <2>1 DEF ListenInv
      <3>3. QED
        BY <2>1, <3>1, <3>2 DEF ListenInv, Listening
    <2>5. RequestInv'
      BY <1>1, <1>3, <1>4, <1>6, <2>1 DEF RequestInv
    <2>6. StartInv'
      BY <1>1, <1>3, <1>4, <1>5, <2>1, <2>2 DEF StartInv
    <2>7. StopInv'
      BY <1>1, <1>3, <1>4, <1>7, <2>1, <2>2 DEF StopInv, TypeOK
    <2>8. QED
      BY <2>3, <2>4, <2>5, <2>6, <2>7 DEF Inv
  <1>8. CASE "stopping" \in flags
    <2>1. resolve_on_stopped(flags, q) /\ UNCHANGED <<flags, receives, sends>>
      BY <1>8 DEF run_start
    <2>2. resolve_on_stopped(flags', q)
      BY <2>1 DEF resolve_on_stopped
    <2> HIDE DEF q
    <2>3. /\ queue' \in Seq(Ready) /\ on_stopped' \in BOOLEAN
          /\ \A g : g # "stopped" => (Queued(queue', g) <=> Queued(q, g))
          /\ \A g : g # "stopped" /\ AtMostOnce(queue, g) => AtMostOnce(queue', g)
          /\ Waiting(queue', Endings) => Waiting(queue, Endings)
      <3>1. on_stopped \in BOOLEAN
        BY <1>1 DEF TypeOK
      <3>2. QED
        BY <1>2, <1>3, <2>1, <3>1, ResolvedQueue
    <2>4. ~StartPending'
      BY <1>4, <1>5, <2>3 DEF StartPending
    <2>5. TypeOK'
      BY <1>1, <1>4, <2>1, <2>3 DEF TypeOK, Ready
    <2>6. ListenInv'
      BY <1>1, <1>3, <1>4, <1>5, <1>8, <2>1, <2>3 DEF ListenInv, Listening
    <2>7. RequestInv'
      BY <1>1, <1>3, <1>4, <2>1, <2>3 DEF RequestInv
    <2>8. StartInv'
      BY <1>1, <1>3, <1>4, <1>5, <2>1, <2>3, <2>4 DEF StartInv
    <2>9. StopInv'
      <3>1. AtMostOnce(q, "stopped") /\ \A g : Queued(q, g) => Queued(queue, g)
        BY <1>1, <1>3 DEF StopInv
      <3>2. flags' \subseteq States /\ on_stopped
        BY <1>1, <1>5, <1>8, <2>1 DEF TypeOK, StopInv
      <3>3. QED
        BY <1>2, <1>3, <1>4, <1>8, <2>1, <2>2, <2>4, <3>1, <3>2, ResolveStopInv
    <2>10. QED
      BY <2>5, <2>6, <2>7, <2>8, <2>9 DEF Inv
  <1>9. QED
    BY <1>7, <1>8

LEMMA RunCancelInv == Inv /\ run_cancel => Inv'
  <1> SUFFICES ASSUME Inv, run_cancel PROVE Inv'
    OBVIOUS
  <1> DEFINE q == Tail(queue)
  <1>1. TypeOK /\ ListenInv /\ RequestInv /\ StartInv /\ StopInv
    BY DEF Inv
  <1>2. Loses(queue, q, "cancel") /\ owner # "gone"
    BY TakeFacts DEF run_cancel
  <1>3. /\ q \in Seq(Ready)
        /\ \A g : Queued(queue, g) <=> g = "cancel" \/ Queued(q, g)
        /\ \A g : AtMostOnce(queue, g) => AtMostOnce(q, g)
        /\ Waiting(q, Endings) => Waiting(queue, Endings)
    BY <1>2 DEF Loses
  <1>4. UNCHANGED <<flags, posting, owner, stopped, starts, faults, deaf>>
    BY DEF run_cancel, user_vars, env_vars
  <1>5. "stopping" \in flags
    BY <1>1, <1>3 DEF StopInv
  <1>6. CASE "running" \in flags
    <2>1. receives' = 0 /\ sends' = 0 /\ timer' = FALSE /\ on_stopped' = on_stopped
      BY <1>6 DEF run_cancel
    <2>2. queue' = CancelAll(q, timer, receives, sends)
      BY <1>6 DEF run_cancel, CancelAll
    <2> HIDE DEF q
    <2>3. owner' \in {"free", "stop", "destructor", "gone"} /\ owner' # "gone"
      BY <1>1, <1>2, <1>4 DEF TypeOK
    <2>4. \A g : g # "cancel" => (Queued(queue, g) <=> Queued(q, g))
      BY <1>3
    <2>5. QED
      BY <1>3, <1>4, <1>5, <2>1, <2>2, <2>3, <2>4, CancelStepInv
  <1>7. CASE "running" \notin flags
    <2>1. /\ queue' = IF on_stopped THEN Append(q, Posted("stopped")) ELSE q
          /\ on_stopped' = FALSE /\ receives' = receives /\ sends' = sends /\ timer' = timer
      BY <1>7 DEF run_cancel
    <2> HIDE DEF q
    <2>2. flags \subseteq {"stopping"} /\ ~StartPending
      BY <1>1, <1>7 DEF StartInv
    <2>3. /\ queue' \in Seq(Ready)
          /\ \A g : Queued(queue', g) <=> Queued(q, g) \/ (g = "stopped" /\ on_stopped)
          /\ \A g : AtMostOnce(q, g) /\ ~ (g = "stopped" /\ on_stopped /\ Queued(q, g)) =>
                       AtMostOnce(queue', g)
          /\ Waiting(queue', Endings) <=> Waiting(q, Endings)
      <3>1. CASE on_stopped
        <4>1. "stopped" \in Functions /\ queue' = Append(q, Posted("stopped"))
          BY <2>1, <3>1 DEF Functions
        <4>2. Gains(q, queue', {"stopped"})
          BY <1>3, <4>1, GainsPosted
        <4>3. QED
          BY <3>1, <4>2 DEF Gains
      <3>2. CASE ~on_stopped
        BY <1>3, <2>1, <3>2
      <3>3. QED
        BY <3>1, <3>2
    <2>4. ~StartPending'
      BY <1>3, <1>4, <2>2, <2>3 DEF StartPending
    <2>5. TypeOK'
      BY <1>1, <1>4, <2>1, <2>3 DEF TypeOK, Ready
    <2>6. ListenInv'
      BY <1>1, <1>3, <1>4, <1>5, <2>1, <2>3 DEF ListenInv, Listening
    <2>7. RequestInv'
      BY <1>1, <1>3, <1>4, <2>1, <2>3 DEF RequestInv
    <2>8. StartInv'
      BY <1>1, <1>3, <1>4, <2>1, <2>2, <2>3, <2>4 DEF StartInv
    <2>9. StopInv'
      BY <1>1, <1>2, <1>3, <1>4, <1>5, <2>1, <2>2, <2>3, <2>4 DEF StopInv, TypeOK
    <2>10. QED
      BY <2>5, <2>6, <2>7, <2>8, <2>9 DEF Inv
  <1>8. QED
    BY <1>6, <1>7

LEMMA HandleSendCompleteInv == Inv /\ handle_send_complete => Inv'
  <1> SUFFICES ASSUME Inv, handle_send_complete PROVE Inv'
    OBVIOUS
  <1> DEFINE q == Tail(queue)
             arm == Head(queue).ec = "ok" /\ "stopping" \notin flags
  <1>1. TypeOK /\ ListenInv /\ RequestInv /\ StartInv /\ StopInv
    BY DEF Inv
  <1>2. Loses(queue, q, "handle_send_complete") /\ owner # "gone"
    BY TakeFacts DEF handle_send_complete
  <1>3. /\ q \in Seq(Ready)
        /\ \A g : Queued(queue, g) <=> g = "handle_send_complete" \/ Queued(q, g)
        /\ \A g : AtMostOnce(queue, g) => AtMostOnce(q, g)
        /\ AtMostOnce(queue, "handle_send_complete") => ~ Queued(q, "handle_send_complete")
    BY <1>2 DEF Loses
  <1>4. UNCHANGED <<posting, receives, sends, owner, stopped, starts, faults, deaf>>
    BY DEF handle_send_complete, user_vars, env_vars
  <1>5. /\ flags' = (flags \cup (IF arm THEN {"timer_running"} ELSE {})) \ {"sending_async"}
        /\ timer' = (timer \/ arm) /\ resolve_on_stopped(flags', q)
    BY DEF handle_send_complete
  <1>6. arm \in BOOLEAN /\ (arm => "stopping" \notin flags)
    OBVIOUS
  <1> HIDE DEF q, arm
  <1>7. /\ queue' \in Seq(Ready) /\ on_stopped' \in BOOLEAN
        /\ \A g : g # "stopped" => (Queued(queue', g) <=> Queued(q, g))
        /\ \A g : g # "stopped" /\ AtMostOnce(queue, g) => AtMostOnce(queue', g)
        /\ Waiting(queue', Endings) => Waiting(queue, Endings)
    <2>1. on_stopped \in BOOLEAN
      BY <1>1 DEF TypeOK
    <2>2. QED
      BY <1>2, <1>3, <1>5, <2>1, ResolvedQueue
  <1>8. /\ "sending_async" \in flags /\ "timer_running" \notin flags
        /\ sends = 0 /\ ~timer /\ ~ Queued(queue, "handle_timeout")
    BY <1>1, <1>3 DEF RequestInv
  <1>9. "running" \in flags /\ ~StartPending
    BY <1>1, <1>8 DEF StartInv
  <1>10. /\ flags' \subseteq States /\ "running" \in flags'
         /\ "stopping" \in flags' <=> "stopping" \in flags
         /\ "receiving_async" \in flags' <=> "receiving_async" \in flags
         /\ "sending_async" \notin flags'
         /\ "timer_running" \in flags' <=> arm
    BY <1>1, <1>5, <1>8, <1>9 DEF TypeOK, States
  <1>11. timer' = arm
    BY <1>5, <1>6, <1>8
  <1>12. ~StartPending'
    BY <1>3, <1>4, <1>7, <1>9 DEF StartPending
  <1>13. TypeOK'
    BY <1>1, <1>4, <1>6, <1>7, <1>10, <1>11 DEF TypeOK, Ready
  <1>14. ListenInv'
    BY <1>1, <1>3, <1>4, <1>7, <1>9, <1>10 DEF ListenInv, Listening, StartPending
  <1>15. RequestInv'
    <2>1. ~ Queued(queue', "handle_send_complete") /\ ~ Queued(queue', "handle_timeout")
      BY <1>1, <1>3, <1>7, <1>8 DEF RequestInv
    <2>2. AtMostOnce(queue', "handle_send_complete") /\ AtMostOnce(queue', "handle_timeout")
      BY <1>1, <1>7 DEF RequestInv
    <2>3. sends' = 0
      BY <1>4, <1>8
    <2>4. QED
      BY <1>6, <1>10, <1>11, <2>1, <2>2, <2>3 DEF RequestInv
  <1>16. StartInv'
    BY <1>1, <1>3, <1>4, <1>7, <1>10, <1>12 DEF StartInv
  <1>17. StopInv'
    <2>1. AtMostOnce(q, "stopped") /\ \A g : Queued(q, g) => Queued(queue, g)
      BY <1>1, <1>3 DEF StopInv
    <2>2. "stopping" \in flags => on_stopped
      BY <1>1, <1>8 DEF StopInv
    <2>3. QED
      BY <1>2, <1>3, <1>4, <1>5, <1>10, <1>12, <2>1, <2>2, ResolveStopInv
  <1>18. QED
    BY <1>13, <1>14, <1>15, <1>16, <1>17 DEF Inv

\* handle_response: the reception ends only with a handler of Endings.
LEMMA HandleResponseInv == Inv /\ handle_response => Inv'
  <1> SUFFICES ASSUME Inv, handle_response PROVE Inv'
    OBVIOUS
  <1> DEFINE q == Tail(queue)
             more == Head(queue).ec = "ok" /\ Head(queue).n > 0
  <1>1. TypeOK /\ ListenInv /\ RequestInv /\ StartInv /\ StopInv
    BY DEF Inv
  <1>2. /\ Loses(queue, q, "handle_response") /\ owner # "gone"
        /\ Head(queue) \in Ready /\ Head(queue).fn = "handle_response"
        /\ Head(queue) \in Endings => Waiting(queue, Endings)
    BY TakeFacts DEF handle_response
  <1>3. /\ q \in Seq(Ready)
        /\ \A g : Queued(queue, g) <=> g = "handle_response" \/ Queued(q, g)
        /\ \A g : AtMostOnce(queue, g) => AtMostOnce(q, g)
        /\ AtMostOnce(queue, "handle_response") => ~ Queued(q, "handle_response")
    BY <1>2 DEF Loses
  <1>4. UNCHANGED <<posting, sends, timer, owner, stopped, starts, faults, deaf>>
    BY DEF handle_response, user_vars, env_vars
  <1>5. /\ flags' = flags \ {"receiving_async"} /\ resolve_on_stopped(flags', q)
        /\ receives' = IF more THEN receives + 1 ELSE receives
    BY DEF handle_response
  <1>6. ~more => deaf \/ "stopping" \in flags
    <2>1. ~more => Head(queue) \in Endings
      BY <1>2 DEF Endings
    <2>2. QED
      BY <1>1, <1>2, <2>1 DEF ListenInv
  <1> HIDE DEF q, more
  <1>7. /\ queue' \in Seq(Ready) /\ on_stopped' \in BOOLEAN
        /\ \A g : g # "stopped" => (Queued(queue', g) <=> Queued(q, g))
        /\ \A g : g # "stopped" /\ AtMostOnce(queue, g) => AtMostOnce(queue', g)
        /\ Waiting(queue', Endings) => Waiting(queue, Endings)
    <2>1. on_stopped \in BOOLEAN
      BY <1>1 DEF TypeOK
    <2>2. QED
      BY <1>2, <1>3, <1>5, <2>1, ResolvedQueue
  <1>8. receives = 0 /\ ~ Queued(queue', "handle_response") /\ AtMostOnce(queue', "handle_response")
    BY <1>1, <1>3, <1>7 DEF ListenInv
  <1>9. "running" \in flags /\ ~StartPending
    BY <1>1, <1>3 DEF StartInv
  <1>10. receives' = IF more THEN 1 ELSE 0
    BY <1>5, <1>8
  <1>11. /\ flags' \subseteq States /\ "running" \in flags'
         /\ "stopping" \in flags' <=> "stopping" \in flags
         /\ "receiving_async" \notin flags'
         /\ "sending_async" \in flags' <=> "sending_async" \in flags
         /\ "timer_running" \in flags' <=> "timer_running" \in flags
    BY <1>1, <1>5, <1>9 DEF TypeOK, States
  <1>12. ~StartPending'
    BY <1>3, <1>4, <1>7, <1>9 DEF StartPending
  <1>13. TypeOK'
    <2>1. receives' \in 0 .. 1
      BY <1>10
    <2>2. QED
      BY <1>1, <1>4, <1>7, <1>11, <2>1 DEF TypeOK, Ready
  <1>14. ListenInv'
    <2>1. Waiting(queue', Endings) => deaf' \/ "stopping" \in flags'
      BY <1>1, <1>4, <1>7, <1>11 DEF ListenInv
    <2>2. Listening'
      BY <1>4, <1>6, <1>10, <1>11 DEF Listening
    <2>3. QED
      BY <1>8, <1>11, <2>1, <2>2 DEF ListenInv
  <1>15. RequestInv'
    BY <1>1, <1>3, <1>4, <1>7, <1>11 DEF RequestInv
  <1>16. StartInv'
    BY <1>1, <1>7, <1>11, <1>12 , <1>4, <1>3 DEF StartInv
  <1>17. StopInv'
    <2>1. AtMostOnce(q, "stopped") /\ \A g : Queued(q, g) => Queued(queue, g)
      BY <1>1, <1>3 DEF StopInv
    <2>2. "stopping" \in flags /\ ~on_stopped => flags' \subseteq {"running", "stopping"}
      BY <1>1, <1>5 DEF StopInv
    <2>3. QED
      BY <1>2, <1>3, <1>4, <1>5, <1>11, <1>12, <2>1, <2>2, ResolveStopInv
  <1>18. QED
    BY <1>13, <1>14, <1>15, <1>16, <1>17 DEF Inv

LEMMA HandleTimeoutInv == Inv /\ handle_timeout => Inv'
  <1> SUFFICES ASSUME Inv, handle_timeout PROVE Inv'
    OBVIOUS
  <1> DEFINE q == Tail(queue)
             send == Head(queue).ec = "ok"
  <1>1. TypeOK /\ ListenInv /\ RequestInv /\ StartInv /\ StopInv
    BY DEF Inv
  <1>2. Loses(queue, q, "handle_timeout") /\ owner # "gone"
    BY TakeFacts DEF handle_timeout
  <1>3. /\ q \in Seq(Ready)
        /\ \A g : Queued(queue, g) <=> g = "handle_timeout" \/ Queued(q, g)
        /\ \A g : AtMostOnce(queue, g) => AtMostOnce(q, g)
        /\ AtMostOnce(queue, "handle_timeout") => ~ Queued(q, "handle_timeout")
    BY <1>2 DEF Loses
  <1>4. UNCHANGED <<posting, receives, timer, owner, stopped, starts, faults, deaf>>
    BY DEF handle_timeout, user_vars, env_vars
  <1>5. /\ flags' = (flags \cup (IF send THEN {"sending_async"} ELSE {})) \ {"timer_running"}
        /\ sends' = (IF send THEN sends + 1 ELSE sends) /\ resolve_on_stopped(flags', q)
    BY DEF handle_timeout
  <1> HIDE DEF q, send
  <1>6. /\ queue' \in Seq(Ready) /\ on_stopped' \in BOOLEAN
        /\ \A g : g # "stopped" => (Queued(queue', g) <=> Queued(q, g))
        /\ \A g : g # "stopped" /\ AtMostOnce(queue, g) => AtMostOnce(queue', g)
        /\ Waiting(queue', Endings) => Waiting(queue, Endings)
    <2>1. on_stopped \in BOOLEAN
      BY <1>1 DEF TypeOK
    <2>2. QED
      BY <1>2, <1>3, <1>5, <2>1, ResolvedQueue
  <1>7. /\ "timer_running" \in flags /\ "sending_async" \notin flags
        /\ sends = 0 /\ ~timer /\ ~ Queued(queue, "handle_send_complete")
    BY <1>1, <1>3 DEF RequestInv, TypeOK
  <1>8. "running" \in flags /\ ~StartPending
    BY <1>1, <1>7 DEF StartInv
  <1>9. sends' = IF send THEN 1 ELSE 0
    BY <1>5, <1>7
  <1>10. /\ flags' \subseteq States /\ "running" \in flags'
         /\ "stopping" \in flags' <=> "stopping" \in flags
         /\ "receiving_async" \in flags' <=> "receiving_async" \in flags
         /\ "timer_running" \notin flags'
         /\ "sending_async" \in flags' <=> send
    BY <1>1, <1>5, <1>7, <1>8 DEF TypeOK, States
  <1>11. ~StartPending'
    BY <1>3, <1>4, <1>6, <1>8 DEF StartPending
  <1>12. TypeOK'
    <2>1. sends' \in 0 .. 1
      BY <1>9
    <2>2. QED
      BY <1>1, <1>4, <1>6, <1>10, <2>1 DEF TypeOK, Ready
  <1>13. ListenInv'
    BY <1>1, <1>3, <1>4, <1>6, <1>8, <1>10 DEF ListenInv, Listening, StartPending
  <1>14. RequestInv'
    <2>1. ~ Queued(queue', "handle_send_complete") /\ ~ Queued(queue', "handle_timeout")
      BY <1>1, <1>3, <1>6, <1>7 DEF RequestInv
    <2>2. AtMostOnce(queue', "handle_send_complete") /\ AtMostOnce(queue', "handle_timeout")
      BY <1>1, <1>6 DEF RequestInv
    <2>3. ~timer'
      BY <1>4, <1>7
    <2>4. QED
      BY <1>9, <1>10, <2>1, <2>2, <2>3 DEF RequestInv
  <1>15. StartInv'
    BY <1>1, <1>3, <1>4, <1>6, <1>10, <1>11 DEF StartInv
  <1>16. StopInv'
    <2>1. AtMostOnce(q, "stopped") /\ \A g : Queued(q, g) => Queued(queue, g)
      BY <1>1, <1>3 DEF StopInv
    <2>2. "stopping" \in flags => on_stopped
      BY <1>1, <1>7 DEF StopInv
    <2>3. QED
      BY <1>2, <1>3, <1>4, <1>5, <1>10, <1>11, <2>1, <2>2, ResolveStopInv
  <1>17. QED
    BY <1>12, <1>13, <1>14, <1>15, <1>16 DEF Inv

LEMMA RunStoppedInv == Inv /\ run_stopped => Inv'
  <1> SUFFICES ASSUME Inv, run_stopped PROVE Inv'
    OBVIOUS
  <1>1. TypeOK /\ ListenInv /\ RequestInv /\ StartInv /\ StopInv
    BY DEF Inv
  <1>2. Loses(queue, Tail(queue), "stopped") /\ owner # "gone"
    BY TakeFacts DEF run_stopped
  <1>3. /\ queue' = Tail(queue) /\ stopped' = TRUE
        /\ UNCHANGED <<flags, on_stopped, posting, receives, sends, timer, owner, starts, faults, deaf>>
    BY DEF run_stopped, env_vars
  <1>4. /\ queue' \in Seq(Ready)
        /\ \A g : Queued(queue, g) <=> g = "stopped" \/ Queued(queue', g)
        /\ \A g : AtMostOnce(queue, g) => AtMostOnce(queue', g)
        /\ AtMostOnce(queue, "stopped") => ~ Queued(queue', "stopped")
        /\ Waiting(queue', Endings) => Waiting(queue, Endings)
    BY <1>2, <1>3 DEF Loses
  <1>5. "stopping" \in flags /\ ~on_stopped /\ ~ Queued(queue', "stopped")
    BY <1>1, <1>4 DEF StopInv
  <1>6. StartPending' <=> StartPending
    BY <1>3, <1>4 DEF StartPending
  <1>7. TypeOK'
    BY <1>1, <1>3, <1>4 DEF TypeOK, Ready
  <1>8. ListenInv'
    BY <1>1, <1>3, <1>4, <1>5 DEF ListenInv, Listening
  <1>9. RequestInv'
    BY <1>1, <1>3, <1>4 DEF RequestInv
  <1>10. StartInv'
    BY <1>1, <1>3, <1>4, <1>6 DEF StartInv
  <1>11. StopInv'
    BY <1>1, <1>2, <1>3, <1>4, <1>5, <1>6 DEF StopInv
  <1>12. QED
    BY <1>7, <1>8, <1>9, <1>10, <1>11 DEF Inv

-----------------------------------------------------------------------------
(***************************************************************************)
(* The network and the clock.                                              *)
(***************************************************************************)
\* An operation completes and its handler, fn, is queued: what is said of the start and
\* the stop does not notice.
LEMMA CompletesInv ==
    ASSUME Inv, NEW fn \in {"handle_response", "handle_send_complete", "handle_timeout"},
           Gains(queue, queue', {fn}), fn = "handle_response" => receives = 1,
           UNCHANGED <<flags, on_stopped, posting, owner, stopped, starts>>, receives' <= receives,
           receives' \in 0 .. 1
    PROVE  StartInv' /\ StopInv'
  <1>1. TypeOK /\ StartInv /\ StopInv
    BY DEF Inv
  <1>2. /\ \A g : g # fn => (Queued(queue', g) <=> Queued(queue, g))
        /\ \A g : g # fn /\ AtMostOnce(queue, g) => AtMostOnce(queue', g)
    BY DEF Gains
  <1>3. StartPending' <=> StartPending
    BY <1>2 DEF StartPending
  <1>4. StartInv'
    <2>1. StartPending \/ "running" \notin flags =>
             receives' = 0 /\ ~ Queued(queue', "handle_response")
      BY <1>1, <1>2 DEF StartInv
    <2>2. AtMostOnce(queue', "start") /\ (Queued(queue', "start") <=> Queued(queue, "start"))
      BY <1>1, <1>2 DEF StartInv
    <2>3. QED
      BY <1>1, <1>3, <2>1, <2>2 DEF StartInv
  <1>5. StopInv'
    BY <1>1, <1>2, <1>3 DEF StopInv
  <1>6. QED
    BY <1>4, <1>5

\* A receive ends, with a datagram or with an error; without another to follow, the
\* client is deaf.
LEMMA ReceiveEndsInv ==
    ASSUME Inv, NEW ec \in ErrorCodes, NEW n \in 0 .. 1, receives > 0,
           Completes("handle_response", ec, n), deaf' \in BOOLEAN,
           deaf \/ ~ (ec = "ok" /\ n = 1) => deaf', receives' = receives - 1,
           UNCHANGED <<flags, on_stopped, posting, sends, timer, owner, stopped, starts, faults>>
    PROVE  Inv'
  <1>1. TypeOK /\ ListenInv /\ RequestInv
    BY DEF Inv
  <1>2. receives = 1 /\ receives' = 0
    BY <1>1 DEF TypeOK
  <1>3. /\ Gains(queue, queue', {"handle_response"})
        /\ ec = "ok" /\ n = 1 => (Waiting(queue', Endings) <=> Waiting(queue, Endings))
    <2>1. queue \in Seq(Ready) /\ "handle_response" \in Functions
      BY <1>1 DEF TypeOK, Ready, Functions
    <2>2. QED
      BY <2>1, GainsOne DEF Completes
  <1>4. /\ queue' \in Seq(Ready)
        /\ \A g : Queued(queue', g) <=> Queued(queue, g) \/ g = "handle_response"
        /\ \A g : AtMostOnce(queue, g) /\ ~ (g = "handle_response" /\ Queued(queue, g)) =>
                     AtMostOnce(queue', g)
    BY <1>3 DEF Gains
  <1>5. TypeOK'
    BY <1>1, <1>2, <1>4 DEF TypeOK, Ready
  <1>6. ListenInv'
    <2>1. AtMostOnce(queue', "handle_response") /\ Queued(queue', "handle_response")
      BY <1>1, <1>2, <1>4 DEF ListenInv
    <2>2. Waiting(queue', Endings) => deaf' \/ "stopping" \in flags'
      BY <1>1, <1>3 DEF ListenInv
    <2>3. QED
      BY <1>2, <2>1, <2>2 DEF ListenInv, Listening
  <1>7. RequestInv'
    BY <1>1, <1>4 DEF RequestInv
  <1>8. StartInv' /\ StopInv'
    BY <1>2, <1>3, CompletesInv
  <1>9. QED
    BY <1>5, <1>6, <1>7, <1>8 DEF Inv

LEMMA SendCompletesInv == Inv /\ send_completes => Inv'
  <1> SUFFICES ASSUME Inv, send_completes PROVE Inv'
    OBVIOUS
  <1>1. TypeOK /\ ListenInv /\ RequestInv
    BY DEF Inv
  <1>2. sends = 1 /\ sends' = 0
    BY <1>1 DEF TypeOK, send_completes
  <1>3. UNCHANGED <<flags, on_stopped, posting, receives, timer, owner, stopped, starts, faults, deaf>>
    BY DEF send_completes, user_vars, env_vars
  <1>4. Gains(queue, queue', {"handle_send_complete"})
    <2>1. /\ queue \in Seq(Ready) /\ "handle_send_complete" \in Functions
          /\ "ok" \in ErrorCodes /\ "failed" \in ErrorCodes /\ 0 \in 0 .. 1
      BY <1>1 DEF TypeOK, Ready, Functions, ErrorCodes
    <2>2. PICK ec \in ErrorCodes : queue' = Append(queue, Handler("handle_send_complete", ec, 0))
      BY <2>1 DEF send_completes, Completes
    <2>3. QED
      BY <2>1, <2>2, GainsOne
  <1>5. /\ queue' \in Seq(Ready)
        /\ \A g : Queued(queue', g) <=> Queued(queue, g) \/ g = "handle_send_complete"
        /\ \A g : AtMostOnce(queue, g) /\ ~ (g = "handle_send_complete" /\ Queued(queue, g)) =>
                     AtMostOnce(queue', g)
        /\ Waiting(queue', Endings) <=> Waiting(queue, Endings)
    BY <1>4 DEF Gains
  <1>6. TypeOK'
    BY <1>1, <1>2, <1>3, <1>5 DEF TypeOK, Ready
  <1>7. ListenInv'
    BY <1>1, <1>3, <1>5 DEF ListenInv, Listening
  <1>8. RequestInv'
    BY <1>1, <1>2, <1>3, <1>5 DEF RequestInv
  <1>9. StartInv' /\ StopInv'
    <2>1. receives' \in 0 .. 1 /\ receives' <= receives
      BY <1>1, <1>3 DEF TypeOK
    <2>2. QED
      BY <1>3, <1>4, <2>1, CompletesInv
  <1>10. QED
    BY <1>6, <1>7, <1>8, <1>9 DEF Inv

LEMMA TimerExpiresInv == Inv /\ timer_expires => Inv'
  <1> SUFFICES ASSUME Inv, timer_expires PROVE Inv'
    OBVIOUS
  <1>1. TypeOK /\ ListenInv /\ RequestInv
    BY DEF Inv
  <1>2. timer /\ timer' = FALSE
    BY DEF timer_expires
  <1>3. UNCHANGED <<flags, on_stopped, posting, receives, sends, owner, stopped, starts, faults, deaf>>
    BY DEF timer_expires, user_vars, env_vars
  <1>4. Gains(queue, queue', {"handle_timeout"})
    <2>1. /\ queue \in Seq(Ready) /\ "handle_timeout" \in Functions
          /\ "ok" \in ErrorCodes /\ 0 \in 0 .. 1
      BY <1>1 DEF TypeOK, Ready, Functions, ErrorCodes
    <2>2. QED
      BY <2>1, GainsOne DEF timer_expires, Completes
  <1>5. /\ queue' \in Seq(Ready)
        /\ \A g : Queued(queue', g) <=> Queued(queue, g) \/ g = "handle_timeout"
        /\ \A g : AtMostOnce(queue, g) /\ ~ (g = "handle_timeout" /\ Queued(queue, g)) =>
                     AtMostOnce(queue', g)
        /\ Waiting(queue', Endings) <=> Waiting(queue, Endings)
    BY <1>4 DEF Gains
  <1>6. TypeOK'
    BY <1>1, <1>2, <1>3, <1>5 DEF TypeOK, Ready
  <1>7. ListenInv'
    BY <1>1, <1>3, <1>5 DEF ListenInv, Listening
  <1>8. RequestInv'
    BY <1>1, <1>2, <1>3, <1>5 DEF RequestInv
  <1>9. StartInv' /\ StopInv'
    <2>1. receives' \in 0 .. 1 /\ receives' <= receives
      BY <1>1, <1>3 DEF TypeOK
    <2>2. QED
      BY <1>3, <1>4, <2>1, CompletesInv
  <1>10. QED
    BY <1>6, <1>7, <1>8, <1>9 DEF Inv

LEMMA NetworkInv ==
    Inv /\ (datagram_arrives \/ receive_fails \/ send_completes \/ timer_expires) => Inv'
  <1> SUFFICES ASSUME Inv, datagram_arrives \/ receive_fails \/ send_completes \/ timer_expires
               PROVE  Inv'
    OBVIOUS
  <1>1. deaf \in BOOLEAN /\ "ok" \in ErrorCodes /\ "failed" \in ErrorCodes /\ 0 \in 0 .. 1
    BY DEF Inv, TypeOK, ErrorCodes
  <1>2. CASE datagram_arrives
    <2>1. PICK n \in IF "receive" \in faults THEN 0 .. 1 ELSE {1} :
             Completes("handle_response", "ok", n) /\ deaf' = (deaf \/ n = 0)
      BY <1>2 DEF datagram_arrives
    <2>2. n \in 0 .. 1
      OBVIOUS
    <2>3. deaf' \in BOOLEAN /\ (deaf \/ ~ ("ok" = "ok" /\ n = 1) => deaf')
      <3>1. n = 0 \/ n = 1
        BY <2>2
      <3>2. QED
        BY <1>1, <2>1, <3>1
    <2>4. QED
      BY <1>1, <1>2, <2>1, <2>2, <2>3, ReceiveEndsInv DEF datagram_arrives, user_vars
  <1>3. CASE receive_fails
    BY <1>1, <1>3, ReceiveEndsInv DEF receive_fails, user_vars
  <1>4. QED
    BY <1>2, <1>3, SendCompletesInv, TimerExpiresInv

-----------------------------------------------------------------------------
LEMMA NextInv == ~StaleResets /\ Inv /\ [Next]_vars => Inv'
  <1> SUFFICES ASSUME ~StaleResets, Inv, [Next]_vars PROVE Inv'
    OBVIOUS
  <1>1. CASE UNCHANGED vars
    BY <1>1, FrameInv DEF vars, user_vars, env_vars
  <1>2. CASE \/ async_start \/ Posting \/ AsyncStop \/ stop \/ reset
             \/ destructor \/ stop_returns \/ spin
    BY <1>2, UserInv
  <1>3. CASE IoThread
    BY <1>3, RunStartInv, RunCancelInv, HandleSendCompleteInv, HandleResponseInv,
       HandleTimeoutInv, RunStoppedInv DEF IoThread
  <1>4. CASE datagram_arrives \/ receive_fails \/ send_completes \/ timer_expires
    BY <1>4, NetworkInv
  <1>5. CASE Terminated
    BY <1>1, <1>5 DEF Terminated
  <1>6. QED
    BY <1>1, <1>2, <1>3, <1>4, <1>5 DEF Next

\* At most one request is being sent, sent, waited for or expired, and the flags say
\* which; a started client listens until it is stopped or a receive fails; a stopped one
\* sends nothing and has no start pending: for every number of runs and every choice of
\* failing directions.  It assumes that reset() comes after the receive of the last run
\* is gone, which reset() does not look at.
THEOREM DiscoveryClientSafe ==
    ASSUME StaleResets = FALSE
    PROVE  Spec => [](OneRequest /\ Listening /\ StopIsQuiet)
  <1>1. Inv /\ [Next]_vars => Inv'
    BY NextInv
  <1>2. QED
    BY <1>1, InitInv, InvImplies, PTL DEF Spec
=============================================================================
