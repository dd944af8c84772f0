---------------------- MODULE UdpDiscoveryServerProofs ----------------------
(***************************************************************************)
(* Proofs about UdpDiscoveryServer, for every number of identifiers, of    *)
(* runs and of requests, when reset() comes after nothing is left of the   *)
(* run before: a started server has exactly one receive, and a stopped one *)
(* has none.                                                               *)
(***************************************************************************)
EXTENDS UdpDiscoveryServer, BufferAndQueueLemmas

USE DiscoveryServerAssumption

-----------------------------------------------------------------------------
(***************************************************************************)
(* The inductive invariant.  receiving_async stands for exactly one        *)
(* receive, outstanding or completed.  The lambda of async_start is posted *)
(* once and finds neither a receive nor a send of an earlier run: this is  *)
(* what a reset() that comes too early destroys.  Every reply on its way   *)
(* is paid for by a request that is no longer queued.  on_stopped is held, *)
(* posted when neither the flags nor a pending start stand in the way,     *)
(* then has run.                                                           *)
(***************************************************************************)
Ready == [fn : Functions, ec : ErrorCodes, n : 0 .. Identifiers]

Requests == [fn : {"handle_receive"}, ec : {"ok"}, n : 0 .. Identifiers]

StartPending == "start" \in posting \/ Queued(queue, "start")

TypeParts ==
    /\ flags \subseteq {"running", "stopping", "sending_async", "receiving_async"}
    /\ on_stopped \in BOOLEAN /\ stopped \in BOOLEAN
    /\ discoverables \subseteq 1 .. Identifiers
    /\ queue \in Seq(Ready)
    /\ posting \subseteq {"start", "cancel"}
    /\ receives \in 0 .. 1 /\ sends \in Nat
    /\ owner \in {"free", "stop", "destructor", "gone"}
    /\ starts \in 0 .. MaxStarts /\ requests \in 0 .. MaxRequests

ReceiveInv ==
    /\ AtMostOnce(queue, "handle_receive")
    /\ Queued(queue, "handle_receive") => receives = 0
    /\ "receiving_async" \in flags <=> receives = 1 \/ Queued(queue, "handle_receive")
    /\ "running" \in flags /\ "stopping" \notin flags =>
          "receiving_async" \in flags \/ StartPending

StartInv ==
    /\ AtMostOnce(queue, "start") /\ ~ ("start" \in posting /\ Queued(queue, "start"))
    /\ StartPending => "running" \in flags /\ "receiving_async" \notin flags
    /\ "running" \notin flags => flags \subseteq {"stopping"}
    /\ StartPending \/ "running" \notin flags => sends = 0 /\ ~ Queued(queue, "handle_send")

SendInv == sends + (IF Waiting(queue, Requests) THEN 1 ELSE 0) <= requests

StopInv ==
    /\ AtMostOnce(queue, "stopped")
    /\ "stopping" \notin flags =>
          /\ ~on_stopped /\ ~stopped /\ ~ Queued(queue, "stopped") /\ owner = "free"
          /\ "cancel" \notin posting /\ ~ Queued(queue, "cancel")
    /\ "stopping" \in flags /\ ~on_stopped =>
          flags \subseteq {"running", "stopping"} /\ ~StartPending
    /\ on_stopped => ~stopped /\ ~ Queued(queue, "stopped")
    /\ stopped => ~ Queued(queue, "stopped")
    /\ owner = "gone" => stopped /\ posting = {}

Inv == TypeParts /\ ReceiveInv /\ StartInv /\ SendInv /\ StopInv

LEMMA InvImplies == Inv => OneReceive /\ StopIsQuiet
  <1> SUFFICES ASSUME Inv PROVE OneReceive /\ StopIsQuiet
    OBVIOUS
  <1>1. TypeParts /\ ReceiveInv /\ StartInv /\ SendInv /\ StopInv
    BY DEF Inv
  <1>2. sends \in 0 .. MaxRequests
    BY <1>1 DEF TypeParts, SendInv
  <1>3. TypeOK
    <2>1. flags \subseteq States
      BY <1>1 DEF TypeParts, States
    <2>2. QED
      BY <1>1, <1>2, <2>1 DEF TypeParts, TypeOK, Ready
  <1>4. OneReceive
    BY <1>1, <1>3 DEF OneReceive, ReceiveInv, StartPending
  <1>5. StopIsQuiet
    <2>1. SUFFICES ASSUME stopped
                   PROVE  /\ receives = 0 /\ "start" \notin posting
                          /\ flags \subseteq {"running", "stopping"}
                          /\ ~ Queued(queue, "handle_receive") /\ ~ Queued(queue, "start")
      BY DEF StopIsQuiet
    <2>2. flags \subseteq {"running", "stopping"} /\ ~StartPending
      BY <1>1, <2>1 DEF StopInv, TypeParts
    <2>3. QED
      BY <1>1, <2>2 DEF ReceiveInv, TypeParts, StartPending
  <1>6. QED
    BY <1>4, <1>5

-----------------------------------------------------------------------------
(***************************************************************************)
(* Handlers.                                                               *)
(***************************************************************************)
LEMMA HandlerReady ==
    \A fn \in Functions, ec \in ErrorCodes, n \in 0 .. Identifiers :
        /\ Handler(fn, ec, n) \in Ready /\ Handler(fn, ec, n).fn = fn
        /\ Handler(fn, ec, n) \in Requests <=> fn = "handle_receive" /\ ec = "ok"
  BY DEF Handler, Ready, Requests

LEMMA RequestParts ==
    /\ \A h \in Requests : h.fn = "handle_receive" /\ h.ec = "ok"
    /\ \A h \in Ready : h.fn = "handle_receive" /\ h.ec = "ok" => h \in Requests
    /\ \A h \in Ready : h.fn \in Functions
  BY DEF Ready, Requests

\* One handler becomes ready.
Gains(q, r, fn) ==
    /\ r \in Seq(Ready)
    /\ \A g : Queued(r, g) <=> Queued(q, g) \/ g = fn
    /\ \A g : AtMostOnce(q, g) /\ ~ (g = fn /\ Queued(q, g)) => AtMostOnce(r, g)

LEMMA ReadyGains ==
    \A q \in Seq(Ready), fn \in Functions, ec \in ErrorCodes, n \in 0 .. Identifiers :
        /\ Gains(q, Append(q, Handler(fn, ec, n)), fn)
        /\ fn # "handle_receive" =>
              (Waiting(Append(q, Handler(fn, ec, n)), Requests) <=> Waiting(q, Requests))
  <1>1. TAKE q \in Seq(Ready), fn \in Functions, ec \in ErrorCodes, n \in 0 .. Identifiers
  <1> DEFINE h == Handler(fn, ec, n)
             r == Append(q, h)
  <1>2. h \in Ready /\ h.fn = fn /\ (h \in Requests => fn = "handle_receive")
    BY HandlerReady
  <1> HIDE DEF h
  <1>3. /\ r \in Seq(Ready)
        /\ \A g : Queued(r, g) <=> Queued(q, g) \/ g = fn
        /\ \A g : AtMostOnce(q, g) /\ ~ (g = fn /\ Queued(q, g)) => AtMostOnce(r, g)
    BY <1>2, AppendFacts
  <1>4. Waiting(r, Requests) <=> Waiting(q, Requests) \/ h \in Requests
    BY <1>2, WaitingAppend
  <1> HIDE DEF r
  <1>5. Gains(q, r, fn) /\ (fn # "handle_receive" => (Waiting(r, Requests) <=> Waiting(q, Requests)))
    BY <1>2, <1>3, <1>4 DEF Gains
  <1>6. QED
    BY <1>5 DEF h, r

LEMMA PostedFacts ==
    ASSUME NEW q \in Seq(Ready), NEW fn \in Functions, fn # "handle_receive",
           NEW r, r = Append(q, Posted(fn))
    PROVE  /\ r \in Seq(Ready)
           /\ \A g : Queued(r, g) <=> Queued(q, g) \/ g = fn
           /\ \A g : AtMostOnce(q, g) /\ ~ (g = fn /\ Queued(q, g)) => AtMostOnce(r, g)
           /\ Waiting(r, Requests) <=> Waiting(q, Requests)
  <1>1. "ok" \in ErrorCodes /\ 0 \in 0 .. Identifiers /\ r = Append(q, Handler(fn, "ok", 0))
    BY DEF ErrorCodes, Posted
  <1>2. Gains(q, r, fn) /\ (Waiting(r, Requests) <=> Waiting(q, Requests))
    BY <1>1, ReadyGains
  <1>3. QED
    BY <1>2 DEF Gains

LEMMA TakeFacts ==
    ASSUME Inv, NEW fn, Runs(fn)
    PROVE  /\ Tail(queue) \in Seq(Ready) /\ Head(queue) \in Ready /\ Head(queue).fn = fn
           /\ \A g : Queued(queue, g) <=> g = fn \/ Queued(Tail(queue), g)
           /\ \A g : AtMostOnce(queue, g) => AtMostOnce(Tail(queue), g)
           /\ AtMostOnce(queue, fn) => ~ Queued(Tail(queue), fn)
           /\ Waiting(queue, Requests) <=> Head(queue) \in Requests \/ Waiting(Tail(queue), Requests)
           /\ owner # "gone"
  <1>1. queue \in Seq(Ready) /\ queue # << >> /\ Head(queue).fn = fn /\ owner # "gone"
    BY DEF Inv, TypeParts, Runs, Next_is
  <1>2. QED
    BY <1>1, TailFacts, WaitingTail

LEMMA NoRequestWithoutHandler ==
    ASSUME NEW q, ~ Queued(q, "handle_receive")
    PROVE  ~ Waiting(q, Requests)
  BY RequestParts, WaitingQueued

\* The stopped callback is posted, or not.
LEMMA ResolveFacts ==
    ASSUME NEW f, NEW q \in Seq(Ready), resolve_on_stopped(f, q)
    PROVE  /\ queue' \in Seq(Ready)
           /\ \A g : g # "stopped" => (Queued(queue', g) <=> Queued(q, g))
           /\ \A g : g # "stopped" /\ AtMostOnce(q, g) => AtMostOnce(queue', g)
           /\ Waiting(queue', Requests) <=> Waiting(q, Requests)
           /\ \/ /\ on_stopped /\ "stopping" \in f
                 /\ f \cap {"receiving_async", "sending_async"} = {} /\ on_stopped' = FALSE
                 /\ AtMostOnce(q, "stopped") /\ ~ Queued(q, "stopped") =>
                       AtMostOnce(queue', "stopped")
              \/ on_stopped' = on_stopped /\ queue' = q
  <1>1. \/ /\ on_stopped /\ "stopping" \in f
           /\ f \cap {"receiving_async", "sending_async"} = {}
           /\ queue' = Append(q, Posted("stopped")) /\ on_stopped' = FALSE
        \/ queue' = q /\ on_stopped' = on_stopped
    BY DEF resolve_on_stopped
  <1>2. CASE queue' = q /\ on_stopped' = on_stopped
    BY <1>2
  <1>3. CASE /\ on_stopped /\ "stopping" \in f
             /\ f \cap {"receiving_async", "sending_async"} = {}
             /\ queue' = Append(q, Posted("stopped")) /\ on_stopped' = FALSE
    <2>1. /\ queue' \in Seq(Ready)
          /\ \A g : Queued(queue', g) <=> Queued(q, g) \/ g = "stopped"
          /\ \A g : AtMostOnce(q, g) /\ ~ (g = "stopped" /\ Queued(q, g)) => AtMostOnce(queue', g)
          /\ Waiting(queue', Requests) <=> Waiting(q, Requests)
      BY <1>3, PostedFacts DEF Functions
    <2>2. QED
      BY <1>3, <2>1
  <1>4. QED
    BY <1>1, <1>2, <1>3

\* cancel() on the socket: k receives and m sends become ready.
Cancels(q, r, k, m) ==
    /\ r \in Seq(Ready)
    /\ \A g : Queued(r, g) <=> \/ Queued(q, g) \/ (g = "handle_receive" /\ k = 1)
                               \/ (g = "handle_send" /\ m > 0)
    /\ \A g : /\ AtMostOnce(q, g) /\ g # "handle_send"
              /\ ~ (g = "handle_receive" /\ k = 1 /\ Queued(q, g))
              => AtMostOnce(r, g)
    /\ Waiting(r, Requests) <=> Waiting(q, Requests)

LEMMA CancelFacts ==
    ASSUME NEW q \in Seq(Ready), NEW k \in 0 .. 1, NEW m \in Nat, NEW r,
           r = q \o Repeat(k, "handle_receive") \o Repeat(m, "handle_send")
    PROVE  Cancels(q, r, k, m)
  <1> DEFINE a == Cancelled(k, "handle_receive")
             b == Cancelled(m, "handle_send")
             h == Handler("handle_receive", "aborted", 0)
             g0 == Handler("handle_send", "aborted", 0)
  <1>1. r = (q \o a) \o b
    BY DEF Repeat, Cancelled
  <1>2. h \in Ready /\ g0 \in Ready /\ h \notin Requests /\ g0 \notin Requests
    <2>1. /\ "handle_receive" \in Functions /\ "handle_send" \in Functions
          /\ "aborted" \in ErrorCodes /\ 0 \in 0 .. Identifiers
      BY DEF Functions, ErrorCodes
    <2>2. QED
      BY <2>1, HandlerReady
  <1>3. /\ a \in Seq(Ready)
        /\ \A g : Queued(a, g) <=> g = "handle_receive" /\ k > 0
        /\ \A g : AtMostOnce(a, g)
        /\ ~ Waiting(a, Requests)
    <2>1. k \in Nat /\ k <= 1
      OBVIOUS
    <2>2. /\ \A g : Queued(a, g) <=> g = "handle_receive" /\ k > 0
          /\ \A g : AtMostOnce(a, g)
      BY <2>1, CancelledFacts
    <2>3. a \in Seq(Ready)
      BY <1>2, <2>1, CancelledIn
    <2>4. ~ Waiting(a, Requests)
      BY <1>2, <2>1, WaitingCancelled
    <2>5. QED
      BY <2>2, <2>3, <2>4
  <1>4. /\ b \in Seq(Ready)
        /\ \A g : Queued(b, g) <=> g = "handle_send" /\ m > 0
        /\ ~ Waiting(b, Requests)
    BY <1>2, CancelledFacts, CancelledIn, WaitingCancelled
  <1>5. \A g : g # "handle_send" => AtMostOnce(b, g)
    BY <1>4 DEF AtMostOnce, Queued
  <1> HIDE DEF a, b
  <1> DEFINE c == q \o a
  <1>6. /\ c \in Seq(Ready)
        /\ \A g : Queued(c, g) <=> Queued(q, g) \/ Queued(a, g)
        /\ \A g : AtMostOnce(q, g) /\ AtMostOnce(a, g) /\ ~ (Queued(q, g) /\ Queued(a, g)) =>
                     AtMostOnce(c, g)
        /\ Waiting(c, Requests) <=> Waiting(q, Requests) \/ Waiting(a, Requests)
    BY <1>3, ConcatFacts, WaitingConcat
  <1> HIDE DEF c
  <1>7. /\ c \o b \in Seq(Ready)
        /\ \A g : Queued(c \o b, g) <=> Queued(c, g) \/ Queued(b, g)
        /\ \A g : AtMostOnce(c, g) /\ AtMostOnce(b, g) /\ ~ (Queued(c, g) /\ Queued(b, g)) =>
                     AtMostOnce(c \o b, g)
        /\ Waiting(c \o b, Requests) <=> Waiting(c, Requests) \/ Waiting(b, Requests)
    BY <1>4, <1>6, ConcatFacts, WaitingConcat
  <1>8. r = c \o b
    BY <1>1 DEF c
  <1>9. /\ r \in Seq(Ready)
        /\ Waiting(r, Requests) <=> Waiting(q, Requests)
        /\ \A g : Queued(r, g) <=> \/ Queued(q, g) \/ (g = "handle_receive" /\ k > 0)
                                   \/ (g = "handle_send" /\ m > 0)
    BY <1>3, <1>4, <1>6, <1>7, <1>8
  <1>10. ASSUME NEW g, AtMostOnce(q, g), g # "handle_send",
                ~ (g = "handle_receive" /\ k = 1 /\ Queued(q, g))
         PROVE  AtMostOnce(r, g)
    <2>1. AtMostOnce(c, g)
      BY <1>3, <1>6, <1>10
    <2>2. ~ Queued(b, g) /\ AtMostOnce(b, g)
      BY <1>4, <1>5, <1>10
    <2>3. QED
      BY <1>7, <1>8, <2>1, <2>2
  <1>11. k > 0 <=> k = 1
    OBVIOUS
  <1>12. QED
    BY <1>9, <1>10, <1>11 DEF Cancels

-----------------------------------------------------------------------------
(***************************************************************************)
(* User threads.                                                           *)
(***************************************************************************)
LEMMA InitInv == Init => Inv
  <1> SUFFICES ASSUME Init PROVE Inv
    OBVIOUS
  <1>1. queue \in Seq(Ready) /\ queue = << >>
    BY DEF Init
  <1>2. TypeParts
    <2>1. on_stopped \in BOOLEAN /\ stopped \in BOOLEAN
      BY DEF Init
    <2>2. /\ flags \subseteq {"running", "stopping", "sending_async", "receiving_async"}
          /\ discoverables \subseteq 1 .. Identifiers /\ posting \subseteq {"start", "cancel"}
          /\ owner \in {"free", "stop", "destructor", "gone"}
      BY DEF Init
    <2>3. receives \in 0 .. 1 /\ sends \in Nat /\ starts \in 0 .. MaxStarts /\ requests \in 0 .. MaxRequests
      BY DEF Init
    <2>4. QED
      BY <1>1, <2>1, <2>2, <2>3 DEF TypeParts
  <1>3. ReceiveInv /\ StartInv
    BY <1>1, EmptyFacts DEF Init, ReceiveInv, StartInv, StartPending
  <1>4. SendInv
    BY <1>1, WaitingEmpty DEF Init, SendInv
  <1>5. StopInv
    BY <1>1, EmptyFacts DEF Init, StopInv, StartPending
  <1>6. QED
    BY <1>2, <1>3, <1>4, <1>5 DEF Inv

\* Only where the owner is, or what is registered, changes.
LEMMA FrameInv ==
    ASSUME Inv, owner' = "free" \/ owner' = owner, discoverables' \subseteq 1 .. Identifiers,
           UNCHANGED <<flags, on_stopped, queue, posting, receives, sends, stopped, starts, requests>>
    PROVE  Inv'
  <1>1. TypeParts /\ ReceiveInv /\ StartInv /\ SendInv /\ StopInv
    BY DEF Inv
  <1>2. TypeParts'
    BY <1>1 DEF TypeParts
  <1>3. ReceiveInv' /\ StartInv' /\ SendInv'
    BY <1>1 DEF ReceiveInv, StartInv, SendInv, StartPending
  <1>4. StopInv'
    BY <1>1 DEF StopInv, TypeParts, StartPending
  <1>5. QED
    BY <1>2, <1>3, <1>4 DEF Inv

LEMMA AsyncStartInv == Inv /\ async_start => Inv'
  <1> SUFFICES ASSUME Inv, async_start PROVE Inv'
    OBVIOUS
  <1>1. TypeParts /\ ReceiveInv /\ StartInv /\ SendInv /\ StopInv
    BY DEF Inv
  <1>2. flags = {} /\ flags' = {"running"}
    BY <1>1 DEF async_start, StartInv
  <1>3. UNCHANGED <<on_stopped, discoverables, queue, receives, sends, owner, stopped, requests>>
    BY DEF async_start
  <1>4. ~StartPending /\ StartPending' /\ posting' = posting \cup {"start"}
    BY <1>1, <1>2 DEF async_start, StartInv, StartPending
  <1>5. TypeParts'
    <2>1. starts' \in 0 .. MaxStarts
      BY <1>1 DEF async_start, TypeParts
    <2>2. QED
      BY <1>1, <1>2, <1>3, <1>4, <2>1 DEF TypeParts
  <1>6. ReceiveInv'
    BY <1>1, <1>2, <1>3, <1>4 DEF ReceiveInv
  <1>7. StartInv'
    BY <1>1, <1>2, <1>3, <1>4 DEF StartInv, StartPending
  <1>8. SendInv'
    BY <1>1, <1>3 DEF SendInv
  <1>9. StopInv'
    BY <1>1, <1>2, <1>3, <1>4 DEF StopInv, TypeParts
  <1>10. QED
    BY <1>5, <1>6, <1>7, <1>8, <1>9 DEF Inv

LEMMA PostInv ==
    ASSUME Inv, NEW fn \in {"start", "cancel"}, post(fn)
    PROVE  Inv'
  <1>1. TypeParts /\ ReceiveInv /\ StartInv /\ SendInv /\ StopInv
    BY DEF Inv
  <1>2. /\ queue' \in Seq(Ready)
        /\ \A g : Queued(queue', g) <=> Queued(queue, g) \/ g = fn
        /\ \A g : AtMostOnce(queue, g) /\ ~ (g = fn /\ Queued(queue, g)) => AtMostOnce(queue', g)
        /\ Waiting(queue', Requests) <=> Waiting(queue, Requests)
    <2>1. fn \in Functions /\ fn # "handle_receive" /\ queue \in Seq(Ready)
      BY <1>1 DEF Functions, TypeParts
    <2>2. QED
      BY <2>1, PostedFacts DEF post
  <1>3. /\ fn \in posting /\ posting' = posting \ {fn}
        /\ UNCHANGED <<flags, on_stopped, discoverables, receives, sends, owner, stopped, starts, requests>>
    BY DEF post, user_vars
  <1>4. StartPending' <=> StartPending
    BY <1>2, <1>3 DEF StartPending
  <1>5. TypeParts'
    BY <1>1, <1>2, <1>3 DEF TypeParts
  <1>6. ReceiveInv'
    BY <1>1, <1>2, <1>3, <1>4 DEF ReceiveInv
  <1>7. StartInv'
    <2>1. AtMostOnce(queue', "start") /\ ~ ("start" \in posting' /\ Queued(queue', "start"))
      BY <1>1, <1>2, <1>3 DEF StartInv
    <2>2. ~ Queued(queue, "handle_send") => ~ Queued(queue', "handle_send")
      BY <1>2
    <2>3. QED
      BY <1>1, <1>3, <1>4, <2>1, <2>2 DEF StartInv
  <1>8. SendInv'
    BY <1>1, <1>2, <1>3 DEF SendInv
  <1>9. StopInv'
    BY <1>1, <1>2, <1>3, <1>4 DEF StopInv, TypeParts
  <1>10. QED
    BY <1>5, <1>6, <1>7, <1>8, <1>9 DEF Inv

\* A stop that is accepted, in any of its three callers.
LEMMA StopStepInv ==
    ASSUME Inv, async_stop, "stopping" \notin flags,
           UNCHANGED <<discoverables, queue, receives, sends, stopped, starts, requests>>,
           owner' \in {"free", "stop", "destructor"}
    PROVE  Inv'
  <1>1. TypeParts /\ ReceiveInv /\ StartInv /\ SendInv /\ StopInv
    BY DEF Inv
  <1>2. /\ flags' = flags \cup {"stopping"} /\ on_stopped' = TRUE
        /\ posting' = posting \cup {"cancel"}
    BY DEF async_stop
  <1>3. StartPending' <=> StartPending
    BY <1>2 DEF StartPending
  <1>4. TypeParts'
    BY <1>1, <1>2 DEF TypeParts
  <1>5. ReceiveInv'
    BY <1>1, <1>2, <1>3 DEF ReceiveInv
  <1>6. StartInv'
    BY <1>1, <1>2, <1>3 DEF StartInv
  <1>7. SendInv'
    BY <1>1 DEF SendInv
  <1>8. StopInv'
    BY <1>1, <1>2, <1>3 DEF StopInv, TypeParts
  <1>9. QED
    BY <1>4, <1>5, <1>6, <1>7, <1>8 DEF Inv

\* reset() when nothing of the run before is left.
LEMMA ResetInv == Inv /\ reset /\ ~StaleResets => Inv'
  <1> SUFFICES ASSUME Inv, reset, ~StaleResets PROVE Inv'
    OBVIOUS
  <1>1. TypeParts /\ ReceiveInv /\ StartInv /\ SendInv /\ StopInv
    BY DEF Inv
  <1>2. /\ queue = << >> /\ sends = 0 /\ posting = {} /\ flags' = {} /\ stopped' = FALSE
        /\ owner = "free" /\ stopped
        /\ UNCHANGED <<on_stopped, discoverables, queue, posting, receives, sends, owner,
                       starts, requests>>
    BY DEF reset
  <1>3. receives = 0 /\ on_stopped = FALSE
    BY <1>1, <1>2, InvImplies DEF StopIsQuiet, StopInv, TypeParts
  <1>4. ~StartPending'
    BY <1>2, EmptyFacts DEF StartPending
  <1>5. TypeParts'
    BY <1>1, <1>2 DEF TypeParts
  <1>6. ReceiveInv'
    BY <1>2, <1>3, EmptyFacts DEF ReceiveInv
  <1>7. StartInv'
    BY <1>2, <1>4, EmptyFacts DEF StartInv
  <1>8. SendInv'
    BY <1>1, <1>2 DEF SendInv
  <1>9. StopInv'
    BY <1>2, <1>3, EmptyFacts DEF StopInv
  <1>10. QED
    BY <1>5, <1>6, <1>7, <1>8, <1>9 DEF Inv

\* The object goes after its stopped callback has run: replies may still be on their way,
\* but no receive.
LEMMA ReleaseInv ==
    ASSUME Inv, Release, stopped, posting = {},
           UNCHANGED <<flags, on_stopped, discoverables, posting, stopped, starts, requests>>
    PROVE  Inv'
  <1>1. TypeParts /\ ReceiveInv /\ StartInv /\ SendInv /\ StopInv
    BY DEF Inv
  <1>2. receives = 0 /\ ~ Queued(queue, "handle_receive") /\ ~StartPending /\ "stopping" \in flags
        /\ "receiving_async" \notin flags
    BY <1>1, InvImplies DEF StopIsQuiet, StopInv, TypeParts, StartPending
  <1>3. Cancels(queue, queue', receives, sends)
    <2>1. queue \in Seq(Ready) /\ receives \in 0 .. 1 /\ sends \in Nat
      BY <1>1 DEF TypeParts
    <2>2. queue' = queue \o Repeat(receives, "handle_receive") \o Repeat(sends, "handle_send")
      BY DEF Release
    <2>3. QED
      BY <2>1, <2>2, CancelFacts
  <1>4. receives' = 0 /\ sends' = 0 /\ owner' = "gone"
    BY DEF Release
  <1>5. StartPending' <=> StartPending
    BY <1>3 DEF StartPending, Cancels
  <1>6. TypeParts'
    BY <1>1, <1>3, <1>4 DEF TypeParts, Cancels
  <1>7. ReceiveInv'
    BY <1>1, <1>2, <1>3, <1>4 DEF ReceiveInv, Cancels
  <1>8. StartInv'
    <2>1. "running" \notin flags => ~ Queued(queue', "handle_send")
      BY <1>1, <1>3 DEF StartInv, Cancels
    <2>2. AtMostOnce(queue', "start") /\ ~StartPending'
      BY <1>1, <1>2, <1>3, <1>5 DEF StartInv, Cancels
    <2>3. "running" \notin flags => flags \subseteq {"stopping"}
      BY <1>1 DEF StartInv
    <2>4. QED
      BY <1>4, <2>1, <2>2, <2>3 DEF StartInv, StartPending
  <1>9. SendInv'
    BY <1>1, <1>3, <1>4 DEF SendInv, TypeParts, Cancels
  <1>10. StopInv'
    BY <1>1, <1>2, <1>3, <1>4, <1>5 DEF StopInv, TypeParts, Cancels
  <1>11. QED
    BY <1>6, <1>7, <1>8, <1>9, <1>10 DEF Inv

LEMMA UserInv ==
    ASSUME Inv, ~StaleResets,
           \/ add_discoverable \/ async_start \/ Posting \/ AsyncStop \/ stop \/ reset
           \/ destructor \/ stop_returns \/ spin
    PROVE  Inv'
  <1>1. discoverables \subseteq 1 .. Identifiers
    BY DEF Inv, TypeParts
  <1>2. CASE add_discoverable
    <2>1. discoverables' \subseteq 1 .. Identifiers
      BY <1>1, <1>2 DEF add_discoverable
    <2>2. QED
      BY <1>2, <2>1, FrameInv DEF add_discoverable, user_vars
  <1>3. CASE async_start
    BY <1>3, AsyncStartInv
  <1>4. CASE Posting
    BY <1>4, PostInv DEF Posting
  <1>5. CASE AsyncStop
    <2>1. owner = "free" /\ UNCHANGED <<owner, stopped, starts>>
      BY <1>5 DEF AsyncStop, user_vars
    <2>2. CASE "stopping" \notin flags
      BY <1>5, <2>1, <2>2, StopStepInv DEF AsyncStop
    <2>3. CASE "stopping" \in flags
      BY <1>1, <1>5, <2>1, <2>3, FrameInv DEF AsyncStop, async_stop
    <2>4. QED
      BY <2>2, <2>3
  <1>6. CASE stop
    <2>1. CASE "stopping" \notin flags
      BY <1>6, <2>1, StopStepInv DEF stop
    <2>2. CASE "stopping" \in flags
      BY <1>1, <1>6, <2>2, FrameInv DEF stop, async_stop
    <2>3. QED
      BY <2>1, <2>2
  <1>7. CASE reset
    BY <1>7, ResetInv
  <1>8. CASE destructor
    <2>1. CASE "stopping" \notin flags
      BY <1>8, <2>1, StopStepInv DEF destructor
    <2>2. CASE "stopping" \in flags
      BY <1>8, <2>2, ReleaseInv DEF destructor
    <2>3. QED
      BY <2>1, <2>2
  <1>9. CASE stop_returns
    <2>1. CASE owner = "stop" /\ owner' = "free" /\ UNCHANGED <<queue, receives, sends>>
      BY <1>1, <1>9, <2>1, FrameInv DEF stop_returns
    <2>2. CASE owner = "destructor" /\ Release
      BY <1>9, <2>2, ReleaseInv DEF stop_returns
    <2>3. QED
      BY <1>9, <2>1, <2>2 DEF stop_returns
  <1>10. CASE spin
    BY <1>1, <1>10, FrameInv DEF spin, vars, user_vars
  <1>11. QED
    BY <1>2, <1>3, <1>4, <1>5, <1>6, <1>7, <1>8, <1>9, <1>10

-----------------------------------------------------------------------------
(***************************************************************************)
(* The io thread.                                                          *)
(***************************************************************************)
\* resolve_on_stopped() with no start pending keeps what is said of the stop.
LEMMA ResolveStopInv ==
    ASSUME Inv, NEW q \in Seq(Ready), resolve_on_stopped(flags', q),
           AtMostOnce(q, "stopped"), \A g : Queued(q, g) => Queued(queue, g),
           "stopping" \in flags <=> "stopping" \in flags',
           flags' \subseteq {"running", "stopping", "sending_async", "receiving_async"},
           "stopping" \in flags /\ ~on_stopped => flags' \subseteq {"running", "stopping"},
           ~StartPending', owner # "gone", UNCHANGED <<posting, owner, stopped>>
    PROVE  StopInv'
  <1>1. TypeParts /\ StopInv
    BY DEF Inv
  <1>2. CASE on_stopped' = on_stopped /\ queue' = q
    BY <1>1, <1>2 DEF StopInv, TypeParts
  <1>3. CASE ~ (on_stopped' = on_stopped /\ queue' = q)
    <2>1. /\ on_stopped /\ "stopping" \in flags' /\ on_stopped' = FALSE
          /\ flags' \cap {"receiving_async", "sending_async"} = {}
          /\ AtMostOnce(q, "stopped") /\ ~ Queued(q, "stopped") => AtMostOnce(queue', "stopped")
      BY <1>3, ResolveFacts
    <2>2. ~ Queued(q, "stopped") /\ ~stopped
      BY <1>1, <2>1 DEF StopInv
    <2>3. AtMostOnce(queue', "stopped")
      BY <2>1, <2>2
    <2>4. flags' \subseteq {"running", "stopping"}
      BY <2>1
    <2>5. QED
      BY <2>1, <2>2, <2>3, <2>4 DEF StopInv
  <1>4. QED
    BY <1>2, <1>3

LEMMA RunStartInv == Inv /\ run_start => Inv'
  <1> SUFFICES ASSUME Inv, run_start PROVE Inv'
    OBVIOUS
  <1>1. TypeParts /\ ReceiveInv /\ StartInv /\ SendInv /\ StopInv
    BY DEF Inv
  <1>2. /\ Tail(queue) \in Seq(Ready)
        /\ \A g : Queued(queue, g) <=> g = "start" \/ Queued(Tail(queue), g)
        /\ \A g : AtMostOnce(queue, g) => AtMostOnce(Tail(queue), g)
        /\ AtMostOnce(queue, "start") => ~ Queued(Tail(queue), "start")
        /\ Waiting(Tail(queue), Requests) => Waiting(queue, Requests)
        /\ owner # "gone"
    BY TakeFacts DEF run_start
  <1>3. UNCHANGED <<discoverables, posting, sends, owner, stopped, starts, requests>>
    BY DEF run_start, user_vars
  <1>4. /\ StartPending /\ "start" \notin posting /\ ~ Queued(Tail(queue), "start")
        /\ "running" \in flags /\ "receiving_async" \notin flags
        /\ receives = 0 /\ ~ Queued(queue, "handle_receive")
        /\ sends = 0 /\ ~ Queued(queue, "handle_send")
    BY <1>1, <1>2 DEF StartPending, StartInv, ReceiveInv, TypeParts
  <1>5. CASE "stopping" \notin flags
    <2>1. /\ flags' = flags \cup {"receiving_async"} /\ receives' = 1
          /\ queue' = Tail(queue) /\ on_stopped' = on_stopped
      BY <1>4, <1>5 DEF run_start
    <2>2. ~StartPending'
      BY <1>3, <1>4, <2>1 DEF StartPending
    <2>3. TypeParts'
      BY <1>1, <1>2, <1>3, <2>1 DEF TypeParts
    <2>4. ReceiveInv'
      BY <1>1, <1>2, <1>3, <1>4, <2>1 DEF ReceiveInv
    <2>5. StartInv'
      BY <1>1, <1>2, <1>3, <1>4, <2>1, <2>2 DEF StartInv
    <2>6. SendInv'
      BY <1>1, <1>2, <1>3, <2>1 DEF SendInv, TypeParts
    <2>7. StopInv'
      BY <1>1, <1>2, <1>3, <1>5, <2>1, <2>2 DEF StopInv, TypeParts
    <2>8. QED
      BY <2>3, <2>4, <2>5, <2>6, <2>7 DEF Inv
  <1>6. CASE "stopping" \in flags
    <2>1. resolve_on_stopped(flags, Tail(queue)) /\ UNCHANGED <<flags, receives>>
      BY <1>6 DEF run_start
    <2>2. /\ queue' \in Seq(Ready)
          /\ \A g : g # "stopped" => (Queued(queue', g) <=> Queued(Tail(queue), g))
          /\ \A g : g # "stopped" /\ AtMostOnce(Tail(queue), g) => AtMostOnce(queue', g)
          /\ Waiting(queue', Requests) <=> Waiting(Tail(queue), Requests)
          /\ \/ /\ on_stopped /\ "stopping" \in flags
                /\ flags \cap {"receiving_async", "sending_async"} = {} /\ on_stopped' = FALSE
                /\ AtMostOnce(Tail(queue), "stopped") /\ ~ Queued(Tail(queue), "stopped") =>
                      AtMostOnce(queue', "stopped")
             \/ on_stopped' = on_stopped /\ queue' = Tail(queue)
      BY <1>2, <2>1, ResolveFacts
    <2>3. ~StartPending'
      BY <1>3, <1>4, <2>2 DEF StartPending
    <2>4. TypeParts'
      BY <1>1, <1>3, <2>1, <2>2 DEF TypeParts
    <2>5. ReceiveInv'
      BY <1>1, <1>2, <1>4, <1>6, <2>1, <2>2 DEF ReceiveInv
    <2>6. StartInv'
      BY <1>1, <1>2, <1>3, <1>4, <2>1, <2>2, <2>3 DEF StartInv
    <2>7. SendInv'
      BY <1>1, <1>2, <1>3, <2>2 DEF SendInv, TypeParts
    <2>8. StopInv'
      <3>1. AtMostOnce(Tail(queue), "stopped")
        BY <1>1, <1>2 DEF StopInv
      <3>2. "stopping" \in flags /\ ~on_stopped => FALSE
        BY <1>1, <1>4 DEF StopInv
      <3>3. QED
        BY <1>1, <1>2, <1>3, <2>1, <2>3, <3>1, <3>2, ResolveStopInv DEF TypeParts
    <2>9. QED
      BY <2>4, <2>5, <2>6, <2>7, <2>8 DEF Inv
  <1>7. QED
    BY <1>5, <1>6

LEMMA RunCancelInv == Inv /\ run_cancel => Inv'
  <1> SUFFICES ASSUME Inv, run_cancel PROVE Inv'
    OBVIOUS
  <1> DEFINE q == Tail(queue)
  <1>1. TypeParts /\ ReceiveInv /\ StartInv /\ SendInv /\ StopInv
    BY DEF Inv
  <1>2. /\ q \in Seq(Ready)
        /\ \A g : Queued(queue, g) <=> g = "cancel" \/ Queued(q, g)
        /\ \A g : AtMostOnce(queue, g) => AtMostOnce(q, g)
        /\ Waiting(q, Requests) => Waiting(queue, Requests)
        /\ owner # "gone"
    BY TakeFacts DEF run_cancel
  <1>3. UNCHANGED <<flags, discoverables, posting, owner, stopped, starts, requests>>
    BY DEF run_cancel, user_vars
  <1>4. "stopping" \in flags
    BY <1>1, <1>2 DEF StopInv
  <1>5. CASE "running" \in flags
    <2>1. /\ queue' = q \o Repeat(receives, "handle_receive") \o Repeat(sends, "handle_send")
          /\ receives' = 0 /\ sends' = 0 /\ on_stopped' = on_stopped
      BY <1>5 DEF run_cancel
    <2>2. Cancels(q, queue', receives, sends)
      <3>1. receives \in 0 .. 1 /\ sends \in Nat
        BY <1>1 DEF TypeParts
      <3>2. QED
        BY <1>2, <2>1, <3>1, CancelFacts
    <2> HIDE DEF q
    <2>3. StartPending' <=> StartPending
      BY <1>2, <1>3, <2>2 DEF StartPending, Cancels
    <2>4. TypeParts'
      BY <1>1, <1>3, <2>1, <2>2 DEF TypeParts, Cancels
    <2>5. ReceiveInv'
      <3>1. Queued(queue', "handle_receive") <=> receives = 1 \/ Queued(queue, "handle_receive")
        BY <1>2, <2>2 DEF Cancels
      <3>2. AtMostOnce(queue', "handle_receive")
        BY <1>1, <1>2, <2>2 DEF ReceiveInv, Cancels
      <3>3. QED
        BY <1>1, <1>3, <1>4, <2>1, <3>1, <3>2 DEF ReceiveInv
    <2>6. StartInv'
      <3>1. AtMostOnce(queue', "start") /\ (Queued(queue', "start") <=> Queued(queue, "start"))
        BY <1>1, <1>2, <2>2 DEF StartInv, Cancels
      <3>2. StartPending => sends = 0 /\ ~ Queued(queue', "handle_send")
        BY <1>1, <1>2, <2>2 DEF StartInv, Cancels
      <3>3. QED
        BY <1>1, <1>3, <1>5, <2>1, <2>3, <3>1, <3>2 DEF StartInv
    <2>7. SendInv'
      BY <1>1, <1>2, <1>3, <2>1, <2>2 DEF SendInv, TypeParts, Cancels
    <2>8. StopInv'
      <3>1. AtMostOnce(queue', "stopped") /\ (Queued(queue', "stopped") <=> Queued(queue, "stopped"))
        BY <1>1, <1>2, <2>2 DEF StopInv, Cancels
      <3>2. QED
        BY <1>1, <1>3, <1>4, <2>1, <2>3, <3>1 DEF StopInv, TypeParts
    <2>9. QED
      BY <2>4, <2>5, <2>6, <2>7, <2>8 DEF Inv
  <1>6. CASE "running" \notin flags
    <2>1. /\ queue' = IF on_stopped THEN Append(q, Posted("stopped")) ELSE q
          /\ on_stopped' = FALSE /\ receives' = receives /\ sends' = sends
      BY <1>6 DEF run_cancel
    <2> HIDE DEF q
    <2>2. flags \subseteq {"stopping"} /\ ~StartPending /\ sends = 0 /\ ~ Queued(queue, "handle_send")
      BY <1>1, <1>6 DEF StartInv
    <2>3. /\ queue' \in Seq(Ready)
          /\ \A g : Queued(queue', g) <=> Queued(q, g) \/ (g = "stopped" /\ on_stopped)
          /\ \A g : AtMostOnce(q, g) /\ ~ (g = "stopped" /\ on_stopped /\ Queued(q, g)) => AtMostOnce(queue', g)
          /\ Waiting(queue', Requests) <=> Waiting(q, Requests)
      <3>1. CASE on_stopped
        <4>1. "stopped" \in Functions /\ queue' = Append(q, Posted("stopped"))
          BY <2>1, <3>1 DEF Functions
        <4>2. QED
          BY <1>2, <3>1, <4>1, PostedFacts
      <3>2. CASE ~on_stopped
        BY <1>2, <2>1, <3>2
      <3>3. QED
        BY <3>1, <3>2
    <2>4. ~StartPending'
      BY <1>2, <1>3, <2>2, <2>3 DEF StartPending
    <2>5. TypeParts'
      BY <1>1, <1>3, <2>1, <2>3 DEF TypeParts
    <2>6. ReceiveInv'
      BY <1>1, <1>2, <1>3, <1>4, <2>1, <2>3 DEF ReceiveInv
    <2>7. StartInv'
      BY <1>1, <1>2, <1>3, <2>1, <2>2, <2>3, <2>4 DEF StartInv
    <2>8. SendInv'
      BY <1>1, <1>2, <1>3, <2>1, <2>3 DEF SendInv, TypeParts
    <2>9. StopInv'
      BY <1>1, <1>2, <1>3, <1>4, <2>1, <2>2, <2>3, <2>4 DEF StopInv, TypeParts
    <2>10. QED
      BY <2>5, <2>6, <2>7, <2>8, <2>9 DEF Inv
  <1>7. QED
    BY <1>5, <1>6

\* handle_receive: the request it takes pays for the reply it sends.
LEMMA HandleReceiveInv == Inv /\ handle_receive => Inv'
  <1> SUFFICES ASSUME Inv, handle_receive PROVE Inv'
    OBVIOUS
  <1> DEFINE q == Tail(queue)
  <1>1. TypeParts /\ ReceiveInv /\ StartInv /\ SendInv /\ StopInv
    BY DEF Inv
  <1>2. /\ q \in Seq(Ready) /\ Head(queue) \in Ready /\ Head(queue).fn = "handle_receive"
        /\ \A g : Queued(queue, g) <=> g = "handle_receive" \/ Queued(q, g)
        /\ \A g : AtMostOnce(queue, g) => AtMostOnce(q, g)
        /\ AtMostOnce(queue, "handle_receive") => ~ Queued(q, "handle_receive")
        /\ Waiting(queue, Requests) <=> Head(queue) \in Requests \/ Waiting(q, Requests)
        /\ owner # "gone"
    BY TakeFacts DEF handle_receive
  <1>3. UNCHANGED <<discoverables, posting, owner, stopped, starts, requests>>
    BY DEF handle_receive, user_vars
  <1>4. PICK reply \in IF Answerable THEN BOOLEAN ELSE {FALSE} :
           LET f == flags \cup (IF reply THEN {"sending_async"} ELSE {}) IN
           /\ sends' = IF reply THEN sends + 1 ELSE sends
           /\ IF "stopping" \notin f
              THEN /\ flags' = f
                   /\ receives' = receives + 1
                   /\ queue' = Tail(queue)
                   /\ UNCHANGED on_stopped
              ELSE /\ flags' = f \ {"receiving_async"}
                   /\ resolve_on_stopped(flags', Tail(queue))
                   /\ UNCHANGED receives
    BY DEF handle_receive
  <1> DEFINE f == flags \cup (IF reply THEN {"sending_async"} ELSE {})
  <1>5. /\ Queued(queue, "handle_receive") /\ ~ Queued(q, "handle_receive")
        /\ ~ Waiting(q, Requests)
        /\ "receiving_async" \in flags /\ receives = 0
        /\ ~StartPending /\ "running" \in flags
    <2>1. Queued(queue, "handle_receive") /\ ~ Queued(q, "handle_receive")
      BY <1>1, <1>2 DEF ReceiveInv
    <2>2. ~ Waiting(q, Requests)
      BY <2>1, NoRequestWithoutHandler
    <2>3. "receiving_async" \in flags /\ receives = 0
      BY <1>1, <2>1 DEF ReceiveInv
    <2>4. QED
      BY <1>1, <2>1, <2>2, <2>3 DEF StartInv
  <1>6. sends' \in Nat /\ sends' <= requests
    <2>1. reply => Head(queue) \in Requests
      BY <1>2, <1>4, RequestParts DEF Answerable
    <2>2. sends \in Nat /\ requests \in Nat
      BY <1>1 DEF TypeParts
    <2>3. sends <= requests /\ (reply => sends + 1 <= requests)
      BY <1>1, <1>2, <2>1, <2>2 DEF SendInv
    <2>4. sends' = IF reply THEN sends + 1 ELSE sends
      BY <1>4
    <2>5. QED
      BY <2>2, <2>3, <2>4
  <1>7. CASE "stopping" \notin flags
    <2>1. /\ flags' = f /\ receives' = 1 /\ queue' = q /\ on_stopped' = on_stopped
      BY <1>4, <1>5, <1>7
    <2>2. ~StartPending'
      BY <1>2, <1>3, <1>5, <2>1 DEF StartPending
    <2>3. TypeParts'
      BY <1>1, <1>2, <1>3, <1>6, <2>1 DEF TypeParts
    <2>4. ReceiveInv'
      BY <1>1, <1>2, <1>5, <2>1 DEF ReceiveInv
    <2>5. StartInv'
      BY <1>1, <1>2, <1>3, <1>5, <2>1, <2>2 DEF StartInv
    <2>6. SendInv'
      <3>1. ~ Waiting(queue', Requests) /\ requests' = requests
        BY <1>3, <1>5, <2>1
      <3>2. sends' + 0 <= requests'
        BY <1>6, <3>1
      <3>3. QED
        BY <3>1, <3>2 DEF SendInv
    <2>7. StopInv'
      BY <1>1, <1>2, <1>3, <1>7, <2>1, <2>2 DEF StopInv, TypeParts
    <2>8. QED
      BY <2>3, <2>4, <2>5, <2>6, <2>7 DEF Inv
  <1>8. CASE "stopping" \in flags
    <2>1. /\ flags' = f \ {"receiving_async"} /\ receives' = 0
          /\ resolve_on_stopped(flags', q)
      BY <1>4, <1>5, <1>8
    <2>2. /\ queue' \in Seq(Ready) /\ on_stopped' \in BOOLEAN
          /\ \A g : g # "stopped" => (Queued(queue', g) <=> Queued(q, g))
          /\ \A g : g # "stopped" /\ AtMostOnce(q, g) => AtMostOnce(queue', g)
          /\ Waiting(queue', Requests) <=> Waiting(q, Requests)
      <3>1. on_stopped \in BOOLEAN
        BY <1>1 DEF TypeParts
      <3>2. QED
        BY <1>2, <2>1, <3>1, ResolveFacts
    <2>3. ~StartPending'
      BY <1>2, <1>3, <1>5, <2>2 DEF StartPending
    <2>4. /\ flags' \subseteq {"running", "stopping", "sending_async"}
          /\ "running" \in flags' /\ "stopping" \in flags'
      BY <1>1, <1>5, <1>8, <2>1 DEF TypeParts
    <2>5. TypeParts'
      BY <1>1, <1>3, <1>6, <2>1, <2>2, <2>4 DEF TypeParts
    <2>6. ReceiveInv'
      BY <1>1, <1>2, <1>5, <2>1, <2>2, <2>4 DEF ReceiveInv
    <2>7. StartInv'
      BY <1>1, <1>2, <1>3, <2>2, <2>3, <2>4 DEF StartInv
    <2>8. SendInv'
      <3>1. ~ Waiting(queue', Requests) /\ requests' = requests
        BY <1>3, <1>5, <2>2
      <3>2. sends' + 0 <= requests'
        BY <1>6, <3>1
      <3>3. QED
        BY <3>1, <3>2 DEF SendInv
    <2>9. StopInv'
      <3>1. AtMostOnce(q, "stopped")
        BY <1>1, <1>2 DEF StopInv
      <3>2. "stopping" \in flags /\ ~on_stopped => FALSE
        BY <1>1, <1>5 DEF StopInv
      <3> HIDE DEF q
      <3>3. QED
        BY <1>2, <1>3, <1>8, <2>1, <2>3, <2>4, <3>1, <3>2, ResolveStopInv
    <2>10. QED
      BY <2>5, <2>6, <2>7, <2>8, <2>9 DEF Inv
  <1>9. QED
    BY <1>7, <1>8

LEMMA HandleSendInv == Inv /\ handle_send => Inv'
  <1> SUFFICES ASSUME Inv, handle_send PROVE Inv'
    OBVIOUS
  <1> DEFINE q == Tail(queue)
  <1>1. TypeParts /\ ReceiveInv /\ StartInv /\ SendInv /\ StopInv
    BY DEF Inv
  <1>2. /\ q \in Seq(Ready)
        /\ \A g : Queued(queue, g) <=> g = "handle_send" \/ Queued(q, g)
        /\ \A g : AtMostOnce(queue, g) => AtMostOnce(q, g)
        /\ Waiting(q, Requests) => Waiting(queue, Requests)
        /\ owner # "gone"
    BY TakeFacts DEF handle_send
  <1>3. UNCHANGED <<discoverables, posting, receives, sends, owner, stopped, starts, requests>>
    BY DEF handle_send, user_vars
  <1>4. flags' = flags \ {"sending_async"} /\ resolve_on_stopped(flags', q)
    BY DEF handle_send
  <1>5. ~StartPending /\ "running" \in flags
    BY <1>1, <1>2 DEF StartInv
  <1>6. /\ queue' \in Seq(Ready) /\ on_stopped' \in BOOLEAN
        /\ \A g : g # "stopped" => (Queued(queue', g) <=> Queued(q, g))
        /\ \A g : g # "stopped" /\ AtMostOnce(q, g) => AtMostOnce(queue', g)
        /\ Waiting(queue', Requests) <=> Waiting(q, Requests)
    <2>1. on_stopped \in BOOLEAN
      BY <1>1 DEF TypeParts
    <2>2. QED
      BY <1>2, <1>4, <2>1, ResolveFacts
  <1> HIDE DEF q
  <1>7. ~StartPending'
    BY <1>2, <1>3, <1>5, <1>6 DEF StartPending
  <1>8. /\ flags' \subseteq {"running", "stopping", "sending_async", "receiving_async"}
        /\ "receiving_async" \in flags' <=> "receiving_async" \in flags
        /\ "running" \in flags'
        /\ "stopping" \in flags' <=> "stopping" \in flags
    BY <1>1, <1>4, <1>5 DEF TypeParts
  <1>9. TypeParts'
    BY <1>1, <1>3, <1>6, <1>8 DEF TypeParts
  <1>10. ReceiveInv'
    BY <1>1, <1>2, <1>3, <1>5, <1>6, <1>8 DEF ReceiveInv
  <1>11. StartInv'
    BY <1>1, <1>2, <1>3, <1>6, <1>7, <1>8 DEF StartInv
  <1>12. SendInv'
    BY <1>1, <1>2, <1>3, <1>6 DEF SendInv, TypeParts
  <1>13. StopInv'
    <2>1. AtMostOnce(q, "stopped") /\ \A g : Queued(q, g) => Queued(queue, g)
      BY <1>1, <1>2 DEF StopInv
    <2>2. "stopping" \in flags /\ ~on_stopped => flags' \subseteq {"running", "stopping"}
      BY <1>1, <1>4 DEF StopInv
    <2>3. QED
      BY <1>2, <1>3, <1>4, <1>7, <1>8, <2>1, <2>2, ResolveStopInv
  <1>14. QED
    BY <1>9, <1>10, <1>11, <1>12, <1>13 DEF Inv

LEMMA RunStoppedInv == Inv /\ run_stopped => Inv'
  <1> SUFFICES ASSUME Inv, run_stopped PROVE Inv'
    OBVIOUS
  <1>1. TypeParts /\ ReceiveInv /\ StartInv /\ SendInv /\ StopInv
    BY DEF Inv
  <1>2. /\ Tail(queue) \in Seq(Ready)
        /\ \A g : Queued(queue, g) <=> g = "stopped" \/ Queued(Tail(queue), g)
        /\ \A g : AtMostOnce(queue, g) => AtMostOnce(Tail(queue), g)
        /\ AtMostOnce(queue, "stopped") => ~ Queued(Tail(queue), "stopped")
        /\ Waiting(Tail(queue), Requests) => Waiting(queue, Requests)
        /\ owner # "gone"
    BY TakeFacts DEF run_stopped
  <1>3. /\ queue' = Tail(queue) /\ stopped' = TRUE
        /\ UNCHANGED <<flags, on_stopped, discoverables, posting, receives, sends, owner, starts, requests>>
    BY DEF run_stopped
  <1>4. "stopping" \in flags /\ ~on_stopped /\ ~ Queued(Tail(queue), "stopped")
    BY <1>1, <1>2 DEF StopInv
  <1>5. StartPending' <=> StartPending
    BY <1>2, <1>3 DEF StartPending
  <1>6. TypeParts'
    BY <1>1, <1>2, <1>3 DEF TypeParts
  <1>7. ReceiveInv'
    BY <1>1, <1>2, <1>3, <1>5 DEF ReceiveInv
  <1>8. StartInv'
    BY <1>1, <1>2, <1>3, <1>5 DEF StartInv
  <1>9. SendInv'
    BY <1>1, <1>2, <1>3 DEF SendInv, TypeParts
  <1>10. StopInv'
    BY <1>1, <1>2, <1>3, <1>4, <1>5 DEF StopInv
  <1>11. QED
    BY <1>6, <1>7, <1>8, <1>9, <1>10 DEF Inv

-----------------------------------------------------------------------------
(***************************************************************************)
(* The network.                                                            *)
(***************************************************************************)
LEMMA ReceiveCompletesInv == Inv /\ receive_completes => Inv'
  <1> SUFFICES ASSUME Inv, receive_completes PROVE Inv'
    OBVIOUS
  <1>1. TypeParts /\ ReceiveInv /\ StartInv /\ SendInv /\ StopInv
    BY DEF Inv
  <1>2. receives = 1 /\ receives' = 0 /\ requests < MaxRequests /\ requests' = requests + 1
    BY <1>1 DEF TypeParts, receive_completes
  <1>3. UNCHANGED <<flags, on_stopped, discoverables, posting, sends, owner, stopped, starts>>
    BY DEF receive_completes, user_vars
  <1>4. ~ Queued(queue, "handle_receive") /\ ~ Waiting(queue, Requests)
    <2>1. ~ Queued(queue, "handle_receive")
      BY <1>1, <1>2 DEF ReceiveInv
    <2>2. QED
      BY <2>1, NoRequestWithoutHandler
  <1>5. /\ queue' \in Seq(Ready)
        /\ \A g : Queued(queue', g) <=> Queued(queue, g) \/ g = "handle_receive"
        /\ \A g : AtMostOnce(queue, g) /\ ~ (g = "handle_receive" /\ Queued(queue, g)) =>
                     AtMostOnce(queue', g)
    <2>1. /\ "handle_receive" \in Functions /\ "ok" \in ErrorCodes /\ "failed" \in ErrorCodes
          /\ 0 \in 0 .. Identifiers /\ queue \in Seq(Ready)
      BY <1>1 DEF Functions, ErrorCodes, TypeParts
    <2>2. PICK ec \in ErrorCodes, n \in 0 .. Identifiers :
             queue' = Append(queue, Handler("handle_receive", ec, n))
      BY <2>1 DEF receive_completes
    <2>3. Gains(queue, queue', "handle_receive")
      BY <2>1, <2>2, ReadyGains
    <2>4. QED
      BY <2>3 DEF Gains
  <1>6. StartPending' <=> StartPending
    BY <1>3, <1>5 DEF StartPending
  <1>7. TypeParts'
    <2>1. requests' \in 0 .. MaxRequests /\ receives' \in 0 .. 1
      BY <1>1, <1>2 DEF TypeParts
    <2>2. QED
      BY <1>1, <1>3, <1>5, <2>1 DEF TypeParts
  <1>8. ReceiveInv'
    BY <1>1, <1>2, <1>3, <1>4, <1>5, <1>6 DEF ReceiveInv
  <1>9. StartInv'
    BY <1>1, <1>3, <1>5, <1>6 DEF StartInv
  <1>10. SendInv'
    BY <1>1, <1>2, <1>3, <1>4 DEF SendInv, TypeParts
  <1>11. StopInv'
    <2>1. AtMostOnce(queue', "stopped") /\ (Queued(queue', "stopped") <=> Queued(queue, "stopped"))
          /\ (Queued(queue', "cancel") <=> Queued(queue, "cancel"))
      BY <1>1, <1>5 DEF StopInv
    <2>2. QED
      BY <1>1, <1>3, <1>6, <2>1 DEF StopInv
  <1>12. QED
    BY <1>7, <1>8, <1>9, <1>10, <1>11 DEF Inv

LEMMA SendCompletesInv == Inv /\ send_completes => Inv'
  <1> SUFFICES ASSUME Inv, send_completes PROVE Inv'
    OBVIOUS
  <1>1. TypeParts /\ ReceiveInv /\ StartInv /\ SendInv /\ StopInv
    BY DEF Inv
  <1>2. sends > 0 /\ sends' = sends - 1 /\ sends \in Nat
    BY <1>1 DEF TypeParts, send_completes
  <1>3. UNCHANGED <<flags, on_stopped, discoverables, posting, receives, owner, stopped, starts, requests>>
    BY DEF send_completes, user_vars
  <1>4. /\ queue' \in Seq(Ready)
        /\ \A g : Queued(queue', g) <=> Queued(queue, g) \/ g = "handle_send"
        /\ \A g : AtMostOnce(queue, g) /\ ~ (g = "handle_send" /\ Queued(queue, g)) =>
                     AtMostOnce(queue', g)
        /\ Waiting(queue', Requests) <=> Waiting(queue, Requests)
    <2>1. /\ "handle_send" \in Functions /\ "ok" \in ErrorCodes /\ "failed" \in ErrorCodes
          /\ 0 \in 0 .. Identifiers /\ queue \in Seq(Ready)
      BY <1>1 DEF Functions, ErrorCodes, TypeParts
    <2>2. PICK ec \in ErrorCodes, n \in 0 .. Identifiers :
             queue' = Append(queue, Handler("handle_send", ec, n))
      BY <2>1 DEF send_completes
    <2>3. Gains(queue, queue', "handle_send") /\ (Waiting(queue', Requests) <=> Waiting(queue, Requests))
      BY <2>1, <2>2, ReadyGains
    <2>4. QED
      BY <2>3 DEF Gains
  <1>5. ~StartPending /\ "running" \in flags
    BY <1>1, <1>2 DEF StartInv
  <1>6. ~StartPending'
    BY <1>3, <1>4, <1>5 DEF StartPending
  <1>7. TypeParts'
    <2>1. sends' \in Nat
      BY <1>2
    <2>2. QED
      BY <1>1, <1>3, <1>4, <2>1 DEF TypeParts
  <1>8. ReceiveInv'
    BY <1>1, <1>3, <1>4, <1>5, <1>6 DEF ReceiveInv
  <1>9. StartInv'
    BY <1>1, <1>3, <1>4, <1>5, <1>6 DEF StartInv
  <1>10. SendInv'
    BY <1>1, <1>2, <1>3, <1>4 DEF SendInv, TypeParts
  <1>11. StopInv'
    <2>1. AtMostOnce(queue', "stopped") /\ (Queued(queue', "stopped") <=> Queued(queue, "stopped"))
          /\ (Queued(queue', "cancel") <=> Queued(queue, "cancel"))
      BY <1>1, <1>4 DEF StopInv
    <2>2. QED
      BY <1>1, <1>3, <1>6, <2>1 DEF StopInv
  <1>12. QED
    BY <1>7, <1>8, <1>9, <1>10, <1>11 DEF Inv

-----------------------------------------------------------------------------
LEMMA NextInv == ~StaleResets /\ Inv /\ [Next]_vars => Inv'
  <1> SUFFICES ASSUME ~StaleResets, Inv, [Next]_vars PROVE Inv'
    OBVIOUS
  <1>1. CASE UNCHANGED vars
    <2>1. discoverables' \subseteq 1 .. Identifiers
      BY <1>1 DEF vars, Inv, TypeParts
    <2>2. QED
      BY <1>1, <2>1, FrameInv DEF vars, user_vars
  <1>2. CASE \/ add_discoverable \/ async_start \/ Posting \/ AsyncStop \/ stop \/ reset
             \/ destructor \/ stop_returns \/ spin
    BY <1>2, UserInv
  <1>3. CASE IoThread
    BY <1>3, RunStartInv, RunCancelInv, HandleReceiveInv, HandleSendInv, RunStoppedInv DEF IoThread
  <1>4. CASE receive_completes \/ send_completes
    BY <1>4, ReceiveCompletesInv, SendCompletesInv
  <1>5. CASE Terminated
    BY <1>1, <1>5 DEF Terminated
  <1>6. QED
    BY <1>1, <1>2, <1>3, <1>4, <1>5 DEF Next

\* A started server has exactly one receive until it is stopped, through requests it
\* cannot answer, empty datagrams, errors and any number of runs, and a stopped server
\* has no receive and no pending start: for every number of identifiers, runs and
\* requests.  It assumes that reset() comes after the replies of the last run are gone,
\* which reset() does not look at: a handle_send left over would complete the stop of the
\* next run while that run's start is still to come.
THEOREM DiscoveryServerSafe ==
    ASSUME StaleResets = FALSE
    PROVE  Spec => [](OneReceive /\ StopIsQuiet)
  <1>1. Inv /\ [Next]_vars => Inv'
    BY NextInv
  <1>2. QED
    BY <1>1, InitInv, InvImplies, PTL DEF Spec
=============================================================================
