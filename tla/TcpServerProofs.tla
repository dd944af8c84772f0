-------------------------- MODULE TcpServerProofs --------------------------
(***************************************************************************)
(* Proofs about TcpServer, for every number of connections and with or     *)
(* without errors of accept: the flag accepting stands for exactly one     *)
(* accept, and the server keeps the promise of AsyncService.               *)
(***************************************************************************)
EXTENDS TcpServer, BufferAndQueueLemmas

USE ServerAssumption

-----------------------------------------------------------------------------
(***************************************************************************)
(* The inductive invariant.  OneAccept needs the flag start_accepting to   *)
(* stand for exactly one posted lambda, and the two flags to exclude each  *)
(* other: otherwise async_accept could issue a second accept.  Its bounds  *)
(* need every accepted connection that is still queued to be one that was  *)
(* not handed over.  AsyncService needs the course of a stop: the stopped  *)
(* callback is held, then posted behind everything else, then has run; and *)
(* once it is posted no accept is left or issued.                          *)
(***************************************************************************)
Ready == [fn : Functions, ec : ErrorCodes, n : {0}]

Connection == Handler("handle_accept", "ok", 0)

StartInv ==
    /\ AtMostOnce(queue, "async_accept")
    /\ "start_accepting" \in flags <=> Queued(queue, "async_accept")
    /\ ~ ("start_accepting" \in flags /\ "accepting" \in flags)
    /\ "start_signaled" \notin flags => flags = {} /\ queue = << >>

HandInv ==
    /\ handed <= accepted
    /\ HasHandler(queue, Connection) => handed < accepted

StopInv ==
    /\ "stop_signaled" \in flags <=> "stopping" \in flags
    /\ "stop_signaled" \notin flags =>
          /\ ~stopped_callback /\ ~stopped /\ owner \in {"free", "gone"}
          /\ ~ Queued(queue, "cancel") /\ ~ Queued(queue, "stopped")
    /\ Ends(queue, "stopped")
    /\ stopped_callback \/ Queued(queue, "stopped") => ~stopped
    /\ Queued(queue, "stopped") => ~stopped_callback
    /\ "stop_signaled" \in flags /\ ~stopped_callback =>
          flags \cap {"start_accepting", "accepting"} = {}
    /\ stopped => queue = << >>
    /\ owner = "gone" => queue = << >> /\ ("stop_signaled" \in flags => stopped)

Inv == OneAccept /\ StartInv /\ HandInv /\ StopInv

-----------------------------------------------------------------------------
(***************************************************************************)
(* Handlers.                                                               *)
(***************************************************************************)
LEMMA HandlerReady ==
    \A fn \in Functions, ec \in ErrorCodes :
        /\ Handler(fn, ec, 0) \in Ready
        /\ Handler(fn, ec, 0).fn = fn /\ Handler(fn, ec, 0).ec = ec
  BY DEF Handler, Ready

LEMMA PostedReady ==
    \A fn \in Functions : /\ Posted(fn) \in Ready
                          /\ Posted(fn).fn = fn
                          /\ fn # "handle_accept" => Posted(fn) # Connection
  BY DEF Posted, ErrorCodes, Handler, Ready, Connection

LEMMA ReadyParts ==
    \A h \in Ready : /\ h.fn \in Functions /\ h.ec \in ErrorCodes
                     /\ h.fn = "handle_accept" /\ h.ec = "ok" => h = Connection
  BY DEF Ready, Connection, Handler

LEMMA QueueType == Inv => queue \in Seq(Ready)
  BY DEF Inv, OneAccept, TypeOK, Ready

LEMMA ConnectionParts == Connection.fn = "handle_accept" /\ Connection.ec = "ok"
  BY DEF Connection, Handler

-----------------------------------------------------------------------------
LEMMA InitInv == Init => Inv
  <1> SUFFICES ASSUME Init PROVE Inv
    OBVIOUS
  <1>1. queue \in Seq(Ready) /\ queue = << >>
    BY DEF Init
  <1>2. OneAccept
    <2>1. TypeOK
      <3>1. flags \subseteq States
        BY DEF Init
      <3>2. stopped_callback \in BOOLEAN /\ stopped \in BOOLEAN
        BY DEF Init
      <3>3. accepted \in 0 .. MaxConnections /\ handed \in 0 .. MaxConnections /\ accepts \in 0 .. 1
        BY DEF Init
      <3>4. owner \in {"free", "stop", "destructor", "gone"}
        BY DEF Init
      <3> QED BY <1>1, <3>1, <3>2, <3>3, <3>4 DEF TypeOK, Ready
    <2>2. QED
      BY <1>1, <2>1, EmptyFacts DEF Init, OneAccept
  <1>3. StartInv /\ HandInv
    BY <1>1, EmptyFacts DEF Init, StartInv, HandInv
  <1>4. StopInv
    BY <1>1, EmptyFacts DEF Init, StopInv
  <1>5. QED
    BY <1>2, <1>3, <1>4 DEF Inv

LEMMA AsyncStartInv == Inv /\ async_start => Inv'
  <1> SUFFICES ASSUME Inv, async_start PROVE Inv'
    OBVIOUS
  <1> DEFINE h == Posted("async_accept")
  <1>1. h \in Ready /\ h.fn = "async_accept" /\ h # Connection
    BY PostedReady DEF Functions
  <1>2. queue' = Append(queue, h)
    BY DEF async_start
  <1> HIDE DEF h
  <1>3. queue \in Seq(Ready)
    BY QueueType
  <1>4. /\ queue' \in Seq(Ready)
        /\ \A fn : Queued(queue', fn) <=> Queued(queue, fn) \/ fn = "async_accept"
        /\ \A fn : AtMostOnce(queue, fn) /\ ~ Queued(queue, fn) => AtMostOnce(queue', fn)
        /\ \A fn : ~ Queued(queue, fn) => Ends(queue', fn)
        /\ HasHandler(queue', Connection) <=> HasHandler(queue, Connection)
    BY <1>1, <1>2, <1>3, AppendFacts
  <1>5. flags = {} /\ queue = << >>
    BY DEF async_start, Inv, StartInv
  <1>6. OneAccept'
    BY <1>4, <1>5, EmptyFacts DEF async_start, Inv, OneAccept, TypeOK, Ready, States
  <1>7. StartInv'
    BY <1>4, <1>5, EmptyFacts DEF async_start, Inv, OneAccept, StartInv
  <1>8. HandInv'
    BY <1>4, <1>5, EmptyFacts DEF async_start, Inv, HandInv
  <1>9. StopInv'
    BY <1>4, <1>5, EmptyFacts DEF async_start, Callable, Inv, OneAccept, TypeOK, StopInv
  <1>10. QED
    BY <1>6, <1>7, <1>8, <1>9 DEF Inv

\* A stop that is accepted, in any of its three callers.
LEMMA StopInvStep ==
    ASSUME Inv, async_stop, CanStop, UNCHANGED <<accepts, stopped, accepted, handed>>,
           owner' \in {"free", "stop", "destructor"}
    PROVE  Inv'
  <1> DEFINE h == Posted("cancel")
  <1>1. h \in Ready /\ h.fn = "cancel" /\ h # Connection
    BY PostedReady DEF Functions
  <1>2. /\ flags' = flags \cup {"stop_signaled", "stopping"}
        /\ stopped_callback' = TRUE /\ queue' = Append(queue, h)
    BY DEF async_stop
  <1> HIDE DEF h
  <1>3. queue \in Seq(Ready)
    BY QueueType
  <1>4. /\ queue' \in Seq(Ready)
        /\ \A fn : Queued(queue', fn) <=> Queued(queue, fn) \/ fn = "cancel"
        /\ \A fn : fn # "cancel" /\ AtMostOnce(queue, fn) => AtMostOnce(queue', fn)
        /\ \A fn : ~ Queued(queue, fn) => Ends(queue', fn)
        /\ HasHandler(queue', Connection) <=> HasHandler(queue, Connection)
    BY <1>1, <1>2, <1>3, AppendFacts
  <1>5. OneAccept'
    BY <1>2, <1>4 DEF Inv, OneAccept, TypeOK, Ready, States
  <1>6. StartInv'
    BY <1>2, <1>4 DEF CanStop, Inv, StartInv
  <1>7. HandInv'
    BY <1>4 DEF Inv, HandInv
  <1>8. StopInv'
    BY <1>2, <1>4 DEF CanStop, Inv, OneAccept, TypeOK, StopInv
  <1>9. QED
    BY <1>5, <1>6, <1>7, <1>8 DEF Inv

\* When the members go nothing is outstanding: an object that was never started, or one
\* whose stopped callback has run.
LEMMA IdleAtRelease ==
    ASSUME Inv, stopped \/ ~CanStop, "stop_signaled" \in flags => stopped
    PROVE  queue = << >> /\ accepts = 0 /\ flags \cap {"start_accepting", "accepting"} = {}
  <1>1. CASE stopped
    BY <1>1 DEF Inv, OneAccept, TypeOK, StopInv
  <1>2. CASE "start_signaled" \notin flags
    BY <1>2 DEF Inv, OneAccept, TypeOK, StartInv
  <1>3. QED
    BY <1>1, <1>2 DEF CanStop

LEMMA ReleaseInv ==
    ASSUME Inv, Release, stopped \/ ~CanStop, "stop_signaled" \in flags => stopped,
           UNCHANGED <<flags, stopped_callback, stopped, accepted, handed>>
    PROVE  Inv' /\ UNCHANGED <<queue, accepts>>
  <1>1. queue = << >> /\ accepts = 0 /\ flags \cap {"start_accepting", "accepting"} = {}
    BY IdleAtRelease
  <1>2. [i \in 1 .. accepts |-> Handler("handle_accept", "aborted", 0)] = << >>
    BY <1>1, CancelledFacts DEF Cancelled
  <1>3. queue' = queue /\ accepts' = accepts /\ owner' = "gone"
    BY <1>1, <1>2 DEF Release
  <1>4. OneAccept'
    BY <1>3 DEF Inv, OneAccept, TypeOK
  <1>5. StartInv' /\ HandInv'
    BY <1>3 DEF Inv, StartInv, HandInv
  <1>6. StopInv'
    BY <1>1, <1>3 DEF Inv, OneAccept, TypeOK, StopInv
  <1>7. QED
    BY <1>3, <1>4, <1>5, <1>6 DEF Inv

\* Only where the owner is changes.
LEMMA OwnerInv ==
    ASSUME Inv, UNCHANGED <<flags, stopped_callback, queue, accepts, stopped, accepted, handed>>,
           owner' = "free" \/ owner' = owner
    PROVE  Inv'
  <1>1. OneAccept'
    BY DEF Inv, OneAccept, TypeOK
  <1>2. StartInv' /\ HandInv'
    BY DEF Inv, StartInv, HandInv
  <1>3. StopInv'
    BY DEF Inv, OneAccept, TypeOK, StopInv
  <1>4. QED
    BY <1>1, <1>2, <1>3 DEF Inv

LEMMA UserInv ==
    ASSUME Inv, async_start \/ AsyncStop \/ stop \/ destructor \/ stop_returns \/ spin
    PROVE  Inv'
  <1>1. CASE async_start
    BY <1>1, AsyncStartInv
  <1>2. CASE AsyncStop
    <2>1. CASE CanStop
      BY <1>2, <2>1, StopInvStep DEF AsyncStop
    <2>2. CASE ~CanStop
      BY <1>2, <2>2, OwnerInv DEF AsyncStop, async_stop
    <2>3. QED
      BY <2>1, <2>2
  <1>3. CASE stop
    <2>1. CASE CanStop
      BY <1>3, <2>1, StopInvStep DEF stop
    <2>2. CASE ~CanStop
      BY <1>3, <2>2, OwnerInv DEF stop, async_stop
    <2>3. QED
      BY <2>1, <2>2
  <1>4. CASE destructor
    <2>1. CASE CanStop
      BY <1>4, <2>1, StopInvStep DEF destructor
    <2>2. CASE ~CanStop
      BY <1>4, <2>2, ReleaseInv DEF destructor
    <2>3. QED
      BY <2>1, <2>2
  <1>5. CASE stop_returns
    <2>1. CASE owner = "stop" /\ owner' = "free" /\ UNCHANGED <<queue, accepts>>
      BY <1>5, <2>1, OwnerInv DEF stop_returns
    <2>2. CASE owner = "destructor" /\ Release
      BY <1>5, <2>2, ReleaseInv DEF stop_returns
    <2>3. QED
      BY <1>5, <2>1, <2>2 DEF stop_returns
  <1>6. CASE spin
    BY <1>6, OwnerInv DEF spin, vars
  <1>7. QED
    BY <1>1, <1>2, <1>3, <1>4, <1>5, <1>6

-----------------------------------------------------------------------------
(***************************************************************************)
(* The io thread.                                                          *)
(***************************************************************************)
LEMMA TakeFacts ==
    ASSUME Inv, NEW fn, Runs(fn)
    PROVE  /\ queue \in Seq(Ready) /\ queue # << >> /\ Head(queue).fn = fn /\ Head(queue) \in Ready
           /\ Tail(queue) \in Seq(Ready)
           /\ \A g : Queued(queue, g) <=> fn = g \/ Queued(Tail(queue), g)
           /\ \A g : AtMostOnce(queue, g) => AtMostOnce(Tail(queue), g)
           /\ AtMostOnce(queue, fn) => ~ Queued(Tail(queue), fn)
           /\ Ends(Tail(queue), "stopped")
           /\ HasHandler(Tail(queue), Connection) => HasHandler(queue, Connection)
           /\ "start_signaled" \in flags /\ stopped = FALSE /\ owner # "gone"
  <1>1. queue \in Seq(Ready) /\ queue # << >> /\ Head(queue).fn = fn /\ owner # "gone"
    BY QueueType DEF Runs, Next_is
  <1>2. "start_signaled" \in flags /\ stopped = FALSE /\ Ends(queue, "stopped")
    BY <1>1 DEF Inv, OneAccept, TypeOK, StartInv, StopInv
  <1>3. QED
    BY <1>1, <1>2, TailFacts

LEMMA ResolveFacts ==
    ASSUME NEW f, NEW q \in Seq(Ready), resolve_on_stopped(f, q),
           stopped_callback \in BOOLEAN, Ends(q, "stopped"),
           Queued(q, "stopped") => ~stopped_callback
    PROVE  /\ queue' \in Seq(Ready) /\ stopped_callback' \in BOOLEAN
           /\ \A fn : fn # "stopped" => (Queued(queue', fn) <=> Queued(q, fn))
           /\ \A fn : fn # "stopped" /\ AtMostOnce(q, fn) => AtMostOnce(queue', fn)
           /\ HasHandler(queue', Connection) <=> HasHandler(q, Connection)
           /\ Ends(queue', "stopped")
           /\ Queued(queue', "stopped") => ~stopped_callback'
           /\ Queued(queue', "stopped") => Queued(q, "stopped") \/ stopped_callback
           /\ stopped_callback' => stopped_callback
           /\ stopped_callback /\ ~stopped_callback' => {"start_accepting", "accepting"} \cap f = {}
  <1> DEFINE h == Posted("stopped")
  <1>1. h \in Ready /\ h.fn = "stopped" /\ h # Connection
    BY PostedReady DEF Functions
  <1>2. \/ /\ stopped_callback /\ {"start_accepting", "accepting"} \cap f = {}
           /\ queue' = Append(q, h) /\ stopped_callback' = FALSE
        \/ queue' = q /\ UNCHANGED stopped_callback
    BY DEF resolve_on_stopped
  <1> HIDE DEF h
  <1>3. CASE queue' = q /\ UNCHANGED stopped_callback
    BY <1>3
  <1>4. CASE /\ stopped_callback /\ {"start_accepting", "accepting"} \cap f = {}
             /\ queue' = Append(q, h) /\ stopped_callback' = FALSE
    BY <1>1, <1>4, AppendFacts
  <1>5. QED
    BY <1>2, <1>3, <1>4

\* A handler that ends the accept, or gives it up before it is issued, and then looks at
\* the stop.
LEMMA EndsAcceptInv ==
    ASSUME Inv, NEW fn \in {"async_accept", "handle_accept"}, Runs(fn),
           flags' = flags \ (IF fn = "async_accept" THEN {"start_accepting"} ELSE {"accepting"}),
           resolve_on_stopped(flags', Tail(queue)),
           UNCHANGED <<accepts, owner, stopped, accepted>>,
           handed' = IF Head(queue) = Connection THEN handed + 1 ELSE handed
    PROVE  Inv'
  <1>1. /\ queue \in Seq(Ready) /\ queue # << >> /\ Head(queue).fn = fn /\ Head(queue) \in Ready
        /\ Tail(queue) \in Seq(Ready)
        /\ \A g : Queued(queue, g) <=> fn = g \/ Queued(Tail(queue), g)
        /\ \A g : AtMostOnce(queue, g) => AtMostOnce(Tail(queue), g)
        /\ AtMostOnce(queue, fn) => ~ Queued(Tail(queue), fn)
        /\ Ends(Tail(queue), "stopped")
        /\ HasHandler(Tail(queue), Connection) => HasHandler(queue, Connection)
        /\ "start_signaled" \in flags /\ stopped = FALSE /\ owner # "gone"
    BY TakeFacts
  <1>2. AtMostOnce(queue, fn) /\ stopped_callback \in BOOLEAN
    BY DEF Inv, OneAccept, TypeOK, StartInv
  <1>3. Queued(Tail(queue), "stopped") => ~stopped_callback
    BY <1>1 DEF Inv, StopInv
  <1>4. /\ queue' \in Seq(Ready) /\ stopped_callback' \in BOOLEAN
        /\ \A g : g # "stopped" => (Queued(queue', g) <=> Queued(Tail(queue), g))
        /\ \A g : g # "stopped" /\ AtMostOnce(Tail(queue), g) => AtMostOnce(queue', g)
        /\ HasHandler(queue', Connection) <=> HasHandler(Tail(queue), Connection)
        /\ Ends(queue', "stopped")
        /\ Queued(queue', "stopped") => ~stopped_callback'
        /\ Queued(queue', "stopped") => Queued(Tail(queue), "stopped") \/ stopped_callback
        /\ stopped_callback' => stopped_callback
        /\ stopped_callback /\ ~stopped_callback' =>
              {"start_accepting", "accepting"} \cap flags' = {}
    BY <1>1, <1>2, <1>3, ResolveFacts
  <1>5. HandInv' /\ handed' \in 0 .. MaxConnections
    <2>1. CASE Head(queue) = Connection
      <3>1. fn = "handle_accept"
        BY <1>1, <2>1, ConnectionParts
      <3>2. ~ HasHandler(queue', Connection)
        BY <1>1, <1>2, <1>4, <3>1, HasHandlerQueued, ConnectionParts
      <3>3. handed < accepted
        <4>1. HasHandler(queue, Connection)
          BY <1>1, <2>1, TailFacts
        <4>2. QED
          BY <4>1 DEF Inv, HandInv
      <3>4. QED
        BY <2>1, <3>2, <3>3 DEF HandInv, Inv, OneAccept, TypeOK
    <2>2. CASE Head(queue) # Connection
      BY <1>1, <1>4, <2>2 DEF HandInv, Inv, OneAccept, TypeOK
    <2>3. QED
      BY <2>1, <2>2
  <1>6. OneAccept'
    <2>1. TypeOK'
      BY <1>4, <1>5 DEF Inv, OneAccept, TypeOK, Ready
    <2>2. QED
      BY <1>1, <1>2, <1>4, <2>1 DEF Inv, OneAccept, StartInv
  <1>7. StartInv'
    BY <1>1, <1>2, <1>4 DEF Inv, OneAccept, StartInv
  <1>8. StopInv'
    BY <1>1, <1>4 DEF Inv, OneAccept, TypeOK, StopInv
  <1>9. QED
    BY <1>5, <1>6, <1>7, <1>8 DEF Inv

\* A handler that issues an accept: the first, or the one after a connection.
LEMMA IssuesAcceptInv ==
    ASSUME Inv, NEW fn \in {"async_accept", "handle_accept"}, Runs(fn),
           "stopping" \notin flags, async_accept(flags),
           UNCHANGED <<owner, stopped, accepted>>,
           handed' = IF Head(queue) = Connection THEN handed + 1 ELSE handed
    PROVE  Inv'
  <1>1. /\ queue \in Seq(Ready) /\ queue # << >> /\ Head(queue).fn = fn /\ Head(queue) \in Ready
        /\ Tail(queue) \in Seq(Ready)
        /\ \A g : Queued(queue, g) <=> fn = g \/ Queued(Tail(queue), g)
        /\ \A g : AtMostOnce(queue, g) => AtMostOnce(Tail(queue), g)
        /\ AtMostOnce(queue, fn) => ~ Queued(Tail(queue), fn)
        /\ Ends(Tail(queue), "stopped")
        /\ HasHandler(Tail(queue), Connection) => HasHandler(queue, Connection)
        /\ "start_signaled" \in flags /\ stopped = FALSE /\ owner # "gone"
    BY TakeFacts
  <1>2. AtMostOnce(queue, fn) /\ stopped_callback \in BOOLEAN
    BY DEF Inv, OneAccept, TypeOK, StartInv
  <1>3. /\ flags' = (flags \ {"start_accepting"}) \cup {"accepting"}
        /\ accepts' = accepts + 1 /\ queue' = Tail(queue) /\ UNCHANGED stopped_callback
    BY DEF async_accept
  <1>4. /\ ~ Queued(queue', "async_accept") /\ ~ Queued(queue', "handle_accept")
        /\ accepts' = 1
    BY <1>1, <1>2, <1>3 DEF Inv, OneAccept, TypeOK, StartInv
  <1>5. ~ HasHandler(queue', Connection)
    BY <1>4, HasHandlerQueued, ConnectionParts
  <1>6. Head(queue) = Connection => handed < accepted
    BY <1>1, TailFacts DEF Inv, HandInv
  <1>7. HandInv' /\ handed' \in 0 .. MaxConnections
    BY <1>5, <1>6 DEF HandInv, Inv, OneAccept, TypeOK
  <1>8. OneAccept'
    <2>1. TypeOK'
      BY <1>1, <1>3, <1>4, <1>7 DEF Inv, OneAccept, TypeOK, Ready, States
    <2>2. QED
      BY <1>1, <1>3, <1>4, <2>1 DEF Inv, OneAccept
  <1>9. StartInv'
    BY <1>1, <1>3, <1>4 DEF Inv, StartInv
  <1>10. StopInv'
    BY <1>1, <1>3 DEF Inv, OneAccept, TypeOK, StopInv
  <1>11. QED
    BY <1>7, <1>8, <1>9, <1>10 DEF Inv

LEMMA RunCancelInv == Inv /\ run_cancel => Inv'
  <1> SUFFICES ASSUME Inv, run_cancel PROVE Inv'
    OBVIOUS
  <1> DEFINE r == Cancelled(accepts, "handle_accept")
             h == Handler("handle_accept", "aborted", 0)
  <1>1. /\ queue \in Seq(Ready) /\ queue # << >> /\ Head(queue).fn = "cancel"
        /\ Tail(queue) \in Seq(Ready)
        /\ \A g : Queued(queue, g) <=> g = "cancel" \/ Queued(Tail(queue), g)
        /\ \A g : AtMostOnce(queue, g) => AtMostOnce(Tail(queue), g)
        /\ Ends(Tail(queue), "stopped")
        /\ HasHandler(Tail(queue), Connection) => HasHandler(queue, Connection)
        /\ "start_signaled" \in flags /\ stopped = FALSE /\ owner # "gone"
    BY TakeFacts DEF run_cancel
  <1>2. /\ accepts \in Nat /\ accepts <= 1
        /\ h \in Ready /\ h # Connection
        /\ "stop_signaled" \in flags
    <2>1. h \in Ready /\ h.ec = "aborted"
      BY HandlerReady DEF Functions, ErrorCodes
    <2>2. QED
      BY <1>1, <2>1, ConnectionParts DEF Inv, OneAccept, TypeOK, StopInv
  <1>3. queue' = Tail(queue) \o r
    BY DEF run_cancel, Cancelled
  <1>4. /\ r \in Seq(Ready)
        /\ accepts = 0 => r = << >>
        /\ \A fn : Queued(r, fn) <=> fn = "handle_accept" /\ accepts > 0
        /\ \A fn : AtMostOnce(r, fn)
        /\ ~ HasHandler(r, Connection)
    BY <1>2, CancelledFacts, CancelledIn
  <1> HIDE DEF r, h
  <1>5. /\ queue' \in Seq(Ready)
        /\ accepts = 0 => queue' = Tail(queue)
        /\ \A fn : Queued(queue', fn) <=> Queued(Tail(queue), fn) \/ Queued(r, fn)
        /\ \A fn : AtMostOnce(Tail(queue), fn) /\ ~ (Queued(Tail(queue), fn) /\ Queued(r, fn)) =>
                      AtMostOnce(queue', fn)
        /\ HasHandler(queue', Connection) => HasHandler(queue, Connection)
    BY <1>1, <1>3, <1>4, ConcatFacts
  <1>6. Ends(queue', "stopped")
    <2>1. CASE accepts = 0
      BY <1>1, <1>5, <2>1
    <2>2. CASE accepts # 0
      <3>1. "accepting" \in flags
        BY <1>2, <2>2 DEF Inv, OneAccept, TypeOK
      <3>2. ~ Queued(queue', "stopped")
        BY <1>1, <1>2, <1>4, <1>5, <3>1 DEF Inv, OneAccept, TypeOK, StopInv
      <3>3. QED
        BY <3>2, EndsNotQueued
    <2>3. QED
      BY <2>1, <2>2
  <1>7. /\ flags' = flags
        /\ accepts' = 0
        /\ UNCHANGED <<stopped_callback, owner, stopped, accepted, handed>>
    BY <1>2 DEF run_cancel, Inv, StopInv
  <1>8. OneAccept'
    <2>1. TypeOK'
      BY <1>5, <1>7 DEF Inv, OneAccept, TypeOK, Ready
    <2>2. AtMostOnce(queue', "handle_accept")
      BY <1>1, <1>2, <1>4, <1>5 DEF Inv, OneAccept
    <2>3. "accepting" \in flags' <=> Queued(queue', "handle_accept")
      BY <1>1, <1>2, <1>4, <1>5, <1>7 DEF Inv, OneAccept
    <2>4. QED
      BY <1>7, <2>1, <2>2, <2>3 DEF OneAccept
  <1>9. StartInv' /\ HandInv'
    BY <1>1, <1>4, <1>5, <1>7 DEF Inv, StartInv, HandInv
  <1>10. StopInv'
    BY <1>1, <1>2, <1>4, <1>5, <1>6, <1>7 DEF Inv, OneAccept, TypeOK, StopInv
  <1>11. QED
    BY <1>8, <1>9, <1>10 DEF Inv

LEMMA RunStoppedInv == Inv /\ run_stopped => Inv' /\ queue' = << >> /\ accepts = 0
  <1> SUFFICES ASSUME Inv, run_stopped PROVE Inv' /\ queue' = << >> /\ accepts = 0
    OBVIOUS
  <1>1. queue \in Seq(Ready) /\ queue # << >> /\ Head(queue).fn = "stopped" /\ owner # "gone"
    BY QueueType DEF run_stopped, Runs, Next_is
  <1>2. Queued(queue, "stopped") /\ Tail(queue) = << >> /\ << >> \in Seq(Ready)
    BY <1>1, TailFacts DEF Inv, StopInv
  <1>3. "stop_signaled" \in flags /\ ~stopped_callback /\ accepts = 0
    BY <1>2 DEF Inv, OneAccept, TypeOK, StopInv
  <1>4. flags \cap {"start_accepting", "accepting"} = {}
    BY <1>3 DEF Inv, StopInv
  <1>5. queue' = << >> /\ stopped' = TRUE
    BY <1>2 DEF run_stopped
  <1>6. OneAccept'
    BY <1>2, <1>3, <1>4, <1>5, EmptyFacts DEF run_stopped, Inv, OneAccept, TypeOK, Ready
  <1>7. StartInv' /\ HandInv'
    BY <1>2, <1>4, <1>5, EmptyFacts DEF run_stopped, Inv, StartInv, HandInv
  <1>8. StopInv'
    BY <1>1, <1>3, <1>4, <1>5, EmptyFacts DEF run_stopped, Inv, OneAccept, TypeOK, StopInv
  <1>9. QED
    BY <1>3, <1>5, <1>6, <1>7, <1>8 DEF Inv

LEMMA IoThreadInv == Inv /\ IoThread => Inv'
  <1> SUFFICES ASSUME Inv, IoThread PROVE Inv'
    OBVIOUS
  <1>1. ASSUME NEW fn, Runs(fn)
        PROVE  /\ Head(queue).fn = fn
               /\ Head(queue) = Connection <=> fn = "handle_accept" /\ Head(queue).ec = "ok"
    BY <1>1, TakeFacts, ReadyParts, ConnectionParts
  <1>2. CASE run_async_accept
    <2>1. handed' = IF Head(queue) = Connection THEN handed + 1 ELSE handed
      BY <1>1, <1>2 DEF run_async_accept
    <2>2. CASE "stopping" \notin flags
      BY <1>2, <2>1, <2>2, IssuesAcceptInv DEF run_async_accept
    <2>3. CASE "stopping" \in flags
      BY <1>2, <2>1, <2>3, EndsAcceptInv DEF run_async_accept, async_accept
    <2>4. QED
      BY <2>2, <2>3
  <1>3. CASE handle_accept_error
    <2>1. handed' = IF Head(queue) = Connection THEN handed + 1 ELSE handed
      BY <1>1, <1>3 DEF handle_accept_error
    <2>2. QED
      BY <1>3, <2>1, EndsAcceptInv DEF handle_accept_error
  <1>4. CASE handle_accept_connection
    <2>1. handed' = IF Head(queue) = Connection THEN handed + 1 ELSE handed
      BY <1>1, <1>4 DEF handle_accept_connection
    <2>2. CASE "stopping" \notin flags
      BY <1>4, <2>1, <2>2, IssuesAcceptInv DEF handle_accept_connection
    <2>3. CASE "stopping" \in flags
      BY <1>4, <2>1, <2>3, EndsAcceptInv DEF handle_accept_connection
    <2>4. QED
      BY <2>2, <2>3
  <1>5. QED
    BY <1>2, <1>3, <1>4, RunCancelInv, RunStoppedInv DEF IoThread

-----------------------------------------------------------------------------
(***************************************************************************)
(* The peers.                                                              *)
(***************************************************************************)
LEMMA AcceptEndsInv ==
    ASSUME Inv, NEW ec \in ErrorCodes, owner # "gone", accepts > 0, accepts' = accepts - 1,
           queue' = Append(queue, Handler("handle_accept", ec, 0)),
           UNCHANGED <<flags, stopped_callback, owner, stopped, handed>>,
           \/ ec # "ok" /\ UNCHANGED accepted
           \/ accepted < MaxConnections /\ accepted' = accepted + 1
    PROVE  Inv'
  <1> DEFINE h == Handler("handle_accept", ec, 0)
  <1>1. h \in Ready /\ h.fn = "handle_accept" /\ h.ec = ec
    BY HandlerReady DEF Functions
  <1>2. queue \in Seq(Ready) /\ queue' = Append(queue, h)
    BY QueueType
  <1> HIDE DEF h
  <1>3. /\ queue' \in Seq(Ready)
        /\ \A fn : Queued(queue', fn) <=> Queued(queue, fn) \/ fn = "handle_accept"
        /\ \A fn : AtMostOnce(queue, fn) /\ ~ (fn = "handle_accept" /\ Queued(queue, fn)) =>
                      AtMostOnce(queue', fn)
        /\ \A fn : ~ Queued(queue, fn) => Ends(queue', fn)
        /\ HasHandler(queue', Connection) => HasHandler(queue, Connection) \/ ec = "ok"
    BY <1>1, <1>2, ConnectionParts, AppendFacts
  <1>4. /\ accepts = 1 /\ "accepting" \in flags /\ ~ Queued(queue, "handle_accept")
        /\ "start_signaled" \in flags
    BY DEF Inv, OneAccept, TypeOK, StartInv
  <1>5. ~ Queued(queue, "stopped") /\ stopped = FALSE
    BY <1>4 DEF Inv, OneAccept, TypeOK, StartInv, StopInv
  <1>6. HandInv' /\ accepted' \in 0 .. MaxConnections
    BY <1>3 DEF Inv, OneAccept, TypeOK, HandInv
  <1>7. OneAccept'
    <2>1. TypeOK'
      BY <1>3, <1>4, <1>6 DEF Inv, OneAccept, TypeOK, Ready
    <2>2. QED
      BY <1>3, <1>4, <2>1 DEF Inv, OneAccept
  <1>8. StartInv'
    BY <1>3, <1>4 DEF Inv, StartInv
  <1>9. StopInv'
    BY <1>3, <1>5 DEF Inv, OneAccept, TypeOK, StopInv
  <1>10. QED
    BY <1>6, <1>7, <1>8, <1>9 DEF Inv

LEMMA PeersInv == Inv /\ (accept_completes \/ accept_fails) => Inv'
  <1>1. Inv /\ accept_completes => Inv'
    BY AcceptEndsInv DEF accept_completes, ErrorCodes
  <1>2. Inv /\ accept_fails => Inv'
    BY AcceptEndsInv DEF accept_fails, ErrorCodes
  <1>3. QED
    BY <1>1, <1>2

LEMMA NextInv == Inv /\ [Next]_vars => Inv'
  <1> SUFFICES ASSUME Inv, [Next]_vars PROVE Inv'
    OBVIOUS
  <1>1. CASE UNCHANGED vars
    BY <1>1, OwnerInv DEF vars
  <1>2. CASE Terminated
    BY <1>2, OwnerInv DEF Terminated, vars
  <1>3. QED
    BY <1>1, <1>2, UserInv, IoThreadInv, PeersInv DEF Next

LEMMA SpecInv == Spec => []Inv
  BY InitInv, NextInv, PTL DEF Spec

\* Whatever the owner and the peers do, accepting stands for exactly one accept,
\* outstanding or completed and not yet handled (async_accept and handle_accept of
\* tcp_server.hpp), and no connection is handed over twice.
THEOREM ServerSafe == Spec => [](OneAccept /\ handed <= accepted)
  <1>1. Inv => OneAccept /\ handed <= accepted
    BY DEF Inv, HandInv
  <1>2. QED
    BY <1>1, SpecInv, PTL

-----------------------------------------------------------------------------
(***************************************************************************)
(* The server implements AsyncService.                                     *)
(***************************************************************************)
LEMMA PhaseFacts ==
    /\ owner = "gone" => Phase = "released"
    /\ owner # "gone" /\ stopped => Phase = "stopped"
    /\ owner # "gone" /\ ~stopped /\ "stop_signaled" \in flags => Phase = "stopping"
    /\ owner # "gone" /\ ~stopped /\ "stop_signaled" \notin flags => Phase = "up"
  BY DEF Phase

LEMMA BusyFacts == (queue = << >> /\ accepts = 0 => ~Busy) /\ Busy \in BOOLEAN
  BY DEF Busy

\* The server works: the owner is not told anything.
LEMMA WorkStep ==
    ASSUME owner # "gone", owner' # "gone", stopped = FALSE, stopped' = FALSE,
           "stop_signaled" \in flags' <=> "stop_signaled" \in flags
    PROVE  Service!Work
  <1>1. /\ "stop_signaled" \in flags => Phase = "stopping" /\ Phase' = "stopping"
        /\ "stop_signaled" \notin flags => Phase = "up" /\ Phase' = "up"
    BY DEF Phase
  <1>2. Busy' \in BOOLEAN
    BY DEF Busy
  <1>3. QED
    BY <1>1, <1>2 DEF Service!Work

LEMMA RequestStopStep ==
    ASSUME Inv, async_stop, CanStop, owner = "free",
           owner' \in {"free", "stop", "destructor"}, UNCHANGED stopped
    PROVE  Service!RequestStop
  <1>1. /\ "stop_signaled" \notin flags /\ "stop_signaled" \in flags'
        /\ stopped = FALSE /\ stopped' = FALSE
    BY DEF async_stop, CanStop, Inv, OneAccept, TypeOK, StopInv
  <1>2. Phase = "up" /\ Phase' = "stopping"
    BY <1>1 DEF Phase
  <1>3. Busy' \in BOOLEAN
    BY DEF Busy
  <1>4. QED
    BY <1>2, <1>3 DEF Service!RequestStop

LEMMA ReleaseStep ==
    ASSUME Inv, Release, owner # "gone", stopped \/ ~CanStop, "stop_signaled" \in flags => stopped,
           UNCHANGED <<flags, stopped_callback, stopped, accepted, handed>>
    PROVE  Service!Release
  <1>1. queue = << >> /\ accepts = 0 /\ UNCHANGED <<queue, accepts>>
    BY IdleAtRelease, ReleaseInv
  <1>2. ~Busy /\ Busy' = Busy
    BY <1>1 DEF Busy
  <1>3. Phase \in {"up", "stopped"} /\ Phase' = "released"
    BY DEF Phase, Release, Inv, OneAccept, TypeOK
  <1>4. QED
    BY <1>2, <1>3 DEF Service!Release

LEMMA FinishStep == Inv /\ run_stopped => Service!Finish
  <1> SUFFICES ASSUME Inv, run_stopped PROVE Service!Finish
    OBVIOUS
  <1>1. queue \in Seq(Ready) /\ queue # << >> /\ Head(queue).fn = "stopped" /\ owner # "gone"
    BY QueueType DEF run_stopped, Runs, Next_is
  <1>2. queue' = << >> /\ accepts = 0 /\ accepts' = 0 /\ Tail(queue) = << >>
    BY RunStoppedInv DEF run_stopped
  <1>3. \A i \in DOMAIN queue : queue[i].fn = "stopped"
    BY <1>1, <1>2, OnlyHandler
  <1>4. ~Busy
    BY <1>2, <1>3 DEF Busy
  <1>5. ~Busy'
    BY <1>2 DEF Busy
  <1>6. "stop_signaled" \in flags /\ stopped = FALSE /\ stopped' = TRUE /\ owner' = owner
    <2>1. Queued(queue, "stopped")
      BY <1>1, TailFacts
    <2>2. QED
      BY <2>1 DEF run_stopped, Inv, OneAccept, TypeOK, StopInv
  <1>7. Phase = "stopping" /\ Phase' = "stopped"
    BY <1>1, <1>6 DEF Phase
  <1>8. Busy \in BOOLEAN /\ Busy' \in BOOLEAN
    BY DEF Busy
  <1>9. QED
    BY <1>4, <1>5, <1>7, <1>8 DEF Service!Finish

\* A step that changes neither the phase nor whether the server is busy.
LEMMA StutterStep ==
    ASSUME UNCHANGED <<flags, queue, accepts, stopped>>,
           owner' = owner \/ (owner # "gone" /\ owner' # "gone")
    PROVE  UNCHANGED Service!vars
  <1>1. Phase' = Phase
    BY DEF Phase
  <1>2. Busy' = Busy
    BY DEF Busy
  <1>3. QED
    BY <1>1, <1>2 DEF Service!vars

LEMMA UserRefines ==
    ASSUME Inv, Inv', async_start \/ AsyncStop \/ stop \/ destructor \/ stop_returns \/ spin
    PROVE  [Service!Next]_(Service!vars)
  <1>1. CASE async_start
    <2>1. /\ owner # "gone" /\ owner' # "gone" /\ stopped = FALSE /\ stopped' = FALSE
          /\ "stop_signaled" \in flags' <=> "stop_signaled" \in flags
      BY <1>1 DEF async_start, Callable, Inv, OneAccept, TypeOK, StopInv
    <2>2. QED
      BY <2>1, WorkStep DEF Service!Next
  <1>2. CASE AsyncStop
    <2>1. CASE CanStop
      BY <1>2, <2>1, RequestStopStep DEF AsyncStop, Service!Next
    <2>2. CASE ~CanStop
      BY <1>2, <2>2, StutterStep DEF AsyncStop, async_stop
    <2>3. QED
      BY <2>1, <2>2
  <1>3. CASE stop
    <2>1. CASE CanStop
      BY <1>3, <2>1, RequestStopStep DEF stop, Service!Next
    <2>2. CASE ~CanStop
      BY <1>3, <2>2, StutterStep DEF stop, async_stop
    <2>3. QED
      BY <2>1, <2>2
  <1>4. CASE destructor
    <2>1. CASE CanStop
      BY <1>4, <2>1, RequestStopStep DEF destructor, Service!Next
    <2>2. CASE ~CanStop
      BY <1>4, <2>2, ReleaseStep DEF destructor, Service!Next
    <2>3. QED
      BY <2>1, <2>2
  <1>5. CASE stop_returns
    <2>1. CASE owner = "stop" /\ owner' = "free" /\ UNCHANGED <<queue, accepts>>
      BY <1>5, <2>1, StutterStep DEF stop_returns
    <2>2. CASE owner = "destructor" /\ Release
      BY <1>5, <2>2, ReleaseStep DEF stop_returns, Service!Next
    <2>3. QED
      BY <1>5, <2>1, <2>2 DEF stop_returns
  <1>6. CASE spin
    BY <1>6, StutterStep DEF spin, vars
  <1>7. QED
    BY <1>1, <1>2, <1>3, <1>4, <1>5, <1>6

LEMMA StepRefines == Inv /\ Inv' /\ [Next]_vars => [Service!Next]_(Service!vars)
  <1> SUFFICES ASSUME Inv, Inv', [Next]_vars PROVE [Service!Next]_(Service!vars)
    OBVIOUS
  <1>1. CASE UNCHANGED vars
    BY <1>1, StutterStep DEF vars
  <1>2. CASE Terminated
    BY <1>2, StutterStep DEF Terminated, vars
  <1>3. CASE run_stopped
    BY <1>3, FinishStep DEF Service!Next
  <1>4. CASE \/ run_async_accept \/ run_cancel \/ handle_accept_error
             \/ handle_accept_connection
    <2>1. PICK fn : Runs(fn)
      BY <1>4 DEF run_async_accept, run_cancel, handle_accept_error, handle_accept_connection
    <2>2. owner # "gone" /\ stopped = FALSE
      BY <2>1, TakeFacts
    <2>3. /\ UNCHANGED <<owner, stopped>>
          /\ "stop_signaled" \in flags' <=> "stop_signaled" \in flags
      BY <1>4 DEF run_async_accept, run_cancel, handle_accept_error, handle_accept_connection,
                  async_accept
    <2>4. QED
      BY <2>2, <2>3, WorkStep DEF Service!Next
  <1>5. CASE accept_completes \/ accept_fails
    <2>1. accepts > 0 /\ owner # "gone" /\ UNCHANGED <<flags, owner, stopped>>
      BY <1>5 DEF accept_completes, accept_fails
    <2>2. "accepting" \in flags
      BY <2>1 DEF Inv, OneAccept, TypeOK
    <2>3. stopped = FALSE
      BY <2>2 DEF Inv, OneAccept, TypeOK, StopInv
    <2>4. QED
      BY <2>1, <2>3, WorkStep DEF Service!Next
  <1>6. QED
    BY <1>1, <1>2, <1>3, <1>4, <1>5, UserRefines DEF Next, IoThread

\* The stopped callback of a server comes when no accept and no handler of it is left,
\* none starts afterwards, and the object goes only unused or stopped (async_stop,
\* resolve_on_stopped and ~TcpServer of tcp_server.hpp).
THEOREM ServerIsAsyncService == Spec => IsAsyncService
  <1>1. Init => Service!Init
    BY DEF Init, Service!Init, Phase, Busy
  <1>2. QED
    BY <1>1, SpecInv, StepRefines, PTL DEF Spec, IsAsyncService, Service!Spec
=============================================================================
