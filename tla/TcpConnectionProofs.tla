------------------------ MODULE TcpConnectionProofs ------------------------
(***************************************************************************)
(* Proofs about TcpConnection for every size of the buffers, every number  *)
(* of bytes, and whatever the user does about the connection-lost          *)
(* callback: the types are respected, two writes never overlap, the peer   *)
(* gets the user's bytes in order, reception goes on, the user gets the    *)
(* peer's bytes in order when there is never more than one read, and the   *)
(* connection keeps the promise of AsyncService.                           *)
(***************************************************************************)
EXTENDS TcpConnection, BufferAndQueueLemmas

USE ConnectionAssumption

-----------------------------------------------------------------------------
(***************************************************************************)
(* The inductive invariant.  The type invariant needs the buffers to be    *)
(* well formed: only then are the regions handed to the socket inside the  *)
(* array.  OneWrite needs its other half: the flag start_sending stands    *)
(* for exactly one posted lambda, and the two flags exclude each other.    *)
(***************************************************************************)
Ready == [fn : Functions, ec : ErrorCodes, n : Nat]

ControlType ==
    /\ flags \subseteq States
    /\ disconnected_callback \in BOOLEAN
    /\ broken \subseteq {"read", "write"}
    /\ owner \in {"free", "stop", "destructor", "gone"}
    /\ stopped \in BOOLEAN

OperationsType ==
    /\ queue \in Seq(Ready)
    /\ reads \in Seq(Regions(RxCapacity)) /\ writes \in Seq(Regions(TxCapacity))

RxType == rx \in Buffer(1 .. MaxRx, RxCapacity) /\ WellFormed(rx)
TxType == tx \in Buffer(1 .. MaxTx, TxCapacity) /\ WellFormed(tx)

HistoryType ==
    /\ produced \in 0 .. MaxTx /\ announced \in 0 .. produced
    /\ arrived \in 0 .. MaxRx
    /\ wire \in Seq(0 .. MaxTx) /\ delivered \in Seq(0 .. MaxRx)

TypeInv == ControlType /\ OperationsType /\ RxType /\ TxType /\ HistoryType

SendInv ==
    /\ OneWrite
    /\ AtMostOnce(queue, "start_sending")
    /\ "start_sending" \in flags <=> Queued(queue, "start_sending")
    /\ ~ ("start_sending" \in flags /\ "sending" \in flags)

Inv == TypeInv /\ SendInv

LEMMA InvImplies == Inv => TypeOK /\ OneWrite
  BY DEF Inv, TypeInv, SendInv, ControlType, OperationsType, RxType, TxType, HistoryType,
         TypeOK, Ready

-----------------------------------------------------------------------------
(***************************************************************************)
(* Facts about the handler queue.                                          *)
(***************************************************************************)

\* r holds a handler of fn exactly if q does, and not more of them.
Keeps(q, r, fn) ==
    /\ Queued(r, fn) <=> Queued(q, fn)
    /\ AtMostOnce(q, fn) => AtMostOnce(r, fn)

\* As far as sending is concerned r is q.
SendKept(q, r) == Keeps(q, r, "on_send") /\ Keeps(q, r, "start_sending")

NotSending == Functions \ {"on_send", "start_sending"}

LEMMA SendKeptSame == \A q : SendKept(q, q)
  BY DEF SendKept, Keeps

LEMMA SendKeptTransitive ==
    ASSUME NEW q, NEW r, NEW s, SendKept(q, r), SendKept(r, s)
    PROVE  SendKept(q, s)
  BY DEF SendKept, Keeps

LEMMA HandlerReady ==
    \A fn \in Functions, ec \in ErrorCodes, n \in Nat :
        Handler(fn, ec, n) \in Ready /\ Handler(fn, ec, n).fn = fn
  BY DEF Handler, Ready

LEMMA PostedReady ==
    \A fn \in Functions : Posted(fn) \in Ready /\ Posted(fn).fn = fn
  BY HandlerReady DEF Posted, ErrorCodes

LEMMA SendKeptAppend ==
    ASSUME NEW q \in Seq(Ready), NEW h \in Ready, h.fn \in NotSending
    PROVE  Append(q, h) \in Seq(Ready) /\ SendKept(q, Append(q, h))
  <1>1. Append(q, h) \in Seq(Ready)
    BY QueuedAppend
  <1>2. h.fn # "on_send" /\ h.fn # "start_sending"
    BY DEF NotSending
  <1>3. Keeps(q, Append(q, h), "on_send")
    BY <1>2, QueuedAppend DEF Keeps
  <1>4. Keeps(q, Append(q, h), "start_sending")
    BY <1>2, QueuedAppend DEF Keeps
  <1>5. QED
    BY <1>1, <1>3, <1>4 DEF SendKept

LEMMA SendKeptTail ==
    ASSUME NEW q \in Seq(Ready), q # << >>, Head(q).fn \in NotSending
    PROVE  Tail(q) \in Seq(Ready) /\ SendKept(q, Tail(q))
  <1>1. Tail(q) \in Seq(Ready)
    BY QueuedTail
  <1>2. Head(q).fn # "on_send" /\ Head(q).fn # "start_sending"
    BY DEF NotSending
  <1>3. Keeps(q, Tail(q), "on_send")
    BY <1>2, QueuedTail DEF Keeps
  <1>4. Keeps(q, Tail(q), "start_sending")
    BY <1>2, QueuedTail DEF Keeps
  <1>5. QED
    BY <1>1, <1>3, <1>4 DEF SendKept

\* A queue without handlers that send.
Quiet(q) == \A fn \in {"on_send", "start_sending"} : ~ Queued(q, fn) /\ AtMostOnce(q, fn)

LEMMA SendKeptConcat ==
    ASSUME NEW q \in Seq(Ready), NEW r \in Seq(Ready), Quiet(r)
    PROVE  q \o r \in Seq(Ready) /\ SendKept(q, q \o r)
  <1>1. q \o r \in Seq(Ready)
    BY QueuedConcat
  <1>2. Keeps(q, q \o r, "on_send")
    BY QueuedConcat DEF Keeps, Quiet
  <1>3. Keeps(q, q \o r, "start_sending")
    BY QueuedConcat DEF Keeps, Quiet
  <1>4. QED
    BY <1>1, <1>2, <1>3 DEF SendKept

LEMMA QuietEmpty == << >> \in Seq(Ready) /\ Quiet(<< >>)
  BY QueuedEmpty DEF Quiet

LEMMA QuietLostNotice == lost_notice \in Seq(Ready) /\ Quiet(lost_notice)
  <1> DEFINE h == Posted("connection_lost")
  <1>1. h \in Ready /\ h.fn = "connection_lost"
    BY PostedReady DEF Functions
  <1> HIDE DEF h
  <1>2. << >> \in Seq(Ready) /\ <<h>> = Append(<< >>, h)
    OBVIOUS
  <1>3. <<h>> \in Seq(Ready) /\ Quiet(<<h>>)
    <2>1. Append(<< >>, h) \in Seq(Ready)
      BY <1>1, <1>2, QueuedAppend
    <2>2. ASSUME NEW fn \in {"on_send", "start_sending"}
          PROVE  ~ Queued(Append(<< >>, h), fn) /\ AtMostOnce(Append(<< >>, h), fn)
      BY <1>1, <1>2, QueuedAppend, QueuedEmpty
    <2>3. QED
      BY <1>2, <2>1, <2>2 DEF Quiet
  <1>4. lost_notice = << >> \/ lost_notice = <<h>>
    BY DEF lost_notice, h
  <1>5. QED
    BY <1>3, <1>4, QuietEmpty

LEMMA ResolveKeeps ==
    ASSUME NEW f, NEW q \in Seq(Ready), NEW r \in Seq(Ready), Quiet(r),
           ControlType, resolve_on_stopped(f, q, r)
    PROVE  /\ queue' \in Seq(Ready) /\ SendKept(q, queue')
           /\ disconnected_callback' \in BOOLEAN
  <1> DEFINE p == Append(q, Posted("stopped"))
  <1>1. Posted("stopped") \in Ready /\ Posted("stopped").fn \in NotSending
    BY PostedReady DEF Functions, NotSending
  <1>2. p \in Seq(Ready) /\ SendKept(q, p)
    BY <1>1, SendKeptAppend
  <1> HIDE DEF p
  <1>3. p \o r \in Seq(Ready) /\ SendKept(q, p \o r)
    BY <1>2, SendKeptConcat, SendKeptTransitive
  <1>4. q \o r \in Seq(Ready) /\ SendKept(q, q \o r)
    BY SendKeptConcat
  <1>5. queue' = p \o r \/ queue' = q \o r
    BY DEF resolve_on_stopped, p
  <1>6. disconnected_callback' \in BOOLEAN
    BY DEF resolve_on_stopped, ControlType
  <1>7. QED
    BY <1>3, <1>4, <1>5, <1>6

\* A step that does not touch the sending side keeps its invariant.
LEMMA SendInvKept ==
    ASSUME SendInv, UNCHANGED writes, SendKept(queue, queue'),
           "sending" \in flags' <=> "sending" \in flags,
           "start_sending" \in flags' <=> "start_sending" \in flags
    PROVE  SendInv'
  BY DEF SendInv, OneWrite, SendKept, Keeps

-----------------------------------------------------------------------------
(***************************************************************************)
(* Facts about the regions handed to the socket.                           *)
(***************************************************************************)
LEMMA ReadHeadRegion ==
    ASSUME NEW Byte, NEW cap \in Nat, NEW b \in Buffer(Byte, cap), WellFormed(b),
           get_read_head(b).ptr # NullPtr
    PROVE  get_read_head(b) \in Regions(cap)
  <1>1. b.tail \in Nat /\ b.size \in Nat /\ b.head \in Nat /\ b.cap = cap
    BY BufferParts
  <1>2. b.size > 0 /\ get_read_head(b) = [ptr |-> b.tail, len |-> b.size]
    BY <1>1 DEF get_read_head, Region
  <1>3. b.tail \in 0 .. cap /\ b.size \in 1 .. cap /\ b.tail + b.size <= cap
    BY <1>1, <1>2 DEF WellFormed
  <1>4. QED
    BY <1>2, <1>3 DEF Regions

LEMMA WriteHeadRegion ==
    ASSUME NEW Byte, NEW cap \in Nat, NEW b \in Buffer(Byte, cap), WellFormed(b),
           get_write_head(b).ptr # NullPtr
    PROVE  get_write_head(b) \in Regions(cap)
  <1>1. b.tail \in Nat /\ b.size \in Nat /\ b.head \in Nat /\ b.cap = cap
    BY BufferParts
  <1>2. b.head < cap /\ get_write_head(b) = [ptr |-> b.head, len |-> cap - b.head]
    BY <1>1, WriteHeadIsSpaceToEnd DEF Region
  <1>3. b.head \in 0 .. cap /\ cap - b.head \in 1 .. cap /\ b.head + (cap - b.head) <= cap
    BY <1>1, <1>2
  <1>4. QED
    BY <1>2, <1>3 DEF Regions

\* The bytes of a region, or the first k of them.
LEMMA RegionBytes ==
    ASSUME NEW max \in Nat, NEW cap \in Nat, NEW b \in Buffer(1 .. max, cap),
           NEW r \in Regions(cap), NEW k \in 0 .. r.len
    PROVE  BytesAt(b, r.ptr, k) \in Seq(0 .. max)
  <1>1. r.ptr \in Nat /\ r.len \in Nat /\ r.ptr + r.len <= cap
    BY DEF Regions
  <1>2. k \in Nat /\ r.ptr + k <= cap
    BY <1>1
  <1>3. AnyByte(1 .. max) = 0 .. max
    BY DEF AnyByte, Blank
  <1>4. QED
    BY <1>1, <1>2, <1>3, BytesAtType

-----------------------------------------------------------------------------
(***************************************************************************)
(* Initially, and with every step of a user thread.                        *)
(***************************************************************************)
LEMMA InitInv == Init => Inv
  <1> SUFFICES ASSUME Init PROVE Inv
    OBVIOUS
  <1>1. ASSUME NEW Byte, NEW cap \in Nat
        PROVE  NewBuffer(cap) \in Buffer(Byte, cap) /\ WellFormed(NewBuffer(cap))
    <2>1. [i \in 0 .. cap - 1 |-> Blank] \in Cells(Byte, cap)
      BY DEF Cells
    <2>2. QED
      BY <2>1, BufferParts DEF NewBuffer, WellFormed
  <1>2. RxType /\ TxType
    BY <1>1 DEF Init, RxType, TxType
  <1>3. ControlType
    BY DEF Init, ControlType
  <1>6. OperationsType
    BY DEF Init, OperationsType
  <1>7. HistoryType
    BY DEF Init, HistoryType
  <1>4. SendInv
    BY QueuedEmpty DEF Init, SendInv, OneWrite
  <1>5. QED
    BY <1>2, <1>3, <1>4, <1>6, <1>7 DEF Inv, TypeInv

LEMMA QueueSendInv ==
    ASSUME Inv, NEW k \in 1 .. MaxTx, call_queue_send_function(k)
    PROVE  Inv'
  <1> DEFINE s == [i \in 1 .. k |-> produced + i]
             b == fill(tx, get_write_head(tx).ptr, s)
  <1>1. tx \in Buffer(1 .. MaxTx, TxCapacity) /\ WellFormed(tx) /\ produced \in 0 .. MaxTx
    BY DEF Inv, TypeInv, TxType, HistoryType
  <1>2. k \in Nat /\ produced + k <= MaxTx /\ k <= get_write_head(tx).len
    BY DEF call_queue_send_function
  <1>3. s \in Run(1 .. MaxTx, k)
    BY <1>1, <1>2 DEF Run
  <1>4. get_write_head(tx).ptr \in Int
    BY <1>1, WriteHeadIsSpaceToEnd, BufferParts DEF Region, NullPtr
  <1> HIDE DEF s
  <1>5. b \in Buffer(1 .. MaxTx, TxCapacity) /\ WellFormed(b)
    BY <1>1, <1>2, <1>3, <1>4, FillKeeps
  <1>6. tx' = commit(b, k)
    BY DEF call_queue_send_function, s
  <1> HIDE DEF b
  <1>7. TxType'
    BY <1>2, <1>5, <1>6, CommitKeeps DEF TxType
  <1>8. HistoryType'
    BY <1>1, <1>2 DEF call_queue_send_function, Inv, TypeInv, HistoryType
  <1>9. ControlType' /\ OperationsType' /\ RxType'
    BY DEF call_queue_send_function, env_vars, Inv, TypeInv, ControlType, OperationsType, RxType
  <1>10. SendInv'
    <2>1. UNCHANGED <<flags, queue, writes>>
      BY DEF call_queue_send_function
    <2>2. QED
      BY <2>1, SendKeptSame, SendInvKept DEF Inv
  <1>11. QED
    BY <1>7, <1>8, <1>9, <1>10 DEF Inv, TypeInv

LEMMA StartSendingInv == Inv /\ start_sending => Inv'
  <1> SUFFICES ASSUME Inv, start_sending PROVE Inv'
    OBVIOUS
  <1> DEFINE h == Posted("start_sending")
  <1>1. h \in Ready /\ h.fn = "start_sending"
    BY PostedReady DEF Functions
  <1>2. queue \in Seq(Ready)
    BY DEF Inv, TypeInv, OperationsType
  <1>3. UNCHANGED <<flags, queue>> \/
        /\ flags' = flags \cup {"start_sending"} /\ queue' = Append(queue, h)
        /\ "start_sending" \notin flags /\ "sending" \notin flags
    BY DEF start_sending
  <1> HIDE DEF h
  <1>9. ControlType'
    BY <1>3 DEF start_sending, env_vars, Inv, TypeInv, ControlType, States
  <1>4. OperationsType'
    <2>1. queue' \in Seq(Ready)
      BY <1>1, <1>2, <1>3, QueuedAppend
    <2>2. QED
      BY <2>1 DEF start_sending, Inv, TypeInv, OperationsType
  <1>5. RxType' /\ TxType' /\ HistoryType'
    BY DEF start_sending, Inv, TypeInv, RxType, TxType, HistoryType
  <1>6. UNCHANGED writes
    BY DEF start_sending
  <1>7. SendInv'
    <2>1. CASE UNCHANGED <<flags, queue>>
      BY <1>6, <2>1, SendKeptSame, SendInvKept DEF Inv
    <2>2. CASE /\ flags' = flags \cup {"start_sending"} /\ queue' = Append(queue, h)
               /\ "start_sending" \notin flags /\ "sending" \notin flags
      <3>1. Keeps(queue, queue', "on_send")
        BY <1>1, <1>2, <2>2, QueuedAppend DEF Keeps
      <3>2. Queued(queue', "start_sending")
        BY <1>1, <1>2, <2>2, QueuedAppend
      <3>3. AtMostOnce(queue', "start_sending")
        BY <1>1, <1>2, <2>2, QueuedAppend DEF Inv, SendInv
      <3>4. "start_sending" \in flags' /\ "sending" \notin flags'
        BY <2>2
      <3>5. QED
        BY <1>6, <2>2, <3>1, <3>2, <3>3, <3>4 DEF Inv, SendInv, OneWrite, Keeps
    <2>3. QED
      BY <1>3, <2>1, <2>2
  <1>8. QED
    BY <1>4, <1>5, <1>7, <1>9 DEF Inv, TypeInv

LEMMA StartReceivingInv == Inv /\ start_receiving => Inv'
  <1> SUFFICES ASSUME Inv, start_receiving PROVE Inv'
    OBVIOUS
  <1> DEFINE h == Posted("async_receive")
  <1>1. h \in Ready /\ h.fn \in NotSending
    BY PostedReady DEF Functions, NotSending
  <1>2. queue \in Seq(Ready)
    BY DEF Inv, TypeInv, OperationsType
  <1>3. UNCHANGED <<flags, queue>> \/
        (flags' = flags \cup {"start_receiving"} /\ queue' = Append(queue, h))
    BY DEF start_receiving
  <1> HIDE DEF h
  <1>4. queue' \in Seq(Ready) /\ SendKept(queue, queue')
    BY <1>1, <1>2, <1>3, SendKeptAppend, SendKeptSame
  <1>5. ControlType'
    BY <1>3 DEF start_receiving, env_vars, Inv, TypeInv, ControlType, States
  <1>6. OperationsType'
    BY <1>4 DEF start_receiving, Inv, TypeInv, OperationsType
  <1>7. RxType' /\ TxType' /\ HistoryType'
    BY DEF start_receiving, history, Inv, TypeInv, RxType, TxType, HistoryType
  <1>8. SendInv'
    <2>1. UNCHANGED writes
      BY DEF start_receiving
    <2>2. /\ "sending" \in flags' <=> "sending" \in flags
          /\ "start_sending" \in flags' <=> "start_sending" \in flags
      BY <1>3
    <2>3. QED
      BY <1>4, <2>1, <2>2, SendInvKept DEF Inv
  <1>9. QED
    BY <1>5, <1>6, <1>7, <1>8 DEF Inv, TypeInv

LEMMA AsyncStopKeeps ==
    ASSUME TypeInv, async_stop
    PROVE  /\ flags' \subseteq States /\ disconnected_callback' \in BOOLEAN
           /\ queue' \in Seq(Ready) /\ SendKept(queue, queue')
           /\ "sending" \in flags' <=> "sending" \in flags
           /\ "start_sending" \in flags' <=> "start_sending" \in flags
  <1> DEFINE h == Posted("cancel_async_operations")
  <1>1. h \in Ready /\ h.fn \in NotSending
    BY PostedReady DEF Functions, NotSending
  <1>2. queue \in Seq(Ready) /\ flags \subseteq States /\ disconnected_callback \in BOOLEAN
    BY DEF TypeInv, OperationsType, ControlType
  <1>3. UNCHANGED <<flags, disconnected_callback, queue>> \/
        /\ flags' = flags \cup {"stop_signaled", "closing"}
        /\ disconnected_callback' = TRUE
        /\ queue' = Append(queue, h)
    BY DEF async_stop
  <1> HIDE DEF h
  <1>4. queue' \in Seq(Ready) /\ SendKept(queue, queue')
    BY <1>1, <1>2, <1>3, SendKeptAppend, SendKeptSame
  <1>5. flags' \subseteq States /\ disconnected_callback' \in BOOLEAN
    BY <1>2, <1>3 DEF States
  <1>6. /\ "sending" \in flags' <=> "sending" \in flags
        /\ "start_sending" \in flags' <=> "start_sending" \in flags
    BY <1>3
  <1>7. QED
    BY <1>4, <1>5, <1>6

\* async_stop, by itself, in stop() or in the destructor.
LEMMA AsyncStopKeepsInv ==
    ASSUME Inv, async_stop, UNCHANGED <<reads, writes, rx, tx, broken, stopped, history>>,
           owner' \in {"free", "stop", "destructor", "gone"}
    PROVE  Inv'
  <1>1. /\ flags' \subseteq States /\ disconnected_callback' \in BOOLEAN
        /\ queue' \in Seq(Ready) /\ SendKept(queue, queue')
        /\ "sending" \in flags' <=> "sending" \in flags
        /\ "start_sending" \in flags' <=> "start_sending" \in flags
    BY AsyncStopKeeps DEF Inv
  <1>2. ControlType'
    BY <1>1 DEF Inv, TypeInv, ControlType
  <1>3. OperationsType'
    BY <1>1 DEF Inv, TypeInv, OperationsType
  <1>4. RxType' /\ TxType' /\ HistoryType'
    BY DEF history, Inv, TypeInv, RxType, TxType, HistoryType
  <1>5. SendInv'
    BY <1>1, SendInvKept DEF Inv
  <1>6. QED
    BY <1>2, <1>3, <1>4, <1>5 DEF Inv, TypeInv

-----------------------------------------------------------------------------
(***************************************************************************)
(* Cancelling and closing: the outstanding operations become handlers.     *)
(***************************************************************************)
AllAborted(q) == q \o Aborted(reads, "on_receive") \o Aborted(writes, "on_send")

LEMMA AbortedFacts ==
    ASSUME NEW q \in Seq(Ready), OperationsType, Len(writes) <= 1
    PROVE  /\ AllAborted(q) \in Seq(Ready)
           /\ Queued(AllAborted(q), "on_send") <=> Queued(q, "on_send") \/ writes # << >>
           /\ AtMostOnce(q, "on_send") /\ ~ (Queued(q, "on_send") /\ writes # << >>) =>
                 AtMostOnce(AllAborted(q), "on_send")
           /\ Keeps(q, AllAborted(q), "start_sending")
  <1> DEFINE r == Aborted(reads, "on_receive")
             w == Aborted(writes, "on_send")
  <1>1. reads \in Seq(Regions(RxCapacity)) /\ writes \in Seq(Regions(TxCapacity))
    BY DEF OperationsType
  <1>2. Handler("on_receive", "aborted", 0) \in Ready /\ Handler("on_send", "aborted", 0) \in Ready
    BY HandlerReady DEF Functions, ErrorCodes
  <1>3. r \in Seq({Handler("on_receive", "aborted", 0)}) /\ w \in Seq({Handler("on_send", "aborted", 0)})
    BY <1>1, QueuedAborted
  <1>4. r \in Seq(Ready) /\ w \in Seq(Ready)
    BY <1>2, <1>3
  <1>5. ~ Queued(r, "on_send") /\ ~ Queued(r, "start_sending") /\ ~ Queued(w, "start_sending")
    BY <1>1, QueuedAborted
  <1>6. Queued(w, "on_send") <=> writes # << >>
    BY <1>1, QueuedAborted
  <1>7. AtMostOnce(w, "on_send")
    BY <1>1, QueuedAborted
  <1>8. AtMostOnce(r, "on_send") /\ AtMostOnce(r, "start_sending") /\ AtMostOnce(w, "start_sending")
    BY <1>5 DEF AtMostOnce, Queued
  <1> HIDE DEF r, w
  <1>9. q \o r \in Seq(Ready) /\ SendKept(q, q \o r)
    BY <1>4, <1>5, <1>8, SendKeptConcat DEF Quiet
  <1> DEFINE p == q \o r
  <1>10. p \in Seq(Ready) /\ SendKept(q, p)
    BY <1>9
  <1> HIDE DEF p
  <1>11. p \o w \in Seq(Ready)
    BY <1>4, <1>10, QueuedConcat
  <1>12. Queued(p \o w, "on_send") <=> Queued(p, "on_send") \/ writes # << >>
    BY <1>4, <1>6, <1>10, QueuedConcat
  <1>13. AtMostOnce(p, "on_send") /\ ~ (Queued(p, "on_send") /\ writes # << >>) =>
            AtMostOnce(p \o w, "on_send")
    BY <1>4, <1>6, <1>7, <1>10, QueuedConcat
  <1>14. Keeps(p, p \o w, "start_sending")
    BY <1>4, <1>5, <1>8, <1>10, QueuedConcat DEF Keeps
  <1>15. AllAborted(q) = p \o w
    BY DEF AllAborted, p, r, w
  <1>16. QED
    BY <1>10, <1>11, <1>12, <1>13, <1>14, <1>15 DEF SendKept, Keeps

\* An aborted write still is the one the flag stands for.
LEMMA SendInvAborted ==
    ASSUME SendInv, OperationsType, NEW q \in Seq(Ready), SendKept(queue, q),
           SendKept(AllAborted(q), queue'), writes' = << >>,
           "sending" \in flags' <=> "sending" \in flags,
           "start_sending" \in flags' <=> "start_sending" \in flags
    PROVE  SendInv'
  <1>1. Len(writes) <= 1
    BY DEF SendInv, OneWrite
  <1>2. /\ Queued(queue', "on_send") <=> Queued(queue, "on_send") \/ writes # << >>
        /\ AtMostOnce(queue', "on_send")
    BY <1>1, AbortedFacts DEF SendInv, OneWrite, SendKept, Keeps
  <1>3. /\ Queued(queue', "start_sending") <=> Queued(queue, "start_sending")
        /\ AtMostOnce(queue', "start_sending")
    BY <1>1, AbortedFacts DEF SendInv, SendKept, Keeps
  <1>4. Len(writes') <= 1
    OBVIOUS
  <1>5. QED
    BY <1>2, <1>3, <1>4 DEF SendInv, OneWrite

LEMMA ReleaseInv ==
    ASSUME Inv, Release, UNCHANGED <<flags, disconnected_callback, rx, tx, broken, stopped, history>>
    PROVE  Inv'
  <1>1. queue \in Seq(Ready) /\ OperationsType /\ Len(writes) <= 1
    BY DEF Inv, TypeInv, OperationsType, SendInv, OneWrite
  <1>2. queue' = AllAborted(queue) /\ reads' = << >> /\ writes' = << >> /\ owner' = "gone"
    BY DEF Release, AllAborted
  <1>3. queue' \in Seq(Ready)
    BY <1>1, <1>2, AbortedFacts
  <1>4. ControlType'
    BY <1>2 DEF Inv, TypeInv, ControlType
  <1>5. OperationsType'
    BY <1>2, <1>3 DEF OperationsType
  <1>6. RxType' /\ TxType' /\ HistoryType'
    BY DEF history, Inv, TypeInv, RxType, TxType, HistoryType
  <1>7. SendInv'
    BY <1>1, <1>2, SendKeptSame, SendInvAborted DEF Inv
  <1>8. QED
    BY <1>4, <1>5, <1>6, <1>7 DEF Inv, TypeInv

\* stop(), the destructor, and the thread that spins in them.
LEMMA OwnerInv == Inv /\ (AsyncStop \/ stop \/ destructor \/ stop_returns) => Inv'
  <1> SUFFICES ASSUME Inv, AsyncStop \/ stop \/ destructor \/ stop_returns PROVE Inv'
    OBVIOUS
  <1>1. CASE AsyncStop
    BY <1>1, AsyncStopKeepsInv DEF AsyncStop, env_vars, Inv, TypeInv, ControlType
  <1>2. CASE stop
    BY <1>2, AsyncStopKeepsInv DEF stop
  <1>3. CASE destructor
    <2>1. CASE async_stop /\ owner' = "destructor" /\ UNCHANGED <<reads, writes>>
      BY <1>3, <2>1, AsyncStopKeepsInv DEF destructor
    <2>2. CASE Release /\ UNCHANGED <<flags, disconnected_callback>>
      BY <1>3, <2>2, ReleaseInv DEF destructor
    <2>3. QED
      BY <1>3, <2>1, <2>2 DEF destructor
  <1>4. CASE stop_returns
    <2>1. CASE owner' = "free" /\ UNCHANGED <<queue, reads, writes>>
      <3>1. ControlType' /\ OperationsType'
        BY <1>4, <2>1 DEF stop_returns, Inv, TypeInv, ControlType, OperationsType
      <3>2. RxType' /\ TxType' /\ HistoryType'
        BY <1>4 DEF stop_returns, history, Inv, TypeInv, RxType, TxType, HistoryType
      <3>3. UNCHANGED <<flags, queue, writes>>
        BY <1>4, <2>1 DEF stop_returns
      <3>4. SendInv'
        BY <3>3, SendKeptSame, SendInvKept DEF Inv
      <3>5. QED
        BY <3>1, <3>2, <3>4 DEF Inv, TypeInv
    <2>2. CASE Release
      BY <1>4, <2>2, ReleaseInv DEF stop_returns
    <2>3. QED
      BY <1>4, <2>1, <2>2 DEF stop_returns
  <1>5. QED
    BY <1>1, <1>2, <1>3, <1>4

LEMMA UnchangedInv == Inv /\ UNCHANGED vars => Inv'
  <1> SUFFICES ASSUME Inv, UNCHANGED vars PROVE Inv'
    OBVIOUS
  <1>1. ControlType' /\ OperationsType'
    BY DEF vars, conn_vars, env_vars, Inv, TypeInv, ControlType, OperationsType
  <1>2. RxType' /\ TxType' /\ HistoryType'
    BY DEF vars, conn_vars, history, Inv, TypeInv, RxType, TxType, HistoryType
  <1>3. SendInv'
    BY DEF vars, conn_vars, Inv, SendInv, OneWrite
  <1>4. QED
    BY <1>1, <1>2, <1>3 DEF Inv, TypeInv

-----------------------------------------------------------------------------
(***************************************************************************)
(* The io thread.                                                          *)
(***************************************************************************)
LEMMA RunsFacts ==
    ASSUME Inv, NEW fn, Runs(fn)
    PROVE  /\ queue \in Seq(Ready) /\ queue # << >>
           /\ Head(queue).fn = fn /\ Head(queue).n \in Nat
           /\ Tail(queue) \in Seq(Ready)
  <1>1. queue \in Seq(Ready) /\ queue # << >> /\ Head(queue).fn = fn
    BY DEF Runs, Next_is, Inv, TypeInv, OperationsType
  <1>2. Head(queue) \in Ready /\ Tail(queue) \in Seq(Ready)
    BY <1>1, QueuedTail
  <1>3. QED
    BY <1>1, <1>2 DEF Ready

\* Taking a handler that does not send.
LEMMA RunsQuiet ==
    ASSUME Inv, NEW fn \in NotSending, Runs(fn)
    PROVE  Tail(queue) \in Seq(Ready) /\ SendKept(queue, Tail(queue))
  BY RunsFacts, SendKeptTail

\* Taking the handler of a write: it was the only one, and its flag is set.
LEMMA RunsOnSend ==
    ASSUME Inv, Runs("on_send")
    PROVE  /\ Tail(queue) \in Seq(Ready) /\ Head(queue).n \in Nat
           /\ ~ Queued(Tail(queue), "on_send") /\ AtMostOnce(Tail(queue), "on_send")
           /\ Keeps(queue, Tail(queue), "start_sending")
           /\ writes = << >>
           /\ "sending" \in flags /\ "start_sending" \notin flags
  <1>1. /\ queue \in Seq(Ready) /\ queue # << >> /\ Head(queue).fn = "on_send"
        /\ Head(queue).n \in Nat /\ Tail(queue) \in Seq(Ready)
    BY RunsFacts
  <1>2. Queued(queue, "on_send") /\ AtMostOnce(queue, "on_send")
    BY <1>1, QueuedTail DEF Inv, SendInv, OneWrite
  <1>3. ~ Queued(Tail(queue), "on_send") /\ AtMostOnce(Tail(queue), "on_send")
    BY <1>1, <1>2, QueuedTail
  <1>4. Keeps(queue, Tail(queue), "start_sending")
    BY <1>1, QueuedTail DEF Keeps
  <1>5. writes = << >> /\ "sending" \in flags /\ "start_sending" \notin flags
    BY <1>2 DEF Inv, SendInv, OneWrite
  <1>6. QED
    BY <1>1, <1>3, <1>4, <1>5

\* Taking the lambda of start_sending: no write is in progress.
LEMMA RunsStartSending ==
    ASSUME Inv, Runs("start_sending")
    PROVE  /\ Tail(queue) \in Seq(Ready)
           /\ ~ Queued(Tail(queue), "start_sending") /\ AtMostOnce(Tail(queue), "start_sending")
           /\ ~ Queued(Tail(queue), "on_send") /\ AtMostOnce(Tail(queue), "on_send")
           /\ writes = << >>
           /\ "sending" \notin flags
  <1>1. /\ queue \in Seq(Ready) /\ queue # << >> /\ Head(queue).fn = "start_sending"
        /\ Tail(queue) \in Seq(Ready)
    BY RunsFacts
  <1>2. Queued(queue, "start_sending") /\ AtMostOnce(queue, "start_sending")
    BY <1>1, QueuedTail DEF Inv, SendInv
  <1>3. "start_sending" \in flags /\ "sending" \notin flags
    BY <1>2 DEF Inv, SendInv
  <1>4. ~ Queued(queue, "on_send") /\ AtMostOnce(queue, "on_send") /\ writes = << >>
    BY <1>3 DEF Inv, SendInv, OneWrite
  <1>5. ~ Queued(Tail(queue), "on_send") /\ AtMostOnce(Tail(queue), "on_send")
    BY <1>1, <1>4, QueuedTail
  <1>6. ~ Queued(Tail(queue), "start_sending") /\ AtMostOnce(Tail(queue), "start_sending")
    BY <1>1, <1>2, QueuedTail
  <1>7. QED
    BY <1>1, <1>3, <1>4, <1>5, <1>6

\* async_send: one write, or the flag is cleared.
LEMMA AsyncSendFacts ==
    ASSUME NEW f \in SUBSET States, "sending" \in f, writes = << >>,
           NEW b \in Buffer(1 .. MaxTx, TxCapacity), WellFormed(b), async_send(f, b)
    PROVE  /\ TxType' /\ flags' \subseteq States
           /\ writes' \in Seq(Regions(TxCapacity)) /\ Len(writes') <= 1
           /\ "sending" \in flags' <=> writes' # << >>
           /\ "start_sending" \in flags' <=> "start_sending" \in f
           /\ "stop_signaled" \in flags' <=> "stop_signaled" \in f
  <1>1. TxType'
    BY DEF async_send, TxType
  <1>2. CASE get_read_head(b).ptr = NullPtr
    <2>1. flags' = f \ {"sending"} /\ writes' = << >>
      BY <1>2 DEF async_send
    <2>2. QED
      BY <1>1, <2>1
  <1>3. CASE get_read_head(b).ptr # NullPtr
    <2> DEFINE r == get_read_head(b)
    <2>1. r \in Regions(TxCapacity)
      BY <1>3, ReadHeadRegion
    <2>2. flags' = f /\ writes' = Append(<< >>, r)
      BY <1>3 DEF async_send
    <2> HIDE DEF r
    <2>3. writes' \in Seq(Regions(TxCapacity)) /\ Len(writes') = 1 /\ writes' # << >>
      BY <2>1, <2>2
    <2>4. QED
      BY <1>1, <2>2, <2>3
  <1>4. QED
    BY <1>2, <1>3

LEMMA RunStartSendingInv == Inv /\ run_start_sending => Inv'
  <1> SUFFICES ASSUME Inv, run_start_sending PROVE Inv'
    OBVIOUS
  <1> DEFINE f == flags \ {"start_sending"}
             t == Tail(queue)
  <1>1. /\ t \in Seq(Ready)
        /\ ~ Queued(t, "start_sending") /\ AtMostOnce(t, "start_sending")
        /\ ~ Queued(t, "on_send") /\ AtMostOnce(t, "on_send")
        /\ writes = << >>
        /\ "sending" \notin flags
    BY RunsStartSending DEF run_start_sending
  <1>2. RxType' /\ HistoryType'
    BY DEF run_start_sending, history, Inv, TypeInv, RxType, HistoryType
  <1>3. CASE /\ async_send(f \cup {"sending"}, tx)
             /\ queue' = t /\ UNCHANGED disconnected_callback
    <2> DEFINE g == f \cup {"sending"}
    <2>1. g \in SUBSET States /\ "sending" \in g /\ "start_sending" \notin g
      BY DEF Inv, TypeInv, ControlType, States
    <2>2. tx \in Buffer(1 .. MaxTx, TxCapacity) /\ WellFormed(tx)
      BY DEF Inv, TypeInv, TxType
    <2>3. async_send(g, tx)
      BY <1>3
    <2> HIDE DEF g
    <2>4. /\ TxType' /\ flags' \subseteq States
          /\ writes' \in Seq(Regions(TxCapacity)) /\ Len(writes') <= 1
          /\ "sending" \in flags' <=> writes' # << >>
          /\ "start_sending" \notin flags'
      BY <1>1, <2>1, <2>2, <2>3, AsyncSendFacts
    <2>5. ControlType'
      BY <1>3, <2>4 DEF run_start_sending, env_vars, Inv, TypeInv, ControlType
    <2>6. OperationsType'
      BY <1>1, <1>3, <2>4 DEF run_start_sending, Inv, TypeInv, OperationsType
    <2>7. SendInv'
      BY <1>1, <1>3, <2>4 DEF SendInv, OneWrite
    <2>8. QED
      BY <1>2, <2>4, <2>5, <2>6, <2>7 DEF Inv, TypeInv
  <1>4. CASE flags' = f /\ resolve_on_stopped(f, t, << >>) /\ UNCHANGED <<writes, tx>>
    <2>1. /\ queue' \in Seq(Ready) /\ SendKept(t, queue')
          /\ disconnected_callback' \in BOOLEAN
      <3>1. resolve_on_stopped(f, t, << >>) /\ ControlType
        BY <1>4 DEF Inv, TypeInv
      <3>2. QED
        BY <1>1, <3>1, QuietEmpty, ResolveKeeps
    <2>2. ControlType'
      BY <1>4, <2>1 DEF run_start_sending, env_vars, Inv, TypeInv, ControlType
    <2>3. OperationsType'
      BY <1>4, <2>1 DEF run_start_sending, Inv, TypeInv, OperationsType
    <2>4. TxType'
      BY <1>4 DEF Inv, TypeInv, TxType
    <2>5. SendInv'
      BY <1>1, <1>4, <2>1 DEF SendInv, OneWrite, SendKept, Keeps
    <2>6. QED
      BY <1>2, <2>2, <2>3, <2>4, <2>5 DEF Inv, TypeInv
  <1>5. QED
    BY <1>3, <1>4 DEF run_start_sending

\* A handler that neither sends nor touches the sending side.
LEMMA QuietStepInv ==
    ASSUME Inv, ControlType', RxType', HistoryType',
           queue' \in Seq(Ready), SendKept(queue, queue'), reads' \in Seq(Regions(RxCapacity)),
           UNCHANGED <<writes, tx>>,
           "sending" \in flags' <=> "sending" \in flags,
           "start_sending" \in flags' <=> "start_sending" \in flags
    PROVE  Inv'
  <1>1. OperationsType'
    BY DEF Inv, TypeInv, OperationsType
  <1>2. TxType'
    BY DEF Inv, TypeInv, TxType
  <1>3. SendInv'
    BY SendInvKept DEF Inv
  <1>4. QED
    BY <1>1, <1>2, <1>3 DEF Inv, TypeInv

LEMMA AsyncReceiveFacts ==
    ASSUME Inv, NEW fn \in NotSending, Runs(fn),
           NEW b \in Buffer(1 .. MaxRx, RxCapacity), WellFormed(b), async_receive(b)
    PROVE  /\ RxType' /\ flags' \subseteq States /\ disconnected_callback' \in BOOLEAN
           /\ queue' \in Seq(Ready) /\ SendKept(queue, queue')
           /\ reads' \in Seq(Regions(RxCapacity))
           /\ "sending" \in flags' <=> "sending" \in flags
           /\ "start_sending" \in flags' <=> "start_sending" \in flags
  <1> DEFINE f == flags \ {"start_receiving"}
             t == Tail(queue)
             r == get_write_head(b)
  <1>1. t \in Seq(Ready) /\ SendKept(queue, t)
    BY RunsQuiet
  <1>2. /\ flags \subseteq States /\ disconnected_callback \in BOOLEAN /\ ControlType
        /\ reads \in Seq(Regions(RxCapacity))
    BY DEF Inv, TypeInv, ControlType, OperationsType
  <1>3. flags' = f /\ rx' = b
    BY DEF async_receive
  <1>4. RxType'
    BY <1>3 DEF RxType
  <1>5. /\ flags' \subseteq States
        /\ "sending" \in flags' <=> "sending" \in flags
        /\ "start_sending" \in flags' <=> "start_sending" \in flags
    BY <1>2, <1>3
  <1>6. reads' \in Seq(Regions(RxCapacity))
    <2>1. r.ptr # NullPtr => r \in Regions(RxCapacity)
      BY WriteHeadRegion
    <2>2. reads' = reads \/ (r.ptr # NullPtr /\ reads' = Append(reads, r))
      BY DEF async_receive
    <2> HIDE DEF r
    <2>3. QED
      BY <1>2, <2>1, <2>2
  <1>7. /\ queue' \in Seq(Ready) /\ SendKept(queue, queue')
        /\ disconnected_callback' \in BOOLEAN
    <2>1. CASE queue' = t /\ UNCHANGED disconnected_callback
      BY <1>1, <1>2, <2>1
    <2>2. CASE resolve_on_stopped(f, t, << >>)
      <3> HIDE DEF t, f
      <3>1. queue' \in Seq(Ready) /\ SendKept(t, queue') /\ disconnected_callback' \in BOOLEAN
        BY <1>1, <1>2, <2>2, QuietEmpty, ResolveKeeps
      <3>2. QED
        BY <1>1, <3>1, SendKeptTransitive
    <2>3. QED
      BY <2>1, <2>2 DEF async_receive
  <1>8. QED
    BY <1>4, <1>5, <1>6, <1>7

LEMMA RunAsyncReceiveInv == Inv /\ run_async_receive => Inv'
  <1> SUFFICES ASSUME Inv, run_async_receive PROVE Inv'
    OBVIOUS
  <1>1. rx \in Buffer(1 .. MaxRx, RxCapacity) /\ WellFormed(rx)
    BY DEF Inv, TypeInv, RxType
  <1>2. "async_receive" \in NotSending /\ Runs("async_receive") /\ async_receive(rx)
    BY DEF NotSending, Functions, run_async_receive
  <1>3. /\ RxType' /\ flags' \subseteq States /\ disconnected_callback' \in BOOLEAN
        /\ queue' \in Seq(Ready) /\ SendKept(queue, queue')
        /\ reads' \in Seq(Regions(RxCapacity))
        /\ "sending" \in flags' <=> "sending" \in flags
        /\ "start_sending" \in flags' <=> "start_sending" \in flags
    BY <1>1, <1>2, AsyncReceiveFacts
  <1>4. ControlType'
    BY <1>3 DEF run_async_receive, env_vars, Inv, TypeInv, ControlType
  <1>5. HistoryType' /\ UNCHANGED <<writes, tx>>
    BY DEF run_async_receive, history, Inv, TypeInv, HistoryType
  <1>6. QED
    BY <1>3, <1>4, <1>5, QuietStepInv

LEMMA OnReceiveDataInv == Inv /\ on_receive_data => Inv'
  <1> SUFFICES ASSUME Inv, on_receive_data PROVE Inv'
    OBVIOUS
  <1> DEFINE b == commit(rx, Head(queue).n)
  <1>1. "on_receive" \in NotSending /\ Runs("on_receive")
    BY DEF NotSending, Functions, on_receive_data
  <1>2. Head(queue).n \in Nat
    BY <1>1, RunsFacts
  <1>3. rx \in Buffer(1 .. MaxRx, RxCapacity) /\ WellFormed(rx)
    BY DEF Inv, TypeInv, RxType
  <1>4. b \in Buffer(1 .. MaxRx, RxCapacity) /\ WellFormed(b)
    BY <1>2, <1>3, CommitKeeps
  <1>5. PICK k \in 0 .. b.size : /\ delivered' = delivered \o BytesAt(b, b.tail, k)
                                 /\ async_receive(consume(b, k))
    BY DEF on_receive_data
  <1> HIDE DEF b
  <1>6. b.tail \in Nat /\ b.size \in Nat /\ b.tail + b.size <= RxCapacity
    BY <1>4, BufferParts DEF WellFormed
  <1>7. k \in Nat /\ b.tail + k <= RxCapacity
    BY <1>6
  <1>8. consume(b, k) \in Buffer(1 .. MaxRx, RxCapacity) /\ WellFormed(consume(b, k))
    BY <1>4, <1>7, ConsumeKeeps
  <1>9. /\ RxType' /\ flags' \subseteq States /\ disconnected_callback' \in BOOLEAN
        /\ queue' \in Seq(Ready) /\ SendKept(queue, queue')
        /\ reads' \in Seq(Regions(RxCapacity))
        /\ "sending" \in flags' <=> "sending" \in flags
        /\ "start_sending" \in flags' <=> "start_sending" \in flags
    BY <1>1, <1>5, <1>8, AsyncReceiveFacts
  <1>10. delivered' \in Seq(0 .. MaxRx)
    <2> DEFINE s == BytesAt(b, b.tail, k)
    <2>1. AnyByte(1 .. MaxRx) = 0 .. MaxRx
      BY DEF AnyByte, Blank
    <2>2. s \in Seq(0 .. MaxRx)
      BY <1>4, <1>6, <1>7, <2>1, BytesAtType
    <2>3. delivered' = delivered \o s /\ delivered \in Seq(0 .. MaxRx)
      BY <1>5 DEF Inv, TypeInv, HistoryType
    <2> HIDE DEF s
    <2>4. QED
      BY <2>2, <2>3
  <1>11. ControlType'
    BY <1>9 DEF on_receive_data, env_vars, Inv, TypeInv, ControlType
  <1>12. HistoryType' /\ UNCHANGED <<writes, tx>>
    BY <1>10 DEF on_receive_data, Inv, TypeInv, HistoryType
  <1>13. QED
    BY <1>9, <1>11, <1>12, QuietStepInv

\* The error branches: the notice may be posted and the stop may be complete.
LEMMA ErrorKeeps ==
    ASSUME ControlType, NEW t \in Seq(Ready), NEW f,
           \/ resolve_on_stopped(f, t, lost_notice)
           \/ queue' = t \o lost_notice /\ UNCHANGED disconnected_callback
    PROVE  /\ queue' \in Seq(Ready) /\ SendKept(t, queue')
           /\ disconnected_callback' \in BOOLEAN
  <1>1. lost_notice \in Seq(Ready) /\ Quiet(lost_notice)
    BY QuietLostNotice
  <1>2. CASE resolve_on_stopped(f, t, lost_notice)
    BY <1>1, <1>2, ResolveKeeps
  <1>3. CASE queue' = t \o lost_notice /\ UNCHANGED disconnected_callback
    BY <1>1, <1>3, SendKeptConcat DEF ControlType
  <1>4. QED
    BY <1>2, <1>3

LEMMA OnReceiveErrorInv == Inv /\ on_receive_error => Inv'
  <1> SUFFICES ASSUME Inv, on_receive_error PROVE Inv'
    OBVIOUS
  <1> DEFINE t == Tail(queue)
  <1>1. "on_receive" \in NotSending /\ Runs("on_receive")
    BY DEF NotSending, Functions, on_receive_error
  <1>2. t \in Seq(Ready) /\ SendKept(queue, t)
    BY <1>1, RunsQuiet
  <1>3. \/ resolve_on_stopped(flags', t, lost_notice)
        \/ queue' = t \o lost_notice /\ UNCHANGED disconnected_callback
    BY DEF on_receive_error
  <1> HIDE DEF t
  <1>4. ControlType
    BY DEF Inv, TypeInv
  <1>5. /\ queue' \in Seq(Ready) /\ SendKept(t, queue')
        /\ disconnected_callback' \in BOOLEAN
    BY <1>2, <1>3, <1>4, ErrorKeeps
  <1>6. SendKept(queue, queue')
    BY <1>2, <1>5, SendKeptTransitive
  <1>7. flags' = flags \ {"receiving"}
    BY DEF on_receive_error
  <1>8. ControlType'
    BY <1>5, <1>7 DEF on_receive_error, env_vars, Inv, TypeInv, ControlType
  <1>9. RxType' /\ HistoryType' /\ UNCHANGED <<writes, tx>>
    BY DEF on_receive_error, history, Inv, TypeInv, RxType, HistoryType
  <1>10. reads' \in Seq(Regions(RxCapacity))
    BY DEF on_receive_error, Inv, TypeInv, OperationsType
  <1>11. QED
    BY <1>5, <1>6, <1>7, <1>8, <1>9, <1>10, QuietStepInv

LEMMA OnSendErrorInv == Inv /\ on_send_error => Inv'
  <1> SUFFICES ASSUME Inv, on_send_error PROVE Inv'
    OBVIOUS
  <1> DEFINE t == Tail(queue)
  <1>1. /\ t \in Seq(Ready)
        /\ ~ Queued(t, "on_send") /\ AtMostOnce(t, "on_send")
        /\ Keeps(queue, t, "start_sending")
        /\ writes = << >>
        /\ "start_sending" \notin flags
    BY RunsOnSend DEF on_send_error
  <1>2. \/ resolve_on_stopped(flags', t, lost_notice)
        \/ queue' = t \o lost_notice /\ UNCHANGED disconnected_callback
    BY DEF on_send_error
  <1> HIDE DEF t
  <1>3. ControlType
    BY DEF Inv, TypeInv
  <1>4. /\ queue' \in Seq(Ready) /\ SendKept(t, queue')
        /\ disconnected_callback' \in BOOLEAN
    BY <1>1, <1>2, <1>3, ErrorKeeps
  <1>5. flags' = flags \ {"sending"} /\ UNCHANGED writes
    BY DEF on_send_error
  <1>6. ControlType'
    BY <1>4, <1>5 DEF on_send_error, env_vars, Inv, TypeInv, ControlType
  <1>7. OperationsType'
    BY <1>4 DEF on_send_error, Inv, TypeInv, OperationsType
  <1>8. RxType' /\ TxType' /\ HistoryType'
    BY DEF on_send_error, history, Inv, TypeInv, RxType, TxType, HistoryType
  <1>9. SendInv'
    BY <1>1, <1>4, <1>5 DEF Inv, SendInv, OneWrite, SendKept, Keeps
  <1>10. QED
    BY <1>6, <1>7, <1>8, <1>9 DEF Inv, TypeInv

LEMMA OnSendWrittenInv == Inv /\ on_send_written => Inv'
  <1> SUFFICES ASSUME Inv, on_send_written PROVE Inv'
    OBVIOUS
  <1> DEFINE t == Tail(queue)
             b == consume(tx, Head(queue).n)
  <1>1. /\ t \in Seq(Ready) /\ Head(queue).n \in Nat
        /\ ~ Queued(t, "on_send") /\ AtMostOnce(t, "on_send")
        /\ Keeps(queue, t, "start_sending")
        /\ writes = << >>
        /\ "sending" \in flags /\ "start_sending" \notin flags
    BY RunsOnSend DEF on_send_written
  <1>2. tx \in Buffer(1 .. MaxTx, TxCapacity) /\ WellFormed(tx)
    BY DEF Inv, TypeInv, TxType
  <1>3. b \in Buffer(1 .. MaxTx, TxCapacity) /\ WellFormed(b)
    BY <1>1, <1>2, ConsumeKeeps
  <1>4. async_send(flags, b)
    BY DEF on_send_written
  <1>5. flags \in SUBSET States /\ ControlType
    BY DEF Inv, TypeInv, ControlType
  <1>6. \/ resolve_on_stopped(flags', t, << >>)
        \/ queue' = t /\ UNCHANGED disconnected_callback
    BY DEF on_send_written
  <1> HIDE DEF t, b
  <1>7. /\ TxType' /\ flags' \subseteq States
        /\ writes' \in Seq(Regions(TxCapacity)) /\ Len(writes') <= 1
        /\ "sending" \in flags' <=> writes' # << >>
        /\ "start_sending" \notin flags'
    BY <1>1, <1>3, <1>4, <1>5, AsyncSendFacts
  <1>8. /\ queue' \in Seq(Ready) /\ SendKept(t, queue')
        /\ disconnected_callback' \in BOOLEAN
    <2>1. CASE resolve_on_stopped(flags', t, << >>)
      BY <1>1, <1>5, <2>1, QuietEmpty, ResolveKeeps
    <2>2. CASE queue' = t /\ UNCHANGED disconnected_callback
      BY <1>1, <2>2, SendKeptSame DEF Inv, TypeInv, ControlType
    <2>3. QED
      BY <1>6, <2>1, <2>2
  <1>9. ControlType'
    BY <1>7, <1>8 DEF on_send_written, env_vars, Inv, TypeInv, ControlType
  <1>10. OperationsType'
    BY <1>7, <1>8 DEF on_send_written, Inv, TypeInv, OperationsType
  <1>11. RxType' /\ HistoryType'
    BY DEF on_send_written, history, Inv, TypeInv, RxType, HistoryType
  <1>12. SendInv'
    <2>1. ~ Queued(queue', "on_send") /\ AtMostOnce(queue', "on_send")
      BY <1>1, <1>8 DEF SendKept, Keeps
    <2>2. ~ Queued(queue', "start_sending") /\ AtMostOnce(queue', "start_sending")
      BY <1>1, <1>8 DEF Inv, SendInv, SendKept, Keeps
    <2>3. QED
      BY <1>7, <2>1, <2>2 DEF SendInv, OneWrite
  <1>13. QED
    BY <1>7, <1>9, <1>10, <1>11, <1>12 DEF Inv, TypeInv

LEMMA CancelInv == Inv /\ cancel_async_operations => Inv'
  <1> SUFFICES ASSUME Inv, cancel_async_operations PROVE Inv'
    OBVIOUS
  <1> DEFINE t == Tail(queue)
  <1>1. "cancel_async_operations" \in NotSending /\ Runs("cancel_async_operations")
    BY DEF NotSending, Functions, cancel_async_operations
  <1>2. t \in Seq(Ready) /\ SendKept(queue, t)
    BY <1>1, RunsQuiet
  <1>3. resolve_on_stopped(flags', AllAborted(t), << >>)
    BY DEF cancel_async_operations, AllAborted
  <1> HIDE DEF t
  <1>4. ControlType /\ OperationsType /\ SendInv /\ Len(writes) <= 1
    BY DEF Inv, TypeInv, SendInv, OneWrite
  <1>5. AllAborted(t) \in Seq(Ready)
    BY <1>2, <1>4, AbortedFacts
  <1>6. /\ queue' \in Seq(Ready) /\ SendKept(AllAborted(t), queue')
        /\ disconnected_callback' \in BOOLEAN
    BY <1>3, <1>4, <1>5, QuietEmpty, ResolveKeeps
  <1>7. flags' = flags \ {"closing"} /\ reads' = << >> /\ writes' = << >>
    BY DEF cancel_async_operations
  <1>8. SendInv'
    BY <1>2, <1>4, <1>6, <1>7, SendInvAborted
  <1>9. ControlType'
    BY <1>6, <1>7 DEF cancel_async_operations, env_vars, Inv, TypeInv, ControlType
  <1>10. OperationsType'
    BY <1>6, <1>7 DEF OperationsType
  <1>11. RxType' /\ TxType'
    BY DEF cancel_async_operations, Inv, TypeInv, RxType, TxType
  <1>12. wire' \in Seq(0 .. MaxTx)
    <2>1. wire \in Seq(0 .. MaxTx)
      BY DEF Inv, TypeInv, HistoryType
    <2>2. CASE UNCHANGED wire
      BY <2>1, <2>2
    <2>3. CASE /\ writes # << >>
               /\ \E k \in 0 .. Head(writes).len - 1 :
                     wire' = wire \o BytesAt(tx, Head(writes).ptr, k)
      <3> DEFINE r == Head(writes)
      <3>1. r \in Regions(TxCapacity)
        BY <1>4, <2>3 DEF OperationsType
      <3>2. PICK k \in 0 .. r.len - 1 : wire' = wire \o BytesAt(tx, r.ptr, k)
        BY <2>3
      <3> HIDE DEF r
      <3>3. k \in 0 .. r.len
        BY <3>1 DEF Regions
      <3>4. BytesAt(tx, r.ptr, k) \in Seq(0 .. MaxTx)
        BY <3>1, <3>3, RegionBytes DEF Inv, TypeInv, TxType
      <3>5. QED
        BY <2>1, <3>2, <3>4
    <2>4. QED
      BY <2>2, <2>3 DEF cancel_async_operations
  <1>13. HistoryType'
    BY <1>12 DEF cancel_async_operations, Inv, TypeInv, HistoryType
  <1>14. QED
    BY <1>8, <1>9, <1>10, <1>11, <1>13 DEF Inv, TypeInv

\* The callbacks of the user.
LEMMA CallbacksInv == Inv /\ (run_connection_lost \/ run_stopped) => Inv'
  <1> SUFFICES ASSUME Inv, run_connection_lost \/ run_stopped PROVE Inv'
    OBVIOUS
  <1> DEFINE t == Tail(queue)
  <1>1. PICK fn \in NotSending : Runs(fn)
    BY DEF NotSending, Functions, run_connection_lost, run_stopped
  <1>2. t \in Seq(Ready) /\ SendKept(queue, t)
    BY <1>1, RunsQuiet
  <1>3. queue' = t /\ UNCHANGED <<flags, reads, writes, tx>>
    BY DEF run_connection_lost, run_stopped
  <1> HIDE DEF t
  <1>4. ControlType'
    BY DEF run_connection_lost, run_stopped, env_vars, Inv, TypeInv, ControlType
  <1>5. RxType' /\ HistoryType'
    BY DEF run_connection_lost, run_stopped, history, Inv, TypeInv, RxType, HistoryType
  <1>6. reads' \in Seq(Regions(RxCapacity))
    BY <1>3 DEF Inv, TypeInv, OperationsType
  <1>7. QED
    BY <1>2, <1>3, <1>4, <1>5, <1>6, QuietStepInv

-----------------------------------------------------------------------------
(***************************************************************************)
(* The socket and the peer.                                                *)
(***************************************************************************)
LEMMA ReadEndsInv == Inv /\ (read_completes \/ read_fails) => Inv'
  <1> SUFFICES ASSUME Inv, read_completes \/ read_fails PROVE Inv'
    OBVIOUS
  <1>1. queue \in Seq(Ready) /\ reads \in Seq(Regions(RxCapacity)) /\ reads # << >>
    BY DEF Inv, TypeInv, OperationsType, read_completes, read_fails
  <1>2. Head(reads) \in Regions(RxCapacity) /\ Tail(reads) \in Seq(Regions(RxCapacity))
    BY <1>1
  <1>3. reads' \in Seq(Regions(RxCapacity)) /\ UNCHANGED <<flags, writes, tx>>
    BY <1>2 DEF read_completes, read_fails
  <1>4. ControlType'
    BY DEF read_completes, read_fails, env_vars, Inv, TypeInv, ControlType
  <1>5. CASE read_completes
    <2>1. PICK k \in 1 .. Head(reads).len :
            /\ arrived + k <= MaxRx
            /\ rx' = fill(rx, Head(reads).ptr, [i \in 1 .. k |-> arrived + i])
            /\ arrived' = arrived + k
            /\ queue' = Append(queue, Handler("on_receive", "ok", k))
      BY <1>5 DEF read_completes
    <2> DEFINE s == [i \in 1 .. k |-> arrived + i]
               h == Handler("on_receive", "ok", k)
               ptr == Head(reads).ptr
    <2>2. k \in Nat /\ ptr \in Int
      BY <1>2 DEF Regions
    <2>3. arrived \in 0 .. MaxRx
      BY DEF Inv, TypeInv, HistoryType
    <2>4. s \in Run(1 .. MaxRx, k)
      BY <2>1, <2>2, <2>3 DEF Run
    <2>5. h \in Ready /\ h.fn \in NotSending
      BY <2>2, HandlerReady DEF Functions, ErrorCodes, NotSending
    <2>6. rx' = fill(rx, ptr, s) /\ queue' = Append(queue, h)
      BY <2>1
    <2> HIDE DEF s, h, ptr
    <2>7. RxType'
      <3>1. rx \in Buffer(1 .. MaxRx, RxCapacity) /\ WellFormed(rx)
        BY DEF Inv, TypeInv, RxType
      <3>2. fill(rx, ptr, s) \in Buffer(1 .. MaxRx, RxCapacity) /\ WellFormed(fill(rx, ptr, s))
        BY <2>2, <2>4, <3>1, FillKeeps
      <3>3. QED
        BY <2>6, <3>2 DEF RxType
    <2>8. queue' \in Seq(Ready) /\ SendKept(queue, queue')
      BY <1>1, <2>5, <2>6, SendKeptAppend
    <2>9. HistoryType'
      BY <1>5, <2>1, <2>2, <2>3 DEF read_completes, Inv, TypeInv, HistoryType
    <2>10. QED
      BY <1>3, <1>4, <2>7, <2>8, <2>9, QuietStepInv
  <1>6. CASE read_fails
    <2> DEFINE h == Handler("on_receive", "failed", 0)
    <2>1. h \in Ready /\ h.fn \in NotSending
      BY HandlerReady DEF Functions, ErrorCodes, NotSending
    <2>2. queue' = Append(queue, h)
      BY <1>6 DEF read_fails
    <2> HIDE DEF h
    <2>3. queue' \in Seq(Ready) /\ SendKept(queue, queue')
      BY <1>1, <2>1, <2>2, SendKeptAppend
    <2>4. RxType' /\ HistoryType'
      BY <1>6 DEF read_fails, history, Inv, TypeInv, RxType, HistoryType
    <2>5. QED
      BY <1>3, <1>4, <2>3, <2>4, QuietStepInv
  <1>7. QED
    BY <1>5, <1>6

\* The write, its whole region or a part of it on the wire, becomes its handler.
LEMMA WriteEndsInv == Inv /\ (write_completes \/ write_fails) => Inv'
  <1> SUFFICES ASSUME Inv, write_completes \/ write_fails PROVE Inv'
    OBVIOUS
  <1> DEFINE r == Head(writes)
  <1>1. queue \in Seq(Ready) /\ writes \in Seq(Regions(TxCapacity)) /\ writes # << >>
    BY DEF Inv, TypeInv, OperationsType, write_completes, write_fails
  <1>2. r \in Regions(TxCapacity) /\ Len(writes) <= 1
    BY <1>1 DEF Inv, SendInv, OneWrite
  <1>3. r.len \in Nat /\ r.len \in 0 .. r.len /\ \A k \in 0 .. r.len - 1 : k \in 0 .. r.len
    BY <1>2 DEF Regions
  <1>4. Tail(writes) = << >>
    BY <1>1, <1>2
  <1>5. \E k \in 0 .. r.len, ec \in ErrorCodes :
           /\ wire' = wire \o BytesAt(tx, r.ptr, k)
           /\ queue' = Append(queue, Handler("on_send", ec, k))
    <2>1. CASE write_completes
      <3>1. /\ wire' = wire \o BytesAt(tx, r.ptr, r.len)
            /\ queue' = Append(queue, Handler("on_send", "ok", r.len))
        BY <2>1 DEF write_completes
      <3> HIDE DEF r
      <3>2. QED
        BY <1>3, <3>1 DEF ErrorCodes
    <2>2. CASE write_fails
      <3>1. PICK k \in 0 .. r.len - 1 :
              /\ wire' = wire \o BytesAt(tx, r.ptr, k)
              /\ queue' = Append(queue, Handler("on_send", "failed", k))
        BY <2>2 DEF write_fails
      <3> HIDE DEF r
      <3>2. k \in 0 .. r.len /\ "failed" \in ErrorCodes
        BY <1>3 DEF ErrorCodes
      <3>3. QED
        BY <3>1, <3>2
    <2>3. QED
      BY <2>1, <2>2
  <1> HIDE DEF r
  <1>6. PICK k \in 0 .. r.len, ec \in ErrorCodes :
           /\ wire' = wire \o BytesAt(tx, r.ptr, k)
           /\ queue' = Append(queue, Handler("on_send", ec, k))
    BY <1>5
  <1> DEFINE h == Handler("on_send", ec, k)
             s == BytesAt(tx, r.ptr, k)
  <1>7. h \in Ready /\ h.fn = "on_send"
    BY <1>3, HandlerReady DEF Functions
  <1>8. s \in Seq(0 .. MaxTx)
    BY <1>2, RegionBytes DEF Inv, TypeInv, TxType
  <1>9. queue' = Append(queue, h) /\ wire' = wire \o s
    BY <1>6
  <1> HIDE DEF h, s
  <1>10. writes' = << >> /\ UNCHANGED flags
    BY <1>4 DEF write_completes, write_fails
  <1>11. ControlType'
    BY DEF write_completes, write_fails, env_vars, Inv, TypeInv, ControlType
  <1>12. queue' \in Seq(Ready)
    BY <1>1, <1>7, <1>9, QueuedAppend
  <1>13. OperationsType'
    BY <1>10, <1>12 DEF write_completes, write_fails, Inv, TypeInv, OperationsType
  <1>14. RxType' /\ TxType'
    BY DEF write_completes, write_fails, Inv, TypeInv, RxType, TxType
  <1>15. HistoryType'
    <2>1. wire' \in Seq(0 .. MaxTx)
      BY <1>8, <1>9 DEF Inv, TypeInv, HistoryType
    <2>2. QED
      BY <2>1 DEF write_completes, write_fails, Inv, TypeInv, HistoryType
  <1>16. SendInv'
    <2>1. ~ Queued(queue, "on_send") /\ AtMostOnce(queue, "on_send") /\ "sending" \in flags
      BY <1>1 DEF Inv, SendInv, OneWrite
    <2>2. Queued(queue', "on_send") /\ AtMostOnce(queue', "on_send")
      BY <1>1, <1>7, <1>9, <2>1, QueuedAppend
    <2>3. /\ Queued(queue', "start_sending") <=> Queued(queue, "start_sending")
          /\ AtMostOnce(queue, "start_sending") => AtMostOnce(queue', "start_sending")
      BY <1>1, <1>7, <1>9, QueuedAppend
    <2>4. QED
      BY <1>10, <2>1, <2>2, <2>3 DEF Inv, SendInv, OneWrite
  <1>17. QED
    BY <1>11, <1>13, <1>14, <1>15, <1>16 DEF Inv, TypeInv

-----------------------------------------------------------------------------

LEMMA NextInv == Inv /\ [Next]_vars => Inv'
  <1> SUFFICES ASSUME Inv, [Next]_vars PROVE Inv'
    OBVIOUS
  <1>1. CASE User
    BY <1>1, QueueSendInv, StartSendingInv, StartReceivingInv, OwnerInv DEF User
  <1>2. CASE stop_returns
    BY <1>2, OwnerInv
  <1>3. CASE IoThread
    BY <1>3, RunStartSendingInv, RunAsyncReceiveInv, CancelInv, OnReceiveErrorInv,
       OnReceiveDataInv, OnSendErrorInv, OnSendWrittenInv, CallbacksInv DEF IoThread
  <1>4. CASE Peer
    BY <1>4, ReadEndsInv, WriteEndsInv DEF Peer
  <1>5. CASE spin \/ Terminated \/ UNCHANGED vars
    BY <1>5, UnchangedInv DEF spin, Terminated
  <1>6. QED
    BY <1>1, <1>2, <1>3, <1>4, <1>5 DEF Next

\* Whatever the user threads, the io thread and the peer do, and for every size of the
\* buffers: the regions handed to the socket lie inside the buffers, and the flag
\* sending stands for exactly one write, so two never overlap (start_sending,
\* async_send, on_send, cancel_async_operations).
THEOREM ConnectionSafe == Spec => [](TypeOK /\ OneWrite)
  BY InitInv, NextInv, InvImplies, PTL DEF Spec

-----------------------------------------------------------------------------
(***************************************************************************)
(* Bytes are numbered: the cells from tail up to top hold the numbers that *)
(* end with n.                                                             *)
(***************************************************************************)
Numbered(b, top, n) == \A i \in b.tail .. top - 1 : b.mem[i] = n - top + i + 1

Counts(s) == \A i \in DOMAIN s : s[i] = i

\* Taking k readable bytes continues a stream that ends just before them.
LEMMA PrefixCounts ==
    ASSUME NEW max \in Nat, NEW cap \in Nat, NEW b \in Buffer(1 .. max, cap), WellFormed(b),
           NEW n \in Nat, Numbered(b, b.head, n), NEW k \in Nat, k <= b.size,
           NEW w \in Seq(0 .. max), Counts(w), Len(w) = n - b.size
    PROVE  Counts(w \o BytesAt(b, b.tail, k)) /\ Len(w \o BytesAt(b, b.tail, k)) = Len(w) + k
  <1> DEFINE s == BytesAt(b, b.tail, k)
             c == w \o s
  <1>1. /\ b.tail \in Nat /\ b.size \in Nat /\ b.head \in Nat
        /\ b.head = b.tail + b.size /\ b.head <= cap
    BY BufferParts DEF WellFormed
  <1>2. AnyByte(1 .. max) = 0 .. max
    BY DEF AnyByte, Blank
  <1>3. s \in Seq(0 .. max) /\ Len(s) = k
    BY <1>1, <1>2, BytesAtType
  <1>4. ASSUME NEW j \in 1 .. k
        PROVE  s[j] = Len(w) + j
    <2>1. s[j] = b.mem[b.tail + j - 1]
      BY DEF BytesAt
    <2>2. b.tail + j - 1 \in b.tail .. b.head - 1
      <3>1. j \in Nat /\ 1 <= j /\ j <= b.size
        BY <1>1
      <3>2. \A t, z, h \in Nat : j <= z /\ h = t + z => t + j - 1 \in t .. h - 1
        BY <3>1
      <3>3. QED
        BY <1>1, <3>1, <3>2
    <2>3. b.mem[b.tail + j - 1] = n - b.head + (b.tail + j - 1) + 1
      BY <2>2 DEF Numbered
    <2>4. n - b.head + (b.tail + j - 1) + 1 = Len(w) + j
      <3>1. j \in Int /\ n \in Int /\ n - b.size = Len(w)
        BY <1>1
      <3>2. n - b.head + (b.tail + j - 1) + 1 = (n - b.size) + j
        <4> DEFINE t == b.tail
                   z == b.size
                   h == b.head
        <4>1. t \in Nat /\ z \in Nat /\ h \in Nat /\ h = t + z
          BY <1>1
        <4> HIDE DEF t, z, h
        <4>2. n - h + (t + j - 1) + 1 = (n - z) + j
          BY <3>1, <4>1
        <4>3. QED
          BY <4>2 DEF t, z, h
      <3>3. QED
        BY <3>1, <3>2
    <2>5. QED
      BY <2>1, <2>3, <2>4
  <1> HIDE DEF s
  <1>5. /\ Len(c) = Len(w) + k /\ DOMAIN c = 1 .. Len(w) + k /\ Len(w) \in Nat
        /\ \A i \in 1 .. Len(w) : c[i] = w[i]
        /\ \A i \in Len(w) + 1 .. Len(w) + k : c[i] = s[i - Len(w)]
    <2>1. Len(w) \in Nat /\ DOMAIN w = 1 .. Len(w)
      BY LenProperties
    <2>2. c \in Seq(0 .. max) /\ Len(c) = Len(w) + Len(s)
      BY <1>3, ConcatProperties
    <2>3. DOMAIN c = 1 .. Len(c)
      BY <2>2, LenProperties
    <2>4. \A i \in 1 .. Len(w) + Len(s) : c[i] = IF i <= Len(w) THEN w[i] ELSE s[i - Len(w)]
      BY <1>3, ConcatProperties
    <2>5. \A i \in 1 .. Len(w) : c[i] = w[i]
      BY <1>3, <2>1, <2>4
    <2>6. ASSUME NEW i \in Len(w) + 1 .. Len(w) + k PROVE c[i] = s[i - Len(w)]
      <3>1. i \in 1 .. Len(w) + Len(s) /\ ~ (i <= Len(w))
        BY <1>3, <2>1
      <3>2. QED
        BY <2>4, <3>1
    <2>7. QED
      BY <1>3, <2>1, <2>2, <2>3, <2>5, <2>6
  <1>6. ASSUME NEW i \in 1 .. Len(w) + k
        PROVE  c[i] = i
    <2>1. CASE i <= Len(w)
      <3>1. i \in DOMAIN w /\ c[i] = w[i]
        BY <1>5, <2>1
      <3>2. QED
        BY <3>1 DEF Counts
    <2>2. CASE i > Len(w)
      <3>1. i - Len(w) \in 1 .. k /\ i \in Len(w) + 1 .. Len(w) + k
        BY <1>5, <2>2
      <3>2. c[i] = s[i - Len(w)] /\ s[i - Len(w)] = Len(w) + (i - Len(w))
        BY <1>4, <1>5, <3>1
      <3>3. QED
        BY <1>5, <3>1, <3>2
    <2>3. QED
      BY <1>5, <2>1, <2>2
  <1>7. QED
    BY <1>5, <1>6 DEF Counts, s

\* The next k bytes are written behind the write head.
LEMMA FillNumbered ==
    ASSUME NEW max \in Nat, NEW cap \in Nat, NEW b \in Buffer(1 .. max, cap), WellFormed(b),
           NEW n \in Nat, Numbered(b, b.head, n), NEW k \in Nat, b.head + k <= cap,
           NEW s \in Run(1 .. max, k), \A j \in 1 .. k : s[j] = n + j
    PROVE  Numbered(fill(b, b.head, s), b.head + k, n + k)
  <1> DEFINE f == fill(b, b.head, s)
  <1>1. /\ b.tail \in Nat /\ b.size \in Nat /\ b.head \in Nat /\ b.tail <= b.head
    BY BufferParts DEF WellFormed
  <1>2. /\ f.tail = b.tail
        /\ \A i \in 0 .. cap - 1 : f.mem[i] = CellAfter(b, b.head, k, s, i)
    <2>1. b.head \in Int
      BY <1>1
    <2>2. f.tail = b.tail /\ Filled(cap, b, b.head, k, s, f)
      BY <2>1, FillCells
    <2>3. QED
      BY <2>2 DEF Filled
  <1> HIDE DEF f
  <1>3. ASSUME NEW i \in f.tail .. (b.head + k) - 1
        PROVE  f.mem[i] = (n + k) - (b.head + k) + i + 1
    <2>1. i \in 0 .. cap - 1 /\ i \in Int /\ i >= b.tail /\ i <= b.head + k - 1
      BY <1>1, <1>2
    <2>2. f.mem[i] = CellAfter(b, b.head, k, s, i)
      BY <1>2, <2>1
    <2>3. CASE i < b.head
      <3>1. i \in b.tail .. b.head - 1 /\ i \notin b.head .. b.head + k - 1
        BY <1>1, <2>1, <2>3
      <3>2. f.mem[i] = b.mem[i]
        BY <2>2, <3>1 DEF CellAfter
      <3>3. b.mem[i] = n - b.head + i + 1
        BY <3>1 DEF Numbered
      <3>4. QED
        BY <1>1, <2>1, <3>2, <3>3
    <2>4. CASE i >= b.head
      <3>1. i \in b.head .. b.head + k - 1 /\ i - b.head + 1 \in 1 .. k
        <4> DEFINE h == b.head
        <4>1. h \in Nat /\ i \in Int /\ i >= h /\ i <= h + k - 1
          BY <1>1, <2>1, <2>4
        <4> HIDE DEF h
        <4>2. i \in h .. h + k - 1 /\ i - h + 1 \in 1 .. k
          BY <4>1
        <4>3. QED
          BY <4>2 DEF h
      <3>2. f.mem[i] = s[i - b.head + 1]
        BY <2>2, <3>1 DEF CellAfter
      <3>3. s[i - b.head + 1] = n + (i - b.head + 1)
        BY <3>1
      <3>4. QED
        BY <1>1, <2>1, <3>2, <3>3
    <2>5. QED
      BY <1>1, <2>1, <2>3, <2>4
  <1>4. Numbered(f, b.head + k, n + k)
    BY <1>3 DEF Numbered
  <1>5. QED
    BY <1>4 DEF f

\* An accepted commit lets the numbered cells be read.
LEMMA CommitNumbered ==
    ASSUME NEW max \in Nat, NEW cap \in Nat, NEW b \in Buffer(1 .. max, cap), WellFormed(b),
           NEW n \in Nat, NEW k \in Nat, b.head + k <= cap, Numbered(b, b.head + k, n)
    PROVE  /\ Numbered(commit(b, k), commit(b, k).head, n)
           /\ commit(b, k).size = b.size + k /\ commit(b, k).tail = b.tail
           /\ commit(b, k).head = b.head + k
  <1>1. b.head \in Nat /\ k <= cap - b.head
    BY BufferParts
  <1>2. commit(b, k) = Indices(b, b.head + k, b.tail, b.size + k)
    BY <1>1, CommitParts
  <1>3. /\ commit(b, k).size = b.size + k /\ commit(b, k).tail = b.tail
        /\ commit(b, k).head = b.head + k /\ commit(b, k).mem = b.mem
    BY <1>2 DEF Indices
  <1>4. QED
    BY <1>3 DEF Numbered

\* Consuming, accepted or refused, leaves the numbers of the other bytes alone.
LEMMA ConsumeNumbered ==
    ASSUME NEW max \in Nat, NEW cap \in Nat, NEW b \in Buffer(1 .. max, cap), WellFormed(b),
           NEW n \in Nat, Numbered(b, b.head, n), NEW k \in Nat
    PROVE  /\ Numbered(consume(b, k), consume(b, k).head, n)
           /\ k <= b.size => consume(b, k).size = b.size - k
  <1>1. /\ b.tail \in Nat /\ b.size \in Nat /\ b.head \in Nat
    BY BufferParts
  <1>2. CASE k > b.size
    <2>1. consume(b, k) = b
      BY <1>2 DEF consume
    <2>2. QED
      BY <1>1, <1>2, <2>1
  <1>3. CASE k = b.size
    <2>1. consume(b, k) = Indices(b, 0, 0, 0)
      BY <1>1, <1>3, ConsumeParts
    <2>2. consume(b, k).tail = 0 /\ consume(b, k).head = 0 /\ consume(b, k).size = 0
      BY <2>1 DEF Indices
    <2>3. QED
      BY <1>1, <1>3, <2>2 DEF Numbered
  <1>4. CASE k < b.size
    <2>1. consume(b, k) = Indices(b, b.head, b.tail + k, b.size - k)
      BY <1>1, <1>4, ConsumeParts
    <2>2. /\ consume(b, k).tail = b.tail + k /\ consume(b, k).head = b.head
          /\ consume(b, k).size = b.size - k /\ consume(b, k).mem = b.mem
      BY <2>1 DEF Indices
    <2>3. \A i \in b.tail + k .. b.head - 1 : i \in b.tail .. b.head - 1
      BY <1>1
    <2>4. QED
      BY <2>2, <2>3 DEF Numbered
  <1>5. QED
    BY <1>1, <1>2, <1>3, <1>4

-----------------------------------------------------------------------------
(***************************************************************************)
(* Ready handlers that a step adds.                                        *)
(***************************************************************************)
\* r holds no handler that q does not hold, but those of the functions in F.
Posts(q, r, F) == \A h : HasHandler(r, h) => HasHandler(q, h) \/ h.fn \in F

LEMMA PostsSame == \A q, F : Posts(q, q, F)
  BY DEF Posts

LEMMA PostsTransitive ==
    ASSUME NEW q, NEW r, NEW s, NEW F, Posts(q, r, F), Posts(r, s, F)
    PROVE  Posts(q, s, F)
  BY DEF Posts

LEMMA PostsMore ==
    ASSUME NEW q, NEW r, NEW F, NEW G, Posts(q, r, F), F \subseteq G
    PROVE  Posts(q, r, G)
  BY DEF Posts

LEMMA PostsAppend ==
    ASSUME NEW q \in Seq(Ready), NEW h \in Ready, NEW F, h.fn \in F
    PROVE  Append(q, h) \in Seq(Ready) /\ Posts(q, Append(q, h), F)
  BY QueuedAppend, HasHandlerAppend DEF Posts

LEMMA PostsTail ==
    ASSUME NEW q \in Seq(Ready), q # << >>, NEW F
    PROVE  Tail(q) \in Seq(Ready) /\ Posts(q, Tail(q), F)
  BY QueuedTail, HasHandlerTail DEF Posts

LEMMA PostsConcat ==
    ASSUME NEW q \in Seq(Ready), NEW r \in Seq(Ready), NEW F, \A h : HasHandler(r, h) => h.fn \in F
    PROVE  q \o r \in Seq(Ready) /\ Posts(q, q \o r, F)
  BY QueuedConcat, HasHandlerConcat DEF Posts

LEMMA NoticePosts ==
    /\ lost_notice \in Seq(Ready)
    /\ \A h : HasHandler(lost_notice, h) => h.fn \in {"connection_lost"}
  <1> DEFINE p == Posted("connection_lost")
  <1>1. p \in Ready /\ p.fn = "connection_lost"
    BY PostedReady DEF Functions
  <1> HIDE DEF p
  <1>2. lost_notice = << >> \/ lost_notice = <<p>>
    BY DEF lost_notice, p
  <1>3. \A h : HasHandler(<<p>>, h) => h.fn = "connection_lost"
    BY <1>1, SingleHandler
  <1>4. \A h : ~ HasHandler(<< >>, h)
    BY HasHandlerEmpty
  <1>5. lost_notice \in Seq(Ready)
    BY QuietLostNotice
  <1>6. QED
    BY <1>2, <1>3, <1>4, <1>5

LEMMA ResolvePosts ==
    ASSUME NEW f, NEW q \in Seq(Ready), NEW r \in Seq(Ready), NEW F, "stopped" \in F,
           \A h : HasHandler(r, h) => h.fn \in F,
           \/ resolve_on_stopped(f, q, r)
           \/ queue' = q \o r
    PROVE  queue' \in Seq(Ready) /\ Posts(q, queue', F)
  <1> DEFINE p == Append(q, Posted("stopped"))
  <1>1. Posted("stopped") \in Ready /\ Posted("stopped").fn \in F
    BY PostedReady DEF Functions
  <1>2. p \in Seq(Ready) /\ Posts(q, p, F)
    BY <1>1, PostsAppend
  <1>3. queue' = p \o r \/ queue' = q \o r
    BY DEF resolve_on_stopped
  <1> HIDE DEF p
  <1>4. p \o r \in Seq(Ready) /\ Posts(q, p \o r, F)
    BY <1>2, PostsConcat, PostsTransitive
  <1>5. q \o r \in Seq(Ready) /\ Posts(q, q \o r, F)
    BY PostsConcat
  <1>6. QED
    BY <1>3, <1>4, <1>5

LEMMA AbortedContains ==
    ASSUME NEW ops, NEW g, NEW h, HasHandler(Aborted(ops, g), h)
    PROVE  h = Handler(g, "aborted", 0) /\ ops # << >>
  BY DEF HasHandler, Aborted

\* The handlers cancelling adds are aborted ones.
LEMMA AllAbortedPosts ==
    ASSUME NEW q \in Seq(Ready), OperationsType, NEW h, HasHandler(AllAborted(q), h)
    PROVE  \/ HasHandler(q, h)
           \/ h = Handler("on_receive", "aborted", 0) /\ reads # << >>
           \/ h = Handler("on_send", "aborted", 0) /\ writes # << >>
  <1> DEFINE r == Aborted(reads, "on_receive")
             w == Aborted(writes, "on_send")
  <1>1. reads \in Seq(Regions(RxCapacity)) /\ writes \in Seq(Regions(TxCapacity))
    BY DEF OperationsType
  <1>2. Handler("on_receive", "aborted", 0) \in Ready /\ Handler("on_send", "aborted", 0) \in Ready
    BY HandlerReady DEF Functions, ErrorCodes
  <1>3. r \in Seq({Handler("on_receive", "aborted", 0)}) /\ w \in Seq({Handler("on_send", "aborted", 0)})
    BY <1>1, QueuedAborted
  <1>4. r \in Seq(Ready) /\ w \in Seq(Ready)
    BY <1>2, <1>3
  <1>5. /\ HasHandler(r, h) => h = Handler("on_receive", "aborted", 0) /\ reads # << >>
        /\ HasHandler(w, h) => h = Handler("on_send", "aborted", 0) /\ writes # << >>
    BY AbortedContains
  <1>6. AllAborted(q) = q \o r \o w
    BY DEF AllAborted
  <1> HIDE DEF r, w
  <1> DEFINE p == q \o r
  <1>7. p \in Seq(Ready) /\ (HasHandler(p, h) <=> HasHandler(q, h) \/ HasHandler(r, h))
    BY <1>4, QueuedConcat, HasHandlerConcat
  <1>8. AllAborted(q) = p \o w
    BY <1>6
  <1> HIDE DEF p
  <1>9. HasHandler(p \o w, h) <=> HasHandler(p, h) \/ HasHandler(w, h)
    BY <1>4, <1>7, HasHandlerConcat
  <1>10. QED
    BY <1>5, <1>7, <1>8, <1>9

LEMMA HeadContained ==
    ASSUME NEW q \in Seq(Ready), q # << >>
    PROVE  HasHandler(q, Head(q))
  BY HasHandlerTail

-----------------------------------------------------------------------------
(***************************************************************************)
(* The bytes the peer gets: the inductive invariant of SentStreamIntact.   *)
(***************************************************************************)
\* As long as nothing has gone wrong the peer has got what is no longer in the buffer,
\* and what the write that has completed, but is not handled yet, took from its front.
Unsent == produced - tx.size

InStep ==
    /\ "sending" \notin flags => Len(wire) = Unsent
    /\ writes # << >> => /\ Head(writes).ptr = tx.tail /\ Head(writes).len <= tx.size
                         /\ Len(wire) = Unsent
    /\ \A h : HasHandler(queue, h) /\ h.fn = "on_send" =>
          h.ec = "ok" /\ h.n <= tx.size /\ Len(wire) = Unsent + h.n

\* After the write has been cancelled nothing is sent any more.
Finished ==
    /\ "stop_signaled" \in flags /\ writes = << >>
    /\ \A h : HasHandler(queue, h) /\ h.fn = "on_send" => h.ec # "ok"

SentInv ==
    /\ SentStreamIntact
    /\ Numbered(tx, tx.head, produced)
    /\ Queued(queue, "cancel_async_operations") => "stop_signaled" \in flags
    /\ owner = "gone" \/ "write" \in broken \/ Finished \/ InStep

LEMMA QueuedHasHandler == \A q, fn : Queued(q, fn) <=> \E h : HasHandler(q, h) /\ h.fn = fn
  BY DEF Queued, HasHandler

\* A step that leaves the sending side alone.
LeavesSending ==
    /\ UNCHANGED <<writes, tx, produced, wire>>
    /\ broken \subseteq broken'
    /\ flags \cap {"sending", "stop_signaled"} \subseteq flags'
    /\ owner = "gone" => owner' = "gone"
    /\ Posts(queue, queue', Functions \ {"on_send"})
    /\ \/ "stop_signaled" \in flags'
       \/ Posts(queue, queue', Functions \ {"on_send", "cancel_async_operations"})

LEMMA LeavesSendingKeeps == SentInv /\ LeavesSending => SentInv'
  <1> SUFFICES ASSUME SentInv, LeavesSending PROVE SentInv'
    OBVIOUS
  <1>1. SentStreamIntact' /\ Numbered(tx, tx.head, produced)'
    BY DEF SentInv, LeavesSending, SentStreamIntact, Numbered
  <1>2. \A h : HasHandler(queue', h) /\ h.fn = "on_send" => HasHandler(queue, h)
    BY DEF LeavesSending, Posts
  <1>3. (Queued(queue, "cancel_async_operations") => "stop_signaled" \in flags)'
    <2>1. SUFFICES ASSUME Queued(queue', "cancel_async_operations"), "stop_signaled" \notin flags'
                   PROVE  FALSE
      OBVIOUS
    <2>2. PICK h : HasHandler(queue', h) /\ h.fn = "cancel_async_operations"
      BY <2>1, QueuedHasHandler
    <2>3. HasHandler(queue, h)
      BY <2>1, <2>2 DEF LeavesSending, Posts
    <2>4. Queued(queue, "cancel_async_operations")
      BY <2>2, <2>3, QueuedHasHandler
    <2>5. QED
      BY <2>1, <2>4 DEF SentInv, LeavesSending
  <1>4. CASE owner = "gone" \/ "write" \in broken
    BY <1>1, <1>3, <1>4 DEF SentInv, LeavesSending
  <1>5. CASE Finished
    <2>1. Finished'
      BY <1>2, <1>5 DEF Finished, LeavesSending
    <2>2. QED
      BY <1>1, <1>3, <2>1 DEF SentInv
  <1>6. CASE InStep
    <2>1. Unsent' = Unsent
      BY DEF Unsent, LeavesSending
    <2>2. ("sending" \notin flags => Len(wire) = Unsent)'
      BY <1>6, <2>1 DEF InStep, LeavesSending
    <2>3. (writes # << >> => /\ Head(writes).ptr = tx.tail /\ Head(writes).len <= tx.size
                             /\ Len(wire) = Unsent)'
      BY <1>6, <2>1 DEF InStep, LeavesSending
    <2>4. (\A h : HasHandler(queue, h) /\ h.fn = "on_send" =>
              h.ec = "ok" /\ h.n <= tx.size /\ Len(wire) = Unsent + h.n)'
      BY <1>2, <1>6, <2>1 DEF InStep, LeavesSending
    <2>5. InStep'
      BY <2>2, <2>3, <2>4 DEF InStep
    <2>6. QED
      BY <1>1, <1>3, <2>5 DEF SentInv
  <1>7. QED
    BY <1>4, <1>5, <1>6 DEF SentInv

-----------------------------------------------------------------------------
LEMMA InitSent == Init => SentInv
  <1> SUFFICES ASSUME Init PROVE SentInv
    OBVIOUS
  <1>1. tx.tail = 0 /\ tx.head = 0 /\ tx.size = 0
    BY DEF Init, NewBuffer
  <1>2. Numbered(tx, tx.head, produced)
    BY <1>1 DEF Numbered
  <1>3. SentStreamIntact /\ Len(wire) = Unsent
    BY <1>1 DEF Init, SentStreamIntact, Unsent
  <1>4. InStep
    BY <1>3, HasHandlerEmpty DEF Init, InStep
  <1>5. ~ Queued(queue, "cancel_async_operations")
    BY QueuedEmpty DEF Init
  <1>6. QED
    BY <1>2, <1>3, <1>4, <1>5 DEF SentInv

Calm == Functions \ {"on_send", "cancel_async_operations"}

Notices == {"stopped", "connection_lost"}

LEMMA CalmFunctions ==
    /\ Notices \subseteq Calm
    /\ {"start_sending", "async_receive", "on_receive", "connection_lost", "stopped"} \subseteq Calm
    /\ Calm \subseteq Functions \ {"on_send"}
  BY DEF Calm, Functions, Notices

\* The same, when the step posts neither a write's handler nor a cancellation.
LEMMA CalmStep ==
    ASSUME UNCHANGED <<writes, tx, produced, wire>>, broken \subseteq broken',
           flags \cap {"sending", "stop_signaled"} \subseteq flags',
           owner = "gone" => owner' = "gone", Posts(queue, queue', Calm)
    PROVE  LeavesSending
  BY CalmFunctions, PostsMore DEF LeavesSending, Calm

\* async_receive posts the stopped callback, if anything.
LEMMA AsyncReceivePosts ==
    ASSUME Inv, NEW fn, Runs(fn), NEW b, async_receive(b)
    PROVE  /\ Posts(Tail(queue), queue', Notices) /\ Posts(queue, queue', Calm)
           /\ flags' = flags \ {"start_receiving"}
  <1> DEFINE t == Tail(queue)
  <1>1. t \in Seq(Ready) /\ Posts(queue, t, Calm)
    BY RunsFacts, PostsTail
  <1>2. \/ queue' = t
        \/ resolve_on_stopped(flags \ {"start_receiving"}, t, << >>)
    BY DEF async_receive
  <1> HIDE DEF t
  <1>3. "stopped" \in Notices /\ << >> \in Seq(Ready) /\ \A h : ~ HasHandler(<< >>, h)
    BY HasHandlerEmpty DEF Notices
  <1>4. Posts(t, queue', Notices)
    BY <1>1, <1>2, <1>3, PostsSame, ResolvePosts
  <1>5. Posts(queue, queue', Calm)
    BY <1>1, <1>4, CalmFunctions, PostsMore, PostsTransitive
  <1>6. QED
    BY <1>4, <1>5 DEF async_receive, t

\* The steps of reception and the callbacks of the user.
LEMMA ReceivingLeaves ==
    Inv /\ (start_receiving \/ start_sending \/ run_async_receive \/ on_receive_data
              \/ run_connection_lost \/ run_stopped \/ read_completes \/ read_fails)
        => LeavesSending
  <1> SUFFICES ASSUME Inv PROVE start_receiving \/ start_sending \/ run_async_receive \/ on_receive_data
              \/ run_connection_lost \/ run_stopped \/ read_completes \/ read_fails => LeavesSending
    OBVIOUS
  <1>0. queue \in Seq(Ready)
    BY DEF Inv, TypeInv, OperationsType
  <1>1. ASSUME start_receiving PROVE LeavesSending
    <2>1. Posted("async_receive") \in Ready /\ Posted("async_receive").fn \in Calm
      BY PostedReady, CalmFunctions DEF Functions
    <2>2. Posts(queue, queue', Calm)
      BY <1>0, <1>1, <2>1, PostsAppend, PostsSame DEF start_receiving
    <2>3. QED
      BY <1>1, <2>2, CalmStep DEF start_receiving, env_vars, history
  <1>2. ASSUME start_sending PROVE LeavesSending
    <2>1. Posted("start_sending") \in Ready /\ Posted("start_sending").fn \in Calm
      BY PostedReady, CalmFunctions DEF Functions
    <2>2. Posts(queue, queue', Calm)
      BY <1>0, <1>2, <2>1, PostsAppend, PostsSame DEF start_sending
    <2>3. QED
      BY <1>2, <2>2, CalmStep DEF start_sending, env_vars
  <1>3. ASSUME run_async_receive PROVE LeavesSending
    <2>1. Posts(queue, queue', Calm) /\ flags' = flags \ {"start_receiving"}
      BY <1>3, AsyncReceivePosts DEF run_async_receive
    <2>2. QED
      BY <1>3, <2>1, CalmStep DEF run_async_receive, env_vars, history
  <1>4. ASSUME on_receive_data PROVE LeavesSending
    <2>1. Posts(queue, queue', Calm) /\ flags' = flags \ {"start_receiving"}
      BY <1>4, AsyncReceivePosts DEF on_receive_data
    <2>2. QED
      BY <1>4, <2>1, CalmStep DEF on_receive_data, env_vars
  <1>5. ASSUME run_connection_lost \/ run_stopped PROVE LeavesSending
    <2>1. PICK fn : Runs(fn)
      BY <1>5 DEF run_connection_lost, run_stopped
    <2>2. Posts(queue, queue', Calm)
      BY <1>5, <2>1, RunsFacts, PostsTail DEF run_connection_lost, run_stopped
    <2>3. QED
      BY <1>5, <2>2, CalmStep DEF run_connection_lost, run_stopped, env_vars, history
  <1>6. ASSUME read_completes \/ read_fails PROVE LeavesSending
    <2>1. PICK ec \in ErrorCodes, n \in Nat : queue' = Append(queue, Handler("on_receive", ec, n))
      <3>1. CASE read_completes
        <4>1. reads \in Seq(Regions(RxCapacity)) /\ reads # << >>
          BY <3>1 DEF Inv, TypeInv, OperationsType, read_completes
        <4>2. \E n \in Nat : queue' = Append(queue, Handler("on_receive", "ok", n))
          BY <3>1, <4>1 DEF read_completes, Regions
        <4>3. QED
          BY <4>2 DEF ErrorCodes
      <3>2. CASE read_fails
        BY <3>2 DEF read_fails, ErrorCodes
      <3>3. QED
        BY <1>6, <3>1, <3>2
    <2>2. Handler("on_receive", ec, n) \in Ready /\ Handler("on_receive", ec, n).fn \in Calm
      BY HandlerReady, CalmFunctions DEF Functions
    <2>3. Posts(queue, queue', Calm)
      BY <1>0, <2>1, <2>2, PostsAppend
    <2>4. QED
      BY <1>6, <2>3, CalmStep DEF read_completes, read_fails, env_vars, history
  <1>7. QED
    BY <1>1, <1>2, <1>3, <1>4, <1>5, <1>6

LEMMA ErrorPosts ==
    ASSUME Inv, NEW fn, Runs(fn),
           \/ resolve_on_stopped(flags', Tail(queue), lost_notice)
           \/ queue' = Tail(queue) \o lost_notice
    PROVE  Posts(Tail(queue), queue', Notices) /\ Posts(queue, queue', Calm)
  <1>1. Tail(queue) \in Seq(Ready) /\ Posts(queue, Tail(queue), Calm)
    BY RunsFacts, PostsTail
  <1>2. "stopped" \in Notices /\ \A h : HasHandler(lost_notice, h) => h.fn \in Notices
    BY NoticePosts DEF Notices
  <1>3. Posts(Tail(queue), queue', Notices)
    BY <1>1, <1>2, NoticePosts, ResolvePosts
  <1>4. QED
    BY <1>1, <1>3, CalmFunctions, PostsMore, PostsTransitive

LEMMA OnReceiveErrorLeaves == Inv /\ on_receive_error => LeavesSending
  <1> SUFFICES ASSUME Inv, on_receive_error PROVE LeavesSending
    OBVIOUS
  <1>1. Posts(queue, queue', Calm)
    BY ErrorPosts DEF on_receive_error
  <1>2. QED
    BY <1>1, CalmStep DEF on_receive_error, env_vars, history

\* async_stop, by itself, in stop() or in the destructor.
LEMMA AsyncStopLeaves ==
    ASSUME Inv, async_stop, UNCHANGED <<writes, tx, broken, history>>,
           owner = "gone" => owner' = "gone"
    PROVE  LeavesSending
  <1> DEFINE h == Posted("cancel_async_operations")
  <1>1. queue \in Seq(Ready)
    BY DEF Inv, TypeInv, OperationsType
  <1>2. h \in Ready /\ h.fn \in Functions \ {"on_send"}
    BY PostedReady DEF Functions
  <1>3. \/ flags' = flags \cup {"stop_signaled", "closing"} /\ queue' = Append(queue, h)
        \/ UNCHANGED <<flags, queue>>
    BY DEF async_stop
  <1> HIDE DEF h
  <1>4. Posts(queue, queue', Functions \ {"on_send"})
    BY <1>1, <1>2, <1>3, PostsAppend, PostsSame
  <1>5. \/ "stop_signaled" \in flags'
        \/ Posts(queue, queue', Functions \ {"on_send", "cancel_async_operations"})
    BY <1>3, PostsSame
  <1>6. flags \subseteq flags'
    BY <1>3
  <1>7. QED
    BY <1>4, <1>5, <1>6 DEF LeavesSending, history

\* When the object is gone nothing is sent any more.
LEMMA ReleaseSent ==
    ASSUME Inv, SentInv, Release, UNCHANGED <<flags, tx, history>>
    PROVE  SentInv'
  <1>1. queue \in Seq(Ready) /\ OperationsType
    BY DEF Inv, TypeInv, OperationsType
  <1>2. queue' = AllAborted(queue) /\ owner' = "gone"
    BY DEF Release, AllAborted
  <1>3. Queued(queue', "cancel_async_operations") => Queued(queue, "cancel_async_operations")
    <2>1. SUFFICES ASSUME NEW h, HasHandler(queue', h), h.fn = "cancel_async_operations"
                   PROVE  HasHandler(queue, h)
      BY QueuedHasHandler
    <2>2. h # Handler("on_receive", "aborted", 0) /\ h # Handler("on_send", "aborted", 0)
      BY <2>1 DEF Handler
    <2>3. QED
      BY <1>1, <1>2, <2>1, <2>2, AllAbortedPosts
  <1>4. SentStreamIntact' /\ Numbered(tx, tx.head, produced)'
    BY DEF SentInv, SentStreamIntact, Numbered, history
  <1>5. QED
    BY <1>2, <1>3, <1>4 DEF SentInv

LEMMA OwnerSent == Inv /\ SentInv /\ (AsyncStop \/ stop \/ destructor \/ stop_returns) => SentInv'
  <1> SUFFICES ASSUME Inv, SentInv, AsyncStop \/ stop \/ destructor \/ stop_returns
               PROVE  SentInv'
    OBVIOUS
  <1>1. CASE AsyncStop
    BY <1>1, AsyncStopLeaves, LeavesSendingKeeps DEF AsyncStop, env_vars
  <1>2. CASE stop
    BY <1>2, AsyncStopLeaves, LeavesSendingKeeps DEF stop
  <1>3. CASE destructor
    <2>1. CASE async_stop /\ UNCHANGED <<reads, writes>>
      BY <1>3, <2>1, AsyncStopLeaves, LeavesSendingKeeps DEF destructor
    <2>2. CASE Release /\ UNCHANGED <<flags, disconnected_callback>>
      BY <1>3, <2>2, ReleaseSent DEF destructor
    <2>3. QED
      BY <1>3, <2>1, <2>2 DEF destructor
  <1>4. CASE stop_returns
    <2>1. CASE owner = "stop" /\ UNCHANGED <<queue, reads, writes>>
      BY <1>4, <2>1, PostsSame, CalmStep, LeavesSendingKeeps DEF stop_returns, history
    <2>2. CASE Release
      BY <1>4, <2>2, ReleaseSent DEF stop_returns
    <2>3. QED
      BY <1>4, <2>1, <2>2 DEF stop_returns
  <1>5. QED
    BY <1>1, <1>2, <1>3, <1>4

LEMMA ReadyContained == Inv => \A h : HasHandler(queue, h) => h \in Ready /\ h.n \in Nat
  <1>1. SUFFICES ASSUME queue \in Seq(Ready), NEW i \in DOMAIN queue
                 PROVE  queue[i] \in Ready
    BY DEF Inv, TypeInv, OperationsType, HasHandler, Ready
  <1>2. QED
    BY <1>1

\* What is queued during a write goes behind what is being written.
LEMMA QueueSendSent ==
    ASSUME Inv, SentInv, NEW k \in 1 .. MaxTx, call_queue_send_function(k)
    PROVE  SentInv'
  <1> DEFINE s == [i \in 1 .. k |-> produced + i]
             b == fill(tx, get_write_head(tx).ptr, s)
  <1>1. /\ tx \in Buffer(1 .. MaxTx, TxCapacity) /\ WellFormed(tx)
        /\ produced \in Nat /\ produced \in 0 .. MaxTx
    BY DEF Inv, TypeInv, TxType, HistoryType
  <1>2. k \in Nat /\ k >= 1 /\ produced + k <= MaxTx /\ k <= get_write_head(tx).len
    BY DEF call_queue_send_function
  <1>3. s \in Run(1 .. MaxTx, k) /\ \A j \in 1 .. k : s[j] = produced + j
    BY <1>1, <1>2 DEF Run
  <1>4. tx.head \in Nat /\ tx.size \in Nat /\ tx.cap = TxCapacity
    BY <1>1, BufferParts
  <1>5. get_write_head(tx) = Region(IF tx.head < TxCapacity THEN tx.head ELSE NullPtr, TxCapacity - tx.head)
    BY <1>1, WriteHeadIsSpaceToEnd
  <1>6. get_write_head(tx).ptr = tx.head /\ tx.head + k <= TxCapacity
    BY <1>2, <1>4, <1>5 DEF Region
  <1>7. b = fill(tx, tx.head, s)
    BY <1>6
  <1>8. tx' = commit(b, k) /\ produced' = produced + k
    BY DEF call_queue_send_function
  <1> HIDE DEF s, b
  <1>9. /\ b \in Buffer(1 .. MaxTx, TxCapacity) /\ WellFormed(b)
        /\ b.head = tx.head /\ b.tail = tx.tail /\ b.size = tx.size
    <2>1. tx.head \in Int
      BY <1>4
    <2>2. /\ tx \in Buffer(1 .. MaxTx, TxCapacity) /\ s \in Run(1 .. MaxTx, k) /\ k \in Nat
          /\ TxCapacity \in Nat /\ WellFormed(tx)
      BY <1>1, <1>2, <1>3
    <2>3. /\ fill(tx, tx.head, s) \in Buffer(1 .. MaxTx, TxCapacity)
          /\ fill(tx, tx.head, s).head = tx.head /\ fill(tx, tx.head, s).tail = tx.tail
          /\ fill(tx, tx.head, s).size = tx.size
      BY ONLY <2>1, <2>2, FillParts
    <2>4. WellFormed(fill(tx, tx.head, s))
      BY ONLY <2>1, <2>2, FillKeeps
    <2>5. QED
      BY <1>7, <2>3, <2>4
  <1>10. Numbered(b, b.head + k, produced + k)
    BY <1>1, <1>2, <1>3, <1>6, <1>7, <1>9, FillNumbered DEF SentInv
  <1>11. produced + k \in Nat /\ b.head + k <= TxCapacity
    BY <1>1, <1>2, <1>6, <1>9
  <1>12. /\ Numbered(tx', tx'.head, produced')
         /\ tx'.size = tx.size + k /\ tx'.tail = tx.tail
    BY <1>2, <1>8, <1>9, <1>10, <1>11, CommitNumbered
  <1>13. /\ UNCHANGED <<flags, queue, writes, broken, owner, wire>>
    BY DEF call_queue_send_function, env_vars
  <1>14. Unsent' = Unsent
    <2>1. Unsent' = (produced + k) - (tx.size + k)
      BY <1>8, <1>12 DEF Unsent
    <2>2. QED
      BY <1>1, <1>2, <1>4, <2>1 DEF Unsent
  <1>15. SentStreamIntact' /\ (Queued(queue, "cancel_async_operations") => "stop_signaled" \in flags)'
    BY <1>13 DEF SentInv, SentStreamIntact
  <1>16. Finished => Finished'
    BY <1>13 DEF Finished
  <1>17. ASSUME InStep PROVE InStep'
    <2>1. writes # << >> => Head(writes).len <= tx'.size
      <3>1. SUFFICES ASSUME writes # << >> PROVE Head(writes).len <= tx'.size
        OBVIOUS
      <3>2. Head(writes) \in Regions(TxCapacity)
        BY <3>1 DEF Inv, TypeInv, OperationsType
      <3>3. Head(writes).len \in Nat /\ Head(writes).len <= tx.size
        BY <1>17, <3>1, <3>2 DEF Regions, InStep
      <3>4. QED
        BY <1>2, <1>4, <1>12, <3>3
    <2>2. ASSUME NEW h, HasHandler(queue, h), h.fn = "on_send"
          PROVE  h.n <= tx'.size
      <3>1. h.n \in Nat
        BY <2>2, ReadyContained
      <3>2. h.n <= tx.size
        BY <1>17, <2>2 DEF InStep
      <3>3. QED
        BY <1>2, <1>4, <1>12, <3>1, <3>2
    <2>3. QED
      BY <1>12, <1>13, <1>14, <1>17, <2>1, <2>2 DEF InStep
  <1>18. QED
    BY <1>12, <1>13, <1>15, <1>16, <1>17 DEF SentInv

\* async_send with nothing in progress: all that is unsent is written.
LEMMA AsyncSendInStep ==
    ASSUME NEW f, NEW b \in Buffer(1 .. MaxTx, TxCapacity), async_send(f, b),
           writes = << >>, wire \in Seq(0 .. MaxTx), UNCHANGED <<produced, wire>>,
           Len(wire) = produced - b.size,
           \A h : HasHandler(queue', h) => h.fn # "on_send"
    PROVE  InStep'
  <1>1. tx' = b /\ b.size \in Nat
    BY BufferParts DEF async_send
  <1>2. Len(wire') = Unsent'
    BY <1>1 DEF Unsent
  <1>3. writes' # << >> => Head(writes').ptr = b.tail /\ Head(writes').len = b.size
    <2> DEFINE r == get_read_head(b)
    <2>1. writes' = << >> \/ (r.ptr # NullPtr /\ writes' = Append(<< >>, r))
      BY DEF async_send
    <2>2. r.ptr # NullPtr => r.ptr = b.tail /\ r.len = b.size
      BY DEF get_read_head, Region
    <2> HIDE DEF r
    <2>3. Head(Append(<< >>, r)) = r
      OBVIOUS
    <2>4. QED
      BY <2>1, <2>2, <2>3
  <1>4. QED
    BY <1>1, <1>2, <1>3 DEF InStep

LEMMA NoneQueued == \A q, fn : ~ Queued(q, fn) => \A h : HasHandler(q, h) => h.fn # fn
  BY QueuedHasHandler

LEMMA RunStartSendingSent == Inv /\ SentInv /\ run_start_sending => SentInv'
  <1> SUFFICES ASSUME Inv, SentInv, run_start_sending PROVE SentInv'
    OBVIOUS
  <1> DEFINE f == flags \ {"start_sending"}
             t == Tail(queue)
  <1>1. Runs("start_sending") /\ UNCHANGED <<env_vars, history>>
    BY DEF run_start_sending
  <1>2. /\ t \in Seq(Ready) /\ Posts(queue, t, Calm)
        /\ ~ Queued(t, "on_send") /\ writes = << >> /\ "sending" \notin flags
    BY <1>1, RunsFacts, RunsStartSending, PostsTail
  <1>3. /\ tx \in Buffer(1 .. MaxTx, TxCapacity)
        /\ wire \in Seq(0 .. MaxTx)
    BY DEF Inv, TypeInv, TxType, HistoryType
  <1>4. CASE /\ "stop_signaled" \notin f /\ async_send(f \cup {"sending"}, tx) /\ queue' = t
    <2>1. tx' = tx /\ "stop_signaled" \notin flags
      BY <1>4 DEF async_send
    <2>2. InStep => InStep'
      <3>1. SUFFICES ASSUME InStep PROVE InStep'
        OBVIOUS
      <3>2. Len(wire) = produced - tx.size
        BY <1>2, <3>1 DEF InStep, Unsent
      <3>3. \A h : HasHandler(queue', h) => h.fn # "on_send"
        BY <1>2, <1>4, NoneQueued
      <3>4. UNCHANGED <<produced, wire>>
        BY <1>1 DEF history
      <3> HIDE DEF t, f
      <3>5. QED
        BY <1>2, <1>3, <1>4, <3>2, <3>3, <3>4, AsyncSendInStep
    <2>3. ~ Queued(queue', "cancel_async_operations")
      <3>1. ~ Queued(queue, "cancel_async_operations")
        BY <2>1 DEF SentInv
      <3>2. queue \in Seq(Ready) /\ queue # << >>
        BY <1>1, RunsFacts
      <3>3. QED
        BY <1>4, <3>1, <3>2, QueuedTail
    <2>4. ~ Finished
      BY <2>1 DEF Finished
    <2>5. SentStreamIntact' /\ Numbered(tx, tx.head, produced)'
      BY <1>1, <2>1 DEF SentInv, SentStreamIntact, Numbered, history
    <2>6. UNCHANGED <<owner, broken>>
      BY <1>1 DEF env_vars
    <2>7. QED
      BY <2>2, <2>3, <2>4, <2>5, <2>6 DEF SentInv
  <1>5. CASE flags' = f /\ resolve_on_stopped(f, t, << >>) /\ UNCHANGED <<writes, tx>>
    <2>1. "stopped" \in Calm /\ << >> \in Seq(Ready) /\ \A h : ~ HasHandler(<< >>, h)
      BY CalmFunctions, HasHandlerEmpty
    <2> HIDE DEF t, f
    <2>2. Posts(t, queue', Calm)
      BY <1>2, <1>5, <2>1, ResolvePosts
    <2>3. Posts(queue, queue', Calm)
      BY <1>2, <2>2, PostsTransitive
    <2>4. flags \cap {"sending", "stop_signaled"} \subseteq flags'
      BY <1>5 DEF f
    <2>5. QED
      BY <1>1, <1>5, <2>3, <2>4, CalmStep, LeavesSendingKeeps DEF env_vars, history
  <1>6. QED
    BY <1>4, <1>5 DEF run_start_sending

LEMMA OnSendErrorSent == Inv /\ SentInv /\ on_send_error => SentInv'
  <1> SUFFICES ASSUME Inv, SentInv, on_send_error PROVE SentInv'
    OBVIOUS
  <1>1. Runs("on_send") /\ Head(queue).ec # "ok" /\ flags' = flags \ {"sending"}
    BY DEF on_send_error
  <1>2. /\ UNCHANGED <<writes, tx, produced, wire, broken, owner>>
    BY DEF on_send_error, env_vars, history
  <1>3. Posts(queue, queue', Calm)
    BY <1>1, ErrorPosts DEF on_send_error
  <1>4. ~ InStep
    <2>1. HasHandler(queue, Head(queue)) /\ Head(queue).fn = "on_send"
      BY <1>1, RunsFacts, HeadContained
    <2>2. QED
      BY <1>1, <2>1 DEF InStep
  <1>5. SentStreamIntact' /\ Numbered(tx, tx.head, produced)'
    BY <1>2 DEF SentInv, SentStreamIntact, Numbered
  <1>6. (Queued(queue, "cancel_async_operations") => "stop_signaled" \in flags)'
    BY <1>1, <1>3, QueuedHasHandler DEF SentInv, Posts, Calm
  <1>7. Finished => Finished'
    BY <1>1, <1>2, <1>3 DEF Finished, Posts, Calm
  <1>8. QED
    BY <1>2, <1>4, <1>5, <1>6, <1>7 DEF SentInv

LEMMA OnSendWrittenSent == Inv /\ SentInv /\ on_send_written => SentInv'
  <1> SUFFICES ASSUME Inv, SentInv, on_send_written PROVE SentInv'
    OBVIOUS
  <1> DEFINE t == Tail(queue)
             n == Head(queue).n
             b == consume(tx, n)
  <1>1. /\ Runs("on_send") /\ Head(queue).ec = "ok" /\ async_send(flags, b)
        /\ UNCHANGED <<produced, wire, broken, owner>>
    BY DEF on_send_written, env_vars, history
  <1>2. /\ t \in Seq(Ready) /\ n \in Nat /\ Posts(queue, t, Calm)
        /\ ~ Queued(t, "on_send") /\ writes = << >>
    BY <1>1, RunsFacts, RunsOnSend, PostsTail
  <1>3. /\ tx \in Buffer(1 .. MaxTx, TxCapacity) /\ WellFormed(tx)
        /\ wire \in Seq(0 .. MaxTx) /\ produced \in Nat
    BY DEF Inv, TypeInv, TxType, HistoryType
  <1>4. /\ b \in Buffer(1 .. MaxTx, TxCapacity)
        /\ Numbered(b, b.head, produced)
        /\ n <= tx.size => b.size = tx.size - n
    <2>1. Numbered(tx, tx.head, produced)
      BY DEF SentInv
    <2> HIDE DEF n
    <2>2. b \in Buffer(1 .. MaxTx, TxCapacity)
      BY <1>2, <1>3, ConsumeKeeps
    <2>3. /\ Numbered(b, b.head, produced)
          /\ n <= tx.size => b.size = tx.size - n
      BY <1>2, <1>3, <2>1, ConsumeNumbered
    <2>4. QED
      BY <2>2, <2>3
  <1>5. HasHandler(queue, Head(queue)) /\ Head(queue).fn = "on_send"
    BY <1>1, RunsFacts, HeadContained
  <1>6. Posts(t, queue', Calm)
    <2>1. "stopped" \in Calm /\ << >> \in Seq(Ready) /\ \A h : ~ HasHandler(<< >>, h)
      BY CalmFunctions, HasHandlerEmpty
    <2>2. queue' = t \/ resolve_on_stopped(flags', t, << >>)
      BY DEF on_send_written
    <2> HIDE DEF t
    <2>3. QED
      BY <1>2, <2>1, <2>2, PostsSame, ResolvePosts
  <1>7. tx' = b /\ (flags' = flags \/ flags' = flags \ {"sending"})
    BY <1>1 DEF async_send
  <1> HIDE DEF t, n, b
  <1>8. \A h : HasHandler(queue', h) => h.fn # "on_send"
    BY <1>2, <1>6, NoneQueued DEF Posts, Calm
  <1>9. (Queued(queue, "cancel_async_operations") => "stop_signaled" \in flags)'
    <2>1. Posts(queue, queue', Calm)
      BY <1>2, <1>6, PostsTransitive
    <2>2. QED
      BY <1>7, <2>1, QueuedHasHandler DEF SentInv, Posts, Calm
  <1>10. SentStreamIntact' /\ Numbered(tx, tx.head, produced)'
    BY <1>1, <1>4, <1>7 DEF SentInv, SentStreamIntact, Numbered
  <1>11. ~ Finished
    BY <1>1, <1>5 DEF Finished
  <1>12. ASSUME InStep PROVE InStep'
    <2>1. n <= tx.size /\ Len(wire) = Unsent + n
      BY <1>5, <1>12 DEF InStep, n
    <2>2. tx.size \in Nat
      BY <1>3, BufferParts
    <2>3. Len(wire) = produced - b.size
      BY <1>2, <1>3, <1>4, <2>1, <2>2 DEF Unsent
    <2>4. QED
      BY <1>1, <1>2, <1>3, <1>4, <1>8, <2>3, AsyncSendInStep
  <1>13. QED
    BY <1>1, <1>9, <1>10, <1>11, <1>12 DEF SentInv

\* The first k bytes of the outstanding write go out.
LEMMA WritingCounts ==
    ASSUME Inv, SentInv, InStep, writes # << >>, NEW k \in Nat, k <= Head(writes).len
    PROVE  /\ Counts(wire \o BytesAt(tx, Head(writes).ptr, k))
           /\ Len(wire \o BytesAt(tx, Head(writes).ptr, k)) = Unsent + k
  <1>1. /\ tx \in Buffer(1 .. MaxTx, TxCapacity) /\ WellFormed(tx)
        /\ wire \in Seq(0 .. MaxTx) /\ produced \in Nat
        /\ Head(writes) \in Regions(TxCapacity)
    BY DEF Inv, TypeInv, TxType, HistoryType, OperationsType
  <1>2. Head(writes).ptr = tx.tail /\ Head(writes).len <= tx.size /\ Len(wire) = produced - tx.size
    BY DEF InStep, Unsent
  <1>3. k <= tx.size
    <2>1. tx.size \in Nat /\ Head(writes).len \in Nat
      BY <1>1, BufferParts DEF Regions
    <2>2. QED
      BY <1>2, <2>1
  <1>4. Counts(wire) /\ Numbered(tx, tx.head, produced)
    BY DEF SentInv, SentStreamIntact, Counts
  <1>5. /\ MaxTx \in Nat /\ TxCapacity \in Nat /\ tx \in Buffer(1 .. MaxTx, TxCapacity)
        /\ WellFormed(tx) /\ produced \in Nat /\ Numbered(tx, tx.head, produced)
        /\ k \in Nat /\ k <= tx.size
        /\ wire \in Seq(0 .. MaxTx) /\ Counts(wire) /\ Len(wire) = produced - tx.size
    BY <1>1, <1>2, <1>3, <1>4, ConnectionAssumption
  <1>6. Counts(wire \o BytesAt(tx, tx.tail, k))
    BY ONLY <1>5, PrefixCounts
  <1>7. Len(wire \o BytesAt(tx, tx.tail, k)) = Len(wire) + k
    BY ONLY <1>5, PrefixCounts
  <1>8. QED
    BY <1>2, <1>6, <1>7 DEF Unsent

LEMMA OutstandingAlone ==
    ASSUME Inv, writes # << >>
    PROVE  \A h : HasHandler(queue, h) => h.fn # "on_send"
  BY NoneQueued DEF Inv, SendInv, OneWrite

LEMMA CancelSent == Inv /\ SentInv /\ cancel_async_operations => SentInv'
  <1> SUFFICES ASSUME Inv, SentInv, cancel_async_operations PROVE SentInv'
    OBVIOUS
  <1> DEFINE t == Tail(queue)
  <1>1. /\ Runs("cancel_async_operations") /\ flags' = flags \ {"closing"} /\ writes' = << >>
        /\ UNCHANGED <<tx, produced, broken, owner>>
    BY DEF cancel_async_operations, env_vars
  <1>2. t \in Seq(Ready) /\ Posts(queue, t, Calm) /\ OperationsType
    BY <1>1, RunsFacts, PostsTail DEF Inv, TypeInv
  <1>3. Posts(AllAborted(t), queue', Calm)
    <2>1. "stopped" \in Calm /\ << >> \in Seq(Ready) /\ \A h : ~ HasHandler(<< >>, h)
      BY CalmFunctions, HasHandlerEmpty
    <2>2. resolve_on_stopped(flags', AllAborted(t), << >>)
      BY DEF cancel_async_operations, AllAborted
    <2> HIDE DEF t
    <2>3. AllAborted(t) \in Seq(Ready)
      BY <1>2, AbortedFacts DEF Inv, SendInv, OneWrite
    <2>4. QED
      BY <2>1, <2>2, <2>3, ResolvePosts
  <1>4. "stop_signaled" \in flags'
    <2>1. Queued(queue, "cancel_async_operations")
      BY <1>1, RunsFacts, QueuedTail
    <2>2. QED
      BY <1>1, <2>1 DEF SentInv
  <1> HIDE DEF t
  <1>5. \A h : HasHandler(queue', h) /\ h.fn = "on_send" =>
           HasHandler(queue, h) \/ (h.ec = "aborted" /\ writes # << >>)
    <2>1. SUFFICES ASSUME NEW h, HasHandler(queue', h), h.fn = "on_send"
                   PROVE  HasHandler(queue, h) \/ (h.ec = "aborted" /\ writes # << >>)
      OBVIOUS
    <2>2. HasHandler(AllAborted(t), h)
      BY <1>3, <2>1 DEF Posts, Calm
    <2>3. \/ HasHandler(t, h)
          \/ h = Handler("on_receive", "aborted", 0)
          \/ h = Handler("on_send", "aborted", 0) /\ writes # << >>
      BY <1>2, <2>2, AllAbortedPosts
    <2>4. h # Handler("on_receive", "aborted", 0)
      BY <2>1 DEF Handler
    <2>5. Handler("on_send", "aborted", 0).ec = "aborted"
      BY DEF Handler
    <2>6. HasHandler(t, h) => HasHandler(queue, h)
      BY <1>2, <2>1 DEF Posts, Calm
    <2>7. QED
      BY <2>3, <2>4, <2>5, <2>6
  <1>6. Numbered(tx, tx.head, produced)'
    BY <1>1 DEF SentInv, Numbered
  <1>7. CASE writes = << >>
    <2>1. UNCHANGED wire
      BY <1>7 DEF cancel_async_operations
    <2>2. SentStreamIntact'
      BY <2>1 DEF SentInv, SentStreamIntact
    <2>3. Finished => Finished'
      BY <1>1, <1>4, <1>5, <1>7 DEF Finished
    <2>4. Unsent' = Unsent
      BY <1>1 DEF Unsent
    <2>5. InStep => InStep'
      BY <1>1, <1>5, <1>7, <2>1, <2>4 DEF InStep
    <2>6. QED
      BY <1>1, <1>4, <1>6, <2>2, <2>3, <2>5 DEF SentInv
  <1>8. CASE writes # << >>
    <2>1. \A h : HasHandler(queue', h) /\ h.fn = "on_send" => h.ec # "ok"
      BY <1>5, <1>8, OutstandingAlone
    <2>2. Finished'
      BY <1>1, <1>4, <2>1 DEF Finished
    <2>3. SentStreamIntact'
      <3>1. PICK k \in 0 .. Head(writes).len - 1 :
              wire' = IF "write" \in broken THEN wire ELSE wire \o BytesAt(tx, Head(writes).ptr, k)
        BY <1>8 DEF cancel_async_operations
      <3>2. CASE UNCHANGED wire
        BY <3>2 DEF SentInv, SentStreamIntact
      <3>3. CASE "write" \notin broken /\ wire' = wire \o BytesAt(tx, Head(writes).ptr, k)
        <4>1. InStep
          BY <1>1, <1>8, <3>3 DEF Runs, SentInv, Finished
        <4>2. Head(writes) \in Regions(TxCapacity)
          BY <1>2, <1>8 DEF OperationsType
        <4>3. k \in Nat /\ k <= Head(writes).len
          BY <4>2 DEF Regions
        <4>4. Counts(wire')
          BY <1>8, <3>3, <4>1, <4>3, WritingCounts
        <4>5. QED
          BY <4>4 DEF Counts, SentStreamIntact
      <3>4. QED
        BY <3>1, <3>2, <3>3
    <2>4. QED
      BY <1>4, <1>6, <2>2, <2>3 DEF SentInv
  <1>9. QED
    BY <1>7, <1>8

LEMMA WriteCompletesSent == Inv /\ SentInv /\ write_completes => SentInv'
  <1> SUFFICES ASSUME Inv, SentInv, write_completes PROVE SentInv'
    OBVIOUS
  <1> DEFINE r == Head(writes)
             h0 == Handler("on_send", "ok", r.len)
  <1>1. /\ owner # "gone" /\ writes # << >> /\ "write" \notin broken
        /\ wire' = wire \o BytesAt(tx, r.ptr, r.len)
        /\ queue' = Append(queue, h0)
        /\ UNCHANGED <<flags, tx, produced, broken, owner>>
    BY DEF write_completes, env_vars
  <1>2. r \in Regions(TxCapacity) /\ queue \in Seq(Ready)
    BY <1>1 DEF Inv, TypeInv, OperationsType
  <1>3. r.len \in Nat
    BY <1>2 DEF Regions
  <1>4. h0 \in Ready /\ h0.fn = "on_send" /\ h0.ec = "ok" /\ h0.n = r.len
    BY <1>3, HandlerReady DEF Functions, ErrorCodes, Handler
  <1>5. InStep
    BY <1>1 DEF SentInv, Finished
  <1>6. Counts(wire') /\ Len(wire') = Unsent + r.len /\ r.len <= tx.size
    <2>1. r.len <= r.len
      BY <1>3
    <2>2. /\ Counts(wire \o BytesAt(tx, r.ptr, r.len))
          /\ Len(wire \o BytesAt(tx, r.ptr, r.len)) = Unsent + r.len
      BY <1>1, <1>3, <1>5, <2>1, WritingCounts
    <2>3. QED
      BY <1>1, <1>5, <2>2 DEF InStep
  <1>7. writes' = << >> /\ "sending" \in flags
    BY <1>1 DEF write_completes, Inv, TypeInv, OperationsType, SendInv, OneWrite
  <1>8. Unsent' = Unsent
    BY <1>1 DEF Unsent
  <1> HIDE DEF r, h0
  <1>9. \A h : HasHandler(queue', h) => h = h0 \/ (HasHandler(queue, h) /\ h.fn # "on_send")
    BY <1>1, <1>2, <1>4, HasHandlerAppend, OutstandingAlone
  <1>10. InStep'
    BY <1>1, <1>4, <1>6, <1>7, <1>8, <1>9 DEF InStep
  <1>11. (Queued(queue, "cancel_async_operations") => "stop_signaled" \in flags)'
    BY <1>1, <1>4, <1>9, QueuedHasHandler DEF SentInv
  <1>12. SentStreamIntact' /\ Numbered(tx, tx.head, produced)'
    BY <1>1, <1>6 DEF SentInv, SentStreamIntact, Counts, Numbered
  <1>13. QED
    BY <1>10, <1>11, <1>12 DEF SentInv

LEMMA WriteFailsSent == Inv /\ SentInv /\ write_fails => SentInv'
  <1> SUFFICES ASSUME Inv, SentInv, write_fails PROVE SentInv'
    OBVIOUS
  <1> DEFINE r == Head(writes)
  <1>1. /\ owner # "gone" /\ writes # << >> /\ "write" \in broken'
        /\ UNCHANGED <<flags, tx, produced>>
    BY DEF write_fails
  <1>2. PICK k \in 0 .. r.len - 1 :
          /\ "write" \in broken => k = 0
          /\ wire' = wire \o BytesAt(tx, r.ptr, k)
          /\ queue' = Append(queue, Handler("on_send", "failed", k))
    BY DEF write_fails
  <1>3. r \in Regions(TxCapacity) /\ queue \in Seq(Ready) /\ wire \in Seq(0 .. MaxTx)
    BY <1>1 DEF Inv, TypeInv, OperationsType, HistoryType
  <1>4. k \in Nat /\ k <= r.len
    BY <1>3 DEF Regions
  <1>5. SentStreamIntact'
    <2>1. CASE "write" \in broken
      <3>1. BytesAt(tx, r.ptr, 0) = << >>
        BY DEF BytesAt
      <3>2. wire' = wire
        BY <1>2, <1>3, <2>1, <3>1
      <3>3. QED
        BY <3>2 DEF SentInv, SentStreamIntact
    <2>2. CASE "write" \notin broken
      <3>1. InStep
        BY <1>1, <2>2 DEF SentInv, Finished
      <3>2. Counts(wire')
        BY <1>1, <1>2, <1>4, <3>1, WritingCounts
      <3>3. QED
        BY <3>2 DEF SentStreamIntact, Counts
    <2>3. QED
      BY <2>1, <2>2
  <1>6. (Queued(queue, "cancel_async_operations") => "stop_signaled" \in flags)'
    <2>1. Handler("on_send", "failed", k) \in Ready /\ Handler("on_send", "failed", k).fn = "on_send"
      BY <1>4, HandlerReady DEF Functions, ErrorCodes
    <2>2. Queued(queue', "cancel_async_operations") <=> Queued(queue, "cancel_async_operations")
      BY <1>2, <1>3, <2>1, QueuedAppend
    <2>3. QED
      BY <1>1, <2>2 DEF SentInv
  <1>7. Numbered(tx, tx.head, produced)'
    BY <1>1 DEF SentInv, Numbered
  <1>8. QED
    BY <1>1, <1>5, <1>6, <1>7 DEF SentInv

LEMMA NextSent == Inv /\ SentInv /\ [Next]_vars => SentInv'
  <1> SUFFICES ASSUME Inv, SentInv, [Next]_vars PROVE SentInv'
    OBVIOUS
  <1>1. CASE User
    BY <1>1, QueueSendSent, ReceivingLeaves, LeavesSendingKeeps, OwnerSent DEF User
  <1>2. CASE stop_returns
    BY <1>2, OwnerSent
  <1>3. CASE IoThread
    BY <1>3, RunStartSendingSent, ReceivingLeaves, OnReceiveErrorLeaves, LeavesSendingKeeps,
       CancelSent, OnSendErrorSent, OnSendWrittenSent DEF IoThread
  <1>4. CASE Peer
    BY <1>4, ReceivingLeaves, LeavesSendingKeeps, WriteCompletesSent, WriteFailsSent DEF Peer
  <1>5. CASE spin \/ Terminated \/ UNCHANGED vars
    BY <1>5, PostsSame, CalmStep, LeavesSendingKeeps
       DEF spin, Terminated, vars, conn_vars, env_vars, history
  <1>6. QED
    BY <1>1, <1>2, <1>3, <1>4, <1>5 DEF Next

\* Whatever the user queues and whenever the connection is stopped or breaks: the peer
\* gets a prefix of the user's bytes, in order, none twice (call_queue_send_function,
\* start_sending, async_send, on_send, cancel_async_operations).
THEOREM SentStreamCorrect == Spec => []SentStreamIntact
  <1>1. Inv /\ SentInv /\ [Next]_vars => (Inv /\ SentInv)'
    BY NextInv, NextSent
  <1>2. Init => Inv /\ SentInv
    BY InitInv, InitSent
  <1>3. SentInv => SentStreamIntact
    BY DEF SentInv
  <1>4. QED
    BY <1>1, <1>2, <1>3, PTL DEF Spec

-----------------------------------------------------------------------------
(***************************************************************************)
(* What leaves the reception alone.                                        *)
(***************************************************************************)
Receivers == {"on_receive", "async_receive"}

\* As far as reception is concerned r is q.
ReceiveKept(q, r) ==
    /\ \A h : h.fn \in Receivers => (HasHandler(r, h) <=> HasHandler(q, h))
    /\ \A fn \in Receivers : AtMostOnce(q, fn) => AtMostOnce(r, fn)

LEMMA ReceiveKeptSame == \A q : ReceiveKept(q, q)
  BY DEF ReceiveKept

LEMMA ReceiveKeptTransitive ==
    ASSUME NEW q, NEW r, NEW s, ReceiveKept(q, r), ReceiveKept(r, s)
    PROVE  ReceiveKept(q, s)
  BY DEF ReceiveKept

LEMMA ReceiveKeptAppend ==
    ASSUME NEW q \in Seq(Ready), NEW h \in Ready, h.fn \notin Receivers
    PROVE  Append(q, h) \in Seq(Ready) /\ ReceiveKept(q, Append(q, h))
  <1>1. \A g : HasHandler(Append(q, h), g) <=> HasHandler(q, g) \/ h = g
    BY HasHandlerAppend
  <1>2. \A fn \in Receivers : AtMostOnce(q, fn) => AtMostOnce(Append(q, h), fn)
    BY QueuedAppend
  <1>3. QED
    BY <1>1, <1>2, QueuedAppend DEF ReceiveKept

LEMMA ReceiveKeptTail ==
    ASSUME NEW q \in Seq(Ready), q # << >>, Head(q).fn \notin Receivers
    PROVE  Tail(q) \in Seq(Ready) /\ ReceiveKept(q, Tail(q))
  <1>1. \A g : HasHandler(q, g) <=> Head(q) = g \/ HasHandler(Tail(q), g)
    BY HasHandlerTail
  <1>2. \A fn \in Receivers : AtMostOnce(q, fn) => AtMostOnce(Tail(q), fn)
    BY QueuedTail
  <1>3. QED
    BY <1>1, <1>2, QueuedTail DEF ReceiveKept

LEMMA ReceiveKeptConcat ==
    ASSUME NEW q \in Seq(Ready), NEW r \in Seq(Ready),
           \A h : HasHandler(r, h) => h.fn \notin Receivers
    PROVE  q \o r \in Seq(Ready) /\ ReceiveKept(q, q \o r)
  <1>1. \A g : HasHandler(q \o r, g) <=> HasHandler(q, g) \/ HasHandler(r, g)
    BY HasHandlerConcat
  <1>2. \A fn \in Receivers : ~ Queued(r, fn)
    BY QueuedHasHandler
  <1>3. \A fn \in Receivers : AtMostOnce(r, fn)
    BY <1>2 DEF AtMostOnce, Queued
  <1>4. \A fn \in Receivers : AtMostOnce(q, fn) => AtMostOnce(q \o r, fn)
    BY <1>2, <1>3, QueuedConcat
  <1>5. QED
    BY <1>1, <1>4, QueuedConcat DEF ReceiveKept

LEMMA ReceiveKeptResolve ==
    ASSUME NEW f, NEW q \in Seq(Ready), NEW r \in Seq(Ready),
           \A h : HasHandler(r, h) => h.fn \notin Receivers,
           \/ resolve_on_stopped(f, q, r)
           \/ queue' = q \o r
    PROVE  queue' \in Seq(Ready) /\ ReceiveKept(q, queue')
  <1> DEFINE p == Append(q, Posted("stopped"))
  <1>1. Posted("stopped") \in Ready /\ Posted("stopped").fn \notin Receivers
    BY PostedReady DEF Functions, Receivers
  <1>2. p \in Seq(Ready) /\ ReceiveKept(q, p)
    BY <1>1, ReceiveKeptAppend
  <1>3. queue' = p \o r \/ queue' = q \o r
    BY DEF resolve_on_stopped
  <1> HIDE DEF p
  <1>4. p \o r \in Seq(Ready) /\ ReceiveKept(q, p \o r)
    BY <1>2, ReceiveKeptConcat, ReceiveKeptTransitive
  <1>5. q \o r \in Seq(Ready) /\ ReceiveKept(q, q \o r)
    BY ReceiveKeptConcat
  <1>6. QED
    BY <1>3, <1>4, <1>5

\* A step that leaves reception alone.
LeavesReceiving ==
    /\ UNCHANGED <<reads, rx, arrived, delivered>>
    /\ ReceiveKept(queue, queue')
    /\ "stop_signaled" \in flags => "stop_signaled" \in flags'
    /\ "read" \in broken => "read" \in broken'
    /\ owner' = "destructor" => owner = "destructor" \/ "stop_signaled" \in flags'

LEMMA RunsReceiveKept ==
    ASSUME Inv, NEW fn, fn \notin Receivers, Runs(fn)
    PROVE  Tail(queue) \in Seq(Ready) /\ ReceiveKept(queue, Tail(queue))
  BY RunsFacts, ReceiveKeptTail

\* The member functions, but for start_receiving and the destructor's end.
LEMMA UserLeavesReceiving ==
    Inv /\ (start_sending \/ AsyncStop \/ stop \/ (destructor /\ "stop_signaled" \notin flags)
              \/ \E k \in 1 .. MaxTx : call_queue_send_function(k))
        => LeavesReceiving
  <1> SUFFICES ASSUME Inv PROVE start_sending \/ AsyncStop \/ stop \/ (destructor /\ "stop_signaled" \notin flags)
              \/ (\E k \in 1 .. MaxTx : call_queue_send_function(k)) => LeavesReceiving
    OBVIOUS
  <1>1. queue \in Seq(Ready)
    BY DEF Inv, TypeInv, OperationsType
  <1>2. \A fn \in {"start_sending", "cancel_async_operations"} :
           Posted(fn) \in Ready /\ Posted(fn).fn \notin Receivers
    BY PostedReady DEF Functions, Receivers
  <1>3. ASSUME start_sending PROVE LeavesReceiving
    <2>1. ReceiveKept(queue, queue')
      BY <1>1, <1>2, <1>3, ReceiveKeptAppend, ReceiveKeptSame DEF start_sending
    <2>2. QED
      BY <1>3, <2>1 DEF start_sending, env_vars, LeavesReceiving
  <1>4. ASSUME async_stop
        PROVE  /\ ReceiveKept(queue, queue')
               /\ "stop_signaled" \in flags'
    BY <1>1, <1>2, <1>4, ReceiveKeptAppend, ReceiveKeptSame DEF async_stop
  <1>5. ASSUME AsyncStop \/ stop PROVE LeavesReceiving
    BY <1>4, <1>5 DEF AsyncStop, stop, env_vars, history, LeavesReceiving
  <1>6. ASSUME destructor, "stop_signaled" \notin flags PROVE LeavesReceiving
    BY <1>4, <1>6 DEF destructor, history, LeavesReceiving
  <1>7. ASSUME NEW k \in 1 .. MaxTx, call_queue_send_function(k) PROVE LeavesReceiving
    BY <1>7, ReceiveKeptSame DEF call_queue_send_function, env_vars, LeavesReceiving
  <1>8. QED
    BY <1>3, <1>5, <1>6, <1>7

\* The handlers of sending and the callbacks of the user.
LEMMA SendingLeavesReceiving ==
    Inv /\ (run_start_sending \/ on_send_error \/ on_send_written \/ run_connection_lost
              \/ run_stopped \/ write_completes \/ write_fails)
        => LeavesReceiving
  <1> SUFFICES ASSUME Inv PROVE run_start_sending \/ on_send_error \/ on_send_written
              \/ run_connection_lost \/ run_stopped \/ write_completes \/ write_fails => LeavesReceiving
    OBVIOUS
  <1> DEFINE t == Tail(queue)
             e == << >>
  <1>1. queue \in Seq(Ready)
    BY DEF Inv, TypeInv, OperationsType
  <1>2. ASSUME NEW fn, fn \notin Receivers, Runs(fn)
        PROVE  t \in Seq(Ready) /\ ReceiveKept(queue, t)
    BY <1>2, RunsReceiveKept
  <1>3. /\ e \in Seq(Ready) /\ \A h : HasHandler(e, h) => h.fn \notin Receivers
        /\ lost_notice \in Seq(Ready)
        /\ \A h : HasHandler(lost_notice, h) => h.fn \notin Receivers
    BY HasHandlerEmpty, NoticePosts DEF Receivers
  <1> HIDE DEF t, e
  <1>4. ASSUME t \in Seq(Ready), ReceiveKept(queue, t), NEW f,
               \/ queue' = t
               \/ resolve_on_stopped(f, t, e)
               \/ resolve_on_stopped(f, t, lost_notice)
               \/ queue' = t \o lost_notice
        PROVE  ReceiveKept(queue, queue')
    <2>1. ReceiveKept(t, queue')
      BY <1>3, <1>4, ReceiveKeptSame, ReceiveKeptResolve
    <2>2. QED
      BY <1>4, <2>1, ReceiveKeptTransitive
  <1>5. ASSUME run_start_sending PROVE LeavesReceiving
    <2>1. Runs("start_sending") /\ "start_sending" \notin Receivers
      BY <1>5 DEF run_start_sending, Receivers
    <2>2. queue' = t \/ resolve_on_stopped(flags \ {"start_sending"}, t, e)
      BY <1>5 DEF run_start_sending, t, e
    <2>3. ReceiveKept(queue, queue')
      BY <1>2, <1>4, <2>1, <2>2
    <2>4. "stop_signaled" \in flags => "stop_signaled" \in flags'
      BY <1>5 DEF run_start_sending, async_send
    <2>5. QED
      BY <1>5, <2>3, <2>4 DEF run_start_sending, env_vars, history, LeavesReceiving
  <1>6. ASSUME on_send_error PROVE LeavesReceiving
    <2>1. Runs("on_send") /\ "on_send" \notin Receivers
      BY <1>6 DEF on_send_error, Receivers
    <2>2. queue' = t \o lost_notice \/ resolve_on_stopped(flags', t, lost_notice)
      BY <1>6 DEF on_send_error, t
    <2>3. ReceiveKept(queue, queue')
      BY <1>2, <1>4, <2>1, <2>2
    <2>4. QED
      BY <1>6, <2>3 DEF on_send_error, env_vars, history, LeavesReceiving
  <1>7. ASSUME on_send_written PROVE LeavesReceiving
    <2>1. Runs("on_send") /\ "on_send" \notin Receivers
      BY <1>7 DEF on_send_written, Receivers
    <2>2. queue' = t \/ resolve_on_stopped(flags', t, e)
      BY <1>7 DEF on_send_written, t, e
    <2>3. ReceiveKept(queue, queue')
      BY <1>2, <1>4, <2>1, <2>2
    <2>4. "stop_signaled" \in flags => "stop_signaled" \in flags'
      BY <1>7 DEF on_send_written, async_send
    <2>5. QED
      BY <1>7, <2>3, <2>4 DEF on_send_written, env_vars, history, LeavesReceiving
  <1>8. ASSUME run_connection_lost \/ run_stopped PROVE LeavesReceiving
    <2>1. PICK fn : fn \notin Receivers /\ Runs(fn)
      BY <1>8 DEF run_connection_lost, run_stopped, Receivers
    <2>2. queue' = t
      BY <1>8 DEF run_connection_lost, run_stopped, t
    <2>3. ReceiveKept(queue, queue')
      BY <1>2, <2>1, <2>2
    <2>4. QED
      BY <1>8, <2>3 DEF run_connection_lost, run_stopped, env_vars, history, LeavesReceiving
  <1>9. ASSUME write_completes \/ write_fails PROVE LeavesReceiving
    <2>1. writes \in Seq(Regions(TxCapacity)) /\ writes # << >>
      BY <1>9 DEF Inv, TypeInv, OperationsType, write_completes, write_fails
    <2>2. Head(writes).len \in Nat
      BY <2>1 DEF Regions
    <2>3. PICK ec \in ErrorCodes, n \in Nat : queue' = Append(queue, Handler("on_send", ec, n))
      BY <1>9, <2>2 DEF write_completes, write_fails, ErrorCodes
    <2>4. Handler("on_send", ec, n) \in Ready /\ Handler("on_send", ec, n).fn \notin Receivers
      BY HandlerReady DEF Functions, Receivers
    <2>5. ReceiveKept(queue, queue')
      BY <1>1, <2>3, <2>4, ReceiveKeptAppend
    <2>6. QED
      BY <1>9, <2>5 DEF write_completes, write_fails, env_vars, LeavesReceiving
  <1>10. QED
    BY <1>5, <1>6, <1>7, <1>8, <1>9

-----------------------------------------------------------------------------
(***************************************************************************)
(* Reception goes on, however many reads start_receiving() has caused.     *)
(***************************************************************************)
GoesOnInv ==
    /\ ReceptionGoesOn
    /\ \A h : HasHandler(queue, h) /\ h.fn = "on_receive" /\ h.ec # "ok" =>
          "stop_signaled" \in flags \/ "read" \in broken
    /\ owner = "destructor" => "stop_signaled" \in flags

LEMMA InitGoesOn == Init => GoesOnInv
  BY HasHandlerEmpty DEF Init, GoesOnInv, ReceptionGoesOn

LEMMA LeavesReceivingGoesOn == GoesOnInv /\ LeavesReceiving => GoesOnInv'
  <1> SUFFICES ASSUME GoesOnInv, LeavesReceiving PROVE GoesOnInv'
    OBVIOUS
  <1>1. \A fn \in Receivers : Queued(queue, fn) => Queued(queue', fn)
    BY QueuedHasHandler DEF LeavesReceiving, ReceiveKept
  <1>2. ReceptionGoesOn'
    BY <1>1 DEF GoesOnInv, ReceptionGoesOn, LeavesReceiving, Receivers
  <1>3. (\A h : HasHandler(queue, h) /\ h.fn = "on_receive" /\ h.ec # "ok" =>
          "stop_signaled" \in flags \/ "read" \in broken)'
    BY DEF GoesOnInv, LeavesReceiving, ReceiveKept, Receivers
  <1>4. QED
    BY <1>2, <1>3 DEF GoesOnInv, LeavesReceiving

\* Once a stop is signaled or the socket has failed nothing is asked of reception.
LEMMA EndedGoesOn ==
    ASSUME "stop_signaled" \in flags' \/ "read" \in broken',
           owner' = "destructor" => "stop_signaled" \in flags'
    PROVE  GoesOnInv'
  BY DEF GoesOnInv, ReceptionGoesOn

LEMMA OwnerGoesOn == Inv /\ GoesOnInv /\ (destructor \/ stop_returns) => GoesOnInv'
  <1> SUFFICES ASSUME Inv, GoesOnInv, destructor \/ stop_returns PROVE GoesOnInv'
    OBVIOUS
  <1>1. CASE destructor /\ "stop_signaled" \notin flags
    BY <1>1, UserLeavesReceiving, LeavesReceivingGoesOn
  <1>2. CASE destructor /\ "stop_signaled" \in flags
    BY <1>2, EndedGoesOn DEF destructor, Release
  <1>3. CASE stop_returns
    <2>1. CASE owner = "stop" /\ owner' = "free" /\ UNCHANGED <<queue, reads, writes>>
      <3>1. LeavesReceiving
        BY <1>3, <2>1, ReceiveKeptSame DEF stop_returns, history, LeavesReceiving
      <3>2. QED
        BY <3>1, LeavesReceivingGoesOn
    <2>2. CASE owner = "destructor" /\ Release
      BY <1>3, <2>2, EndedGoesOn DEF stop_returns, Release, GoesOnInv
    <2>3. QED
      BY <1>3, <2>1, <2>2 DEF stop_returns
  <1>4. QED
    BY <1>1, <1>2, <1>3

LEMMA StartReceivingGoesOn == Inv /\ GoesOnInv /\ start_receiving => GoesOnInv'
  <1> SUFFICES ASSUME Inv, GoesOnInv, start_receiving PROVE GoesOnInv'
    OBVIOUS
  <1> DEFINE p == Posted("async_receive")
  <1>1. UNCHANGED <<reads, rx, broken, owner, arrived, delivered>>
    BY DEF start_receiving, env_vars, history
  <1>2. CASE UNCHANGED <<flags, queue>>
    <2>1. LeavesReceiving
      BY <1>1, <1>2, ReceiveKeptSame DEF LeavesReceiving
    <2>2. QED
      BY <2>1, LeavesReceivingGoesOn
  <1>3. CASE flags' = flags \cup {"start_receiving"} /\ queue' = Append(queue, p)
    <2>1. queue \in Seq(Ready) /\ p \in Ready /\ p.fn = "async_receive"
      BY PostedReady DEF Functions, Inv, TypeInv, OperationsType
    <2> HIDE DEF p
    <2>2. Queued(queue', "async_receive")
      BY <1>3, <2>1, QueuedAppend
    <2>3. \A h : HasHandler(queue', h) /\ h.fn = "on_receive" => HasHandler(queue, h)
      BY <1>3, <2>1, HasHandlerAppend
    <2>4. QED
      BY <1>1, <1>3, <2>2, <2>3 DEF GoesOnInv, ReceptionGoesOn
  <1>4. QED
    BY <1>2, <1>3 DEF start_receiving

\* async_receive reads on unless there is no room or a stop has been signaled.
LEMMA AsyncReceiveGoesOn ==
    ASSUME Inv, GoesOnInv, NEW fn \in Receivers, Runs(fn), NEW b, async_receive(b),
           UNCHANGED <<broken, owner>>
    PROVE  GoesOnInv'
  <1>1. /\ Posts(queue, queue', Calm) /\ Posts(Tail(queue), queue', Notices)
        /\ flags' = flags \ {"start_receiving"}
    BY AsyncReceivePosts
  <1>2. CASE "stop_signaled" \in flags
    BY <1>1, <1>2, EndedGoesOn DEF GoesOnInv
  <1>3. CASE "stop_signaled" \notin flags
    <2>1. \A h : HasHandler(queue', h) /\ h.fn = "on_receive" => HasHandler(queue, h)
      <3>1. queue \in Seq(Ready) /\ queue # << >>
        BY RunsFacts
      <3>2. \A h : HasHandler(Tail(queue), h) => HasHandler(queue, h)
        BY <3>1, HasHandlerTail
      <3>3. QED
        BY <1>1, <3>2 DEF Posts, Notices
    <2>2. rx' = b /\ (get_write_head(b).ptr = NullPtr \/ reads' = Append(reads, get_write_head(b)))
      BY <1>3 DEF async_receive
    <2>3. ReceptionGoesOn'
      <3>1. reads \in Seq(Regions(RxCapacity))
        BY DEF Inv, TypeInv, OperationsType
      <3>2. get_write_head(rx').ptr = NullPtr \/ reads' # << >>
        BY <2>2, <3>1
      <3>3. QED
        BY <3>2 DEF ReceptionGoesOn
    <2>4. QED
      BY <1>1, <2>1, <2>3 DEF GoesOnInv
  <1>4. QED
    BY <1>2, <1>3

LEMMA HandlersGoOn ==
    Inv /\ SentInv /\ GoesOnInv
        /\ (run_async_receive \/ on_receive_data \/ on_receive_error \/ cancel_async_operations)
        => GoesOnInv'
  <1> SUFFICES ASSUME Inv, SentInv, GoesOnInv,
                      run_async_receive \/ on_receive_data \/ on_receive_error \/ cancel_async_operations
               PROVE  GoesOnInv'
    OBVIOUS
  <1>1. CASE run_async_receive
    BY <1>1, AsyncReceiveGoesOn DEF run_async_receive, env_vars, Receivers
  <1>2. CASE on_receive_data
    BY <1>2, AsyncReceiveGoesOn DEF on_receive_data, env_vars, Receivers
  <1>3. CASE on_receive_error
    <2>1. HasHandler(queue, Head(queue)) /\ Head(queue).fn = "on_receive" /\ Head(queue).ec # "ok"
      BY <1>3, RunsFacts, HeadContained DEF on_receive_error
    <2>2. "stop_signaled" \in flags \/ "read" \in broken
      BY <2>1 DEF GoesOnInv
    <2>3. QED
      BY <1>3, <2>2, EndedGoesOn DEF on_receive_error, env_vars, GoesOnInv
  <1>4. CASE cancel_async_operations
    <2>1. Queued(queue, "cancel_async_operations")
      BY <1>4, RunsFacts, QueuedTail DEF cancel_async_operations
    <2>2. "stop_signaled" \in flags'
      BY <1>4, <2>1 DEF SentInv, cancel_async_operations
    <2>3. QED
      BY <2>2, EndedGoesOn
  <1>5. QED
    BY <1>1, <1>2, <1>3, <1>4

LEMMA ReadEndsGoesOn == Inv /\ GoesOnInv /\ (read_completes \/ read_fails) => GoesOnInv'
  <1> SUFFICES ASSUME Inv, GoesOnInv, read_completes \/ read_fails PROVE GoesOnInv'
    OBVIOUS
  <1>1. CASE read_fails
    BY <1>1, EndedGoesOn DEF read_fails, GoesOnInv
  <1>2. CASE read_completes
    <2>1. queue \in Seq(Ready) /\ reads \in Seq(Regions(RxCapacity)) /\ reads # << >>
      BY <1>2 DEF Inv, TypeInv, OperationsType, read_completes
    <2>2. PICK k \in Nat : queue' = Append(queue, Handler("on_receive", "ok", k))
      BY <1>2, <2>1 DEF read_completes, Regions
    <2> DEFINE p == Handler("on_receive", "ok", k)
    <2>3. p \in Ready /\ p.fn = "on_receive" /\ p.ec = "ok" /\ queue' = Append(queue, p)
      BY <2>2, HandlerReady DEF Functions, ErrorCodes, Handler
    <2> HIDE DEF p
    <2>4. Queued(queue', "on_receive")
      BY <2>1, <2>3, QueuedAppend
    <2>5. \A h : HasHandler(queue', h) /\ h.ec # "ok" => HasHandler(queue, h)
      BY <2>1, <2>3, HasHandlerAppend
    <2>6. UNCHANGED <<flags, broken, owner>>
      BY <1>2 DEF read_completes, env_vars
    <2>7. QED
      BY <2>4, <2>5, <2>6 DEF GoesOnInv, ReceptionGoesOn
  <1>3. QED
    BY <1>1, <1>2

LEMMA OthersLeaveReceiving == Inv /\ (spin \/ Terminated \/ UNCHANGED vars) => LeavesReceiving
  BY ReceiveKeptSame
     DEF spin, Terminated, vars, conn_vars, env_vars, history, LeavesReceiving

LEMMA NextGoesOn == Inv /\ SentInv /\ GoesOnInv /\ [Next]_vars => GoesOnInv'
  <1> SUFFICES ASSUME Inv, SentInv, GoesOnInv, [Next]_vars PROVE GoesOnInv'
    OBVIOUS
  <1>1. CASE User
    BY <1>1, UserLeavesReceiving, LeavesReceivingGoesOn, StartReceivingGoesOn, OwnerGoesOn DEF User
  <1>2. CASE stop_returns
    BY <1>2, OwnerGoesOn
  <1>3. CASE IoThread
    BY <1>3, SendingLeavesReceiving, LeavesReceivingGoesOn, HandlersGoOn DEF IoThread
  <1>4. CASE Peer
    BY <1>4, SendingLeavesReceiving, LeavesReceivingGoesOn, ReadEndsGoesOn DEF Peer
  <1>5. CASE spin \/ Terminated \/ UNCHANGED vars
    BY <1>5, OthersLeaveReceiving, LeavesReceivingGoesOn
  <1>6. QED
    BY <1>1, <1>2, <1>3, <1>4, <1>5 DEF Next

\* However many reads the user's calls cause and whatever the data callback leaves in
\* the buffer: reception ends only for a stop, a failed socket, or a receive buffer
\* with no room at its end (async_receive, on_receive).
THEOREM ReceptionContinues == Spec => []ReceptionGoesOn
  <1>1. Inv /\ SentInv /\ GoesOnInv /\ [Next]_vars => (Inv /\ SentInv /\ GoesOnInv)'
    BY NextInv, NextSent, NextGoesOn
  <1>2. Init => Inv /\ SentInv /\ GoesOnInv
    BY InitInv, InitSent, InitGoesOn
  <1>3. GoesOnInv => ReceptionGoesOn
    BY DEF GoesOnInv
  <1>4. QED
    BY <1>1, <1>2, <1>3, PTL DEF Spec

-----------------------------------------------------------------------------
(***************************************************************************)
(* The received stream, when there is never more than one read.            *)
(***************************************************************************)

\* The bytes that are in the receive buffer behind what is committed.
Pending == arrived - (Len(delivered) + rx.size)

\* Reception is in one place: a posted lambda, a read, or a completed read.
OneReception ==
    /\ Len(reads) <= 1
    /\ reads # << >> => ~ Queued(queue, "on_receive") /\ ~ Queued(queue, "async_receive")
    /\ ~ (Queued(queue, "on_receive") /\ Queued(queue, "async_receive"))
    /\ AtMostOnce(queue, "on_receive") /\ AtMostOnce(queue, "async_receive")

\* The handler of a read commits them all; that of a failed one has none.
Carries(h) == h.n = Pending /\ (h.ec # "ok" => Pending = 0)

ReceivedInv ==
    /\ ReceivedStreamIntact
    /\ OneReception
    /\ reads # << >> => Head(reads) = get_write_head(rx)
    /\ Pending \in Nat /\ rx.head + Pending <= RxCapacity
    /\ Numbered(rx, rx.head + Pending, arrived)
    /\ \A h : HasHandler(queue, h) /\ h.fn = "on_receive" => Carries(h)
    /\ ~ Queued(queue, "on_receive") => Pending = 0

LEMMA InitReceived == Init => ReceivedInv
  <1> SUFFICES ASSUME Init PROVE ReceivedInv
    OBVIOUS
  <1>1. rx.head = 0 /\ rx.tail = 0 /\ rx.size = 0 /\ arrived = 0 /\ delivered = << >>
    BY DEF Init, NewBuffer
  <1>2. Pending = 0
    <2>1. Len(delivered) = 0
      <3>1. Len(<< >>) = 0
        OBVIOUS
      <3>2. QED
        BY <1>1, <3>1
    <2>2. Pending = 0 - (0 + 0)
      BY <1>1, <2>1 DEF Pending
    <2>3. QED
      BY <2>2
  <1>3. Numbered(rx, rx.head + Pending, arrived) /\ rx.head + Pending <= RxCapacity
    <2>1. rx.head + Pending = 0
      BY <1>1, <1>2
    <2>2. QED
      BY <1>1, <2>1 DEF Numbered
  <1>4. OneReception
    BY QueuedEmpty DEF Init, OneReception
  <1>5. ReceivedStreamIntact
    BY <1>1 DEF ReceivedStreamIntact
  <1>6. QED
    BY <1>2, <1>3, <1>4, <1>5, HasHandlerEmpty DEF Init, ReceivedInv

LEMMA LeavesReceivingReceived == ReceivedInv /\ LeavesReceiving => ReceivedInv'
  <1> SUFFICES ASSUME ReceivedInv, LeavesReceiving PROVE ReceivedInv'
    OBVIOUS
  <1>1. \A fn \in Receivers : Queued(queue', fn) <=> Queued(queue, fn)
    BY QueuedHasHandler DEF LeavesReceiving, ReceiveKept
  <1>2. OneReception'
    BY <1>1 DEF ReceivedInv, OneReception, LeavesReceiving, ReceiveKept, Receivers
  <1>3. Pending' = Pending /\ ReceivedStreamIntact' /\ Numbered(rx, rx.head + Pending, arrived)'
    BY DEF LeavesReceiving, Pending, ReceivedInv, ReceivedStreamIntact, Numbered
  <1>4. \A h : HasHandler(queue', h) /\ h.fn = "on_receive" => Carries(h)'
    BY <1>3 DEF ReceivedInv, LeavesReceiving, ReceiveKept, Receivers, Carries
  <1>5. QED
    BY <1>1, <1>2, <1>3, <1>4 DEF ReceivedInv, LeavesReceiving, Receivers

\* A step that changes neither the buffers nor the streams: where reception is, and
\* how many bytes its handler carries, is all there is to say.
LEMMA ReceivedFrame ==
    ASSUME ReceivedInv, UNCHANGED <<rx, arrived, delivered>>, OneReception',
           reads' = << >> \/ UNCHANGED reads,
           \A h : HasHandler(queue', h) /\ h.fn = "on_receive" => Carries(h),
           ~ Queued(queue', "on_receive") => Pending = 0
    PROVE  ReceivedInv'
  <1>1. Pending' = Pending /\ ReceivedStreamIntact' /\ Numbered(rx, rx.head + Pending, arrived)'
    BY DEF Pending, ReceivedInv, ReceivedStreamIntact, Numbered
  <1>2. \A h : HasHandler(queue', h) /\ h.fn = "on_receive" => Carries(h)'
    BY <1>1 DEF Carries
  <1>3. QED
    BY <1>1, <1>2 DEF ReceivedInv

\* The reads that were outstanding become handlers without bytes.
LEMMA AbortedReceived ==
    ASSUME Inv, ReceivedInv, NEW q \in Seq(Ready), ReceiveKept(queue, q), reads' = << >>,
           ReceiveKept(AllAborted(q), queue'), UNCHANGED <<rx, arrived, delivered>>
    PROVE  ReceivedInv'
  <1> DEFINE r == Aborted(reads, "on_receive")
             w == Aborted(writes, "on_send")
             p == q \o r
  <1>1. reads \in Seq(Regions(RxCapacity)) /\ writes \in Seq(Regions(TxCapacity)) /\ OperationsType
    BY DEF Inv, TypeInv, OperationsType
  <1>2. Handler("on_receive", "aborted", 0) \in Ready /\ Handler("on_send", "aborted", 0) \in Ready
    BY HandlerReady DEF Functions, ErrorCodes
  <1>3. r \in Seq({Handler("on_receive", "aborted", 0)}) /\ w \in Seq({Handler("on_send", "aborted", 0)})
    BY <1>1, QueuedAborted
  <1>4. r \in Seq(Ready) /\ w \in Seq(Ready)
    BY <1>2, <1>3
  <1>5. /\ Queued(r, "on_receive") <=> reads # << >>
        /\ ~ Queued(r, "async_receive")
        /\ AtMostOnce(r, "on_receive") /\ AtMostOnce(r, "async_receive")
    <2>1. Len(reads) <= 1
      BY DEF ReceivedInv, OneReception
    <2>2. QED
      BY <1>1, <2>1, QueuedAborted
  <1>6. \A h : HasHandler(w, h) => h.fn \notin Receivers
    BY AbortedContains DEF Receivers, Handler
  <1>7. AllAborted(q) = p \o w
    BY DEF AllAborted
  <1> HIDE DEF r, w
  <1>8. /\ p \in Seq(Ready)
        /\ Queued(p, "on_receive") <=> Queued(q, "on_receive") \/ reads # << >>
        /\ Queued(p, "async_receive") <=> Queued(q, "async_receive")
        /\ AtMostOnce(q, "on_receive") /\ ~ (Queued(q, "on_receive") /\ reads # << >>) => AtMostOnce(p, "on_receive")
        /\ AtMostOnce(q, "async_receive") => AtMostOnce(p, "async_receive")
    BY <1>4, <1>5, QueuedConcat
  <1> HIDE DEF p
  <1>9. ReceiveKept(p, queue')
    BY <1>4, <1>6, <1>7, <1>8, ReceiveKeptConcat, ReceiveKeptTransitive
  <1>10. /\ \A fn \in Receivers : Queued(queue', fn) <=> Queued(p, fn)
         /\ \A fn \in Receivers : Queued(q, fn) <=> Queued(queue, fn)
         /\ \A fn \in Receivers : AtMostOnce(queue, fn) => AtMostOnce(q, fn)
         /\ \A fn \in Receivers : AtMostOnce(p, fn) => AtMostOnce(queue', fn)
    BY <1>9, QueuedHasHandler DEF ReceiveKept
  <1>11. OneReception'
    <2>1. Len(reads') <= 1
      OBVIOUS
    <2>2. QED
      BY <1>8, <1>10, <2>1 DEF ReceivedInv, OneReception, Receivers
  <1>12. ASSUME NEW h, HasHandler(queue', h), h.fn = "on_receive"
         PROVE  Carries(h)
    <2>1. HasHandler(AllAborted(q), h)
      BY <1>12 DEF ReceiveKept, Receivers
    <2>2. \/ HasHandler(q, h)
          \/ h = Handler("on_receive", "aborted", 0) /\ reads # << >>
          \/ h = Handler("on_send", "aborted", 0)
      BY <1>1, <2>1, AllAbortedPosts
    <2>3. CASE HasHandler(q, h)
      BY <1>12, <2>3 DEF ReceivedInv, ReceiveKept, Receivers
    <2>4. CASE h = Handler("on_receive", "aborted", 0) /\ reads # << >>
      BY <2>4 DEF ReceivedInv, OneReception, Handler, Carries
    <2>5. h # Handler("on_send", "aborted", 0)
      BY <1>12 DEF Handler
    <2>6. QED
      BY <2>2, <2>3, <2>4, <2>5
  <1>13. ~ Queued(queue', "on_receive") => Pending = 0
    BY <1>8, <1>10 DEF ReceivedInv, Receivers
  <1>14. QED
    BY <1>11, <1>12, <1>13, ReceivedFrame

LEMMA ReleaseReceived ==
    Inv /\ ReceivedInv /\ Release /\ UNCHANGED <<rx, arrived, delivered>> => ReceivedInv'
  BY ReceiveKeptSame, AbortedReceived DEF Release, AllAborted, Inv, TypeInv, OperationsType

LEMMA OwnerReceived == Inv /\ ReceivedInv /\ (destructor \/ stop_returns) => ReceivedInv'
  <1> SUFFICES ASSUME Inv, ReceivedInv, destructor \/ stop_returns PROVE ReceivedInv'
    OBVIOUS
  <1>1. CASE destructor /\ "stop_signaled" \notin flags
    BY <1>1, UserLeavesReceiving, LeavesReceivingReceived
  <1>2. CASE destructor /\ "stop_signaled" \in flags
    BY <1>2, ReleaseReceived DEF destructor, history
  <1>3. CASE stop_returns
    <2>1. CASE owner = "stop" /\ owner' = "free" /\ UNCHANGED <<queue, reads, writes>>
      <3>1. LeavesReceiving
        BY <1>3, <2>1, ReceiveKeptSame DEF stop_returns, history, LeavesReceiving
      <3>2. QED
        BY <3>1, LeavesReceivingReceived
    <2>2. CASE Release
      BY <1>3, <2>2, ReleaseReceived DEF stop_returns, history
    <2>3. QED
      BY <1>3, <2>1, <2>2 DEF stop_returns
  <1>4. QED
    BY <1>1, <1>2, <1>3

LEMMA CancelReceived == Inv /\ ReceivedInv /\ cancel_async_operations => ReceivedInv'
  <1> SUFFICES ASSUME Inv, ReceivedInv, cancel_async_operations PROVE ReceivedInv'
    OBVIOUS
  <1> DEFINE t == Tail(queue)
             e == << >>
  <1>1. t \in Seq(Ready) /\ ReceiveKept(queue, t)
    BY RunsReceiveKept DEF cancel_async_operations, Receivers
  <1>2. resolve_on_stopped(flags', AllAborted(t), e)
    BY DEF cancel_async_operations, AllAborted
  <1>3. e \in Seq(Ready) /\ \A h : HasHandler(e, h) => h.fn \notin Receivers
    BY HasHandlerEmpty
  <1> HIDE DEF t, e
  <1>4. AllAborted(t) \in Seq(Ready)
    BY <1>1, AbortedFacts DEF Inv, TypeInv, SendInv, OneWrite
  <1>5. ReceiveKept(AllAborted(t), queue')
    BY <1>2, <1>3, <1>4, ReceiveKeptResolve
  <1>6. reads' = << >> /\ UNCHANGED <<rx, arrived, delivered>>
    BY DEF cancel_async_operations
  <1>7. QED
    BY <1>1, <1>5, <1>6, AbortedReceived

\* No reception: start_receiving is called only then.
LEMMA NoReception ==
    ASSUME Inv, MaxReads <= 1, Len(reads) + Cardinality(Receptions) < MaxReads
    PROVE  reads = << >> /\ \A fn \in Receivers : ~ Queued(queue, fn)
  <1>1. queue \in Seq(Ready) /\ reads \in Seq(Regions(RxCapacity))
    BY DEF Inv, TypeInv, OperationsType
  <1>2. IsFiniteSet(Receptions)
    <2>1. IsFiniteSet(1 .. Len(queue)) /\ DOMAIN queue = 1 .. Len(queue)
      BY <1>1, FS_Interval, LenProperties
    <2>2. QED
      BY <2>1, FS_Subset DEF Receptions
  <1>3. Cardinality(Receptions) \in Nat /\ Len(reads) \in Nat
    BY <1>1, <1>2, FS_CardinalityType, LenProperties
  <1>4. Cardinality(Receptions) = 0 /\ Len(reads) = 0
    BY <1>3
  <1>5. Receptions = {}
    BY <1>2, <1>4, FS_EmptySet
  <1>6. \A fn \in Receivers : ~ Queued(queue, fn)
    BY <1>5 DEF Receptions, Queued, Receivers
  <1>7. QED
    BY <1>1, <1>4, <1>6, EmptySeq

LEMMA StartReceivingReceived ==
    ASSUME MaxReads <= 1, Inv, ReceivedInv, start_receiving
    PROVE  ReceivedInv'
  <1> DEFINE p == Posted("async_receive")
  <1>1. UNCHANGED <<reads, rx, broken, owner, arrived, delivered>>
    BY DEF start_receiving, env_vars, history
  <1>2. CASE UNCHANGED <<flags, queue>>
    <2>1. LeavesReceiving
      BY <1>1, <1>2, ReceiveKeptSame DEF LeavesReceiving
    <2>2. QED
      BY <2>1, LeavesReceivingReceived
  <1>3. CASE queue' = Append(queue, p)
    <2>1. queue \in Seq(Ready) /\ p \in Ready /\ p.fn = "async_receive"
      BY PostedReady DEF Functions, Inv, TypeInv, OperationsType
    <2> HIDE DEF p
    <2>2. reads = << >> /\ ~ Queued(queue, "on_receive") /\ ~ Queued(queue, "async_receive")
      BY NoReception DEF start_receiving, Receivers
    <2>3. /\ ~ Queued(queue', "on_receive") /\ AtMostOnce(queue', "on_receive")
          /\ AtMostOnce(queue', "async_receive")
      BY <1>3, <2>1, <2>2, QueuedAppend DEF ReceivedInv, OneReception
    <2>4. OneReception'
      BY <1>1, <2>2, <2>3 DEF OneReception
    <2>5. Pending = 0
      BY <2>2 DEF ReceivedInv
    <2>6. \A h : HasHandler(queue', h) /\ h.fn = "on_receive" => Carries(h)
      BY <2>3, NoneQueued
    <2>7. QED
      BY <1>1, <2>4, <2>5, <2>6, ReceivedFrame
  <1>4. QED
    BY <1>2, <1>3 DEF start_receiving

\* Taking the only reception handler leaves none.
LEMMA ReceptionTaken ==
    ASSUME Inv, ReceivedInv, NEW fn \in Receivers, Runs(fn),
           Posts(Tail(queue), queue', Notices)
    PROVE  /\ reads = << >>
           /\ \A g \in Receivers : ~ Queued(queue', g) /\ AtMostOnce(queue', g)
  <1>1. queue \in Seq(Ready) /\ queue # << >> /\ Head(queue).fn = fn
    BY RunsFacts
  <1>2. \A g \in Receivers : Queued(queue, g) <=> g = fn \/ Queued(Tail(queue), g)
    BY <1>1, QueuedTail
  <1>3. ~ Queued(Tail(queue), fn)
    BY <1>1, QueuedTail DEF ReceivedInv, OneReception, Receivers
  <1>4. \A g \in Receivers : ~ Queued(Tail(queue), g)
    BY <1>2, <1>3 DEF ReceivedInv, OneReception, Receivers
  <1>5. \A g \in Receivers : ~ Queued(queue', g)
    BY <1>4, QueuedHasHandler DEF Posts, Notices, Receivers
  <1>6. \A g \in Receivers : AtMostOnce(queue', g)
    BY <1>5 DEF AtMostOnce, Queued
  <1>7. reads = << >>
    BY <1>2 DEF ReceivedInv, OneReception, Receivers
  <1>8. QED
    BY <1>5, <1>6, <1>7

\* async_receive with nothing in the buffer behind what is committed.
LEMMA AsyncReceiveReceived ==
    ASSUME Inv, ReceivedInv, NEW fn \in Receivers, Runs(fn),
           NEW b \in Buffer(1 .. MaxRx, RxCapacity), WellFormed(b), async_receive(b),
           Numbered(b, b.head, arrived), UNCHANGED arrived,
           Counts(delivered'), Len(delivered') = arrived - b.size
    PROVE  ReceivedInv'
  <1>1. Posts(Tail(queue), queue', Notices)
    BY AsyncReceivePosts
  <1>2. /\ reads = << >>
        /\ \A g \in Receivers : ~ Queued(queue', g) /\ AtMostOnce(queue', g)
    BY <1>1, ReceptionTaken
  <1>3. rx' = b /\ b.head \in Nat /\ b.size \in Nat /\ b.head <= RxCapacity /\ arrived \in Nat
    BY BufferParts DEF async_receive, WellFormed, Inv, TypeInv, HistoryType
  <1>4. Pending' = 0
    <2>1. Pending' = arrived - ((arrived - b.size) + b.size)
      BY <1>3 DEF Pending
    <2>2. QED
      BY <1>3, <2>1
  <1>5. (Pending \in Nat /\ rx.head + Pending <= RxCapacity /\ Numbered(rx, rx.head + Pending, arrived))'
    <2>1. b.head + 0 = b.head
      BY <1>3
    <2>2. QED
      BY <1>3, <1>4, <2>1 DEF Numbered
  <1>6. Len(reads') <= 1 /\ (reads' # << >> => Head(reads') = get_write_head(rx'))
    <2> DEFINE r == get_write_head(b)
    <2>1. reads' = << >> \/ reads' = Append(<< >>, r)
      BY <1>2 DEF async_receive
    <2> HIDE DEF r
    <2>2. Len(Append(<< >>, r)) = 1 /\ Head(Append(<< >>, r)) = r /\ Len(<< >>) = 0
      OBVIOUS
    <2>3. Len(reads') <= 1 /\ (reads' # << >> => Head(reads') = r)
      <3>1. CASE reads' = << >>
        BY <2>2, <3>1
      <3>2. CASE reads' = Append(<< >>, r)
        BY <2>2, <3>2
      <3>3. QED
        BY <2>1, <3>1, <3>2
    <2>4. QED
      BY <1>3, <2>3 DEF r
  <1>7. OneReception'
    BY <1>2, <1>6 DEF OneReception, Receivers
  <1>8. ReceivedStreamIntact'
    BY DEF ReceivedStreamIntact, Counts
  <1>9. \A h : HasHandler(queue', h) => h.fn # "on_receive"
    BY <1>2, NoneQueued DEF Receivers
  <1>10. QED
    BY <1>4, <1>5, <1>6, <1>7, <1>8, <1>9 DEF ReceivedInv

LEMMA RunAsyncReceiveReceived == Inv /\ ReceivedInv /\ run_async_receive => ReceivedInv'
  <1> SUFFICES ASSUME Inv, ReceivedInv, run_async_receive PROVE ReceivedInv'
    OBVIOUS
  <1>1. /\ Runs("async_receive") /\ async_receive(rx) /\ UNCHANGED <<arrived, delivered>>
        /\ "async_receive" \in Receivers
    BY DEF run_async_receive, history, Receivers
  <1>2. /\ rx \in Buffer(1 .. MaxRx, RxCapacity) /\ WellFormed(rx) /\ arrived \in Nat
        /\ delivered \in Seq(0 .. MaxRx)
    BY DEF Inv, TypeInv, RxType, HistoryType
  <1>3. Pending = 0
    <2>1. Queued(queue, "async_receive")
      BY <1>1, RunsFacts, QueuedTail
    <2>2. QED
      BY <2>1 DEF ReceivedInv, OneReception
  <1>4. rx.head \in Nat /\ rx.size \in Nat /\ Len(delivered) \in Nat
    BY <1>2, BufferParts, LenProperties
  <1>5. Len(delivered) = arrived - rx.size
    BY <1>2, <1>3, <1>4 DEF Pending
  <1>6. Numbered(rx, rx.head, arrived)
    <2>1. rx.head + Pending = rx.head
      BY <1>3, <1>4
    <2>2. QED
      BY <2>1 DEF ReceivedInv
  <1>7. Counts(delivered)
    BY DEF ReceivedInv, ReceivedStreamIntact, Counts
  <1>8. QED
    BY <1>1, <1>2, <1>5, <1>6, <1>7, AsyncReceiveReceived

LEMMA OnReceiveDataReceived == Inv /\ ReceivedInv /\ on_receive_data => ReceivedInv'
  <1> SUFFICES ASSUME Inv, ReceivedInv, on_receive_data PROVE ReceivedInv'
    OBVIOUS
  <1> DEFINE b == commit(rx, Head(queue).n)
  <1>1. Runs("on_receive") /\ UNCHANGED arrived /\ "on_receive" \in Receivers
    BY DEF on_receive_data, Receivers
  <1>2. /\ rx \in Buffer(1 .. MaxRx, RxCapacity) /\ WellFormed(rx) /\ arrived \in Nat
        /\ delivered \in Seq(0 .. MaxRx)
    BY DEF Inv, TypeInv, RxType, HistoryType
  <1>3. Head(queue).n = Pending /\ Pending \in Nat
    <2>1. HasHandler(queue, Head(queue)) /\ Head(queue).fn = "on_receive"
      BY <1>1, RunsFacts, HeadContained
    <2>2. QED
      BY <2>1 DEF ReceivedInv, Carries
  <1>4. rx.head + Pending <= RxCapacity /\ Numbered(rx, rx.head + Pending, arrived)
    BY DEF ReceivedInv
  <1>5. /\ b \in Buffer(1 .. MaxRx, RxCapacity) /\ WellFormed(b)
        /\ Numbered(b, b.head, arrived) /\ b.size = rx.size + Pending
    <2>1. b = commit(rx, Pending)
      BY <1>3
    <2> HIDE DEF b
    <2>2. b \in Buffer(1 .. MaxRx, RxCapacity) /\ WellFormed(b)
      BY <1>2, <1>3, <2>1, CommitKeeps
    <2>3. Numbered(b, b.head, arrived) /\ b.size = rx.size + Pending
      BY <1>2, <1>3, <1>4, <2>1, CommitNumbered
    <2>4. QED
      BY <2>2, <2>3
  <1>6. PICK k \in 0 .. b.size : /\ delivered' = delivered \o BytesAt(b, b.tail, k)
                                 /\ async_receive(consume(b, k))
    BY DEF on_receive_data
  <1> HIDE DEF b
  <1>7. b.size \in Nat /\ k \in Nat /\ k <= b.size
    BY <1>5, BufferParts
  <1>8. Len(delivered) = arrived - b.size /\ Len(delivered) \in Nat
    <2>1. Len(delivered) \in Nat /\ rx.size \in Nat
      BY <1>2, BufferParts, LenProperties
    <2>2. QED
      BY <1>2, <1>5, <2>1 DEF Pending
  <1>9. Counts(delivered)
    BY DEF ReceivedInv, ReceivedStreamIntact, Counts
  <1>10. Counts(delivered') /\ Len(delivered') = Len(delivered) + k
    <2>1. MaxRx \in Nat /\ RxCapacity \in Nat /\ delivered \in Seq(0 .. MaxRx)
      BY <1>2
    <2>2. /\ Counts(delivered \o BytesAt(b, b.tail, k))
          /\ Len(delivered \o BytesAt(b, b.tail, k)) = Len(delivered) + k
      BY ONLY <1>2, <1>5, <1>7, <1>8, <1>9, <2>1, PrefixCounts, SMTT(20)
    <2>3. QED
      BY <1>6, <2>2
  <1>11. /\ consume(b, k) \in Buffer(1 .. MaxRx, RxCapacity) /\ WellFormed(consume(b, k))
         /\ Numbered(consume(b, k), consume(b, k).head, arrived)
         /\ consume(b, k).size = b.size - k
    <2>1. consume(b, k) \in Buffer(1 .. MaxRx, RxCapacity) /\ WellFormed(consume(b, k))
      BY <1>5, <1>7, ConsumeKeeps
    <2>2. /\ Numbered(consume(b, k), consume(b, k).head, arrived)
          /\ consume(b, k).size = b.size - k
      BY <1>2, <1>5, <1>7, ConsumeNumbered
    <2>3. QED
      BY <2>1, <2>2
  <1>12. Len(delivered') = arrived - consume(b, k).size
    BY <1>2, <1>7, <1>8, <1>10, <1>11
  <1>13. QED
    BY <1>1, <1>6, <1>10, <1>11, <1>12, AsyncReceiveReceived

LEMMA OnReceiveErrorReceived == Inv /\ ReceivedInv /\ on_receive_error => ReceivedInv'
  <1> SUFFICES ASSUME Inv, ReceivedInv, on_receive_error PROVE ReceivedInv'
    OBVIOUS
  <1>1. /\ Runs("on_receive") /\ "on_receive" \in Receivers
        /\ UNCHANGED <<reads, rx, arrived, delivered>>
    BY DEF on_receive_error, history, Receivers
  <1>2. Pending = 0
    <2>1. HasHandler(queue, Head(queue)) /\ Head(queue).fn = "on_receive"
      BY <1>1, RunsFacts, HeadContained
    <2>2. QED
      BY <2>1 DEF ReceivedInv, Carries, on_receive_error
  <1>3. Posts(Tail(queue), queue', Notices)
    BY <1>1, ErrorPosts DEF on_receive_error
  <1>4. /\ reads = << >>
        /\ \A g \in Receivers : ~ Queued(queue', g) /\ AtMostOnce(queue', g)
    BY <1>1, <1>3, ReceptionTaken
  <1>5. OneReception'
    BY <1>1, <1>4 DEF OneReception, Receivers
  <1>6. \A h : HasHandler(queue', h) => h.fn # "on_receive"
    BY <1>4, NoneQueued DEF Receivers
  <1>7. QED
    BY <1>1, <1>2, <1>5, <1>6, ReceivedFrame

\* The outstanding read, done or failed, becomes its handler.
LEMMA ReadReady ==
    ASSUME Inv, ReceivedInv, reads # << >>, reads' = Tail(reads),
           NEW p \in Ready, p.fn = "on_receive", queue' = Append(queue, p)
    PROVE  /\ OneReception' /\ Queued(queue', "on_receive") /\ reads' = << >>
           /\ Pending = 0
           /\ \A h : HasHandler(queue', h) /\ h.fn = "on_receive" => h = p
  <1>1. queue \in Seq(Ready) /\ reads \in Seq(Regions(RxCapacity))
    BY DEF Inv, TypeInv, OperationsType
  <1>2. reads' = << >> /\ Len(reads') <= 1
    BY <1>1 DEF ReceivedInv, OneReception
  <1>3. ~ Queued(queue, "on_receive") /\ ~ Queued(queue, "async_receive")
    BY DEF ReceivedInv, OneReception
  <1>4. /\ Queued(queue', "on_receive") /\ AtMostOnce(queue', "on_receive")
        /\ ~ Queued(queue', "async_receive") /\ AtMostOnce(queue', "async_receive")
    BY <1>1, <1>3, QueuedAppend DEF ReceivedInv, OneReception
  <1>5. OneReception'
    BY <1>2, <1>4 DEF OneReception
  <1>6. \A h : HasHandler(queue', h) /\ h.fn = "on_receive" => h = p
    BY <1>1, <1>3, HasHandlerAppend, NoneQueued
  <1>7. Pending = 0
    BY <1>3 DEF ReceivedInv
  <1>8. QED
    BY <1>2, <1>4, <1>5, <1>6, <1>7

LEMMA ReadFailsReceived == Inv /\ ReceivedInv /\ read_fails => ReceivedInv'
  <1> SUFFICES ASSUME Inv, ReceivedInv, read_fails PROVE ReceivedInv'
    OBVIOUS
  <1> DEFINE p == Handler("on_receive", "failed", 0)
  <1>1. p \in Ready /\ p.fn = "on_receive" /\ p.n = 0
    BY HandlerReady DEF Functions, ErrorCodes, Handler
  <1>2. /\ reads # << >> /\ reads' = Tail(reads) /\ queue' = Append(queue, p)
        /\ UNCHANGED <<rx, arrived, delivered>>
    BY DEF read_fails, history
  <1> HIDE DEF p
  <1>3. /\ OneReception' /\ Queued(queue', "on_receive") /\ reads' = << >> /\ Pending = 0
        /\ \A h : HasHandler(queue', h) /\ h.fn = "on_receive" => h = p
    BY <1>1, <1>2, ReadReady
  <1>4. Carries(p)
    BY <1>1, <1>3 DEF Carries
  <1>5. QED
    BY <1>2, <1>3, <1>4, ReceivedFrame

LEMMA ReadCompletesReceived == Inv /\ ReceivedInv /\ read_completes => ReceivedInv'
  <1> SUFFICES ASSUME Inv, ReceivedInv, read_completes PROVE ReceivedInv'
    OBVIOUS
  <1>1. PICK k \in 1 .. Head(reads).len :
          /\ arrived + k <= MaxRx
          /\ rx' = fill(rx, Head(reads).ptr, [i \in 1 .. k |-> arrived + i])
          /\ arrived' = arrived + k
          /\ queue' = Append(queue, Handler("on_receive", "ok", k))
    BY DEF read_completes
  <1> DEFINE p == Handler("on_receive", "ok", k)
             s == [i \in 1 .. k |-> arrived + i]
  <1>2. reads # << >> /\ reads' = Tail(reads) /\ UNCHANGED delivered
    BY DEF read_completes
  <1>3. /\ rx \in Buffer(1 .. MaxRx, RxCapacity) /\ WellFormed(rx)
        /\ arrived \in Nat /\ Head(reads) \in Regions(RxCapacity) /\ delivered \in Seq(0 .. MaxRx)
    BY <1>2 DEF Inv, TypeInv, RxType, HistoryType, OperationsType
  <1>4. k \in Nat /\ k <= Head(reads).len /\ Head(reads).ptr \in Nat
    BY <1>3 DEF Regions
  <1>5. p \in Ready /\ p.fn = "on_receive" /\ p.ec = "ok" /\ p.n = k
    BY <1>4, HandlerReady DEF Functions, ErrorCodes, Handler
  <1>6. s \in Run(1 .. MaxRx, k) /\ \A j \in 1 .. k : s[j] = arrived + j
    BY <1>1, <1>3, <1>4 DEF Run
  <1>7. queue' = Append(queue, p) /\ rx' = fill(rx, Head(reads).ptr, s)
    BY <1>1
  <1> HIDE DEF p, s
  <1>8. /\ OneReception' /\ Queued(queue', "on_receive") /\ reads' = << >> /\ Pending = 0
        /\ \A h : HasHandler(queue', h) /\ h.fn = "on_receive" => h = p
    BY <1>2, <1>5, <1>7, ReadReady
  <1>9. rx.head \in Nat /\ rx.size \in Nat /\ Len(delivered) \in Nat
    BY <1>3, BufferParts, LenProperties
  <1>10. Head(reads).ptr = rx.head /\ rx.head + k <= RxCapacity
    <2>1. Head(reads) = Region(IF rx.head < RxCapacity THEN rx.head ELSE NullPtr, RxCapacity - rx.head)
      BY <1>2, <1>3, WriteHeadIsSpaceToEnd DEF ReceivedInv
    <2>2. Head(reads).len = RxCapacity - rx.head
          /\ Head(reads).ptr = IF rx.head < RxCapacity THEN rx.head ELSE NullPtr
      BY <2>1 DEF Region
    <2>3. QED
      BY <1>4, <1>9, <2>2 DEF NullPtr
  <1>11. Numbered(rx, rx.head, arrived)
    <2>1. rx.head + Pending = rx.head
      BY <1>8, <1>9
    <2>2. QED
      BY <2>1 DEF ReceivedInv
  <1>12. Numbered(rx', rx.head + k, arrived + k)
    BY <1>3, <1>4, <1>6, <1>7, <1>10, <1>11, FillNumbered
  <1>13. rx'.head = rx.head /\ rx'.size = rx.size
    <2>1. rx.head \in Int
      BY <1>9
    <2>2. /\ fill(rx, rx.head, s).head = rx.head
          /\ fill(rx, rx.head, s).size = rx.size
      <3>1. /\ rx \in Buffer(1 .. MaxRx, RxCapacity) /\ s \in Run(1 .. MaxRx, k) /\ k \in Nat
            /\ RxCapacity \in Nat
        BY <1>3, <1>4, <1>6
      <3>2. QED
        BY ONLY <2>1, <3>1, FillParts
    <2>3. rx' = fill(rx, rx.head, s)
      BY <1>7, <1>10
    <2>4. QED
      BY <2>2, <2>3
  <1>14. Pending' = k
    <2>1. Pending' = (arrived + k) - (Len(delivered) + rx.size)
      BY <1>1, <1>2, <1>13 DEF Pending
    <2>2. arrived - (Len(delivered) + rx.size) = 0
      BY <1>8 DEF Pending
    <2>3. QED
      BY <1>3, <1>4, <1>9, <2>1, <2>2
  <1>15. (Pending \in Nat /\ rx.head + Pending <= RxCapacity /\ Numbered(rx, rx.head + Pending, arrived))'
    BY <1>1, <1>4, <1>10, <1>12, <1>13, <1>14
  <1>16. Carries(p)'
    BY <1>5, <1>14 DEF Carries
  <1>17. ReceivedStreamIntact'
    BY <1>2 DEF ReceivedInv, ReceivedStreamIntact
  <1>18. QED
    BY <1>8, <1>15, <1>16, <1>17 DEF ReceivedInv

LEMMA NextReceived ==
    ASSUME MaxReads <= 1
    PROVE  Inv /\ ReceivedInv /\ [Next]_vars => ReceivedInv'
  <1> SUFFICES ASSUME Inv, ReceivedInv, [Next]_vars PROVE ReceivedInv'
    OBVIOUS
  <1>1. CASE User
    BY <1>1, UserLeavesReceiving, LeavesReceivingReceived, StartReceivingReceived, OwnerReceived
       DEF User
  <1>2. CASE stop_returns
    BY <1>2, OwnerReceived
  <1>3. CASE IoThread
    BY <1>3, SendingLeavesReceiving, LeavesReceivingReceived, RunAsyncReceiveReceived,
       OnReceiveDataReceived, OnReceiveErrorReceived, CancelReceived DEF IoThread
  <1>4. CASE Peer
    BY <1>4, SendingLeavesReceiving, LeavesReceivingReceived, ReadCompletesReceived,
       ReadFailsReceived DEF Peer
  <1>5. CASE spin \/ Terminated \/ UNCHANGED vars
    BY <1>5, OthersLeaveReceiving, LeavesReceivingReceived
  <1>6. QED
    BY <1>1, <1>2, <1>3, <1>4, <1>5 DEF Next

\* As long as the user's start_receiving() calls never cause a second read, the data
\* callback gets the peer's bytes in order and without gaps, whatever it leaves in the
\* buffer and however the reads cut the stream (async_receive, on_receive).  With two
\* reads at once it does not: both are given the same write head.
THEOREM ReceivedStreamCorrect ==
    ASSUME MaxReads <= 1
    PROVE  Spec => []ReceivedStreamIntact
  <1>1. Inv /\ ReceivedInv /\ [Next]_vars => (Inv /\ ReceivedInv)'
    BY NextInv, NextReceived
  <1>2. Init => Inv /\ ReceivedInv
    BY InitInv, InitReceived
  <1>3. ReceivedInv => ReceivedStreamIntact
    BY DEF ReceivedInv
  <1>4. QED
    BY <1>1, <1>2, <1>3, PTL DEF Spec

-----------------------------------------------------------------------------
(***************************************************************************)
(* The stop: the inductive invariant of IsAsyncService.  The flag closing  *)
(* stands for the posted cancellation, behind which no reception begins.   *)
(* The stopped callback is held, then posted when the flags are clear,     *)
(* with nothing behind it but a notice of loss, then has run.              *)
(***************************************************************************)
Cancel == "cancel_async_operations"

\* With the ready handlers q, the flags f, and the stopped callback held or not.
StopQueue(q, f, held) ==
    /\ AtMostOnce(q, Cancel)
    /\ "closing" \in f <=> Queued(q, Cancel)
    /\ Follows(q, Cancel, Functions \ {"async_receive"})
    /\ "stop_signaled" \in f /\ "closing" \notin f => ~ Queued(q, "async_receive")
    /\ Follows(q, "stopped", {"connection_lost"})
    /\ Queued(q, "stopped") => ~held

OnlyLost(q) == \A h : HasHandler(q, h) => h.fn = "connection_lost"

StopInv ==
    /\ StopQueue(queue, flags, disconnected_callback)
    /\ "stop_signaled" \notin flags =>
          /\ ~disconnected_callback /\ ~stopped /\ "closing" \notin flags
          /\ ~ Queued(queue, "stopped")
    /\ "stop_signaled" \in flags /\ "closing" \notin flags => reads = << >>
    /\ "stop_signaled" \in flags /\ ~disconnected_callback => flags \cap Active = {}
    /\ stopped => ~disconnected_callback /\ OnlyLost(queue)

LEMMA InitStop == Init => StopInv
  <1> SUFFICES ASSUME Init PROVE StopInv
    OBVIOUS
  <1>1. \A fn : ~ Queued(queue, fn) /\ AtMostOnce(queue, fn)
    BY QueuedEmpty DEF Init
  <1>2. StopQueue(queue, flags, disconnected_callback)
    BY <1>1, FollowsNotQueued DEF Init, StopQueue
  <1>3. QED
    BY <1>1, <1>2 DEF Init, StopInv

LEMMA StopQueueAppend ==
    ASSUME NEW q \in Seq(Ready), NEW f, NEW held \in BOOLEAN, StopQueue(q, f, held),
           NEW h \in Ready, h.fn \notin {Cancel, "stopped"},
           Queued(q, "stopped") => h.fn = "connection_lost",
           h.fn = "async_receive" => "stop_signaled" \notin f /\ "closing" \notin f
    PROVE  StopQueue(Append(q, h), f, held) /\ Append(q, h) \in Seq(Ready)
  <1>1. /\ Append(q, h) \in Seq(Ready)
        /\ \A fn : Queued(Append(q, h), fn) <=> Queued(q, fn) \/ h.fn = fn
        /\ \A fn : AtMostOnce(q, fn) /\ ~ (h.fn = fn /\ Queued(q, fn)) =>
                      AtMostOnce(Append(q, h), fn)
    BY QueuedAppend
  <1>2. Follows(Append(q, h), "stopped", {"connection_lost"})
    BY FollowsAppend DEF StopQueue
  <1>3. Follows(Append(q, h), Cancel, Functions \ {"async_receive"})
    <2>1. h.fn \in Functions
      BY DEF Ready
    <2>2. Queued(q, Cancel) => h.fn \in Functions \ {"async_receive"}
      BY <2>1 DEF StopQueue
    <2>3. QED
      BY <2>2, FollowsAppend DEF StopQueue
  <1>4. AtMostOnce(Append(q, h), Cancel) /\ ("closing" \in f <=> Queued(Append(q, h), Cancel))
    BY <1>1 DEF StopQueue
  <1>5. "stop_signaled" \in f /\ "closing" \notin f => ~ Queued(Append(q, h), "async_receive")
    BY <1>1 DEF StopQueue
  <1>6. Queued(Append(q, h), "stopped") => ~held
    BY <1>1 DEF StopQueue
  <1>7. QED
    BY <1>1, <1>2, <1>3, <1>4, <1>5, <1>6 DEF StopQueue

LEMMA StopQueueTail ==
    ASSUME NEW q \in Seq(Ready), q # << >>, NEW f, NEW held \in BOOLEAN,
           StopQueue(q, f, held), Head(q).fn # Cancel
    PROVE  StopQueue(Tail(q), f, held) /\ Tail(q) \in Seq(Ready)
  <1>1. /\ Tail(q) \in Seq(Ready)
        /\ \A fn : Queued(q, fn) <=> Head(q).fn = fn \/ Queued(Tail(q), fn)
        /\ \A fn : AtMostOnce(q, fn) => AtMostOnce(Tail(q), fn)
    BY QueuedTail
  <1>2. Follows(Tail(q), "stopped", {"connection_lost"})
    BY FollowsTail DEF StopQueue
  <1>3. Follows(Tail(q), Cancel, Functions \ {"async_receive"})
    BY FollowsTail DEF StopQueue
  <1>4. AtMostOnce(Tail(q), Cancel) /\ ("closing" \in f <=> Queued(Tail(q), Cancel))
    BY <1>1 DEF StopQueue
  <1>5. "stop_signaled" \in f /\ "closing" \notin f => ~ Queued(Tail(q), "async_receive")
    BY <1>1 DEF StopQueue
  <1>6. Queued(Tail(q), "stopped") => ~held
    BY <1>1 DEF StopQueue
  <1>7. QED
    BY <1>1, <1>2, <1>3, <1>4, <1>5, <1>6 DEF StopQueue

LEMMA StopQueueFlags ==
    ASSUME NEW q, NEW f, NEW g, NEW held, StopQueue(q, f, held),
           "closing" \in g <=> "closing" \in f,
           "stop_signaled" \in g <=> "stop_signaled" \in f
    PROVE  StopQueue(q, g, held)
  BY DEF StopQueue

\* What is posted behind a resolution is nothing or a notice of loss.
LEMMA NoticeAppended ==
    ASSUME NEW q \in Seq(Ready), NEW r \in {<< >>, lost_notice}
    PROVE  q \o r = q \/ q \o r = Append(q, Posted("connection_lost"))
  <1> DEFINE p == Posted("connection_lost")
  <1>1. p \in Ready
    BY PostedReady DEF Functions
  <1>2. r = << >> \/ r = <<p>>
    BY DEF lost_notice
  <1> HIDE DEF p
  <1>3. q \o << >> = q
    OBVIOUS
  <1>4. q \o <<p>> = Append(q, p)
    BY <1>1
  <1>5. QED
    BY <1>2, <1>3, <1>4 DEF p

LEMMA NoticeStopQueue ==
    ASSUME NEW q \in Seq(Ready), NEW f, NEW held \in BOOLEAN, StopQueue(q, f, held),
           NEW r \in {<< >>, lost_notice}
    PROVE  StopQueue(q \o r, f, held) /\ (Queued(q \o r, "stopped") => Queued(q, "stopped"))
  <1> DEFINE p == Posted("connection_lost")
  <1>1. p \in Ready /\ p.fn = "connection_lost"
    BY PostedReady DEF Functions
  <1>2. q \o r = q \/ q \o r = Append(q, p)
    BY NoticeAppended
  <1> HIDE DEF p
  <1>3. StopQueue(Append(q, p), f, held)
    BY <1>1, StopQueueAppend DEF Cancel
  <1>4. Queued(Append(q, p), "stopped") => Queued(q, "stopped")
    BY <1>1, QueuedAppend
  <1>5. QED
    BY <1>2, <1>3, <1>4

LEMMA ResolveStopQueue ==
    ASSUME NEW q \in Seq(Ready), NEW f, disconnected_callback \in BOOLEAN,
           StopQueue(q, f, disconnected_callback),
           "stop_signaled" \in f \/ ~disconnected_callback,
           NEW r \in {<< >>, lost_notice},
           \/ resolve_on_stopped(f, q, r)
           \/ queue' = q \o r /\ UNCHANGED disconnected_callback
    PROVE  /\ StopQueue(queue', f, disconnected_callback')
           /\ disconnected_callback' \in BOOLEAN
           /\ disconnected_callback' => disconnected_callback
           /\ ~disconnected_callback' => ~disconnected_callback \/ f \cap Active = {}
           /\ Queued(queue', "stopped") => Queued(q, "stopped") \/ disconnected_callback
  <1>1. CASE queue' = q \o r /\ UNCHANGED disconnected_callback
    BY <1>1, NoticeStopQueue
  <1>2. CASE /\ disconnected_callback /\ Active \cap f = {}
             /\ queue' = Append(q, Posted("stopped")) \o r
             /\ disconnected_callback' = FALSE
    <2> DEFINE p == Posted("stopped")
               a == Append(q, p)
    <2>1. p \in Ready /\ p.fn = "stopped"
      BY PostedReady DEF Functions
    <2> HIDE DEF p
    <2>2. ~ Queued(q, "stopped") /\ "closing" \notin f /\ "stop_signaled" \in f
      BY <1>2 DEF StopQueue, Active
    <2>3. /\ a \in Seq(Ready)
          /\ \A fn : Queued(a, fn) <=> Queued(q, fn) \/ p.fn = fn
          /\ \A fn : AtMostOnce(q, fn) /\ ~ (p.fn = fn /\ Queued(q, fn)) => AtMostOnce(a, fn)
      BY <2>1, QueuedAppend
    <2>4. Follows(a, "stopped", {"connection_lost"})
      BY <2>1, <2>2, FollowsAppend DEF StopQueue
    <2>5. Follows(a, Cancel, Functions \ {"async_receive"})
      BY <2>1, FollowsAppend DEF StopQueue, Functions
    <2>6. AtMostOnce(a, Cancel) /\ ~ Queued(a, Cancel) /\ ~ Queued(a, "async_receive")
      BY <2>1, <2>2, <2>3 DEF StopQueue, Cancel
    <2> HIDE DEF a
    <2>7. StopQueue(a, f, FALSE)
      BY <2>2, <2>4, <2>5, <2>6 DEF StopQueue
    <2>8. queue' = a \o r
      BY <1>2 DEF a, p
    <2>9. StopQueue(queue', f, disconnected_callback')
      BY <1>2, <2>3, <2>7, <2>8, NoticeStopQueue
    <2>10. QED
      BY <1>2, <2>9
  <1>3. QED
    BY <1>1, <1>2 DEF resolve_on_stopped

LEMMA StopInvSame ==
    ASSUME StopInv, UNCHANGED <<flags, disconnected_callback, queue, reads, stopped>>
    PROVE  StopInv'
  BY DEF StopInv

\* A handler that becomes ready before the stopped callback is posted.
LEMMA AppendStop ==
    ASSUME Inv, StopInv, NEW h \in Ready, h.fn \notin {Cancel, "stopped"},
           "stop_signaled" \in flags => disconnected_callback,
           queue' = Append(queue, h), UNCHANGED <<disconnected_callback, stopped>>,
           h.fn = "async_receive" => "stop_signaled" \notin flags,
           "closing" \in flags' <=> "closing" \in flags,
           "stop_signaled" \in flags' <=> "stop_signaled" \in flags,
           "stop_signaled" \in flags => UNCHANGED flags /\ (reads = << >> => reads' = << >>)
    PROVE  StopInv'
  <1>1. queue \in Seq(Ready) /\ disconnected_callback \in BOOLEAN /\ stopped \in BOOLEAN
    BY DEF Inv, TypeInv, OperationsType, ControlType
  <1>2. ~ Queued(queue, "stopped") /\ ~stopped
    BY DEF StopInv, StopQueue
  <1>3. h.fn = "async_receive" => "stop_signaled" \notin flags /\ "closing" \notin flags
    BY DEF StopInv
  <1>4. StopQueue(queue', flags, disconnected_callback)
    BY <1>1, <1>2, <1>3, StopQueueAppend DEF StopInv
  <1>5. StopQueue(queue', flags', disconnected_callback')
    BY <1>4, StopQueueFlags
  <1>6. ~ Queued(queue', "stopped")
    BY <1>1, <1>2, QueuedAppend
  <1>7. QED
    BY <1>2, <1>5, <1>6 DEF StopInv

LEMMA StartsStop == Inv /\ StopInv /\ (start_sending \/ start_receiving) => StopInv'
  <1> SUFFICES ASSUME Inv, StopInv, start_sending \/ start_receiving PROVE StopInv'
    OBVIOUS
  <1>1. UNCHANGED <<disconnected_callback, reads, stopped>>
    BY DEF start_sending, start_receiving, env_vars
  <1>2. CASE UNCHANGED <<flags, queue>>
    BY <1>1, <1>2, StopInvSame
  <1>3. CASE /\ start_sending /\ "stop_signaled" \notin flags
             /\ flags' = flags \cup {"start_sending"}
             /\ queue' = Append(queue, Posted("start_sending"))
    <2>1. Posted("start_sending") \in Ready /\ Posted("start_sending").fn = "start_sending"
      BY PostedReady DEF Functions
    <2>2. QED
      BY <1>1, <1>3, <2>1, AppendStop DEF Cancel
  <1>4. CASE /\ start_receiving /\ "stop_signaled" \notin flags
             /\ flags' = flags \cup {"start_receiving"}
             /\ queue' = Append(queue, Posted("async_receive"))
    <2>1. Posted("async_receive") \in Ready /\ Posted("async_receive").fn = "async_receive"
      BY PostedReady DEF Functions
    <2>2. QED
      BY <1>1, <1>4, <2>1, AppendStop DEF Cancel
  <1>5. QED
    BY <1>2, <1>3, <1>4 DEF start_sending, start_receiving

\* A stop that is accepted, in any of its three callers.
LEMMA AsyncStopStop ==
    ASSUME Inv, StopInv, async_stop, UNCHANGED <<reads, stopped>>
    PROVE  StopInv'
  <1> DEFINE h == Posted(Cancel)
  <1>1. queue \in Seq(Ready) /\ h \in Ready /\ h.fn = Cancel
    BY PostedReady DEF Functions, Cancel, Inv, TypeInv, OperationsType
  <1> HIDE DEF h
  <1>2. CASE "stop_signaled" \in flags
    BY <1>2, StopInvSame DEF async_stop
  <1>3. CASE /\ "stop_signaled" \notin flags
             /\ flags' = flags \cup {"stop_signaled", "closing"}
             /\ disconnected_callback' = TRUE /\ queue' = Append(queue, h)
    <2>1. /\ \A fn : Queued(queue', fn) <=> Queued(queue, fn) \/ h.fn = fn
          /\ \A fn : AtMostOnce(queue, fn) /\ ~ (h.fn = fn /\ Queued(queue, fn)) =>
                        AtMostOnce(queue', fn)
      BY <1>1, <1>3, QueuedAppend
    <2>2. ~ Queued(queue, "stopped") /\ ~ Queued(queue, Cancel) /\ ~stopped
      BY <1>3 DEF StopInv, StopQueue
    <2>3. Follows(queue', Cancel, Functions \ {"async_receive"})
      BY <1>1, <1>3, <2>2, FollowsAppend DEF StopInv, StopQueue
    <2>4. ~ Queued(queue', "stopped") /\ Queued(queue', Cancel) /\ AtMostOnce(queue', Cancel)
      BY <1>1, <2>1, <2>2 DEF StopInv, StopQueue, Cancel
    <2>5. StopQueue(queue', flags', disconnected_callback')
      BY <1>3, <2>3, <2>4, FollowsNotQueued DEF StopQueue
    <2>6. QED
      BY <1>3, <2>2, <2>5 DEF StopInv
  <1>4. QED
    BY <1>2, <1>3 DEF async_stop, h, Cancel

\* Once the stopped callback has run nothing is outstanding.
LEMMA StoppedIdle ==
    ASSUME Inv, StopInv, stopped
    PROVE  /\ "stop_signaled" \in flags /\ flags \cap Active = {}
           /\ reads = << >> /\ writes = << >> /\ OnlyLost(queue)
  <1>1. "stop_signaled" \in flags /\ ~disconnected_callback /\ OnlyLost(queue)
    BY DEF StopInv
  <1>2. flags \cap Active = {}
    BY <1>1 DEF StopInv
  <1>3. "closing" \notin flags /\ "sending" \notin flags
    BY <1>2 DEF Active
  <1>4. reads = << >> /\ writes = << >>
    BY <1>1, <1>3 DEF StopInv, Inv, SendInv, OneWrite
  <1>5. QED
    BY <1>1, <1>2, <1>4

\* There is nothing for the socket to abort when the members go.
LEMMA ReleaseIdle ==
    ASSUME Inv, StopInv, stopped, Release
    PROVE  UNCHANGED <<queue, reads, writes>>
  <1>1. reads = << >> /\ writes = << >> /\ queue \in Seq(Ready)
    BY StoppedIdle DEF Inv, TypeInv, OperationsType
  <1>2. Aborted(reads, "on_receive") = << >> /\ Aborted(writes, "on_send") = << >>
    BY <1>1 DEF Aborted
  <1>3. queue \o << >> = queue
    BY <1>1
  <1>4. queue' = queue
    BY <1>2, <1>3 DEF Release
  <1>5. QED
    BY <1>1, <1>4 DEF Release

LEMMA OwnerStop == Inv /\ StopInv /\ (AsyncStop \/ stop \/ destructor \/ stop_returns) => StopInv'
  <1> SUFFICES ASSUME Inv, StopInv, AsyncStop \/ stop \/ destructor \/ stop_returns
               PROVE  StopInv'
    OBVIOUS
  <1>1. CASE AsyncStop \/ stop
    BY <1>1, AsyncStopStop DEF AsyncStop, stop, env_vars
  <1>2. CASE destructor /\ "stop_signaled" \notin flags
    BY <1>2, AsyncStopStop DEF destructor
  <1>3. CASE destructor /\ "stop_signaled" \in flags
    <2>1. stopped /\ Release /\ UNCHANGED <<flags, disconnected_callback, stopped>>
      BY <1>3 DEF destructor
    <2>2. QED
      BY <2>1, ReleaseIdle, StopInvSame
  <1>4. CASE stop_returns
    <2>1. stopped /\ UNCHANGED <<flags, disconnected_callback, stopped>>
      BY <1>4 DEF stop_returns
    <2>2. CASE owner = "stop" /\ owner' = "free" /\ UNCHANGED <<queue, reads, writes>>
      BY <2>1, <2>2, StopInvSame
    <2>3. CASE Release
      BY <2>1, <2>3, ReleaseIdle, StopInvSame
    <2>4. QED
      BY <1>4, <2>2, <2>3 DEF stop_returns
  <1>5. QED
    BY <1>1, <1>2, <1>3, <1>4

\* A handler of the connection, other than the cancellation, runs: it may resolve the
\* stop, and it starts no read once the stop is signaled.
LEMMA HandlerStop ==
    ASSUME Inv, StopInv, NEW fn \in Functions \ {Cancel, "stopped", "connection_lost"},
           Runs(fn), NEW r \in {<< >>, lost_notice},
           \/ resolve_on_stopped(flags', Tail(queue), r)
           \/ queue' = Tail(queue) \o r /\ UNCHANGED disconnected_callback,
           "closing" \in flags' <=> "closing" \in flags,
           "stop_signaled" \in flags' <=> "stop_signaled" \in flags,
           "stop_signaled" \in flags => flags' \subseteq flags /\ UNCHANGED reads,
           UNCHANGED stopped
    PROVE  StopInv'
  <1>1. /\ queue \in Seq(Ready) /\ queue # << >> /\ Head(queue).fn = fn
        /\ disconnected_callback \in BOOLEAN /\ stopped \in BOOLEAN
    BY RunsFacts DEF Inv, TypeInv, ControlType
  <1>2. ~stopped
    <2>1. HasHandler(queue, Head(queue))
      BY <1>1, HeadContained
    <2>2. QED
      BY <1>1, <2>1 DEF StopInv, OnlyLost
  <1>3. StopQueue(Tail(queue), flags, disconnected_callback) /\ Tail(queue) \in Seq(Ready)
    BY <1>1, StopQueueTail DEF StopInv
  <1>4. StopQueue(Tail(queue), flags', disconnected_callback)
    BY <1>3, StopQueueFlags
  <1>5. "stop_signaled" \in flags' \/ ~disconnected_callback
    BY DEF StopInv
  <1>6. /\ StopQueue(queue', flags', disconnected_callback')
        /\ disconnected_callback' => disconnected_callback
        /\ ~disconnected_callback' => ~disconnected_callback \/ flags' \cap Active = {}
        /\ Queued(queue', "stopped") => Queued(Tail(queue), "stopped") \/ disconnected_callback
    <2> DEFINE q == Tail(queue)
               f == flags'
    <2>1. /\ q \in Seq(Ready) /\ StopQueue(q, f, disconnected_callback)
          /\ "stop_signaled" \in f \/ ~disconnected_callback
          /\ \/ resolve_on_stopped(f, q, r)
             \/ queue' = q \o r /\ UNCHANGED disconnected_callback
      BY <1>3, <1>4, <1>5
    <2> HIDE DEF q, f
    <2>2. /\ StopQueue(queue', f, disconnected_callback')
          /\ disconnected_callback' => disconnected_callback
          /\ ~disconnected_callback' => ~disconnected_callback \/ f \cap Active = {}
          /\ Queued(queue', "stopped") => Queued(q, "stopped") \/ disconnected_callback
      BY <1>1, <2>1, ResolveStopQueue
    <2>3. QED
      BY <2>2 DEF q, f
  <1>7. Queued(Tail(queue), "stopped") => Queued(queue, "stopped")
    BY <1>1, QueuedTail
  <1>8. "stop_signaled" \notin flags' =>
          /\ ~disconnected_callback' /\ ~stopped' /\ "closing" \notin flags'
          /\ ~ Queued(queue', "stopped")
    BY <1>2, <1>6, <1>7 DEF StopInv
  <1>9. "stop_signaled" \in flags' /\ "closing" \notin flags' => reads' = << >>
    BY DEF StopInv
  <1>10. "stop_signaled" \in flags' /\ ~disconnected_callback' => flags' \cap Active = {}
    BY <1>6 DEF StopInv
  <1>11. QED
    BY <1>2, <1>6, <1>8, <1>9, <1>10 DEF StopInv

\* A queue is a queue with nothing behind it.
LEMMA TailIsAppended ==
    ASSUME Inv, NEW fn, Runs(fn)
    PROVE  Tail(queue) \o << >> = Tail(queue)
  <1>1. Tail(queue) \in Seq(Ready)
    BY RunsFacts
  <1>2. QED
    BY <1>1

LEMMA ReceivingStop ==
    ASSUME Inv, StopInv, NEW fn \in Receivers, Runs(fn), NEW b, async_receive(b),
           UNCHANGED stopped
    PROVE  StopInv'
  <1>1. fn \in Functions \ {Cancel, "stopped", "connection_lost"}
    BY DEF Receivers, Functions, Cancel
  <1>2. Tail(queue) \o << >> = Tail(queue)
    BY TailIsAppended
  <1>3. /\ flags' = flags \ {"start_receiving"}
        /\ \/ resolve_on_stopped(flags', Tail(queue), << >>)
           \/ queue' = Tail(queue) \o << >> /\ UNCHANGED disconnected_callback
        /\ "stop_signaled" \in flags => UNCHANGED reads
    BY <1>2 DEF async_receive
  <1>4. QED
    BY <1>1, <1>3, HandlerStop

LEMMA RunAsyncReceiveStop == Inv /\ StopInv /\ run_async_receive => StopInv'
  BY ReceivingStop DEF run_async_receive, env_vars, Receivers

LEMMA OnReceiveDataStop == Inv /\ StopInv /\ on_receive_data => StopInv'
  <1> SUFFICES ASSUME Inv, StopInv, on_receive_data PROVE StopInv'
    OBVIOUS
  <1>1. Runs("on_receive") /\ "on_receive" \in Receivers /\ UNCHANGED stopped
    BY DEF on_receive_data, env_vars, Receivers
  <1>2. PICK b : async_receive(b)
    BY DEF on_receive_data
  <1>3. QED
    BY <1>1, <1>2, ReceivingStop

LEMMA ErrorsStop == Inv /\ StopInv /\ (on_receive_error \/ on_send_error) => StopInv'
  <1> SUFFICES ASSUME Inv, StopInv, on_receive_error \/ on_send_error PROVE StopInv'
    OBVIOUS
  <1>1. PICK fn \in {"on_receive", "on_send"} : Runs(fn)
    BY DEF on_receive_error, on_send_error
  <1>2. fn \in Functions \ {Cancel, "stopped", "connection_lost"}
    BY DEF Functions, Cancel
  <1>3. /\ \/ resolve_on_stopped(flags', Tail(queue), lost_notice)
           \/ queue' = Tail(queue) \o lost_notice /\ UNCHANGED disconnected_callback
        /\ flags' = flags \ {"receiving"} \/ flags' = flags \ {"sending"}
        /\ UNCHANGED <<reads, stopped>>
    BY DEF on_receive_error, on_send_error, env_vars
  <1>4. QED
    BY <1>1, <1>2, <1>3, HandlerStop

LEMMA SendingStop == Inv /\ StopInv /\ (run_start_sending \/ on_send_written) => StopInv'
  <1> SUFFICES ASSUME Inv, StopInv, run_start_sending \/ on_send_written PROVE StopInv'
    OBVIOUS
  <1>1. PICK fn \in {"start_sending", "on_send"} : Runs(fn)
    BY DEF run_start_sending, on_send_written
  <1>2. fn \in Functions \ {Cancel, "stopped", "connection_lost"}
    BY DEF Functions, Cancel
  <1>3. Tail(queue) \o << >> = Tail(queue)
    BY <1>1, TailIsAppended
  <1>4. /\ \/ resolve_on_stopped(flags', Tail(queue), << >>)
           \/ queue' = Tail(queue) \o << >> /\ UNCHANGED disconnected_callback
        /\ UNCHANGED <<reads, stopped>>
    BY <1>3 DEF run_start_sending, on_send_written, env_vars
  <1>5. /\ "closing" \in flags' <=> "closing" \in flags
        /\ "stop_signaled" \in flags' <=> "stop_signaled" \in flags
        /\ "stop_signaled" \in flags => flags' \subseteq flags
    BY DEF run_start_sending, on_send_written, async_send
  <1>6. QED
    BY <1>1, <1>2, <1>4, <1>5, HandlerStop

LEMMA CancelStop == Inv /\ StopInv /\ cancel_async_operations => StopInv'
  <1> SUFFICES ASSUME Inv, StopInv, cancel_async_operations PROVE StopInv'
    OBVIOUS
  <1> DEFINE q == AllAborted(Tail(queue))
  <1>1. /\ queue \in Seq(Ready) /\ queue # << >> /\ Head(queue).fn = Cancel
        /\ Tail(queue) \in Seq(Ready)
        /\ disconnected_callback \in BOOLEAN /\ stopped \in BOOLEAN
    BY RunsFacts DEF cancel_async_operations, Inv, TypeInv, ControlType, Cancel
  <1>2. q \in Seq(Ready)
    BY <1>1, AbortedFacts DEF Inv, TypeInv, SendInv, OneWrite
  <1>3. ~stopped
    <2>1. HasHandler(queue, Head(queue))
      BY <1>1, HeadContained
    <2>2. QED
      BY <1>1, <2>1 DEF StopInv, OnlyLost, Cancel
  <1>4. "closing" \in flags /\ "stop_signaled" \in flags /\ disconnected_callback
    <2>1. Queued(queue, Cancel)
      BY <1>1, QueuedTail
    <2>2. QED
      BY <1>1, <2>1 DEF StopInv, StopQueue, Active
  <1>5. \A h : HasHandler(q, h) => h.fn \notin {Cancel, "stopped", "async_receive"}
    <2>1. ~ Queued(Tail(queue), Cancel) /\ ~ Queued(queue, "stopped")
      BY <1>1, <1>4, QueuedTail DEF StopInv, StopQueue
    <2>2. ~ Queued(Tail(queue), "stopped")
      BY <1>1, <2>1, QueuedTail
    <2>3. \A h : HasHandler(Tail(queue), h) => h.fn \in Functions \ {"async_receive"}
      BY <1>1, FollowsTail DEF StopInv, StopQueue
    <2>4. \A h : HasHandler(Tail(queue), h) => h.fn # Cancel /\ h.fn # "stopped"
      BY <2>1, <2>2, HasHandlerQueued
    <2>5. \A h : HasHandler(q, h) => \/ HasHandler(Tail(queue), h)
                                   \/ h = Handler("on_receive", "aborted", 0)
                                   \/ h = Handler("on_send", "aborted", 0)
      BY <1>1, AllAbortedPosts DEF Inv, TypeInv
    <2>6. /\ Handler("on_receive", "aborted", 0).fn = "on_receive"
          /\ Handler("on_send", "aborted", 0).fn = "on_send"
      BY DEF Handler
    <2>7. QED
      BY <2>3, <2>4, <2>5, <2>6 DEF Cancel
  <1>6. \A fn \in {Cancel, "stopped", "async_receive"} : ~ Queued(q, fn) /\ AtMostOnce(q, fn)
    BY <1>5 DEF HasHandler, Queued, AtMostOnce
  <1>7. /\ flags' = flags \ {"closing"} /\ reads' = << >> /\ UNCHANGED stopped
        /\ resolve_on_stopped(flags', q, << >>)
    BY DEF cancel_async_operations, env_vars, AllAborted
  <1> HIDE DEF q
  <1>8. StopQueue(q, flags', disconnected_callback)
    BY <1>6, <1>7, FollowsNotQueued DEF StopQueue
  <1>9. "stop_signaled" \in flags'
    BY <1>4, <1>7
  <1>10. /\ StopQueue(queue', flags', disconnected_callback')
         /\ ~disconnected_callback' => ~disconnected_callback \/ flags' \cap Active = {}
    BY <1>1, <1>2, <1>7, <1>8, <1>9, ResolveStopQueue
  <1>11. QED
    BY <1>3, <1>4, <1>7, <1>9, <1>10 DEF StopInv

LEMMA CallbacksStop == Inv /\ StopInv /\ (run_connection_lost \/ run_stopped) => StopInv'
  <1> SUFFICES ASSUME Inv, StopInv, run_connection_lost \/ run_stopped PROVE StopInv'
    OBVIOUS
  <1>1. PICK fn \in {"connection_lost", "stopped"} : Runs(fn)
    BY DEF run_connection_lost, run_stopped
  <1>2. /\ queue \in Seq(Ready) /\ queue # << >> /\ Head(queue).fn = fn
        /\ disconnected_callback \in BOOLEAN
    BY <1>1, RunsFacts DEF Inv, TypeInv, ControlType
  <1>3. queue' = Tail(queue) /\ UNCHANGED <<flags, disconnected_callback, reads>>
    BY DEF run_connection_lost, run_stopped
  <1>4. StopQueue(queue', flags', disconnected_callback')
    BY <1>2, <1>3, StopQueueTail DEF StopInv, Cancel
  <1>5. /\ \A g : Queued(queue, g) <=> fn = g \/ Queued(queue', g)
        /\ \A h : HasHandler(queue', h) => HasHandler(queue, h)
    BY <1>2, <1>3, QueuedTail, HasHandlerTail
  <1>6. CASE run_connection_lost
    <2>1. UNCHANGED stopped
      BY <1>6 DEF run_connection_lost, env_vars
    <2>2. QED
      BY <1>3, <1>4, <1>5, <2>1 DEF StopInv, OnlyLost
  <1>7. CASE run_stopped
    <2>1. Head(queue).fn = "stopped"
      BY <1>7, RunsFacts DEF run_stopped
    <2>2. Queued(queue, "stopped")
      BY <1>2, <2>1, QueuedTail
    <2>3. ~disconnected_callback /\ "stop_signaled" \in flags
      BY <2>2 DEF StopInv, StopQueue
    <2>4. OnlyLost(queue')
      BY <1>2, <1>3, <2>1, FollowsTail DEF StopInv, StopQueue, OnlyLost
    <2>5. QED
      BY <1>3, <1>4, <2>3, <2>4 DEF StopInv
  <1>8. QED
    BY <1>6, <1>7

\* The socket makes one handler of a read or a write ready.
LEMMA PeerReady ==
    ASSUME Inv, Peer
    PROVE  \E h \in Ready : h.fn \in {"on_receive", "on_send"} /\ queue' = Append(queue, h)
  <1>1. CASE read_completes
    <2>1. PICK k \in 1 .. Head(reads).len : queue' = Append(queue, Handler("on_receive", "ok", k))
      BY <1>1 DEF read_completes
    <2>2. k \in Nat
      BY <1>1 DEF read_completes, Inv, TypeInv, OperationsType, Regions
    <2>3. QED
      BY <2>1, <2>2, HandlerReady DEF Functions, ErrorCodes
  <1>2. CASE read_fails
    BY <1>2, HandlerReady DEF read_fails, Functions, ErrorCodes
  <1>3. CASE write_completes
    <2>1. Head(writes).len \in Nat
      BY <1>3 DEF write_completes, Inv, TypeInv, OperationsType, Regions
    <2>2. QED
      BY <1>3, <2>1, HandlerReady DEF write_completes, Functions, ErrorCodes
  <1>4. CASE write_fails
    <2>1. PICK k \in 0 .. Head(writes).len - 1 : queue' = Append(queue, Handler("on_send", "failed", k))
      BY <1>4 DEF write_fails
    <2>2. k \in Nat
      BY <1>4 DEF write_fails, Inv, TypeInv, OperationsType, Regions
    <2>3. QED
      BY <2>1, <2>2, HandlerReady DEF Functions, ErrorCodes
  <1>5. QED
    BY <1>1, <1>2, <1>3, <1>4 DEF Peer

LEMMA PeerStop == Inv /\ StopInv /\ Peer => StopInv'
  <1> SUFFICES ASSUME Inv, StopInv, Peer PROVE StopInv'
    OBVIOUS
  <1>1. PICK h \in Ready : h.fn \in {"on_receive", "on_send"} /\ queue' = Append(queue, h)
    BY PeerReady
  <1>2. UNCHANGED <<flags, disconnected_callback, stopped>>
    BY DEF Peer, read_completes, read_fails, write_completes, write_fails, env_vars
  <1>3. reads # << >> \/ writes # << >>
    BY DEF Peer, read_completes, read_fails, write_completes, write_fails
  <1>4. disconnected_callback \in BOOLEAN
    BY DEF Inv, TypeInv, ControlType
  <1>5. "stop_signaled" \in flags => disconnected_callback
    BY <1>3, <1>4 DEF StopInv, Inv, SendInv, OneWrite, Active
  <1>6. reads = << >> => reads' = << >>
    BY DEF Peer, read_completes, read_fails, write_completes, write_fails
  <1>7. QED
    BY <1>1, <1>2, <1>5, <1>6, AppendStop DEF Cancel

LEMMA NextStop == Inv /\ StopInv /\ [Next]_vars => StopInv'
  <1> SUFFICES ASSUME Inv, StopInv, [Next]_vars PROVE StopInv'
    OBVIOUS
  <1>1. CASE User
    <2>1. CASE \E k \in 1 .. MaxTx : call_queue_send_function(k)
      BY <2>1, StopInvSame DEF call_queue_send_function, env_vars
    <2>2. QED
      BY <1>1, <2>1, StartsStop, OwnerStop DEF User
  <1>2. CASE stop_returns
    BY <1>2, OwnerStop
  <1>3. CASE IoThread
    BY <1>3, RunAsyncReceiveStop, OnReceiveDataStop, ErrorsStop, SendingStop, CancelStop,
       CallbacksStop DEF IoThread
  <1>4. CASE Peer
    BY <1>4, PeerStop
  <1>5. CASE spin \/ Terminated \/ UNCHANGED vars
    BY <1>5, StopInvSame DEF spin, Terminated, vars, conn_vars, env_vars
  <1>6. QED
    BY <1>1, <1>2, <1>3, <1>4, <1>5 DEF Next

-----------------------------------------------------------------------------
(***************************************************************************)
(* The connection implements AsyncService.                                 *)
(***************************************************************************)
\* When only notices are left the connection is not busy.
LEMMA NotBusy ==
    ASSUME reads = << >>, writes = << >>,
           \A h : HasHandler(queue, h) => h.fn \in Notices
    PROVE  ~Busy
  <1>1. \A i \in DOMAIN queue : queue[i].fn \in Notices
    BY DEF HasHandler
  <1>2. QED
    BY <1>1 DEF Busy, Notices

\* The connection works: the owner is not told anything.
LEMMA WorkStep ==
    ASSUME owner # "gone", owner' # "gone", stopped = FALSE, stopped' = FALSE,
           "stop_signaled" \in flags' <=> "stop_signaled" \in flags
    PROVE  Service!Work
  <1>1. /\ "stop_signaled" \in flags => Phase = "stopping" /\ Phase' = "stopping"
        /\ "stop_signaled" \notin flags => Phase = "up" /\ Phase' = "up"
    BY DEF Phase
  <1>2. Busy' \in BOOLEAN
    BY DEF Busy
  <1>3. QED
    BY <1>1, <1>2 DEF Service!Work

LEMMA RequestStopStep ==
    ASSUME Inv, StopInv, async_stop, "stop_signaled" \notin flags, owner = "free",
           owner' # "gone", UNCHANGED stopped
    PROVE  Service!RequestStop
  <1>1. stopped = FALSE /\ stopped' = FALSE /\ "stop_signaled" \in flags'
    BY DEF async_stop, StopInv, Inv, TypeInv, ControlType
  <1>2. Phase = "up" /\ Phase' = "stopping"
    BY <1>1 DEF Phase
  <1>3. Busy' \in BOOLEAN
    BY DEF Busy
  <1>4. QED
    BY <1>2, <1>3 DEF Service!RequestStop

\* A step that changes neither the phase nor whether the connection is busy.
LEMMA StutterStep ==
    ASSUME UNCHANGED <<flags, queue, reads, writes, stopped>>,
           owner' = owner \/ (owner # "gone" /\ owner' # "gone")
    PROVE  UNCHANGED Service!vars
  <1>1. Phase' = Phase
    BY DEF Phase
  <1>2. Busy' = Busy
    BY DEF Busy
  <1>3. QED
    BY <1>1, <1>2 DEF Service!vars

LEMMA ReleaseStep ==
    ASSUME Inv, StopInv, stopped, Release, owner # "gone"
    PROVE  Service!Release
  <1>1. UNCHANGED <<queue, reads, writes>> /\ reads = << >> /\ writes = << >> /\ OnlyLost(queue)
    BY ReleaseIdle, StoppedIdle
  <1>2. ~Busy
    BY <1>1, NotBusy DEF OnlyLost, Notices
  <1>3. Busy' = Busy
    BY <1>1 DEF Busy
  <1>4. stopped = TRUE
    BY DEF Inv, TypeInv, ControlType
  <1>5. Phase = "stopped" /\ Phase' = "released"
    BY <1>4 DEF Phase, Release
  <1>6. QED
    BY <1>2, <1>3, <1>5 DEF Service!Release

LEMMA FinishStep == Inv /\ StopInv /\ run_stopped => Service!Finish
  <1> SUFFICES ASSUME Inv, StopInv, run_stopped PROVE Service!Finish
    OBVIOUS
  <1>1. queue \in Seq(Ready) /\ queue # << >> /\ Head(queue).fn = "stopped" /\ owner # "gone"
    BY RunsFacts DEF run_stopped, Runs
  <1>2. queue' = Tail(queue) /\ stopped' = TRUE /\ UNCHANGED <<flags, owner, reads, writes>>
    BY DEF run_stopped
  <1>3. Queued(queue, "stopped")
    BY <1>1, QueuedTail
  <1>4. "stop_signaled" \in flags /\ ~disconnected_callback
    BY <1>3 DEF StopInv, StopQueue
  <1>5. stopped = FALSE
    <2>1. HasHandler(queue, Head(queue))
      BY <1>1, HeadContained
    <2>2. QED
      BY <1>1, <2>1 DEF StopInv, OnlyLost, Inv, TypeInv, ControlType
  <1>6. flags \cap Active = {}
    BY <1>4 DEF StopInv
  <1>7. "closing" \notin flags /\ "sending" \notin flags
    BY <1>6 DEF Active
  <1>8. reads = << >> /\ writes = << >>
    BY <1>4, <1>7 DEF StopInv, Inv, SendInv, OneWrite
  <1>9. \A h : HasHandler(Tail(queue), h) => h.fn = "connection_lost"
    BY <1>1, FollowsTail DEF StopInv, StopQueue
  <1>10. \A h : HasHandler(queue, h) => h.fn \in Notices
    BY <1>1, <1>9, HasHandlerTail DEF Notices
  <1>11. ~Busy
    BY <1>8, <1>10, NotBusy
  <1>12. ~Busy'
    <2>1. \A i \in DOMAIN queue' : queue'[i].fn = "connection_lost"
      BY <1>2, <1>9 DEF HasHandler
    <2>2. QED
      BY <1>2, <1>8, <2>1 DEF Busy
  <1>13. Phase = "stopping" /\ Phase' = "stopped"
    BY <1>1, <1>2, <1>4, <1>5 DEF Phase
  <1>14. Busy \in BOOLEAN /\ Busy' \in BOOLEAN
    BY DEF Busy
  <1>15. QED
    BY <1>11, <1>12, <1>13, <1>14 DEF Service!Finish

\* What user threads may still do once the stopped callback has run changes nothing.
LEMMA StartsRefine ==
    ASSUME Inv, StopInv,
           (\E k \in 1 .. MaxTx : call_queue_send_function(k)) \/ start_sending \/ start_receiving
    PROVE  [Service!Next]_(Service!vars)
  <1>1. owner # "gone" /\ UNCHANGED <<owner, stopped, reads, writes>> /\ stopped \in BOOLEAN
    BY DEF call_queue_send_function, start_sending, start_receiving, Callable, env_vars,
           Inv, TypeInv, ControlType
  <1>2. /\ "stop_signaled" \in flags' <=> "stop_signaled" \in flags
        /\ "stop_signaled" \in flags => UNCHANGED <<flags, queue>>
    BY DEF call_queue_send_function, start_sending, start_receiving
  <1>3. CASE stopped = FALSE
    BY <1>1, <1>2, <1>3, WorkStep DEF Service!Next
  <1>4. CASE stopped = TRUE
    <2>1. "stop_signaled" \in flags
      BY <1>4 DEF StopInv
    <2>2. QED
      BY <1>1, <1>2, <2>1, StutterStep
  <1>5. QED
    BY <1>1, <1>3, <1>4

LEMMA OwnerRefines ==
    ASSUME Inv, StopInv, AsyncStop \/ stop \/ destructor \/ stop_returns
    PROVE  [Service!Next]_(Service!vars)
  <1>1. CASE AsyncStop
    <2>1. CASE "stop_signaled" \notin flags
      BY <1>1, <2>1, RequestStopStep DEF AsyncStop, env_vars, Service!Next
    <2>2. CASE "stop_signaled" \in flags
      BY <1>1, <2>2, StutterStep DEF AsyncStop, async_stop, env_vars
    <2>3. QED
      BY <2>1, <2>2
  <1>2. CASE stop
    <2>1. CASE "stop_signaled" \notin flags
      BY <1>2, <2>1, RequestStopStep DEF stop, Service!Next
    <2>2. CASE "stop_signaled" \in flags
      BY <1>2, <2>2, StutterStep DEF stop, async_stop
    <2>3. QED
      BY <2>1, <2>2
  <1>3. CASE destructor
    <2>1. CASE "stop_signaled" \notin flags
      BY <1>3, <2>1, RequestStopStep DEF destructor, Service!Next
    <2>2. CASE "stop_signaled" \in flags
      BY <1>3, <2>2, ReleaseStep DEF destructor, Service!Next
    <2>3. QED
      BY <2>1, <2>2
  <1>4. CASE stop_returns
    <2>1. CASE owner = "stop" /\ owner' = "free" /\ UNCHANGED <<queue, reads, writes>>
      BY <1>4, <2>1, StutterStep DEF stop_returns
    <2>2. CASE owner = "destructor" /\ Release
      BY <1>4, <2>2, ReleaseStep DEF stop_returns, Service!Next
    <2>3. QED
      BY <1>4, <2>1, <2>2 DEF stop_returns
  <1>5. QED
    BY <1>1, <1>2, <1>3, <1>4

LEMMA HandlersRefine ==
    ASSUME Inv, StopInv, IoThread, ~run_stopped
    PROVE  [Service!Next]_(Service!vars)
  <1>1. PICK fn \in Functions \ {"stopped"} : Runs(fn)
    BY DEF IoThread, run_start_sending, run_async_receive, cancel_async_operations,
           on_receive_error, on_receive_data, on_send_error, on_send_written,
           run_connection_lost, Functions
  <1>2. /\ owner # "gone" /\ UNCHANGED <<owner, stopped>> /\ stopped \in BOOLEAN
        /\ "stop_signaled" \in flags' <=> "stop_signaled" \in flags
    BY <1>1 DEF IoThread, run_start_sending, run_async_receive, cancel_async_operations,
           on_receive_error, on_receive_data, on_send_error, on_send_written,
           run_connection_lost, Runs, env_vars, async_receive, async_send,
           Inv, TypeInv, ControlType
  <1>3. CASE stopped = FALSE
    BY <1>2, <1>3, WorkStep DEF Service!Next
  <1>4. CASE stopped = TRUE
    <2>1. reads = << >> /\ writes = << >> /\ OnlyLost(queue)
      BY <1>4, StoppedIdle
    <2>2. /\ queue \in Seq(Ready) /\ queue # << >> /\ Head(queue).fn = fn
      BY <1>1, RunsFacts
    <2>3. fn = "connection_lost"
      BY <2>1, <2>2, HeadContained DEF OnlyLost
    <2>4. run_connection_lost
      BY <1>1, <2>2, <2>3 DEF IoThread, run_start_sending, run_async_receive,
         cancel_async_operations, on_receive_error, on_receive_data, on_send_error,
         on_send_written, Runs, Next_is
    <2>5. queue' = Tail(queue) /\ UNCHANGED <<flags, reads, writes, owner, stopped>>
      BY <2>4 DEF run_connection_lost, env_vars
    <2>6. \A h : HasHandler(Tail(queue), h) => h.fn = "connection_lost"
      BY <2>1, <2>2, HasHandlerTail DEF OnlyLost
    <2>7. ~Busy
      BY <2>1, NotBusy DEF OnlyLost, Notices
    <2>8. ~Busy'
      <3>1. \A i \in DOMAIN queue' : queue'[i].fn = "connection_lost"
        BY <2>5, <2>6 DEF HasHandler
      <3>2. QED
        BY <2>1, <2>5, <3>1 DEF Busy
    <2>9. Busy' = Busy
      BY <2>7, <2>8, Zenon DEF Busy
    <2>10. Phase' = Phase
      BY <2>5 DEF Phase
    <2>11. QED
      BY <2>9, <2>10 DEF Service!vars
  <1>5. QED
    BY <1>2, <1>3, <1>4

LEMMA PeerRefines == Inv /\ StopInv /\ Peer => [Service!Next]_(Service!vars)
  <1> SUFFICES ASSUME Inv, StopInv, Peer PROVE [Service!Next]_(Service!vars)
    OBVIOUS
  <1>1. /\ reads # << >> \/ writes # << >>
        /\ owner # "gone" /\ UNCHANGED <<owner, flags, stopped>> /\ stopped \in BOOLEAN
    BY DEF Peer, read_completes, read_fails, write_completes, write_fails, env_vars,
           Inv, TypeInv, ControlType
  <1>2. stopped = FALSE
    BY <1>1, StoppedIdle
  <1>3. QED
    BY <1>1, <1>2, WorkStep DEF Service!Next

LEMMA StepRefines == Inv /\ StopInv /\ [Next]_vars => [Service!Next]_(Service!vars)
  <1> SUFFICES ASSUME Inv, StopInv, [Next]_vars PROVE [Service!Next]_(Service!vars)
    OBVIOUS
  <1>1. CASE User
    BY <1>1, StartsRefine, OwnerRefines DEF User
  <1>2. CASE stop_returns
    BY <1>2, OwnerRefines
  <1>3. CASE IoThread
    BY <1>3, FinishStep, HandlersRefine DEF Service!Next
  <1>4. CASE Peer
    BY <1>4, PeerRefines
  <1>5. CASE spin \/ Terminated \/ UNCHANGED vars
    BY <1>5, StutterStep DEF spin, Terminated, vars, conn_vars, env_vars
  <1>6. QED
    BY <1>1, <1>2, <1>3, <1>4, <1>5 DEF Next

\* The stopped callback of a connection comes when no operation and no handler of it is
\* left but notices that it was lost, nothing starts afterwards, and the object goes only
\* then: also when an operation completes while the stop is on its way, and whether or
\* not the peer reads (async_stop, cancel_async_operations, resolve_on_stopped, on_receive,
\* on_send and ~TcpConnection of tcp_connection.hpp).
THEOREM ConnectionIsAsyncService == Spec => IsAsyncService
  <1>1. Inv /\ StopInv /\ [Next]_vars => (Inv /\ StopInv)'
    BY NextInv, NextStop
  <1>2. Init => Inv /\ StopInv
    BY InitInv, InitStop
  <1>3. Init => Service!Init
    BY DEF Init, Service!Init, Phase, Busy
  <1>4. QED
    BY <1>1, <1>2, <1>3, StepRefines, PTL DEF Spec, IsAsyncService, Service!Spec

-----------------------------------------------------------------------------
(***************************************************************************)
(* Without a connection-lost callback nothing is left at all.              *)
(***************************************************************************)
NoNotice(q) == \A h : HasHandler(q, h) => h.fn # "connection_lost"

GoneInv == (owner = "gone" => stopped) /\ NoNotice(queue)

\* Without the callback a step posts no notice.
LEMMA IoThreadNoNotice ==
    ASSUME LostCallback = FALSE, Inv, NoNotice(queue), IoThread
    PROVE  NoNotice(queue')
  <1> DEFINE t == Tail(queue)
             F == {"stopped", "on_receive", "on_send"}
  <1>1. t \in Seq(Ready) /\ Posts(queue, t, F)
    BY RunsFacts, PostsTail DEF IoThread, run_start_sending, run_async_receive,
       cancel_async_operations, on_receive_error, on_receive_data, on_send_error,
       on_send_written, run_connection_lost, run_stopped
  <1>2. lost_notice = << >> /\ << >> \in Seq(Ready) /\ \A h : ~ HasHandler(<< >>, h)
    BY HasHandlerEmpty DEF lost_notice
  <1>3. t \o << >> = t
    BY <1>1
  <1> DEFINE a == AllAborted(t)
  <1>4. a \in Seq(Ready) /\ Posts(t, a, F)
    <2>1. a \in Seq(Ready)
      BY <1>1, AbortedFacts DEF Inv, TypeInv, SendInv, OneWrite
    <2>2. \A h : HasHandler(a, h) => \/ HasHandler(t, h)
                                   \/ h = Handler("on_receive", "aborted", 0)
                                   \/ h = Handler("on_send", "aborted", 0)
      BY <1>1, AllAbortedPosts DEF Inv, TypeInv
    <2>3. /\ Handler("on_receive", "aborted", 0).fn = "on_receive"
          /\ Handler("on_send", "aborted", 0).fn = "on_send"
      BY DEF Handler
    <2>4. QED
      BY <2>1, <2>2, <2>3 DEF Posts
  <1>5. \/ queue' = t
        \/ \E f : resolve_on_stopped(f, t, << >>)
        \/ \E f : resolve_on_stopped(f, a, << >>)
    <2>1. CASE run_start_sending \/ on_send_written \/ run_connection_lost \/ run_stopped
      BY <2>1 DEF run_start_sending, on_send_written, run_connection_lost, run_stopped
    <2>2. CASE run_async_receive \/ on_receive_data
      BY <2>2 DEF run_async_receive, on_receive_data, async_receive
    <2>3. CASE on_receive_error \/ on_send_error
      BY <1>2, <1>3, <2>3 DEF on_receive_error, on_send_error
    <2>4. CASE cancel_async_operations
      BY <2>4 DEF cancel_async_operations, AllAborted
    <2>5. QED
      BY <2>1, <2>2, <2>3, <2>4 DEF IoThread
  <1> HIDE DEF t, a
  <1>6. \A f : resolve_on_stopped(f, t, << >>) => Posts(t, queue', F)
    BY <1>1, <1>2, ResolvePosts
  <1>7. \A f : resolve_on_stopped(f, a, << >>) => Posts(a, queue', F)
    BY <1>2, <1>4, ResolvePosts
  <1> HIDE DEF F
  <1>8. Posts(queue, queue', F)
    BY <1>1, <1>4, <1>5, <1>6, <1>7, PostsTransitive
  <1>9. QED
    BY <1>8 DEF Posts, NoNotice, F

LEMMA OthersNoNotice ==
    ASSUME Inv, StopInv, NoNotice(queue), User \/ stop_returns \/ Peer
    PROVE  NoNotice(queue')
  <1> DEFINE F == Functions \ {"connection_lost"}
  <1>1. queue \in Seq(Ready)
    BY DEF Inv, TypeInv, OperationsType
  <1>2. \/ queue' = queue
        \/ \E h \in Ready : h.fn \in F /\ queue' = Append(queue, h)
    <2>1. CASE Peer
      BY <2>1, PeerReady DEF Functions
    <2>2. CASE (\E k \in 1 .. MaxTx : call_queue_send_function(k)) \/ start_sending
                  \/ start_receiving \/ AsyncStop \/ stop
      BY <2>2, PostedReady DEF call_queue_send_function, start_sending, start_receiving,
         AsyncStop, stop, async_stop, Functions
    <2>3. CASE destructor \/ stop_returns
      <3>1. CASE async_stop
        BY <3>1, PostedReady DEF async_stop, Functions
      <3>2. CASE Release /\ stopped
        BY <3>2, ReleaseIdle
      <3>3. CASE UNCHANGED queue
        BY <3>3
      <3>4. QED
        BY <2>3, <3>1, <3>2, <3>3 DEF destructor, stop_returns
    <2>4. QED
      BY <2>1, <2>2, <2>3 DEF User
  <1> HIDE DEF F
  <1>3. Posts(queue, queue', F)
    BY <1>1, <1>2, PostsAppend, PostsSame
  <1>4. QED
    BY <1>3 DEF Posts, NoNotice, F

LEMMA NextGone ==
    ASSUME LostCallback = FALSE
    PROVE  Inv /\ StopInv /\ GoneInv /\ [Next]_vars => GoneInv'
  <1> SUFFICES ASSUME Inv, StopInv, GoneInv, [Next]_vars PROVE GoneInv'
    OBVIOUS
  <1>1. CASE User \/ stop_returns
    <2>1. owner' = "gone" => stopped'
      BY <1>1 DEF User, stop_returns, call_queue_send_function, start_sending, start_receiving,
         AsyncStop, stop, destructor, Callable, env_vars, GoneInv
    <2>2. QED
      BY <1>1, <2>1, OthersNoNotice DEF GoneInv
  <1>2. CASE IoThread
    <2>1. owner' = "gone" => stopped'
      BY <1>2 DEF IoThread, run_start_sending, run_async_receive, cancel_async_operations,
         on_receive_error, on_receive_data, on_send_error, on_send_written,
         run_connection_lost, run_stopped, Runs, env_vars
    <2>2. QED
      BY <1>2, <2>1, IoThreadNoNotice DEF GoneInv
  <1>3. CASE Peer
    <2>1. owner' = "gone" => stopped'
      BY <1>3 DEF Peer, read_completes, read_fails, write_completes, write_fails, env_vars
    <2>2. QED
      BY <1>3, <2>1, OthersNoNotice DEF GoneInv
  <1>4. CASE spin \/ Terminated \/ UNCHANGED vars
    BY <1>4 DEF spin, Terminated, vars, conn_vars, env_vars, GoneInv
  <1>5. QED
    BY <1>1, <1>2, <1>3, <1>4 DEF Next

\* A connection without a connection-lost callback leaves no handler that refers to it
\* when it goes.  With one it may: see the run conn_lost_callback.
THEOREM NothingDangles ==
    ASSUME LostCallback = FALSE
    PROVE  Spec => []NoDanglingHandler
  <1>1. Inv /\ StopInv /\ GoneInv /\ [Next]_vars => (Inv /\ StopInv /\ GoneInv)'
    BY NextInv, NextStop, NextGone
  <1>2. Init => Inv /\ StopInv /\ GoneInv
    <2>1. Init => GoneInv
      BY HasHandlerEmpty DEF Init, GoneInv, NoNotice
    <2>2. QED
      BY <2>1, InitInv, InitStop
  <1>3. StopInv /\ GoneInv => NoDanglingHandler
    BY DEF StopInv, GoneInv, OnlyLost, NoNotice, HasHandler, NoDanglingHandler
  <1>4. QED
    BY <1>1, <1>2, <1>3, PTL DEF Spec
=============================================================================
