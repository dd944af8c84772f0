---------------------------- MODULE BridgeProofs ----------------------------
(***************************************************************************)
(* Theorems about Bridge, for any peers, times, targets and datagrams.     *)
(*                                                                         *)
(* First the parser: it takes a reply apart as construct has put it        *)
(* together, unless there is a colon in the service name.  Then an         *)
(* inductive invariant in four parts (the types, the places of the thread, *)
(* the receive, the clients), what each step does to the queue of ready    *)
(* handlers, and that each step keeps the invariant.  Last a second        *)
(* invariant on top of the first: each handler that is ready is due, and   *)
(* what a stop has ended does not begin again while the next one is waited *)
(* for.  DestroyedIsQuiet follows from the two.                            *)
(***************************************************************************)
EXTENDS Bridge, BufferAndQueueLemmas

\* What is used of the constants.
LEMMA ConstantTypes ==
    /\ Self \in Peers /\ Peers \subseteq Addresses
    /\ TcpPort \in 1 .. PortMax /\ Times \subseteq Nat \ {0} /\ Replies \subseteq Peers \X Times
    /\ \A text \in Targets \cup Noise : text \in Seq(Token)
  BY BridgeAssumption

USE ConstantTypes, StringAssumption

-----------------------------------------------------------------------------
(***************************************************************************)
(* The text of a reply: what parse makes of what construct has written.    *)
(***************************************************************************)
\* find returns the first colon behind i, or 0.
LEMMA FindFirst ==
    ASSUME NEW text, Len(text) \in Nat, NEW i \in Nat
    PROVE  \/ find(text, i) = 0 /\ \A m \in i + 1 .. Len(text) : text[m] # Colon
           \/ /\ find(text, i) \in i + 1 .. Len(text) /\ text[find(text, i)] = Colon
              /\ \A m \in i + 1 .. Len(text) : text[m] = Colon => find(text, i) <= m
  <1> DEFINE after == {j \in i + 1 .. Len(text) : text[j] = Colon}
  <1>1. find(text, i) = IF after = {} THEN 0 ELSE CHOOSE j \in after : \A k \in after : j <= k
    BY DEF find
  <1>2. CASE after = {}
    BY <1>1, <1>2
  <1>3. CASE after # {}
    <2>1. after \in SUBSET Nat
      OBVIOUS
    <2> DEFINE c == CHOOSE j \in after : \A k \in after : j <= k
    <2>2. c \in after /\ \A k \in after : c <= k
      <3>1. \E j \in after : \A k \in after : j <= k
        BY <1>3, <2>1, NatMin
      <3> HIDE DEF after
      <3>2. QED
        BY <3>1
    <2>3. find(text, i) = c
      BY <1>1, <1>3
    <2> HIDE DEF c
    <2>4. QED
      BY <2>2, <2>3
  <1>4. QED
    BY <1>2, <1>3

\* The tokens of a reply.
LEMMA ConstructParts ==
    ASSUME NEW T, NEW t \in Seq(T), NEW a, NEW p, NEW k
    PROVE  /\ Len(t) \in Nat /\ Len(construct(t, a, p, k)) = Len(t) + 6
           /\ \A i \in 1 .. Len(t) : construct(t, a, p, k)[i] = t[i]
           /\ construct(t, a, p, k)[Len(t) + 1] = Colon
           /\ construct(t, a, p, k)[Len(t) + 2] = Word(a)
           /\ construct(t, a, p, k)[Len(t) + 3] = Colon
           /\ construct(t, a, p, k)[Len(t) + 4] = Num(p)
           /\ construct(t, a, p, k)[Len(t) + 5] = Colon
           /\ construct(t, a, p, k)[Len(t) + 6] = Num(k)
  <1> DEFINE S == T \cup {Colon, Word(a), Num(p), Num(k)}
             e == <<Colon, Word(a), Colon, Num(p), Colon, Num(k)>>
             d == t \o e
             n == Len(t)
  <1>1. e \in Seq(S) /\ Len(e) = 6
    OBVIOUS
  <1>2. t \in Seq(S) /\ n \in Nat
    OBVIOUS
  <1>3. construct(t, a, p, k) = d
    BY DEF construct
  <1>4. /\ e[1] = Colon /\ e[2] = Word(a) /\ e[3] = Colon
        /\ e[4] = Num(p) /\ e[5] = Colon /\ e[6] = Num(k)
    OBVIOUS
  <1> HIDE DEF e, S, d
  <1>5. Len(d) = n + 6
    BY <1>1, <1>2, ConcatLength DEF d
  <1>6. /\ \A i \in 1 .. n : d[i] = t[i]
        /\ \A j \in 1 .. Len(e) : d[n + j] = e[j]
    <2>1. InPlace(t, e, d)
      BY <1>1, <1>2, ConcatElements DEF d
    <2>2. QED
      BY <2>1 DEF InPlace
  <1>7. /\ d[n + 1] = e[1] /\ d[n + 2] = e[2] /\ d[n + 3] = e[3]
        /\ d[n + 4] = e[4] /\ d[n + 5] = e[5] /\ d[n + 6] = e[6]
    <2>1. \A j \in {1, 2, 3, 4, 5, 6} : j \in 1 .. Len(e)
      BY <1>1
    <2>2. QED
      BY <1>6, <2>1
  <1>8. QED
    BY <1>2, <1>3, <1>4, <1>5, <1>6, <1>7

LEMMA ConstructType ==
    ASSUME NEW T, NEW t \in Seq(T), NEW a, NEW p, NEW k
    PROVE  construct(t, a, p, k) \in Seq(T \cup {Colon, Word(a), Num(p), Num(k)})
  <1> DEFINE S == T \cup {Colon, Word(a), Num(p), Num(k)}
             e == <<Colon, Word(a), Colon, Num(p), Colon, Num(k)>>
  <1>1. e \in Seq(S) /\ t \in Seq(S)
    OBVIOUS
  <1>2. construct(t, a, p, k) = t \o e
    BY DEF construct
  <1> HIDE DEF e, S
  <1>3. construct(t, a, p, k) \in Seq(S)
    BY <1>1, <1>2, ConcatProperties
  <1>4. QED
    BY <1>3 DEF S

NoColon(text) == \A i \in 1 .. Len(text) : text[i] # Colon

LEMMA TokensDiffer ==
    /\ \A a : a # ":" => Word(a) # Colon
    /\ \A p \in Nat : Num(p) # Colon
  BY DEF Word, Num, Colon

\* The colons of a reply, when there is none in the service name.
LEMMA ColonsFound ==
    ASSUME NEW T, NEW t \in Seq(T), NEW a, a # ":", NEW p \in Nat, NEW k \in Nat, NoColon(t)
    PROVE  /\ find(construct(t, a, p, k), 0) = Len(t) + 1
           /\ find(construct(t, a, p, k), Len(t) + 1) = Len(t) + 3
           /\ find(construct(t, a, p, k), Len(t) + 3) = Len(t) + 5
  <1> DEFINE d == construct(t, a, p, k)
             n == Len(t)
  <1>1. /\ n \in Nat /\ Len(d) = n + 6
        /\ \A i \in 1 .. n : d[i] = t[i]
        /\ d[n + 1] = Colon /\ d[n + 2] = Word(a) /\ d[n + 3] = Colon
        /\ d[n + 4] = Num(p) /\ d[n + 5] = Colon /\ d[n + 6] = Num(k)
    BY ConstructParts
  <1>2. /\ \A i \in 1 .. n : d[i] # Colon
        /\ d[n + 2] # Colon /\ d[n + 4] # Colon
    BY <1>1, TokensDiffer DEF NoColon
  <1> HIDE DEF d, n
  <1>3. find(d, 0) = n + 1
    <2>1. 0 \in Nat /\ Len(d) \in Nat
      BY <1>1
    <2>2. \/ find(d, 0) = 0 /\ \A m \in 0 + 1 .. Len(d) : d[m] # Colon
          \/ /\ find(d, 0) \in 0 + 1 .. Len(d) /\ d[find(d, 0)] = Colon
             /\ \A m \in 0 + 1 .. Len(d) : d[m] = Colon => find(d, 0) <= m
      BY <2>1, FindFirst
    <2>3. n + 1 \in 0 + 1 .. Len(d) /\ d[n + 1] = Colon
      BY <1>1
    <2>4. find(d, 0) \in 0 + 1 .. n + 1 /\ d[find(d, 0)] = Colon
      BY <1>1, <2>2, <2>3
    <2>5. QED
      BY <1>1, <1>2, <2>4
  <1>4. find(d, n + 1) = n + 3
    <2>1. n + 1 \in Nat /\ Len(d) \in Nat
      BY <1>1
    <2>2. \/ find(d, n + 1) = 0 /\ \A m \in n + 1 + 1 .. Len(d) : d[m] # Colon
          \/ /\ find(d, n + 1) \in n + 1 + 1 .. Len(d) /\ d[find(d, n + 1)] = Colon
             /\ \A m \in n + 1 + 1 .. Len(d) : d[m] = Colon => find(d, n + 1) <= m
      BY <2>1, FindFirst
    <2>3. n + 3 \in n + 1 + 1 .. Len(d) /\ d[n + 3] = Colon
      BY <1>1
    <2>4. find(d, n + 1) \in n + 1 + 1 .. n + 3 /\ d[find(d, n + 1)] = Colon
      BY <1>1, <2>2, <2>3
    <2>5. find(d, n + 1) = n + 2 \/ find(d, n + 1) = n + 3
      <3>1. n \in Nat
        BY <1>1
      <3>2. \A x \in n + 1 + 1 .. n + 3 : x = n + 2 \/ x = n + 3
        BY <3>1
      <3>3. QED
        BY <2>4, <3>2
    <2>6. QED
      BY <1>2, <2>4, <2>5
  <1>5. find(d, n + 3) = n + 5
    <2>1. n + 3 \in Nat /\ Len(d) \in Nat
      BY <1>1
    <2>2. \/ find(d, n + 3) = 0 /\ \A m \in n + 3 + 1 .. Len(d) : d[m] # Colon
          \/ /\ find(d, n + 3) \in n + 3 + 1 .. Len(d) /\ d[find(d, n + 3)] = Colon
             /\ \A m \in n + 3 + 1 .. Len(d) : d[m] = Colon => find(d, n + 3) <= m
      BY <2>1, FindFirst
    <2>3. n + 5 \in n + 3 + 1 .. Len(d) /\ d[n + 5] = Colon
      BY <1>1
    <2>4. find(d, n + 3) \in n + 3 + 1 .. n + 5 /\ d[find(d, n + 3)] = Colon
      BY <1>1, <2>2, <2>3
    <2>5. find(d, n + 3) = n + 4 \/ find(d, n + 3) = n + 5
      <3>1. n \in Nat
        BY <1>1
      <3>2. \A x \in n + 3 + 1 .. n + 5 : x = n + 4 \/ x = n + 5
        BY <3>1
      <3>3. QED
        BY <2>4, <3>2
    <2>6. QED
      BY <1>2, <2>4, <2>5
  <1>6. QED
    BY <1>3, <1>4, <1>5 DEF d, n

LEMMA SingleToken ==
    ASSUME NEW T, NEW d \in Seq(T), NEW i \in 1 .. Len(d)
    PROVE  SubSeq(d, i, i) = <<d[i]>>
  <1>1. i \in Int /\ \A j \in i .. i : d[j] \in T
    OBVIOUS
  <1>2. /\ SubSeq(d, i, i) \in Seq(T) /\ Len(SubSeq(d, i, i)) = 1
        /\ \A j \in 1 .. i - i + 1 : SubSeq(d, i, i)[j] = d[i + j - 1]
    BY <1>1, SubSeqProperties
  <1>3. SubSeq(d, i, i)[1] = d[i]
    BY <1>2
  <1>4. <<d[i]>> \in Seq(T) /\ Len(<<d[i]>>) = 1 /\ <<d[i]>>[1] = d[i]
    OBVIOUS
  <1>5. \A j \in 1 .. 1 : SubSeq(d, i, i)[j] = <<d[i]>>[j]
    BY <1>3, <1>4
  <1>6. QED
    BY <1>2, <1>4, <1>5, SeqEqual

LEMMA FrontOfReply ==
    ASSUME NEW T, NEW t \in Seq(T), NEW a, NEW p, NEW k
    PROVE  SubSeq(construct(t, a, p, k), 1, Len(t)) = t
  <1> DEFINE S == T \cup {Colon, Word(a), Num(p), Num(k)}
             d == construct(t, a, p, k)
             n == Len(t)
  <1>1. /\ n \in Nat /\ Len(d) = n + 6 /\ d \in Seq(S) /\ \A i \in 1 .. n : d[i] = t[i]
    BY ConstructParts, ConstructType
  <1>2. t \in Seq(S)
    OBVIOUS
  <1> HIDE DEF S, d
  <1>3. \A i \in 1 .. n : d[i] \in S
    BY <1>1, <1>2
  <1>4. /\ SubSeq(d, 1, n) \in Seq(S)
        /\ Len(SubSeq(d, 1, n)) = IF 1 <= n THEN n - 1 + 1 ELSE 0
        /\ \A i \in 1 .. n - 1 + 1 : SubSeq(d, 1, n)[i] = d[1 + i - 1]
    BY <1>1, <1>3, SubSeqProperties
  <1>5. Len(SubSeq(d, 1, n)) = Len(t) /\ \A i \in 1 .. n : SubSeq(d, 1, n)[i] = t[i]
    BY <1>1, <1>4
  <1>6. SubSeq(d, 1, n) = t
    BY <1>2, <1>4, <1>5, SeqEqual
  <1>7. QED
    BY <1>6 DEF d

\* A reply for a target without a colon is taken apart as it was put together.
LEMMA ParseReply ==
    ASSUME NEW T, NEW t \in Seq(T), NEW a, a # ":", NEW p \in Nat, NEW k \in Nat, NoColon(t)
    PROVE  parse(construct(t, a, p, k)) =
               IF t # << >> /\ a \in Addresses
               THEN {[service_name |-> t, ip_address |-> a, port |-> p % (PortMax + 1),
                      timestamp_ms |-> k]}
               ELSE {}
  <1> DEFINE d == construct(t, a, p, k)
             n == Len(t)
             S == T \cup {Colon, Word(a), Num(p), Num(k)}
  <1>1. /\ n \in Nat /\ Len(d) = n + 6
        /\ d[n + 2] = Word(a) /\ d[n + 4] = Num(p) /\ d[n + 6] = Num(k)
    BY ConstructParts
  <1>2. d \in Seq(S)
    BY ConstructType
  <1>3. find(d, 0) = n + 1 /\ find(d, n + 1) = n + 3 /\ find(d, n + 3) = n + 5
    BY ColonsFound
  <1>4. SubSeq(d, 1, n) = t
    BY FrontOfReply
  <1> HIDE DEF d, n, S
  <1>5. SubSeq(d, 1, (n + 1) - 1) = t
    <2>1. (n + 1) - 1 = n
      BY <1>1
    <2>2. QED
      BY <1>4, <2>1
  <1>6. SubSeq(d, (n + 1) + 1, (n + 3) - 1) = <<Word(a)>>
    <2>1. (n + 1) + 1 = n + 2 /\ (n + 3) - 1 = n + 2 /\ n + 2 \in 1 .. Len(d)
      BY <1>1
    <2>2. SubSeq(d, n + 2, n + 2) = <<d[n + 2]>>
      BY <1>2, <2>1, SingleToken
    <2>3. QED
      BY <1>1, <2>1, <2>2
  <1>7. SubSeq(d, (n + 3) + 1, (n + 5) - 1) = <<Num(p)>>
    <2>1. (n + 3) + 1 = n + 4 /\ (n + 5) - 1 = n + 4 /\ n + 4 \in 1 .. Len(d)
      BY <1>1
    <2>2. SubSeq(d, n + 4, n + 4) = <<d[n + 4]>>
      BY <1>2, <2>1, SingleToken
    <2>3. QED
      BY <1>1, <2>1, <2>2
  <1>8. SubSeq(d, (n + 5) + 1, Len(d)) = <<Num(k)>>
    <2>1. (n + 5) + 1 = n + 6 /\ Len(d) = n + 6 /\ n + 6 \in 1 .. Len(d)
      BY <1>1
    <2>2. SubSeq(d, n + 6, n + 6) = <<d[n + 6]>>
      BY <1>2, <2>1, SingleToken
    <2>3. QED
      BY <1>1, <2>1, <2>2
  <1>9. n + 1 # 0 /\ n + 3 # 0 /\ n + 5 # 0
    BY <1>1
  <1>10. parse(d) = IF /\ t # << >> /\ <<Word(a)>> # << >>
                       /\ IsNumber(<<Num(p)>>) /\ IsNumber(<<Num(k)>>)
                       /\ \E b \in Addresses : <<Word(a)>> = <<Word(b)>>
                    THEN {[service_name |-> t, ip_address |-> <<Word(a)>>[1][1],
                           port |-> port_of(<<Num(p)>>), timestamp_ms |-> <<Num(k)>>[1][2]]}
                    ELSE {}
    BY <1>3, <1>5, <1>6, <1>7, <1>8, <1>9 DEF parse
  <1>11. /\ <<Word(a)>> # << >> /\ <<Word(a)>>[1][1] = a
         /\ (\E b \in Addresses : <<Word(a)>> = <<Word(b)>>) <=> a \in Addresses
    BY DEF Word
  <1>12. /\ IsNumber(<<Num(p)>>) /\ port_of(<<Num(p)>>) = p % (PortMax + 1)
         /\ IsNumber(<<Num(k)>>) /\ <<Num(k)>>[1][2] = k
    BY DEF Num, IsNumber, port_of
  <1>13. parse(d) = IF t # << >> /\ a \in Addresses
                    THEN {[service_name |-> t, ip_address |-> a, port |-> p % (PortMax + 1),
                           timestamp_ms |-> k]}
                    ELSE {}
    <2>1. CASE t # << >> /\ a \in Addresses
      <3>1. parse(d) = {[service_name |-> t, ip_address |-> <<Word(a)>>[1][1],
                         port |-> port_of(<<Num(p)>>), timestamp_ms |-> <<Num(k)>>[1][2]]}
        BY <1>10, <1>11, <1>12, <2>1
      <3>2. QED
        BY <1>11, <1>12, <2>1, <3>1
    <2>2. CASE ~ (t # << >> /\ a \in Addresses)
      BY <1>10, <1>11, <2>2
    <2>3. QED
      BY <2>1, <2>2
  <1>14. QED
    BY <1>13 DEF d

\* What is read as a reply for the target t was not cut at a colon of t.
LEMMA ServiceHasNoColon ==
    ASSUME NEW T, NEW t \in Seq(T), NEW a, NEW p, NEW k,
           NEW info \in parse(construct(t, a, p, k)), info.service_name = t
    PROVE  NoColon(t)
  <1> DEFINE d == construct(t, a, p, k)
             n == Len(t)
             S == T \cup {Colon, Word(a), Num(p), Num(k)}
             first == find(d, 0)
  <1>1. /\ n \in Nat /\ Len(d) = n + 6 /\ d[n + 1] = Colon
        /\ \A i \in 1 .. n : d[i] = t[i]
    BY ConstructParts
  <1>2. d \in Seq(S)
    BY ConstructType
  <1>3. info.service_name = SubSeq(d, 1, first - 1)
    BY DEF parse
  <1> HIDE DEF d, n, S
  <1>4. \/ first = 0 /\ \A m \in 0 + 1 .. Len(d) : d[m] # Colon
        \/ /\ first \in 0 + 1 .. Len(d) /\ d[first] = Colon
           /\ \A m \in 0 + 1 .. Len(d) : d[m] = Colon => first <= m
    BY <1>1, FindFirst
  <1>5. /\ first \in 1 .. n + 1
        /\ \A m \in 1 .. n + 6 : d[m] = Colon => first <= m
    BY <1>1, <1>4
  <1> HIDE DEF first
  <1>6. Len(SubSeq(d, 1, first - 1)) = first - 1
    <2>1. first - 1 \in Int /\ \A i \in 1 .. first - 1 : d[i] \in S
      BY <1>1, <1>2, <1>5
    <2>2. Len(SubSeq(d, 1, first - 1)) = IF 1 <= first - 1 THEN first - 1 - 1 + 1 ELSE 0
      BY <2>1, SubSeqProperties
    <2>3. QED
      BY <1>1, <1>5, <2>2
  <1>7. first = n + 1
    BY <1>1, <1>3, <1>5, <1>6 DEF n
  <1>8. \A i \in 1 .. n : t[i] # Colon
    BY <1>1, <1>5, <1>7
  <1>9. QED
    BY <1>8 DEF NoColon, n

-----------------------------------------------------------------------------
(***************************************************************************)
(* The inductive invariant.  The TCP server is told to stop only when the  *)
(* discovery server does not answer any more.  There is at most one        *)
(* receive, in progress or completed, so that what was read into the       *)
(* buffer is there when its handler runs.  A handler of a TcpClient has    *)
(* the key of a client that is in the map, until the map is destroyed.     *)
(***************************************************************************)
ClientHandlers == {"async_resolve", "handle_connect", "client_cancel", "client_stopped"}

Functions == DC!Functions \cup ClientHandlers \cup
    {"complete", "discovery_server_stopped", "tcp_server_stopped", "connections_stopped"}

Ready == [fn : Functions, ec : ErrorCodes, n : Nat]

Client == [peer : Addresses, port : 0 .. PortMax, attempt : Attempts, stop : Stops,
           late : BOOLEAN]

TypeInv ==
    /\ queue \in Seq(Ready) /\ posting \subseteq {"start", "cancel"}
    /\ receives \in 0 .. 1 /\ sends \in Nat /\ starts \in Nat
    /\ at \in Places /\ target \in Targets

\* Places at which the TCP server has not been told to stop.
Serving == {"set_up_discovery", "add_discovery_server", "up", "stop_discovery_client",
            "stop_discovery_server"}

\* A map is being destroyed that is not empty.
Destroying == \/ at = "destroy_incoming" /\ incoming # {}
              \/ at = "destroy_outgoing" /\ outgoing # NoEntries

PlaceInv ==
    /\ answering => at \in {"up", "stop_discovery_client", "stop_discovery_server"}
    /\ at \in Serving => server \in {"accepting", "idle"}
    /\ at # "set_up_tcp_server" => server # "none"
    /\ at \in Serving \cup {"set_up_tcp_server"} => ~ Queued(queue, "tcp_server_stopped")
    /\ Queued(queue, "connections_stopped") => Destroying
    /\ AtMostOnce(queue, "connections_stopped")
    /\ at \in {"set_up_tcp_server", "set_up_discovery"} => starts = 0

Starting == "start" \in posting \/ Queued(queue, "start")

\* What the receive buffer may hold.
Heard(d) == d \in Noise \/ \E r \in Replies : d = construct(target, r[1], TcpPort, r[2])

ReceiveInv ==
    /\ AtMostOnce(queue, "start") /\ AtMostOnce(queue, "handle_response")
    /\ ~ ("start" \in posting /\ Queued(queue, "start"))
    /\ starts = 0 => ~Starting /\ receives = 0 /\ ~ Queued(queue, "handle_response")
    /\ Starting => receives = 0 /\ ~ Queued(queue, "handle_response")
    /\ Queued(queue, "handle_response") => receives = 0
    /\ recv_buffer # << >> => Heard(recv_buffer) /\ Queued(queue, "handle_response")
    /\ \A h : HasHandler(queue, h) /\ h.fn = "handle_response" /\ (h.ec # "ok" \/ h.n = 0) =>
          recv_buffer = << >>

ClientsInv ==
    /\ \A k \in DOMAIN clients : k \in Nat /\ clients[k] \in Client
    /\ \A k \in DOMAIN outgoing : k \in DOMAIN clients /\ outgoing[k] = clients[k].peer
    /\ at \in {"destroy_clients", "destroy_rest", "gone"} => DOMAIN outgoing = {}
    /\ at \notin {"destroy_rest", "gone"} =>
          \A h : HasHandler(queue, h) /\ h.fn \in ClientHandlers => h.n \in DOMAIN clients

Inv == TypeInv /\ PlaceInv /\ ReceiveInv /\ ClientsInv

NamedInv == \A k \in DOMAIN clients : Named(clients[k], k)

-----------------------------------------------------------------------------
(***************************************************************************)
(* What a step does to the queue: handlers that call a function in L may   *)
(* go, handlers that call one in F may come.                               *)
(***************************************************************************)
Moves(q, r, L, F) ==
    /\ r \in Seq(Ready)
    /\ \A h : HasHandler(r, h) => HasHandler(q, h) \/ h.fn \in F
    /\ \A h : HasHandler(q, h) => HasHandler(r, h) \/ h.fn \in L
    /\ \A fn : fn \notin F /\ AtMostOnce(q, fn) => AtMostOnce(r, fn)

LEMMA QueuedHasHandler == \A q, fn : Queued(q, fn) <=> \E h : HasHandler(q, h) /\ h.fn = fn
  BY DEF Queued, HasHandler

LEMMA MovesNone == \A q \in Seq(Ready) : Moves(q, q, {}, {})
  BY DEF Moves

LEMMA MovesWeaker ==
    ASSUME NEW q, NEW r, NEW L, NEW F, NEW M, NEW G, Moves(q, r, L, F),
           L \subseteq M, F \subseteq G
    PROVE  Moves(q, r, M, G)
  BY DEF Moves

LEMMA MovesBoth ==
    ASSUME NEW q, NEW r, NEW s, NEW L, NEW F, NEW M, NEW G, Moves(q, r, L, F), Moves(r, s, M, G)
    PROVE  Moves(q, s, L \cup M, F \cup G)
  BY DEF Moves

LEMMA MovesAppend ==
    ASSUME NEW q \in Seq(Ready), NEW h \in Ready, NEW F, h.fn \in F
    PROVE  Moves(q, Append(q, h), {}, F)
  <1>1. /\ Append(q, h) \in Seq(Ready)
        /\ \A fn : AtMostOnce(q, fn) /\ ~ (h.fn = fn /\ Queued(q, fn)) =>
                      AtMostOnce(Append(q, h), fn)
        /\ \A g : HasHandler(Append(q, h), g) <=> HasHandler(q, g) \/ h = g
    BY AppendFacts
  <1>2. QED
    BY <1>1 DEF Moves

LEMMA MovesTail ==
    ASSUME NEW q \in Seq(Ready), q # << >>
    PROVE  Moves(q, Tail(q), {Head(q).fn}, {}) /\ Head(q) \in Ready /\ HasHandler(q, Head(q))
  <1>1. /\ Tail(q) \in Seq(Ready) /\ Head(q) \in Ready
        /\ \A fn : AtMostOnce(q, fn) => AtMostOnce(Tail(q), fn)
        /\ \A g : HasHandler(q, g) <=> Head(q) = g \/ HasHandler(Tail(q), g)
    BY TailFacts
  <1>2. QED
    BY <1>1 DEF Moves

LEMMA MovesConcat ==
    ASSUME NEW q \in Seq(Ready), NEW s \in Seq(Ready), NEW F,
           \A h : HasHandler(s, h) => h.fn \in F
    PROVE  Moves(q, q \o s, {}, F)
  <1>1. /\ q \o s \in Seq(Ready)
        /\ \A fn : AtMostOnce(q, fn) /\ AtMostOnce(s, fn) /\ ~ (Queued(q, fn) /\ Queued(s, fn)) =>
                      AtMostOnce(q \o s, fn)
        /\ \A g : HasHandler(q \o s, g) <=> HasHandler(q, g) \/ HasHandler(s, g)
    BY ConcatFacts
  <1>2. \A fn : fn \notin F => ~ Queued(s, fn) /\ AtMostOnce(s, fn)
    <2>1. \A fn : fn \notin F => ~ Queued(s, fn)
      BY QueuedHasHandler
    <2>2. \A fn : ~ Queued(s, fn) => AtMostOnce(s, fn)
      BY DEF AtMostOnce, Queued
    <2>3. QED
      BY <2>1, <2>2
  <1>3. QED
    BY <1>1, <1>2 DEF Moves

LEMMA MovesCancelled ==
    ASSUME NEW q \in Seq(Ready), NEW k \in Nat, NEW fn \in Functions
    PROVE  Moves(q, q \o DC!Repeat(k, fn), {}, {fn})
  <1>1. Handler(fn, "aborted", 0) \in Ready
    BY DEF Handler, Ready, ErrorCodes
  <1>2. Cancelled(k, fn) \in Seq(Ready)
    BY <1>1, CancelledIn
  <1>3. \A h : HasHandler(Cancelled(k, fn), h) => h = Handler(fn, "aborted", 0)
    BY CancelledFacts
  <1>4. \A h : HasHandler(Cancelled(k, fn), h) => h.fn \in {fn}
    BY <1>3 DEF Handler
  <1>5. DC!Repeat(k, fn) = Cancelled(k, fn)
    BY DEF DC!Repeat, Cancelled, DC!Handler, Handler
  <1>6. QED
    BY <1>2, <1>4, <1>5, MovesConcat

LEMMA HandlerReady ==
    \A fn \in Functions, ec \in ErrorCodes, n \in Nat :
        Handler(fn, ec, n) \in Ready /\ Handler(fn, ec, n).fn = fn
        /\ Handler(fn, ec, n).ec = ec /\ Handler(fn, ec, n).n = n
  BY DEF Handler, Ready

LEMMA PostedReady ==
    \A fn \in Functions : Posted(fn) \in Ready /\ Posted(fn).fn = fn /\ Posted(fn).ec = "ok"
  BY HandlerReady DEF Posted, ErrorCodes

LEMMA FunctionNames ==
    /\ {"start", "cancel", "handle_send_complete", "handle_response", "handle_timeout",
        "stopped"} \subseteq Functions
    /\ ClientHandlers \subseteq Functions
    /\ {"complete", "discovery_server_stopped", "tcp_server_stopped", "connections_stopped"}
          \subseteq Functions
  BY DEF Functions, DC!Functions, ClientHandlers

-----------------------------------------------------------------------------
(***************************************************************************)
(* What a step leaves alone.                                               *)
(***************************************************************************)
LEMMA PlaceKept ==
    ASSUME PlaceInv, NEW L, NEW F, Moves(queue, queue', L, F),
           "tcp_server_stopped" \notin F, "connections_stopped" \notin F,
           at' = at, server' = server, answering' = answering, starts' = starts,
           incoming # {} => incoming' # {}, at = "destroy_outgoing" => outgoing' = outgoing
    PROVE  PlaceInv'
  <1>1. \A fn : fn \notin F /\ Queued(queue', fn) => Queued(queue, fn)
    BY QueuedHasHandler DEF Moves
  <1>2. AtMostOnce(queue', "connections_stopped")
    BY DEF PlaceInv, Moves
  <1>3. Destroying => Destroying'
    BY DEF Destroying
  <1>4. QED
    BY <1>1, <1>2, <1>3 DEF PlaceInv

LEMMA ReceiveKept ==
    ASSUME ReceiveInv, NEW L, NEW F, Moves(queue, queue', L, F),
           "start" \notin F, "handle_response" \notin F, "handle_response" \notin L,
           "start" \in posting' => "start" \in posting,
           starts' = starts, receives' = receives, recv_buffer' = recv_buffer, target' = target
    PROVE  ReceiveInv'
  <1>1. /\ \A fn : fn \notin F /\ Queued(queue', fn) => Queued(queue, fn)
        /\ \A fn : fn \notin L /\ Queued(queue, fn) => Queued(queue', fn)
    BY QueuedHasHandler DEF Moves
  <1>2. AtMostOnce(queue', "start") /\ AtMostOnce(queue', "handle_response")
    BY DEF ReceiveInv, Moves
  <1>3. \A h : HasHandler(queue', h) /\ h.fn = "handle_response" => HasHandler(queue, h)
    BY DEF Moves
  <1>4. Starting' => Starting
    BY <1>1 DEF Starting
  <1>5. \A d : Heard(d)' <=> Heard(d)
    BY DEF Heard
  <1>6. recv_buffer' # << >> => Heard(recv_buffer)' /\ Queued(queue', "handle_response")
    BY <1>1, <1>5 DEF ReceiveInv
  <1>7. \A h : HasHandler(queue', h) /\ h.fn = "handle_response" /\ (h.ec # "ok" \/ h.n = 0) =>
            recv_buffer' = << >>
    BY <1>3 DEF ReceiveInv
  <1>8. /\ starts' = 0 => ~Starting' /\ receives' = 0 /\ ~ Queued(queue', "handle_response")
        /\ Starting' => receives' = 0 /\ ~ Queued(queue', "handle_response")
        /\ Queued(queue', "handle_response") => receives' = 0
    BY <1>1, <1>4 DEF ReceiveInv
  <1>9. ~ ("start" \in posting' /\ Queued(queue', "start"))
    BY <1>1 DEF ReceiveInv
  <1>10. QED
    BY <1>2, <1>6, <1>7, <1>8, <1>9 DEF ReceiveInv

Later == {"destroy_clients", "destroy_rest", "gone"}

LEMMA ClientsKept ==
    ASSUME ClientsInv, NEW L, NEW F, Moves(queue, queue', L, F), F \cap ClientHandlers = {},
           clients' = clients, outgoing' = outgoing, at' \in Later => at \in Later,
           at' \notin {"destroy_rest", "gone"} => at \notin {"destroy_rest", "gone"}
    PROVE  ClientsInv'
  <1>1. \A h : HasHandler(queue', h) /\ h.fn \in ClientHandlers => HasHandler(queue, h)
    BY DEF Moves
  <1>2. QED
    BY <1>1 DEF ClientsInv, Later

LEMMA NamedKept ==
    ASSUME NamedInv, clients' = clients, target' = target
    PROVE  NamedInv'
  BY DEF NamedInv, Named

-----------------------------------------------------------------------------
(***************************************************************************)
(* Parts of steps.                                                         *)
(***************************************************************************)
LEMMA SameNames ==
    /\ \A fn, ec, n : DC!Handler(fn, ec, n) = Handler(fn, ec, n)
    /\ \A fn : DC!Posted(fn) = Posted(fn)
    /\ \A q, fn : DC!Next_is(q, fn) <=> Next_is(q, fn)
  BY DEF DC!Handler, Handler, DC!Posted, Posted, DC!Next_is, Next_is

\* The handler that runs leaves the queue.
LEMMA RunMoves ==
    ASSUME TypeInv, NEW fn, Next_is(queue, fn)
    PROVE  /\ Moves(queue, Tail(queue), {fn}, {}) /\ Tail(queue) \in Seq(Ready)
           /\ Head(queue) \in Ready /\ Head(queue).fn = fn /\ HasHandler(queue, Head(queue))
           /\ Queued(queue, fn)
           /\ AtMostOnce(queue, fn) => ~ Queued(Tail(queue), fn)
  <1>1. queue \in Seq(Ready) /\ queue # << >> /\ Head(queue).fn = fn
    BY DEF TypeInv, Next_is
  <1>2. Moves(queue, Tail(queue), {fn}, {}) /\ Head(queue) \in Ready
        /\ HasHandler(queue, Head(queue))
    BY <1>1, MovesTail
  <1>3. AtMostOnce(queue, fn) => ~ Queued(Tail(queue), fn)
    BY <1>1, TailFacts
  <1>4. Queued(queue, fn)
    BY <1>1, <1>2, QueuedHasHandler
  <1>5. QED
    BY <1>1, <1>2, <1>3, <1>4 DEF Moves

LEMMA ResolveMoves ==
    ASSUME NEW q \in Seq(Ready), NEW r, r = q \/ r = Append(q, Posted("stopped"))
    PROVE  Moves(q, r, {}, {"stopped"})
  <1>1. Posted("stopped") \in Ready /\ Posted("stopped").fn \in {"stopped"}
    BY PostedReady, FunctionNames
  <1>2. Moves(q, Append(q, Posted("stopped")), {}, {"stopped"})
    BY <1>1, MovesAppend
  <1>3. Moves(q, q, {}, {"stopped"})
    BY MovesNone, MovesWeaker
  <1>4. QED
    BY <1>2, <1>3

\* What is aborted when the timer and the socket are cancelled or closed.
LEMMA ReleaseMoves ==
    ASSUME NEW q \in Seq(Ready), NEW k \in Nat, NEW n \in Nat, NEW armed
    PROVE  LET r == q \o (IF armed THEN DC!Repeat(1, "handle_timeout") ELSE << >>)
                      \o DC!Repeat(k, "handle_response")
                      \o DC!Repeat(n, "handle_send_complete")
               F == {"handle_timeout", "handle_send_complete"}
           IN  /\ Moves(q, r, {}, F \cup {"handle_response"})
               /\ k = 0 => Moves(q, r, {}, F)
               /\ \A h : HasHandler(r, h) /\ h.fn = "handle_response" =>
                            HasHandler(q, h) \/ h.ec = "aborted"
               /\ k <= 1 /\ ~ Queued(q, "handle_response") => AtMostOnce(r, "handle_response")
               /\ k > 0 => Queued(r, "handle_response")
  <1> DEFINE q1 == q \o (IF armed THEN DC!Repeat(1, "handle_timeout") ELSE << >>)
             c  == DC!Repeat(k, "handle_response")
             q2 == q1 \o c
             r  == q2 \o DC!Repeat(n, "handle_send_complete")
  <1>1. Moves(q, q1, {}, {"handle_timeout"}) /\ q1 \in Seq(Ready)
    <2>1. CASE armed
      <3>1. q1 = q \o DC!Repeat(1, "handle_timeout")
        BY <2>1
      <3>2. 1 \in Nat /\ "handle_timeout" \in Functions
        BY FunctionNames
      <3>3. Moves(q, q \o DC!Repeat(1, "handle_timeout"), {}, {"handle_timeout"})
        BY <3>2, MovesCancelled
      <3>4. Moves(q, q1, {}, {"handle_timeout"})
        BY <3>1, <3>3
      <3> HIDE DEF q1
      <3>5. QED
        BY <3>4 DEF Moves
    <2>2. CASE ~armed
      <3>1. q1 = q \o << >> /\ q \o << >> = q
        BY <2>2
      <3>2. Moves(q, q, {}, {"handle_timeout"})
        BY MovesNone, MovesWeaker
      <3> HIDE DEF q1
      <3>3. QED
        BY <3>1, <3>2
    <2>3. QED
      BY <2>1, <2>2
  <1> HIDE DEF q1
  <1>2. Moves(q1, q2, {}, {"handle_response"}) /\ q2 \in Seq(Ready)
    <2>1. "handle_response" \in Functions
      BY FunctionNames
    <2>2. Moves(q1, q2, {}, {"handle_response"})
      BY <1>1, <2>1, MovesCancelled
    <2> HIDE DEF q2
    <2>3. QED
      BY <2>2 DEF Moves
  <1>3. c = Cancelled(k, "handle_response")
    BY DEF DC!Repeat, Cancelled, DC!Handler, Handler
  <1> HIDE DEF c
  <1>4. /\ \A fn : Queued(c, fn) <=> fn = "handle_response" /\ k > 0
        /\ k <= 1 => AtMostOnce(c, "handle_response")
        /\ \A h : HasHandler(c, h) => h = Handler("handle_response", "aborted", 0)
        /\ k = 0 => c = << >>
    <2>1. /\ k = 0 => Cancelled(k, "handle_response") = << >>
          /\ \A fn : Queued(Cancelled(k, "handle_response"), fn) <=>
                        "handle_response" = fn /\ k > 0
          /\ \A fn : k <= 1 => AtMostOnce(Cancelled(k, "handle_response"), fn)
          /\ \A h : HasHandler(Cancelled(k, "handle_response"), h) <=>
                       h = Handler("handle_response", "aborted", 0) /\ k > 0
      BY CancelledFacts
    <2>2. QED
      BY <1>3, <2>1
  <1>5. c \in Seq(Ready)
    <2>1. Handler("handle_response", "aborted", 0) \in Ready
      BY HandlerReady, FunctionNames DEF ErrorCodes
    <2>2. QED
      BY <1>3, <2>1, CancelledIn
  <1>6. /\ \A fn : Queued(q2, fn) <=> Queued(q1, fn) \/ Queued(c, fn)
        /\ \A fn : AtMostOnce(q1, fn) /\ AtMostOnce(c, fn) /\ ~ (Queued(q1, fn) /\ Queued(c, fn)) =>
                      AtMostOnce(q2, fn)
        /\ \A g : HasHandler(q2, g) <=> HasHandler(q1, g) \/ HasHandler(c, g)
    BY <1>1, <1>5, ConcatFacts
  <1>7. k = 0 => q2 = q1
    BY <1>1, <1>4
  <1> HIDE DEF q2
  <1>8. Moves(q2, r, {}, {"handle_send_complete"})
    BY <1>2, MovesCancelled, FunctionNames
  <1> HIDE DEF r
  <1>9. Moves(q, r, {}, {"handle_timeout", "handle_send_complete"} \cup {"handle_response"})
    <2>1. Moves(q, q2, {} \cup {}, {"handle_timeout"} \cup {"handle_response"})
      BY <1>1, <1>2, MovesBoth
    <2>2. Moves(q, r, {} \cup {} \cup {},
                {"handle_timeout"} \cup {"handle_response"} \cup {"handle_send_complete"})
      BY <1>8, <2>1, MovesBoth
    <2>3. QED
      BY <2>2, MovesWeaker
  <1>10. k = 0 => Moves(q, r, {}, {"handle_timeout", "handle_send_complete"})
    <2>1. HAVE k = 0
    <2>2. Moves(q, r, {} \cup {}, {"handle_timeout"} \cup {"handle_send_complete"})
      BY <1>1, <1>7, <1>8, <2>1, MovesBoth
    <2>3. QED
      BY <2>2, MovesWeaker
  <1>11. \A h : HasHandler(r, h) /\ h.fn = "handle_response" => HasHandler(q, h) \/ h.ec = "aborted"
    <2>1. TAKE h
    <2>2. HAVE HasHandler(r, h) /\ h.fn = "handle_response"
    <2>3. HasHandler(q2, h)
      BY <1>8, <2>2 DEF Moves
    <2>4. HasHandler(q1, h) \/ HasHandler(c, h)
      BY <1>6, <2>3
    <2>5. HasHandler(q1, h) => HasHandler(q, h)
      BY <1>1, <2>2 DEF Moves
    <2>6. HasHandler(c, h) => h.ec = "aborted"
      BY <1>4 DEF Handler
    <2>7. QED
      BY <2>4, <2>5, <2>6
  <1>12. k <= 1 /\ ~ Queued(q, "handle_response") => AtMostOnce(r, "handle_response")
    <2>1. HAVE k <= 1 /\ ~ Queued(q, "handle_response")
    <2>2. AtMostOnce(q, "handle_response")
      BY <2>1 DEF AtMostOnce, Queued
    <2>3. AtMostOnce(q1, "handle_response") /\ ~ Queued(q1, "handle_response")
      BY <1>1, <2>1, <2>2, QueuedHasHandler DEF Moves
    <2>4. AtMostOnce(q2, "handle_response")
      BY <1>4, <1>6, <2>1, <2>3
    <2>5. QED
      BY <1>8, <2>4 DEF Moves
  <1>13. k > 0 => Queued(r, "handle_response")
    <2>1. HAVE k > 0
    <2>2. Queued(q2, "handle_response")
      BY <1>4, <1>6, <2>1
    <2>3. QED
      BY <1>8, <2>2, QueuedHasHandler DEF Moves
  <1>14. r = q \o (IF armed THEN DC!Repeat(1, "handle_timeout") ELSE << >>)
               \o DC!Repeat(k, "handle_response") \o DC!Repeat(n, "handle_send_complete")
    BY DEF r, q2, q1, c
  <1>15. QED
    BY <1>9, <1>10, <1>11, <1>12, <1>13, <1>14

-----------------------------------------------------------------------------
(***************************************************************************)
(* The invariant holds at the beginning and is kept by every step.         *)
(***************************************************************************)
LEMMA InitInv == Init => Inv /\ NamedInv
  <1> SUFFICES ASSUME Init PROVE Inv /\ NamedInv
    OBVIOUS
  <1> USE DEF Init, DC!Init, NoEntries
  <1>1. queue = << >> /\ \A fn : ~ Queued(queue, fn) /\ AtMostOnce(queue, fn)
    BY EmptyFacts
  <1>2. TypeInv
    BY <1>1 DEF TypeInv, Places
  <1>3. PlaceInv
    BY <1>1 DEF PlaceInv, Serving
  <1>4. ReceiveInv
    BY <1>1, EmptyFacts DEF ReceiveInv, Starting
  <1>5. ClientsInv
    BY <1>1, EmptyFacts DEF ClientsInv, ClientHandlers
  <1>6. NamedInv
    BY DEF NamedInv
  <1>7. QED
    BY <1>2, <1>3, <1>4, <1>5, <1>6 DEF Inv

LEMMA ConstructorInv == Inv /\ Constructor => Inv' /\ (NamedInv => NamedInv')
  <1> SUFFICES ASSUME Inv, Constructor PROVE Inv' /\ (NamedInv => NamedInv')
    OBVIOUS
  <1>0. TypeInv /\ PlaceInv /\ ReceiveInv /\ ClientsInv
    BY DEF Inv
  <1>1. UNCHANGED <<queue, receives, recv_buffer, target, clients, outgoing, sends>>
    BY DEF Constructor, set_up_tcp_server, set_up_discovery_client, set_up_discovery_server,
           DC!async_start, DC!env_vars, dc_vars, dc_rest, net, maps, others
  <1>2. Moves(queue, queue', {}, {})
    BY <1>0, <1>1, MovesNone DEF TypeInv
  <1>3. ClientsInv'
    BY <1>0, <1>1, <1>2, ClientsKept
       DEF Constructor, set_up_tcp_server, set_up_discovery_client, set_up_discovery_server,
           Later
  <1>4. NamedInv => NamedInv'
    BY <1>1, NamedKept
  <1>5. CASE set_up_tcp_server
    <2> USE <1>5 DEF set_up_tcp_server, dc_vars, dc_rest, net, maps, others
    <2>1. TypeInv'
      BY <1>0, <1>1 DEF TypeInv, Places
    <2>2. PlaceInv'
      BY <1>0, <1>1 DEF PlaceInv, Serving, Destroying
    <2>3. ReceiveInv'
      BY <1>0, <1>1, <1>2, ReceiveKept
    <2>4. QED
      BY <1>3, <1>4, <2>1, <2>2, <2>3 DEF Inv
  <1>6. CASE set_up_discovery_client
    <2> USE <1>6 DEF set_up_discovery_client, DC!async_start, net, maps, others
    <2>1. TypeInv'
      BY <1>0, <1>1 DEF TypeInv, Places
    <2>2. PlaceInv'
      BY <1>0, <1>1 DEF PlaceInv, Serving, Destroying
    <2>3. starts = 0 /\ starts' # 0
      BY <1>0 DEF PlaceInv
    <2>4. ReceiveInv'
      BY <1>0, <1>1, <2>3 DEF ReceiveInv, Starting, Heard
    <2>5. QED
      BY <1>3, <1>4, <2>1, <2>2, <2>4 DEF Inv
  <1>7. CASE set_up_discovery_server
    <2> USE <1>7 DEF set_up_discovery_server, dc_vars, dc_rest, net, maps, others
    <2>1. TypeInv'
      BY <1>0, <1>1 DEF TypeInv, Places
    <2>2. PlaceInv'
      BY <1>0, <1>1 DEF PlaceInv, Serving, Destroying
    <2>3. ReceiveInv'
      BY <1>0, <1>1, <1>2, ReceiveKept
    <2>4. QED
      BY <1>3, <1>4, <2>1, <2>2, <2>3 DEF Inv
  <1>8. QED
    BY <1>5, <1>6, <1>7 DEF Constructor

LEMMA StopDiscoveryClientInv ==
    Inv /\ stop_discovery_client => Inv' /\ (NamedInv => NamedInv')
  <1> SUFFICES ASSUME Inv, stop_discovery_client PROVE Inv' /\ (NamedInv => NamedInv')
    OBVIOUS
  <1> USE DEF stop_discovery_client, net, maps, others
  <1>0. TypeInv /\ PlaceInv /\ ReceiveInv /\ ClientsInv
    BY DEF Inv
  <1>1. posting' = posting \cup {"cancel"} \/ posting' = posting
    BY DEF DC!async_stop
  <1>2. Moves(queue, queue', {}, {})
    BY <1>0, MovesNone DEF TypeInv
  <1>3. TypeInv'
    BY <1>0, <1>1 DEF TypeInv, Places
  <1>4. PlaceInv'
    BY <1>0 DEF PlaceInv, Serving, Destroying
  <1>5. ReceiveInv'
    BY <1>0, <1>1, <1>2, ReceiveKept
  <1>6. ClientsInv'
    BY <1>0, <1>2, ClientsKept DEF Later
  <1>7. NamedInv => NamedInv'
    BY NamedKept
  <1>8. QED
    BY <1>3, <1>4, <1>5, <1>6, <1>7 DEF Inv

\* A stop is posted that only the place of the thread has to do with.
LEMMA PostStopKeeps ==
    ASSUME Inv, NEW fn, fn \in {"discovery_server_stopped", "tcp_server_stopped",
                                "connections_stopped"},
           at' \in Places, at' \notin Later, at \notin Later, queue' = Append(queue, Posted(fn)),
           UNCHANGED <<flags, dc_rest, net, maps, others>>
    PROVE  /\ TypeInv' /\ ReceiveInv' /\ ClientsInv' /\ (NamedInv => NamedInv')
           /\ Moves(queue, queue', {}, {fn})
           /\ \A f : AtMostOnce(queue, f) /\ ~ Queued(queue, f) => AtMostOnce(queue', f)
  <1> USE DEF dc_rest, net, maps, others
  <1>0. TypeInv /\ PlaceInv /\ ReceiveInv /\ ClientsInv
    BY DEF Inv
  <1>1. Posted(fn) \in Ready /\ Posted(fn).fn = fn
    BY PostedReady, FunctionNames
  <1>2. queue \in Seq(Ready)
    BY <1>0 DEF TypeInv
  <1>3. Moves(queue, queue', {}, {fn})
    BY <1>1, <1>2, MovesAppend
  <1>4. \A f : AtMostOnce(queue, f) /\ ~ Queued(queue, f) => AtMostOnce(queue', f)
    BY <1>1, <1>2, AppendFacts
  <1>5. TypeInv'
    BY <1>0, <1>3 DEF TypeInv, Moves
  <1>6. ReceiveInv'
    BY <1>0, <1>3, ReceiveKept
  <1>7. ClientsInv'
    BY <1>0, <1>3, ClientsKept DEF Later, ClientHandlers
  <1>8. NamedInv => NamedInv'
    BY NamedKept
  <1>9. QED
    BY <1>3, <1>4, <1>5, <1>6, <1>7, <1>8

\* The thread goes on to another place, before the clients are destroyed or when there
\* are no connections.
LEMMA GoOnKeeps ==
    ASSUME Inv, at' \in Places, at' \in Later => outgoing = NoEntries, at \notin Later,
           at' \notin {"destroy_rest", "gone"}, UNCHANGED <<dc_vars, net, maps, others>>
    PROVE  /\ TypeInv' /\ ReceiveInv' /\ ClientsInv' /\ (NamedInv => NamedInv')
           /\ \A fn : Queued(queue', fn) <=> Queued(queue, fn)
           /\ \A fn : AtMostOnce(queue, fn) => AtMostOnce(queue', fn)
  <1>0. TypeInv /\ ReceiveInv /\ ClientsInv
    BY DEF Inv
  <1>1. UNCHANGED <<queue, posting, receives, sends, starts, recv_buffer, target, clients, outgoing>>
    BY DEF dc_vars, dc_rest, net, maps
  <1>2. Moves(queue, queue', {}, {})
    BY <1>0, <1>1, MovesNone DEF TypeInv
  <1>3. TypeInv'
    BY <1>0, <1>1 DEF TypeInv
  <1>4. ReceiveInv'
    BY <1>0, <1>1, <1>2, ReceiveKept
  <1>5. ClientsInv'
    <2>1. at' \in Later => DOMAIN outgoing = {}
      BY DEF NoEntries
    <2>2. QED
      BY <1>0, <1>1, <2>1 DEF ClientsInv, Later
  <1>6. NamedInv => NamedInv'
    BY <1>1, NamedKept
  <1>7. QED
    BY <1>1, <1>3, <1>4, <1>5, <1>6

LEMMA StopServersInv ==
    Inv /\ (stop_discovery_server \/ stop_tcp_server) => Inv' /\ (NamedInv => NamedInv')
  <1> SUFFICES ASSUME Inv, stop_discovery_server \/ stop_tcp_server
               PROVE  Inv' /\ (NamedInv => NamedInv')
    OBVIOUS
  <1>0. TypeInv /\ PlaceInv /\ ReceiveInv /\ ClientsInv
    BY DEF Inv
  <1>1. CASE stop_discovery_server
    <2> USE <1>1 DEF stop_discovery_server, post_stop
    <2>1. /\ TypeInv' /\ ReceiveInv' /\ ClientsInv' /\ (NamedInv => NamedInv')
          /\ Moves(queue, queue', {}, {"discovery_server_stopped"})
      BY PostStopKeeps DEF Places, Later
    <2>2. \A fn : fn # "discovery_server_stopped" =>
             /\ Queued(queue', fn) => Queued(queue, fn)
             /\ AtMostOnce(queue, fn) => AtMostOnce(queue', fn)
      BY <2>1, QueuedHasHandler DEF Moves
    <2>3. at = "stop_discovery_client" /\ at' = "stop_discovery_server"
          /\ UNCHANGED <<server, answering, starts>>
      BY DEF others, dc_rest
    <2>4. PlaceInv'
      BY <1>0, <2>2, <2>3 DEF PlaceInv, Serving, Destroying
    <2>5. QED
      BY <2>1, <2>4 DEF Inv
  <1>2. CASE stop_tcp_server
    <2>1. at = "stop_discovery_server" /\ ~answering /\ at' = "stop_tcp_server"
          /\ UNCHANGED <<server, answering, starts>>
      BY <1>2 DEF stop_tcp_server, post_stop, dc_vars, others, dc_rest
    <2>2. /\ TypeInv' /\ ReceiveInv' /\ ClientsInv' /\ (NamedInv => NamedInv')
          /\ \A fn : fn # "tcp_server_stopped" =>
                /\ Queued(queue', fn) => Queued(queue, fn)
                /\ AtMostOnce(queue, fn) => AtMostOnce(queue', fn)
      <3>1. CASE server = "accepting"
        <4>1. /\ TypeInv' /\ ReceiveInv' /\ ClientsInv' /\ (NamedInv => NamedInv')
              /\ Moves(queue, queue', {}, {"tcp_server_stopped"})
          BY <1>2, <3>1, PostStopKeeps DEF Places, Later, stop_tcp_server, post_stop
        <4>2. QED
          BY <4>1, QueuedHasHandler DEF Moves
      <3>2. CASE server # "accepting"
        BY <1>2, <3>2, GoOnKeeps DEF Places, Later, stop_tcp_server
      <3>3. QED
        BY <3>1, <3>2
    <2>3. PlaceInv'
      BY <1>0, <2>1, <2>2 DEF PlaceInv, Serving, Destroying
    <2>4. QED
      BY <2>2, <2>3 DEF Inv
  <1>3. QED
    BY <1>1, <1>2

\* A map of connections begins to be destroyed: a handler is ready only when there are any.
LEMMA DestroyConnectionsInv ==
    ASSUME Inv, NEW any \in BOOLEAN, NEW place,
           destroy_connections(place, any), any => Destroying',
           place \in {"destroy_incoming", "destroy_outgoing"},
           at \in {"stop_clients", "destroy_incoming"}, ~ Queued(queue, "connections_stopped")
    PROVE  Inv' /\ (NamedInv => NamedInv')
  <1>0. TypeInv /\ PlaceInv /\ ReceiveInv /\ ClientsInv
    BY DEF Inv
  <1>1. at' = place /\ UNCHANGED <<server, answering, starts>>
    BY DEF destroy_connections, post_stop, dc_vars, others, dc_rest
  <1>2. /\ TypeInv' /\ ReceiveInv' /\ ClientsInv' /\ (NamedInv => NamedInv')
        /\ AtMostOnce(queue', "connections_stopped")
        /\ Queued(queue', "connections_stopped") => any
    <2>1. CASE any
      <3>1. /\ TypeInv' /\ ReceiveInv' /\ ClientsInv' /\ (NamedInv => NamedInv')
            /\ \A f : AtMostOnce(queue, f) /\ ~ Queued(queue, f) => AtMostOnce(queue', f)
        BY <2>1, PostStopKeeps DEF Places, Later, destroy_connections, post_stop
      <3>2. QED
        BY <1>0, <2>1, <3>1 DEF PlaceInv
    <2>2. CASE ~any
      BY <1>0, <2>2, GoOnKeeps DEF Places, Later, destroy_connections, PlaceInv
    <2>3. QED
      BY <2>1, <2>2
  <1>3. PlaceInv'
    BY <1>0, <1>1, <1>2 DEF PlaceInv, Serving
  <1>4. QED
    BY <1>2, <1>3 DEF Inv

LEMMA ConnectionsInv ==
    Inv /\ (end_of_loop \/ destroy_incoming \/ destroy_outgoing) =>
        Inv' /\ (NamedInv => NamedInv')
  <1> SUFFICES ASSUME Inv, end_of_loop \/ destroy_incoming \/ destroy_outgoing
               PROVE  Inv' /\ (NamedInv => NamedInv')
    OBVIOUS
  <1>0. PlaceInv
    BY DEF Inv
  <1>1. CASE end_of_loop
    <2>1. at = "stop_clients" /\ destroy_connections("destroy_incoming", incoming # {})
      BY <1>1 DEF end_of_loop
    <2>2. ~ Queued(queue, "connections_stopped")
      BY <1>0, <2>1 DEF PlaceInv, Destroying
    <2>3. incoming # {} => Destroying'
      BY <2>1 DEF destroy_connections, post_stop, maps, Destroying
    <2>4. QED
      BY <2>1, <2>2, <2>3, DestroyConnectionsInv
  <1>2. CASE destroy_incoming
    <2>1. /\ at = "destroy_incoming" /\ incoming = {}
          /\ destroy_connections("destroy_outgoing", outgoing # NoEntries)
      BY <1>2 DEF destroy_incoming
    <2>2. ~ Queued(queue, "connections_stopped")
      BY <1>0, <2>1 DEF PlaceInv, Destroying
    <2>3. outgoing # NoEntries => Destroying'
      BY <2>1 DEF destroy_connections, post_stop, maps, Destroying
    <2>4. QED
      BY <2>1, <2>2, <2>3, DestroyConnectionsInv
  <1>3. CASE destroy_outgoing
    <2>1. /\ at = "destroy_outgoing" /\ outgoing = NoEntries /\ at' = "destroy_clients"
          /\ UNCHANGED <<dc_vars, net, maps, others>>
      BY <1>3 DEF destroy_outgoing
    <2>2. ~ Queued(queue, "connections_stopped")
      BY <1>0, <2>1 DEF PlaceInv, Destroying
    <2>3. /\ TypeInv' /\ ReceiveInv' /\ ClientsInv' /\ (NamedInv => NamedInv')
          /\ \A fn : Queued(queue', fn) <=> Queued(queue, fn)
          /\ \A fn : AtMostOnce(queue, fn) => AtMostOnce(queue', fn)
      BY <2>1, GoOnKeeps DEF Places, Later
    <2>4. UNCHANGED <<server, answering, starts>>
      BY <2>1 DEF dc_vars, dc_rest, others
    <2>5. PlaceInv'
      BY <1>0, <2>1, <2>2, <2>3, <2>4 DEF PlaceInv, Serving
    <2>6. QED
      BY <2>3, <2>5 DEF Inv
  <1>4. QED
    BY <1>1, <1>2, <1>3

LEMMA StopClientInv ==
    ASSUME Inv, NEW k \in DOMAIN clients, stop_client(k)
    PROVE  Inv' /\ (NamedInv => NamedInv')
  <1> USE DEF stop_client, dc_rest, net, others
  <1>0. TypeInv /\ PlaceInv /\ ReceiveInv /\ ClientsInv
    BY DEF Inv
  <1> DEFINE h == Handler("client_cancel", "ok", k)
  <1>1. k \in Nat /\ clients[k] \in Client
    BY <1>0 DEF ClientsInv
  <1>2. h \in Ready /\ h.fn = "client_cancel" /\ h.n = k
    BY <1>1, HandlerReady, FunctionNames DEF ErrorCodes, ClientHandlers
  <1>3. queue \in Seq(Ready) /\ queue' = Append(queue, h)
    BY <1>0 DEF TypeInv
  <1> HIDE DEF h
  <1>4. Moves(queue, queue', {}, {"client_cancel"})
    BY <1>2, <1>3, MovesAppend
  <1>5. \A g : HasHandler(queue', g) => HasHandler(queue, g) \/ g = h
    BY <1>2, <1>3, AppendFacts
  <1>6. TypeInv'
    BY <1>0, <1>4 DEF TypeInv, Moves
  <1>7. PlaceInv'
    BY <1>0, <1>4, PlaceKept
  <1>8. ReceiveInv'
    BY <1>0, <1>4, ReceiveKept
  <1>9. /\ DOMAIN clients' = DOMAIN clients
        /\ \A j \in DOMAIN clients : j # k => clients'[j] = clients[j]
        /\ clients'[k] = [clients[k] EXCEPT !.stop = "signaled"]
    OBVIOUS
  <1>10. clients'[k] \in Client /\ clients'[k].peer = clients[k].peer
         /\ clients'[k].port = clients[k].port
    BY <1>1, <1>9 DEF Client, Stops
  <1>11. ClientsInv'
    <2>1. \A j \in DOMAIN clients' : j \in Nat /\ clients'[j] \in Client
      BY <1>0, <1>9, <1>10 DEF ClientsInv
    <2>2. \A j \in DOMAIN outgoing' : j \in DOMAIN clients' /\ outgoing'[j] = clients'[j].peer
      BY <1>0, <1>9, <1>10 DEF ClientsInv
    <2>3. at' \in {"destroy_clients", "destroy_rest", "gone"} => DOMAIN outgoing' = {}
      BY <1>0 DEF ClientsInv
    <2>4. at' \notin {"destroy_rest", "gone"} =>
             \A g : HasHandler(queue', g) /\ g.fn \in ClientHandlers => g.n \in DOMAIN clients'
      BY <1>0, <1>2, <1>5, <1>9 DEF ClientsInv
    <2>5. QED
      BY <2>1, <2>2, <2>3, <2>4 DEF ClientsInv
  <1>12. NamedInv => NamedInv'
    BY <1>9, <1>10 DEF NamedInv, Named
  <1>13. QED
    BY <1>6, <1>7, <1>8, <1>11, <1>12 DEF Inv

LEMMA StopClientsInv == Inv /\ stop_clients => Inv' /\ (NamedInv => NamedInv')
  <1> SUFFICES ASSUME Inv, stop_clients PROVE Inv' /\ (NamedInv => NamedInv')
    OBVIOUS
  <1> USE DEF stop_clients, dc_vars, dc_rest, net, maps, others
  <1>0. TypeInv /\ PlaceInv /\ ReceiveInv /\ ClientsInv
    BY DEF Inv
  <1>1. Moves(queue, queue', {}, {})
    BY <1>0, MovesNone DEF TypeInv
  <1>2. TypeInv'
    BY <1>0 DEF TypeInv, Places
  <1>3. PlaceInv'
    BY <1>0 DEF PlaceInv, Serving, Destroying
  <1>4. ReceiveInv'
    BY <1>0, <1>1, ReceiveKept
  <1>5. ClientsInv'
    BY <1>0, <1>1, ClientsKept DEF Later
  <1>6. NamedInv => NamedInv'
    BY NamedKept
  <1>7. QED
    BY <1>2, <1>3, <1>4, <1>5, <1>6 DEF Inv

LEMMA DestroyClientsInv == Inv /\ destroy_clients => Inv' /\ (NamedInv => NamedInv')
  <1> SUFFICES ASSUME Inv, destroy_clients PROVE Inv' /\ (NamedInv => NamedInv')
    OBVIOUS
  <1> USE DEF destroy_clients, dc_vars, dc_rest, net, others
  <1>0. TypeInv /\ PlaceInv /\ ReceiveInv /\ ClientsInv
    BY DEF Inv
  <1>1. Moves(queue, queue', {}, {})
    BY <1>0, MovesNone DEF TypeInv
  <1>2. TypeInv'
    BY <1>0 DEF TypeInv, Places
  <1>3. PlaceInv'
    BY <1>0 DEF PlaceInv, Serving, Destroying
  <1>4. ReceiveInv'
    BY <1>0, <1>1, ReceiveKept
  <1>5. ClientsInv'
    BY <1>0 DEF ClientsInv, NoEntries
  <1>6. NamedInv'
    BY DEF NamedInv, NoEntries
  <1>7. QED
    BY <1>2, <1>3, <1>4, <1>5, <1>6 DEF Inv

\* A cancel or a close: what is outstanding is aborted.
LEMMA ReceiveAborted ==
    ASSUME TypeInv, ReceiveInv, NEW q, NEW L, Moves(queue, q, L, {}), "handle_response" \notin L,
           queue' = q \o (IF timer THEN DC!Repeat(1, "handle_timeout") ELSE << >>)
                      \o DC!Repeat(receives, "handle_response")
                      \o DC!Repeat(sends, "handle_send_complete"),
           receives' = 0, UNCHANGED <<posting, starts, recv_buffer, target>>
    PROVE  /\ ReceiveInv'
           /\ Moves(queue, queue', L, {"handle_timeout", "handle_send_complete", "handle_response"})
  <1> DEFINE F == {"handle_timeout", "handle_send_complete"}
  <1>1. q \in Seq(Ready) /\ receives \in 0 .. 1 /\ sends \in Nat
    BY DEF TypeInv, Moves
  <1>2. /\ Moves(q, queue', {}, F \cup {"handle_response"})
        /\ receives = 0 => Moves(q, queue', {}, F)
        /\ \A h : HasHandler(queue', h) /\ h.fn = "handle_response" =>
                     HasHandler(q, h) \/ h.ec = "aborted"
        /\ receives <= 1 /\ ~ Queued(q, "handle_response") =>
              AtMostOnce(queue', "handle_response")
    <2>1. receives \in Nat
      BY <1>1
    <2>2. QED
      BY <1>1, <2>1, ReleaseMoves
  <1>3. Moves(queue, queue', L, F \cup {"handle_response"})
    <2>1. Moves(queue, queue', L \cup {}, {} \cup (F \cup {"handle_response"}))
      BY <1>2, MovesBoth
    <2>2. QED
      BY <2>1, MovesWeaker
  <1>4. CASE receives = 0
    <2>1. Moves(queue, queue', L \cup {}, {} \cup F)
      BY <1>2, <1>4, MovesBoth
    <2>2. ReceiveInv'
      BY <1>4, <2>1, ReceiveKept
    <2>3. QED
      BY <1>3, <2>2
  <1>5. CASE receives = 1
    <2>1. /\ ~Starting /\ ~ Queued(queue, "handle_response") /\ starts # 0 /\ recv_buffer = << >>
          /\ AtMostOnce(queue, "start")
      BY <1>5 DEF ReceiveInv
    <2>2. ~ Queued(q, "handle_response")
      BY <2>1, QueuedHasHandler DEF Moves
    <2>3. AtMostOnce(queue', "handle_response")
      BY <1>2, <1>5, <2>2
    <2>4. AtMostOnce(queue', "start") /\ ~ Queued(queue', "start")
      BY <1>3, <2>1, QueuedHasHandler DEF Moves, Starting
    <2>5. ~Starting'
      BY <2>1, <2>4 DEF Starting
    <2>6. ReceiveInv'
      BY <2>1, <2>3, <2>4, <2>5 DEF ReceiveInv
    <2>7. QED
      BY <1>3, <2>6
  <1>6. QED
    BY <1>1, <1>4, <1>5

LEMMA DestroyRestInv == Inv /\ destroy_rest => Inv' /\ (NamedInv => NamedInv')
  <1> SUFFICES ASSUME Inv, destroy_rest PROVE Inv' /\ (NamedInv => NamedInv')
    OBVIOUS
  <1> USE DEF destroy_rest, net, maps, others
  <1>0. TypeInv /\ PlaceInv /\ ReceiveInv /\ ClientsInv
    BY DEF Inv
  <1>1. Moves(queue, queue, {}, {})
    BY <1>0, MovesNone DEF TypeInv
  <1>2. /\ queue' = queue \o (IF timer THEN DC!Repeat(1, "handle_timeout") ELSE << >>)
                          \o DC!Repeat(receives, "handle_response")
                          \o DC!Repeat(sends, "handle_send_complete")
        /\ receives' = 0 /\ sends' = 0
    BY DEF DC!Release
  <1> DEFINE F == {"handle_timeout", "handle_send_complete", "handle_response"}
  <1>3. ReceiveInv' /\ Moves(queue, queue', {}, F)
    BY <1>0, <1>1, <1>2, ReceiveAborted
  <1>4. TypeInv'
    BY <1>0, <1>2, <1>3 DEF TypeInv, Places, Moves
  <1>5. \A fn : fn \notin F /\ Queued(queue', fn) => Queued(queue, fn)
    BY <1>3, QueuedHasHandler DEF Moves
  <1>6. AtMostOnce(queue', "connections_stopped")
    BY <1>0, <1>3 DEF PlaceInv, Moves
  <1>7. PlaceInv'
    BY <1>0, <1>5, <1>6 DEF PlaceInv, Serving, Destroying
  <1>8. ClientsInv'
    BY <1>0, <1>3, ClientsKept DEF Later, ClientHandlers
  <1>9. NamedInv => NamedInv'
    BY NamedKept
  <1>10. QED
    BY <1>3, <1>4, <1>7, <1>8, <1>9 DEF Inv

\* A step of the discovery client that does not reach the bridge.
LEMMA DiscoveryKeeps ==
    ASSUME Inv, NEW L, NEW F, Moves(queue, queue', L, F), F \subseteq DC!Functions,
           UNCHANGED <<at, net, maps, others, starts>>,
           posting' \subseteq posting, receives' \in 0 .. 1, sends' \in Nat
    PROVE  TypeInv' /\ PlaceInv' /\ ClientsInv' /\ (NamedInv => NamedInv')
  <1> USE DEF net, maps, others
  <1>0. TypeInv /\ PlaceInv /\ ClientsInv
    BY DEF Inv
  <1>1. F \cap ClientHandlers = {} /\ "tcp_server_stopped" \notin F
        /\ "connections_stopped" \notin F
    BY DEF DC!Functions, ClientHandlers
  <1>2. TypeInv'
    BY <1>0 DEF TypeInv, Moves
  <1>3. PlaceInv'
    BY <1>0, <1>1, PlaceKept
  <1>4. ClientsInv'
    BY <1>0, <1>1, ClientsKept
  <1>5. NamedInv => NamedInv'
    BY NamedKept
  <1>6. QED
    BY <1>2, <1>3, <1>4, <1>5

LEMMA RunsNext == \A fn : DC!Runs(fn) => Next_is(queue, fn)
  BY SameNames DEF DC!Runs

LEMMA RunStartInv ==
    Inv /\ DC!run_start /\ UNCHANGED <<at, net, maps, others>> => Inv' /\ (NamedInv => NamedInv')
  <1> SUFFICES ASSUME Inv, DC!run_start, UNCHANGED <<at, net, maps, others>>
               PROVE  Inv' /\ (NamedInv => NamedInv')
    OBVIOUS
  <1> USE DEF DC!run_start, DC!env_vars, DC!user_vars
  <1>0. TypeInv /\ ReceiveInv
    BY DEF Inv
  <1>1. Next_is(queue, "start")
    BY RunsNext
  <1>2. /\ Moves(queue, Tail(queue), {"start"}, {}) /\ Tail(queue) \in Seq(Ready)
        /\ Queued(queue, "start") /\ ~ Queued(Tail(queue), "start")
    BY <1>0, <1>1, RunMoves DEF ReceiveInv
  <1>3. queue' = Tail(queue) \/ queue' = Append(Tail(queue), Posted("stopped"))
    BY SameNames DEF DC!resolve_on_stopped
  <1>4. Moves(queue, queue', {"start"}, {"stopped"}) /\ ~ Queued(queue', "start")
    <2>1. Moves(Tail(queue), queue', {}, {"stopped"})
      BY <1>2, <1>3, ResolveMoves
    <2>2. Moves(queue, queue', {"start"} \cup {}, {} \cup {"stopped"})
      BY <1>2, <2>1, MovesBoth
    <2>3. ~ Queued(queue', "start")
      BY <1>2, <2>1, QueuedHasHandler DEF Moves
    <2>4. QED
      BY <2>2, <2>3, MovesWeaker
  <1>5. /\ "start" \notin posting /\ receives = 0 /\ ~ Queued(queue, "handle_response")
        /\ starts # 0 /\ recv_buffer = << >>
    BY <1>0, <1>2 DEF ReceiveInv, Starting
  <1>6. /\ posting' = posting /\ starts' = starts /\ receives' \in 0 .. 1 /\ sends' \in Nat
    BY <1>0, <1>5 DEF TypeInv
  <1>7. TypeInv' /\ PlaceInv' /\ ClientsInv' /\ (NamedInv => NamedInv')
    BY <1>4, <1>6, DiscoveryKeeps DEF DC!Functions
  <1>8. ~ Queued(queue', "handle_response")
        /\ AtMostOnce(queue', "start") /\ AtMostOnce(queue', "handle_response")
    BY <1>0, <1>4, <1>5, QueuedHasHandler DEF Moves, ReceiveInv
  <1>9. recv_buffer' = << >>
    BY <1>5 DEF net
  <1>10. ReceiveInv'
    BY <1>4, <1>5, <1>6, <1>8, <1>9 DEF ReceiveInv, Starting
  <1>11. QED
    BY <1>7, <1>10 DEF Inv

LEMMA RunCancelInv ==
    Inv /\ DC!run_cancel /\ UNCHANGED <<at, net, maps, others>> => Inv' /\ (NamedInv => NamedInv')
  <1> SUFFICES ASSUME Inv, DC!run_cancel, UNCHANGED <<at, net, maps, others>>
               PROVE  Inv' /\ (NamedInv => NamedInv')
    OBVIOUS
  <1> USE DEF DC!run_cancel, DC!env_vars, DC!user_vars
  <1>0. TypeInv /\ ReceiveInv
    BY DEF Inv
  <1>1. Next_is(queue, "cancel")
    BY RunsNext
  <1>2. Moves(queue, Tail(queue), {"cancel"}, {}) /\ Tail(queue) \in Seq(Ready)
    BY <1>0, <1>1, RunMoves
  <1>3. UNCHANGED <<posting, starts, recv_buffer, target>>
    BY DEF net
  <1>4. CASE "running" \in flags
    <2> DEFINE F == {"handle_timeout", "handle_send_complete", "handle_response"}
    <2>1. /\ queue' = Tail(queue)
                        \o (IF timer THEN DC!Repeat(1, "handle_timeout") ELSE << >>)
                        \o DC!Repeat(receives, "handle_response")
                        \o DC!Repeat(sends, "handle_send_complete")
          /\ receives' = 0 /\ sends' = 0
      BY <1>4
    <2>2. ReceiveInv' /\ Moves(queue, queue', {"cancel"}, F)
      BY <1>0, <1>2, <1>3, <2>1, ReceiveAborted
    <2>3. TypeInv' /\ PlaceInv' /\ ClientsInv' /\ (NamedInv => NamedInv')
      BY <1>3, <2>1, <2>2, DiscoveryKeeps DEF DC!Functions
    <2>4. QED
      BY <2>2, <2>3 DEF Inv
  <1>5. CASE "running" \notin flags
    <2>1. queue' = Tail(queue) \/ queue' = Append(Tail(queue), Posted("stopped"))
      BY <1>5, SameNames
    <2>2. UNCHANGED <<receives, sends>>
      BY <1>5
    <2>3. Moves(queue, queue', {"cancel"}, {"stopped"})
      <3>1. Moves(Tail(queue), queue', {}, {"stopped"})
        BY <1>2, <2>1, ResolveMoves
      <3>2. Moves(queue, queue', {"cancel"} \cup {}, {} \cup {"stopped"})
        BY <1>2, <3>1, MovesBoth
      <3>3. QED
        BY <3>2, MovesWeaker
    <2>4. TypeInv' /\ PlaceInv' /\ ClientsInv' /\ (NamedInv => NamedInv')
      BY <1>0, <1>3, <2>2, <2>3, DiscoveryKeeps DEF DC!Functions, TypeInv
    <2>5. ReceiveInv'
      BY <1>0, <1>3, <2>2, <2>3, ReceiveKept
    <2>6. QED
      BY <2>4, <2>5 DEF Inv
  <1>6. QED
    BY <1>4, <1>5

\* The handlers of the request, of the timer and of the stop.
LEMMA OtherHandlersInv ==
    ASSUME Inv, DC!handle_send_complete \/ DC!handle_timeout \/ DC!run_stopped,
           UNCHANGED <<at, net, maps, others>>
    PROVE  Inv' /\ (NamedInv => NamedInv')
  <1> USE DEF DC!env_vars, DC!user_vars
  <1>0. TypeInv /\ ReceiveInv
    BY DEF Inv
  <1>1. PICK fn \in {"handle_send_complete", "handle_timeout", "stopped"} : Next_is(queue, fn)
    BY RunsNext DEF DC!handle_send_complete, DC!handle_timeout, DC!run_stopped
  <1>2. Moves(queue, Tail(queue), {fn}, {}) /\ Tail(queue) \in Seq(Ready)
    BY <1>0, <1>1, RunMoves
  <1>3. queue' = Tail(queue) \/ queue' = Append(Tail(queue), Posted("stopped"))
    BY SameNames DEF DC!handle_send_complete, DC!handle_timeout, DC!run_stopped,
                     DC!resolve_on_stopped
  <1>4. Moves(queue, queue', {fn}, {"stopped"})
    <2>1. Moves(Tail(queue), queue', {}, {"stopped"})
      BY <1>2, <1>3, ResolveMoves
    <2>2. Moves(queue, queue', {fn} \cup {}, {} \cup {"stopped"})
      BY <1>2, <2>1, MovesBoth
    <2>3. QED
      BY <2>2, MovesWeaker
  <1>5. UNCHANGED <<posting, starts, receives>> /\ sends' \in Nat
    BY <1>0 DEF DC!handle_send_complete, DC!handle_timeout, DC!run_stopped, TypeInv
  <1>6. UNCHANGED <<recv_buffer, target>>
    BY DEF net
  <1>7. TypeInv' /\ PlaceInv' /\ ClientsInv' /\ (NamedInv => NamedInv')
    BY <1>0, <1>4, <1>5, DiscoveryKeeps DEF DC!Functions, TypeInv
  <1>8. ReceiveInv'
    BY <1>0, <1>1, <1>4, <1>5, <1>6, ReceiveKept
  <1>9. QED
    BY <1>7, <1>8 DEF Inv

LEMMA DiscoveryGoesOnInv ==
    Inv /\ DiscoveryClientGoesOn => Inv' /\ (NamedInv => NamedInv')
  <1> SUFFICES ASSUME Inv, DiscoveryClientGoesOn PROVE Inv' /\ (NamedInv => NamedInv')
    OBVIOUS
  <1> USE DEF DiscoveryClientGoesOn, DC!env_vars, DC!user_vars
  <1>0. TypeInv /\ ReceiveInv
    BY DEF Inv
  <1>1. queue \in Seq(Ready) /\ UNCHANGED <<recv_buffer, target>>
    BY <1>0 DEF TypeInv, net
  <1>2. CASE DC!send_completes \/ DC!timer_expires
    <2>1. PICK fn \in {"handle_send_complete", "handle_timeout"}, ec \in {"ok", "failed"} :
             queue' = Append(queue, Handler(fn, ec, 0))
      BY <1>2, SameNames DEF DC!send_completes, DC!timer_expires, DC!Completes
    <2>2. Handler(fn, ec, 0) \in Ready /\ Handler(fn, ec, 0).fn = fn
      BY HandlerReady, FunctionNames DEF ErrorCodes
    <2>3. Moves(queue, queue', {}, {fn})
      BY <1>1, <2>1, <2>2, MovesAppend
    <2>4. UNCHANGED <<posting, starts, receives>> /\ sends' \in Nat
      BY <1>0, <1>2 DEF DC!send_completes, DC!timer_expires, TypeInv
    <2>5. TypeInv' /\ PlaceInv' /\ ClientsInv' /\ (NamedInv => NamedInv')
      BY <1>0, <2>3, <2>4, DiscoveryKeeps DEF DC!Functions, TypeInv
    <2>6. ReceiveInv'
      BY <1>0, <1>1, <2>3, <2>4, ReceiveKept
    <2>7. QED
      BY <2>5, <2>6 DEF Inv
  <1>3. CASE DC!Posting
    <2>1. PICK fn \in {"start", "cancel"} :
             fn \in posting /\ posting' = posting \ {fn} /\ queue' = Append(queue, Posted(fn))
      BY <1>3, SameNames DEF DC!Posting, DC!post
    <2>2. UNCHANGED <<receives, sends, starts>>
      BY <1>3 DEF DC!Posting, DC!post
    <2>3. Posted(fn) \in Ready /\ Posted(fn).fn = fn
      BY PostedReady, FunctionNames
    <2>4. Moves(queue, queue', {}, {fn})
      BY <1>1, <2>1, <2>3, MovesAppend
    <2>5. TypeInv' /\ PlaceInv' /\ ClientsInv' /\ (NamedInv => NamedInv')
      BY <1>0, <2>1, <2>2, <2>4, DiscoveryKeeps DEF DC!Functions, TypeInv
    <2>6. CASE fn = "cancel"
      <3>1. ReceiveInv'
        BY <1>0, <1>1, <2>1, <2>2, <2>4, <2>6, ReceiveKept
      <3>2. QED
        BY <2>5, <3>1 DEF Inv
    <2>7. CASE fn = "start"
      <3>1. Starting /\ ~ Queued(queue, "start") /\ receives = 0 /\ starts # 0
            /\ ~ Queued(queue, "handle_response") /\ recv_buffer = << >>
        BY <1>0, <2>1, <2>7 DEF ReceiveInv, Starting
      <3>2. AtMostOnce(queue', "start") /\ "start" \notin posting'
        BY <1>0, <1>1, <2>1, <2>3, <2>7, <3>1, AppendFacts DEF ReceiveInv
      <3>3. AtMostOnce(queue', "handle_response") /\ ~ Queued(queue', "handle_response")
        BY <1>0, <2>4, <2>7, <3>1, QueuedHasHandler DEF ReceiveInv, Moves
      <3>4. ReceiveInv'
        BY <1>1, <2>2, <3>1, <3>2, <3>3 DEF ReceiveInv
      <3>5. QED
        BY <2>5, <3>4 DEF Inv
    <2>8. QED
      BY <2>6, <2>7
  <1>4. QED
    BY <1>2, <1>3

-----------------------------------------------------------------------------
(***************************************************************************)
(* The handlers of a TcpClient.                                            *)
(***************************************************************************)
\* What a handler of client k may post.
Part(s, k) ==
    /\ s \in Seq(Ready)
    /\ \A h : HasHandler(s, h) => h.n = k /\ h.fn \in {"handle_connect", "complete", "client_stopped"}

LEMMA PartNone == \A k : Part(<< >>, k)
  BY EmptyFacts DEF Part

LEMMA PartOne ==
    ASSUME NEW k \in Nat, NEW fn \in {"handle_connect", "complete", "client_stopped"},
           NEW ec \in ErrorCodes
    PROVE  Part(<<Handler(fn, ec, k)>>, k)
  <1>1. fn \in Functions
    BY FunctionNames DEF ClientHandlers
  <1>2. Handler(fn, ec, k) \in Ready /\ Handler(fn, ec, k).fn = fn /\ Handler(fn, ec, k).n = k
    BY <1>1, HandlerReady
  <1> DEFINE h == Handler(fn, ec, k)
  <1> HIDE DEF h
  <1>3. <<h>> \in Seq(Ready) /\ \A g : HasHandler(<<h>>, g) => g = h
    <2>1. \A g : HasHandler(<<h>>, g) => g = h
      BY DEF HasHandler
    <2>2. QED
      BY <1>2, <2>1 DEF h
  <1>4. QED
    BY <1>2, <1>3 DEF Part, h

LEMMA PartAdded ==
    ASSUME NEW q \in Seq(Ready), NEW k, NEW s, Part(s, k)
    PROVE  /\ Moves(q, q \o s, {}, {"handle_connect", "complete", "client_stopped"})
           /\ q \o s \in Seq(Ready)
           /\ \A h : HasHandler(q \o s, h) => HasHandler(q, h) \/ h.n = k
  <1>1. s \in Seq(Ready)
        /\ \A h : HasHandler(s, h) => h.fn \in {"handle_connect", "complete", "client_stopped"}
    BY DEF Part
  <1>2. Moves(q, q \o s, {}, {"handle_connect", "complete", "client_stopped"})
    BY <1>1, MovesConcat
  <1>3. \A g : HasHandler(q \o s, g) <=> HasHandler(q, g) \/ HasHandler(s, g)
    BY <1>1, ConcatFacts
  <1>4. QED
    BY <1>2, <1>3 DEF Part, Moves

\* The changes of clients that are allowed when it is client k's turn.
Turn(k) ==
    /\ DOMAIN clients' = DOMAIN clients
    /\ \A j \in DOMAIN clients : j # k => clients'[j] = clients[j]
    /\ k \in DOMAIN clients =>
          /\ clients'[k] \in Client
          /\ clients'[k].peer = clients[k].peer /\ clients'[k].port = clients[k].port
          /\ clients'[k].attempt = "posted" => clients[k].attempt = "posted"

LEMMA GoesOnTurn ==
    ASSUME NEW k, NEW c, NEW before, NEW after, client_goes_on(k, c, before, after),
           k \in DOMAIN clients =>
               /\ c \in Client /\ c.peer = clients[k].peer /\ c.port = clients[k].port
               /\ c.attempt = "posted" => clients[k].attempt = "posted"
    PROVE  Turn(k)
  <1> DEFINE d == IF resolves(c) THEN [c EXCEPT !.stop = "resolved"] ELSE c
  <1>1. clients' = [clients EXCEPT ![k] = d]
    BY DEF client_goes_on
  <1>2. k \in DOMAIN clients =>
            /\ d \in Client /\ d.peer = clients[k].peer /\ d.port = clients[k].port
            /\ d.attempt = "posted" => clients[k].attempt = "posted"
    BY DEF Client, Stops
  <1> HIDE DEF d
  <1>3. /\ DOMAIN clients' = DOMAIN clients
        /\ \A j \in DOMAIN clients : j # k => clients'[j] = clients[j]
        /\ k \in DOMAIN clients => clients'[k] = d
    BY <1>1
  <1>4. QED
    BY <1>2, <1>3 DEF Turn

\* What a turn of client k keeps.
LEMMA TurnKeeps ==
    ASSUME Inv, NEW fn \in ClientHandlers, Next_is(queue, fn), NEW k, k = Head(queue).n,
           Turn(k), NEW F, F \subseteq {"handle_connect", "complete", "client_stopped"},
           Moves(queue, queue', {fn}, F),
           \A h : HasHandler(queue', h) => HasHandler(queue, h) \/ h.n = k,
           UNCHANGED <<flags, dc_rest, at, net, incoming, others>>,
           \/ outgoing' = outgoing
           \/ ~Destroyed /\ k \in DOMAIN clients /\ outgoing' = Put(outgoing, k, clients[k].peer)
    PROVE  Inv' /\ (NamedInv => NamedInv')
  <1> USE DEF dc_rest, net, others
  <1>0. TypeInv /\ PlaceInv /\ ReceiveInv /\ ClientsInv
    BY DEF Inv
  <1>1. TypeInv'
    BY <1>0 DEF TypeInv, Moves
  <1>2. PlaceInv'
    <2>1. at = "destroy_outgoing" => outgoing' = outgoing
      BY DEF Destroyed
    <2>2. QED
      BY <1>0, <2>1, PlaceKept
  <1>3. ReceiveInv'
    BY <1>0, ReceiveKept DEF ClientHandlers
  <1>4. \A j \in DOMAIN clients :
            /\ j \in Nat /\ clients'[j] \in Client
            /\ clients'[j].peer = clients[j].peer /\ clients'[j].port = clients[j].port
    BY <1>0 DEF Turn, ClientsInv
  <1>5. DOMAIN clients' = DOMAIN clients
    BY DEF Turn
  <1>6. ClientsInv'
    <2>1. \A j \in DOMAIN outgoing' : j \in DOMAIN clients' /\ outgoing'[j] = clients'[j].peer
      <3>1. CASE outgoing' = outgoing
        BY <1>0, <1>4, <1>5, <3>1 DEF ClientsInv
      <3>2. CASE k \in DOMAIN clients /\ outgoing' = Put(outgoing, k, clients[k].peer)
        <4>1. DOMAIN outgoing' = DOMAIN outgoing \cup {k}
              /\ \A j \in DOMAIN outgoing' :
                    outgoing'[j] = IF j = k THEN clients[k].peer ELSE outgoing[j]
          BY <3>2 DEF Put
        <4>2. QED
          BY <1>0, <1>4, <1>5, <3>2, <4>1 DEF ClientsInv
      <3>3. QED
        BY <3>1, <3>2
    <2>2. at' \in {"destroy_clients", "destroy_rest", "gone"} => DOMAIN outgoing' = {}
      BY <1>0 DEF ClientsInv, Destroyed
    <2>3. at \notin {"destroy_rest", "gone"} => k \in DOMAIN clients
      <3>1. HasHandler(queue, Head(queue)) /\ Head(queue).fn \in ClientHandlers
        BY <1>0, RunMoves
      <3>2. QED
        BY <1>0, <3>1 DEF ClientsInv
    <2>4. at' \notin {"destroy_rest", "gone"} =>
             \A h : HasHandler(queue', h) /\ h.fn \in ClientHandlers => h.n \in DOMAIN clients'
      BY <1>0, <1>5, <2>3 DEF ClientsInv
    <2>5. QED
      BY <1>4, <1>5, <2>1, <2>2, <2>4 DEF ClientsInv
  <1>7. NamedInv => NamedInv'
    BY <1>4, <1>5 DEF NamedInv, Named
  <1>8. QED
    BY <1>1, <1>2, <1>3, <1>6, <1>7 DEF Inv

LEMMA GoesOnQueue ==
    ASSUME TypeInv, NEW fn, Next_is(queue, fn), NEW k \in Nat, NEW c, NEW before, NEW after,
           Part(before, k), Part(after, k), client_goes_on(k, c, before, after)
    PROVE  /\ Moves(queue, queue', {fn}, {"handle_connect", "complete", "client_stopped"})
           /\ \A h : HasHandler(queue', h) => HasHandler(queue, h) \/ h.n = k
  <1> DEFINE F == {"handle_connect", "complete", "client_stopped"}
             over == IF resolves(c) THEN <<Handler("client_stopped", "ok", k)>> ELSE << >>
             q1 == Tail(queue) \o before
             q2 == q1 \o over
  <1>1. Moves(queue, Tail(queue), {fn}, {}) /\ Tail(queue) \in Seq(Ready)
    BY RunMoves
  <1>2. Part(over, k)
    <2>1. Part(<<Handler("client_stopped", "ok", k)>>, k)
      BY PartOne DEF ErrorCodes
    <2>2. Part(<< >>, k)
      BY PartNone
    <2>3. QED
      BY <2>1, <2>2
  <1>3. queue' = q2 \o after
    BY DEF client_goes_on
  <1> HIDE DEF over
  <1>4. /\ Moves(Tail(queue), q1, {}, F) /\ q1 \in Seq(Ready)
        /\ \A h : HasHandler(q1, h) => HasHandler(Tail(queue), h) \/ h.n = k
    BY <1>1, PartAdded
  <1> HIDE DEF q1
  <1>5. /\ Moves(q1, q2, {}, F) /\ q2 \in Seq(Ready)
        /\ \A h : HasHandler(q2, h) => HasHandler(q1, h) \/ h.n = k
    BY <1>2, <1>4, PartAdded
  <1> HIDE DEF q2
  <1>6. /\ Moves(q2, queue', {}, F)
        /\ \A h : HasHandler(queue', h) => HasHandler(q2, h) \/ h.n = k
    BY <1>3, <1>5, PartAdded
  <1>7. Moves(queue, queue', {fn}, F)
    <2>1. Moves(queue, q1, {fn} \cup {}, {} \cup F)
      BY <1>1, <1>4, MovesBoth
    <2>2. Moves(q1, queue', {} \cup {}, F \cup F)
      BY <1>5, <1>6, MovesBoth
    <2>3. Moves(queue, queue', ({fn} \cup {}) \cup ({} \cup {}), ({} \cup F) \cup (F \cup F))
      BY <2>1, <2>2, MovesBoth
    <2>4. QED
      BY <2>3, MovesWeaker
  <1>8. \A h : HasHandler(Tail(queue), h) => HasHandler(queue, h)
    BY <1>1 DEF Moves
  <1>9. QED
    BY <1>4, <1>5, <1>6, <1>7, <1>8

\* Whose turn it is, and that the client is as typed if it is in the map.
LEMMA NextClient ==
    ASSUME Inv, NEW fn, Runs(fn)
    PROVE  /\ Next_is(queue, fn) /\ key_of_next \in Nat /\ key_of_next = Head(queue).n
           /\ key_of_next \in DOMAIN clients => clients[key_of_next] \in Client
           /\ fn \in ClientHandlers /\ at \notin {"destroy_rest", "gone"} =>
                 key_of_next \in DOMAIN clients
  <1>0. TypeInv /\ ClientsInv
    BY DEF Inv
  <1>1. Next_is(queue, fn)
    BY DEF Runs
  <1>2. Head(queue) \in Ready /\ HasHandler(queue, Head(queue)) /\ Head(queue).fn = fn
    BY <1>0, <1>1, RunMoves
  <1>3. key_of_next \in Nat /\ key_of_next = Head(queue).n
    BY <1>2 DEF key_of_next, Ready
  <1>4. QED
    BY <1>0, <1>1, <1>2, <1>3 DEF ClientsInv

LEMMA AsyncResolveInv ==
    Inv /\ async_resolve => Inv' /\ (NamedInv => NamedInv') /\ \E k : Turn(k)
  <1> SUFFICES ASSUME Inv, async_resolve
               PROVE  Inv' /\ (NamedInv => NamedInv') /\ \E k : Turn(k)
    OBVIOUS
  <1> DEFINE k == key_of_next
             c == [clients[k] EXCEPT !.attempt = IF clients[k].stop = "no" THEN "working" ELSE "over"]
  <1>0. TypeInv
    BY DEF Inv
  <1>1. Next_is(queue, "async_resolve") /\ k \in Nat /\ k = Head(queue).n
        /\ (k \in DOMAIN clients => clients[k] \in Client)
    BY NextClient DEF async_resolve
  <1>2. client_goes_on(k, c, << >>, << >>) /\ outgoing' = outgoing
    BY DEF async_resolve
  <1>3. k \in DOMAIN clients =>
            /\ c \in Client /\ c.peer = clients[k].peer /\ c.port = clients[k].port
            /\ c.attempt = "posted" => clients[k].attempt = "posted"
    BY <1>1 DEF Client, Attempts
  <1> HIDE DEF c, k
  <1>4. Turn(k)
    BY <1>2, <1>3, GoesOnTurn
  <1>5. /\ Moves(queue, queue', {"async_resolve"}, {"handle_connect", "complete", "client_stopped"})
        /\ \A h : HasHandler(queue', h) => HasHandler(queue, h) \/ h.n = k
    BY <1>0, <1>1, <1>2, PartNone, GoesOnQueue
  <1>6. UNCHANGED <<flags, dc_rest, at, net, incoming, others>>
    BY <1>2 DEF client_goes_on
  <1>7. "async_resolve" \in ClientHandlers
    BY DEF ClientHandlers
  <1>8. Inv' /\ (NamedInv => NamedInv')
    BY <1>1, <1>2, <1>4, <1>5, <1>6, <1>7, TurnKeeps
  <1>9. QED
    BY <1>4, <1>8

LEMMA HandleConnectInv ==
    Inv /\ handle_connect => Inv' /\ (NamedInv => NamedInv') /\ \E k : Turn(k)
  <1> SUFFICES ASSUME Inv, handle_connect
               PROVE  Inv' /\ (NamedInv => NamedInv') /\ \E k : Turn(k)
    OBVIOUS
  <1> DEFINE k == key_of_next
             c == [clients[k] EXCEPT !.attempt = "over"]
             fail == <<Handler("complete", "ok", k)>>
  <1>0. TypeInv
    BY DEF Inv
  <1>1. /\ Next_is(queue, "handle_connect") /\ k \in Nat /\ k = Head(queue).n
        /\ k \in DOMAIN clients => clients[k] \in Client
        /\ at \notin {"destroy_rest", "gone"} => k \in DOMAIN clients
    BY NextClient DEF handle_connect, ClientHandlers
  <1>2. /\ \/ client_goes_on(k, c, << >>, << >>) \/ client_goes_on(k, c, fail, << >>)
           \/ client_goes_on(k, c, << >>, fail)
        /\ outgoing' = outgoing \/ connected(k)
    BY DEF handle_connect
  <1>3. k \in DOMAIN clients =>
            /\ c \in Client /\ c.peer = clients[k].peer /\ c.port = clients[k].port
            /\ c.attempt = "posted" => clients[k].attempt = "posted"
    BY <1>1 DEF Client, Attempts
  <1>4. Part(fail, k)
    BY <1>1, PartOne DEF ErrorCodes
  <1> HIDE DEF c, k, fail
  <1>5. Turn(k)
    BY <1>2, <1>3, GoesOnTurn
  <1>6. /\ Moves(queue, queue', {"handle_connect"}, {"handle_connect", "complete", "client_stopped"})
        /\ \A h : HasHandler(queue', h) => HasHandler(queue, h) \/ h.n = k
    BY <1>0, <1>1, <1>2, <1>4, PartNone, GoesOnQueue
  <1>7. UNCHANGED <<flags, dc_rest, at, net, incoming, others>>
    BY <1>2 DEF client_goes_on
  <1>8. "handle_connect" \in ClientHandlers
    BY DEF ClientHandlers
  <1>9. \/ outgoing' = outgoing
        \/ ~Destroyed /\ k \in DOMAIN clients /\ outgoing' = Put(outgoing, k, clients[k].peer)
    BY <1>1, <1>2 DEF connected, Destroyed
  <1>10. Inv' /\ (NamedInv => NamedInv')
    BY <1>1, <1>5, <1>6, <1>7, <1>8, <1>9, TurnKeeps
  <1>11. QED
    BY <1>5, <1>10

LEMMA ClientCancelInv ==
    Inv /\ client_cancel => Inv' /\ (NamedInv => NamedInv') /\ \E k : Turn(k)
  <1> SUFFICES ASSUME Inv, client_cancel
               PROVE  Inv' /\ (NamedInv => NamedInv') /\ \E k : Turn(k)
    OBVIOUS
  <1> DEFINE k == key_of_next
             c == [clients[k] EXCEPT !.stop = "cancelled"]
             d == [c EXCEPT !.attempt = "completed"]
             aborted == <<Handler("handle_connect", "aborted", k)>>
  <1>0. TypeInv
    BY DEF Inv
  <1>1. Next_is(queue, "client_cancel") /\ k \in Nat /\ k = Head(queue).n
        /\ (k \in DOMAIN clients => clients[k] \in Client)
    BY NextClient DEF client_cancel
  <1>2. /\ client_goes_on(k, c, << >>, << >>) \/ client_goes_on(k, d, aborted, << >>)
        /\ outgoing' = outgoing
    BY DEF client_cancel
  <1>3. k \in DOMAIN clients =>
            /\ c \in Client /\ c.peer = clients[k].peer /\ c.port = clients[k].port
            /\ c.attempt = "posted" => clients[k].attempt = "posted"
            /\ d \in Client /\ d.peer = clients[k].peer /\ d.port = clients[k].port
            /\ d.attempt = "posted" => clients[k].attempt = "posted"
    BY <1>1 DEF Client, Attempts, Stops
  <1>4. Part(aborted, k)
    BY <1>1, PartOne DEF ErrorCodes
  <1> HIDE DEF c, d, k, aborted
  <1>5. Turn(k)
    BY <1>2, <1>3, GoesOnTurn
  <1>6. /\ Moves(queue, queue', {"client_cancel"}, {"handle_connect", "complete", "client_stopped"})
        /\ \A h : HasHandler(queue', h) => HasHandler(queue, h) \/ h.n = k
    BY <1>0, <1>1, <1>2, <1>4, PartNone, GoesOnQueue
  <1>7. UNCHANGED <<flags, dc_rest, at, net, incoming, others>>
    BY <1>2 DEF client_goes_on
  <1>8. "client_cancel" \in ClientHandlers
    BY DEF ClientHandlers
  <1>9. Inv' /\ (NamedInv => NamedInv')
    BY <1>1, <1>2, <1>5, <1>6, <1>7, <1>8, TurnKeeps
  <1>10. QED
    BY <1>5, <1>9

LEMMA ClientStoppedInv ==
    Inv /\ client_stopped => Inv' /\ (NamedInv => NamedInv') /\ \E k : Turn(k)
  <1> SUFFICES ASSUME Inv, client_stopped
               PROVE  Inv' /\ (NamedInv => NamedInv') /\ \E k : Turn(k)
    OBVIOUS
  <1> DEFINE k == key_of_next
             c == [clients[k] EXCEPT !.stop = "stopped"]
  <1>0. TypeInv
    BY DEF Inv
  <1>1. Next_is(queue, "client_stopped") /\ k \in Nat /\ k = Head(queue).n
        /\ (k \in DOMAIN clients => clients[k] \in Client)
    BY NextClient DEF client_stopped
  <1>2. clients' = [clients EXCEPT ![k] = c] /\ queue' = Tail(queue)
        /\ UNCHANGED <<flags, dc_rest, at, net, outgoing, incoming, others>>
    BY DEF client_stopped
  <1>3. k \in DOMAIN clients =>
            /\ c \in Client /\ c.peer = clients[k].peer /\ c.port = clients[k].port
            /\ c.attempt = clients[k].attempt
    BY <1>1 DEF Client, Stops
  <1> HIDE DEF c, k
  <1>4. /\ DOMAIN clients' = DOMAIN clients
        /\ \A j \in DOMAIN clients : j # k => clients'[j] = clients[j]
        /\ k \in DOMAIN clients => clients'[k] = c
    BY <1>2
  <1>5. Turn(k)
    BY <1>3, <1>4 DEF Turn
  <1>6. Moves(queue, queue', {"client_stopped"}, {})
    BY <1>0, <1>1, <1>2, RunMoves
  <1>7. \A h : HasHandler(queue', h) => HasHandler(queue, h) \/ h.n = k
    BY <1>6 DEF Moves
  <1>8. "client_stopped" \in ClientHandlers
    BY DEF ClientHandlers
  <1>9. Inv' /\ (NamedInv => NamedInv')
    BY <1>1, <1>2, <1>5, <1>6, <1>7, <1>8, TurnKeeps
  <1>10. QED
    BY <1>5, <1>9

LEMMA AttemptCompletesInv ==
    Inv /\ attempt_completes => Inv' /\ (NamedInv => NamedInv') /\ \E k : Turn(k)
  <1> SUFFICES ASSUME Inv, attempt_completes
               PROVE  Inv' /\ (NamedInv => NamedInv') /\ \E k : Turn(k)
    OBVIOUS
  <1> USE DEF dc_rest, net, others
  <1>0. TypeInv /\ PlaceInv /\ ReceiveInv /\ ClientsInv
    BY DEF Inv
  <1>1. PICK k \in DOMAIN clients :
           /\ at # "gone" /\ clients' = [clients EXCEPT ![k].attempt = "completed"]
           /\ \E ec \in {"ok", "failed"} : queue' = Append(queue, Handler("handle_connect", ec, k))
    BY DEF attempt_completes
  <1>2. PICK ec \in {"ok", "failed"} : queue' = Append(queue, Handler("handle_connect", ec, k))
    BY <1>1
  <1>3. UNCHANGED <<flags, dc_rest, at, net, outgoing, incoming, others>>
    BY DEF attempt_completes
  <1> DEFINE h == Handler("handle_connect", ec, k)
  <1>4. k \in Nat /\ clients[k] \in Client /\ queue \in Seq(Ready)
    BY <1>0 DEF ClientsInv, TypeInv
  <1>5. h \in Ready /\ h.fn = "handle_connect" /\ h.n = k
    BY <1>4, HandlerReady, FunctionNames DEF ErrorCodes, ClientHandlers
  <1> HIDE DEF h
  <1>6. Moves(queue, queue', {}, {"handle_connect"})
    BY <1>2, <1>4, <1>5, MovesAppend DEF h
  <1>7. \A g : HasHandler(queue', g) => HasHandler(queue, g) \/ g.n = k
    <2>1. \A g : HasHandler(queue', g) <=> HasHandler(queue, g) \/ h = g
      BY <1>2, <1>4, <1>5, AppendFacts DEF h
    <2>2. QED
      BY <1>5, <2>1
  <1>8. Turn(k)
    <2>1. /\ DOMAIN clients' = DOMAIN clients
          /\ \A j \in DOMAIN clients : j # k => clients'[j] = clients[j]
          /\ clients'[k] = [clients[k] EXCEPT !.attempt = "completed"]
      BY <1>1
    <2>2. QED
      BY <1>4, <2>1 DEF Turn, Client, Attempts
  <1>9. TypeInv'
    BY <1>0, <1>3, <1>6 DEF TypeInv, Moves
  <1>10. PlaceInv'
    BY <1>0, <1>3, <1>6, PlaceKept
  <1>11. ReceiveInv'
    BY <1>0, <1>3, <1>6, ReceiveKept
  <1>12. \A j \in DOMAIN clients :
            /\ j \in Nat /\ clients'[j] \in Client
            /\ clients'[j].peer = clients[j].peer /\ clients'[j].port = clients[j].port
    BY <1>0, <1>8 DEF Turn, ClientsInv
  <1>13. DOMAIN clients' = DOMAIN clients
    BY <1>8 DEF Turn
  <1>14. ClientsInv'
    <2>1. \A j \in DOMAIN outgoing' : j \in DOMAIN clients' /\ outgoing'[j] = clients'[j].peer
      BY <1>0, <1>3, <1>12, <1>13 DEF ClientsInv
    <2>2. at' \in {"destroy_clients", "destroy_rest", "gone"} => DOMAIN outgoing' = {}
      BY <1>0, <1>3 DEF ClientsInv
    <2>3. at' \notin {"destroy_rest", "gone"} =>
             \A g : HasHandler(queue', g) /\ g.fn \in ClientHandlers => g.n \in DOMAIN clients'
      BY <1>0, <1>3, <1>7, <1>13 DEF ClientsInv
    <2>4. QED
      BY <1>12, <1>13, <2>1, <2>2, <2>3 DEF ClientsInv
  <1>15. NamedInv => NamedInv'
    BY <1>3, <1>12, <1>13 DEF NamedInv, Named
  <1>16. QED
    BY <1>8, <1>9, <1>10, <1>11, <1>14, <1>15 DEF Inv

-----------------------------------------------------------------------------
(***************************************************************************)
(* The other handlers, and the network.                                    *)
(***************************************************************************)
LEMMA EndingsInv ==
    Inv /\ (discovery_server_stopped \/ tcp_server_stopped \/ complete) =>
        Inv' /\ (NamedInv => NamedInv')
  <1> SUFFICES ASSUME Inv, discovery_server_stopped \/ tcp_server_stopped \/ complete
               PROVE  Inv' /\ (NamedInv => NamedInv')
    OBVIOUS
  <1> USE DEF discovery_server_stopped, tcp_server_stopped, complete, dc_rest, net, maps, others
  <1>0. TypeInv /\ PlaceInv /\ ReceiveInv /\ ClientsInv
    BY DEF Inv
  <1>1. PICK fn \in {"discovery_server_stopped", "tcp_server_stopped", "complete"} :
           /\ Next_is(queue, fn)
           /\ fn = "discovery_server_stopped" => discovery_server_stopped
           /\ fn = "tcp_server_stopped" => tcp_server_stopped
           /\ fn = "complete" => complete
    BY DEF Runs
  <1>2. queue' = Tail(queue) /\ UNCHANGED <<flags, dc_rest, at, net, maps>>
    OBVIOUS
  <1>3. Moves(queue, queue', {fn}, {}) /\ Queued(queue, fn)
    BY <1>0, <1>1, <1>2, RunMoves
  <1>4. TypeInv'
    BY <1>0, <1>2, <1>3 DEF TypeInv, Moves
  <1>5. ReceiveInv'
    BY <1>0, <1>1, <1>2, <1>3, ReceiveKept
  <1>6. ClientsInv'
    BY <1>0, <1>2, <1>3, ClientsKept
  <1>7. NamedInv => NamedInv'
    BY <1>2, NamedKept
  <1>8. \A f : Queued(queue', f) => Queued(queue, f)
    BY <1>3, QueuedHasHandler DEF Moves
  <1>9. AtMostOnce(queue', "connections_stopped")
    BY <1>0, <1>3 DEF PlaceInv, Moves
  <1>10. \/ server' = server /\ (answering' => answering)
         \/ /\ fn = "tcp_server_stopped" /\ server' = "stopped"
            /\ answering' => answering
    BY <1>1
  <1>11. UNCHANGED <<at, starts>>
    BY <1>2
  <1>12. PlaceInv'
    <2>1. /\ answering' => at \in {"up", "stop_discovery_client", "stop_discovery_server"}
          /\ at # "set_up_tcp_server" => server' # "none"
      BY <1>0, <1>10 DEF PlaceInv
    <2>2. at \in Serving => server' \in {"accepting", "idle"}
      BY <1>0, <1>3, <1>10 DEF PlaceInv, Serving
    <2>3. /\ at \in Serving \cup {"set_up_tcp_server"} => ~ Queued(queue', "tcp_server_stopped")
          /\ Queued(queue', "connections_stopped") => Destroying
          /\ at \in {"set_up_tcp_server", "set_up_discovery"} => starts = 0
      BY <1>0, <1>8 DEF PlaceInv
    <2>4. Destroying' <=> Destroying
      BY <1>2 DEF Destroying
    <2>5. QED
      BY <1>9, <1>11, <2>1, <2>2, <2>3, <2>4 DEF PlaceInv
  <1>13. QED
    BY <1>4, <1>5, <1>6, <1>7, <1>12 DEF Inv

LEMMA ConnectionsStoppedInv == Inv /\ connections_stopped => Inv' /\ (NamedInv => NamedInv')
  <1> SUFFICES ASSUME Inv, connections_stopped PROVE Inv' /\ (NamedInv => NamedInv')
    OBVIOUS
  <1> USE DEF connections_stopped, dc_rest, net, others
  <1>0. TypeInv /\ PlaceInv /\ ReceiveInv /\ ClientsInv
    BY DEF Inv
  <1>1. Next_is(queue, "connections_stopped")
    BY DEF Runs
  <1>2. /\ Moves(queue, queue', {"connections_stopped"}, {})
        /\ Queued(queue, "connections_stopped") /\ ~ Queued(queue', "connections_stopped")
    BY <1>0, <1>1, RunMoves DEF PlaceInv
  <1>3. at \in {"destroy_incoming", "destroy_outgoing"}
    BY <1>0, <1>2 DEF PlaceInv, Destroying
  <1>4. TypeInv'
    BY <1>0, <1>2 DEF TypeInv, Moves, Places
  <1>5. \A f : Queued(queue', f) => Queued(queue, f)
    BY <1>2, QueuedHasHandler DEF Moves
  <1>6. AtMostOnce(queue', "connections_stopped")
    BY <1>0, <1>2 DEF PlaceInv, Moves
  <1>7. PlaceInv'
    BY <1>0, <1>2, <1>3, <1>5, <1>6 DEF PlaceInv, Serving
  <1>8. ReceiveInv'
    BY <1>0, <1>2, ReceiveKept
  <1>9. \A h : HasHandler(queue', h) => HasHandler(queue, h)
    BY <1>2 DEF Moves
  <1>10. outgoing' = outgoing \/ DOMAIN outgoing' = {}
    BY DEF NoEntries
  <1>11. ClientsInv'
    BY <1>0, <1>3, <1>9, <1>10 DEF ClientsInv
  <1>12. NamedInv => NamedInv'
    BY NamedKept
  <1>13. QED
    BY <1>4, <1>7, <1>8, <1>11, <1>12 DEF Inv

LEMMA OnAcceptInv == Inv /\ on_accept => Inv' /\ (NamedInv => NamedInv')
  <1> SUFFICES ASSUME Inv, on_accept PROVE Inv' /\ (NamedInv => NamedInv')
    OBVIOUS
  <1> USE DEF on_accept, dc_vars, dc_rest, net, others
  <1>0. TypeInv /\ PlaceInv /\ ReceiveInv /\ ClientsInv
    BY DEF Inv
  <1>1. Moves(queue, queue', {}, {})
    BY <1>0, MovesNone DEF TypeInv
  <1>2. TypeInv'
    BY <1>0 DEF TypeInv
  <1>3. PlaceInv'
    BY <1>0, <1>1, PlaceKept
  <1>4. ReceiveInv'
    BY <1>0, <1>1, ReceiveKept
  <1>5. ClientsInv'
    BY <1>0, <1>1, ClientsKept
  <1>6. NamedInv => NamedInv'
    BY NamedKept
  <1>7. QED
    BY <1>2, <1>3, <1>4, <1>5, <1>6 DEF Inv

LEMMA AcceptFailsInv == Inv /\ accept_fails => Inv' /\ (NamedInv => NamedInv')
  <1> SUFFICES ASSUME Inv, accept_fails PROVE Inv' /\ (NamedInv => NamedInv')
    OBVIOUS
  <1> USE DEF accept_fails, dc_vars, dc_rest, net, maps
  <1>0. TypeInv /\ PlaceInv /\ ReceiveInv /\ ClientsInv
    BY DEF Inv
  <1>1. Moves(queue, queue', {}, {})
    BY <1>0, MovesNone DEF TypeInv
  <1>2. TypeInv'
    BY <1>0 DEF TypeInv
  <1>3. PlaceInv'
    BY <1>0 DEF PlaceInv, Destroying
  <1>4. ReceiveInv'
    BY <1>0, <1>1, ReceiveKept
  <1>5. ClientsInv'
    BY <1>0, <1>1, ClientsKept
  <1>6. NamedInv => NamedInv'
    BY NamedKept
  <1>7. QED
    BY <1>2, <1>3, <1>4, <1>5, <1>6 DEF Inv

LEMMA StutterInv == Inv /\ UNCHANGED vars => Inv' /\ (NamedInv => NamedInv')
  <1> SUFFICES ASSUME Inv, UNCHANGED vars PROVE Inv' /\ (NamedInv => NamedInv')
    OBVIOUS
  <1> USE DEF vars, dc_vars, dc_rest, net, maps, others
  <1>0. TypeInv /\ PlaceInv /\ ReceiveInv /\ ClientsInv
    BY DEF Inv
  <1>1. Moves(queue, queue', {}, {})
    BY <1>0, MovesNone DEF TypeInv
  <1>2. TypeInv'
    BY <1>0 DEF TypeInv
  <1>3. PlaceInv'
    BY <1>0, <1>1, PlaceKept
  <1>4. ReceiveInv'
    BY <1>0, <1>1, ReceiveKept
  <1>5. ClientsInv'
    BY <1>0, <1>1, ClientsKept
  <1>6. NamedInv => NamedInv'
    BY NamedKept
  <1>7. QED
    BY <1>2, <1>3, <1>4, <1>5, <1>6 DEF Inv

\* The receive ends: nothing but a datagram that has arrived leaves anything in the buffer.
LEMMA ReceiveEnds ==
    ASSUME Inv, NEW ec \in ErrorCodes, NEW n \in 0 .. 1,
           queue' = Append(queue, Handler("handle_response", ec, n)),
           receives = 1, receives' = 0, recv_buffer' # << >> => Heard(recv_buffer)',
           ec # "ok" \/ n = 0 => recv_buffer' = << >>,
           UNCHANGED <<posting, sends, starts, at, target, maps, others>>
    PROVE  Inv' /\ (NamedInv => NamedInv')
  <1> USE DEF maps, others
  <1>0. TypeInv /\ PlaceInv /\ ReceiveInv /\ ClientsInv
    BY DEF Inv
  <1>1. queue \in Seq(Ready)
    BY <1>0 DEF TypeInv
  <1> DEFINE h == Handler("handle_response", ec, n)
  <1>2. h \in Ready /\ h.fn = "handle_response" /\ h.ec = ec /\ h.n = n
    BY HandlerReady, FunctionNames
  <1>3. queue' = Append(queue, h)
    OBVIOUS
  <1> HIDE DEF h
  <1>4. Moves(queue, queue', {}, {"handle_response"})
    BY <1>1, <1>2, <1>3, MovesAppend
  <1>5. /\ \A f : AtMostOnce(queue, f) /\ ~ (h.fn = f /\ Queued(queue, f)) =>
                     AtMostOnce(queue', f)
        /\ \A f : Queued(queue', f) <=> Queued(queue, f) \/ h.fn = f
        /\ \A g : HasHandler(queue', g) <=> HasHandler(queue, g) \/ h = g
    BY <1>1, <1>2, <1>3, AppendFacts
  <1>6. TypeInv'
    BY <1>0, <1>1, <1>4 DEF TypeInv, Moves
  <1>7. PlaceInv'
    BY <1>0, <1>4, PlaceKept
  <1>8. ClientsInv'
    BY <1>0, <1>4, ClientsKept DEF ClientHandlers
  <1>9. NamedInv => NamedInv'
    BY NamedKept
  <1>10. /\ ~Starting /\ ~ Queued(queue, "handle_response") /\ starts # 0
         /\ AtMostOnce(queue, "start") /\ AtMostOnce(queue, "handle_response")
    BY <1>0 DEF ReceiveInv
  <1>11. AtMostOnce(queue', "start") /\ AtMostOnce(queue', "handle_response")
         /\ ~Starting' /\ Queued(queue', "handle_response")
    BY <1>2, <1>5, <1>10 DEF Starting
  <1>12. \A g : /\ HasHandler(queue', g) /\ g.fn = "handle_response"
                /\ g.ec # "ok" \/ g.n = 0
                => recv_buffer' = << >>
    BY <1>2, <1>5, <1>10, QueuedHasHandler
  <1>13. ReceiveInv'
    BY <1>10, <1>11, <1>12 DEF ReceiveInv, Starting
  <1>14. QED
    BY <1>6, <1>7, <1>8, <1>9, <1>13 DEF Inv

LEMMA DatagramArrivesInv == Inv /\ datagram_arrives => Inv' /\ (NamedInv => NamedInv')
  <1> SUFFICES ASSUME Inv, datagram_arrives PROVE Inv' /\ (NamedInv => NamedInv')
    OBVIOUS
  <1>0. TypeInv /\ PlaceInv /\ ReceiveInv
    BY DEF Inv
  <1>1. /\ receives = 1 /\ receives' = 0
        /\ UNCHANGED <<posting, sends, starts, at, target, maps, others>>
    BY <1>0 DEF TypeInv, datagram_arrives, DC!datagram_arrives, DC!user_vars
  <1>2. PICK n \in 0 .. 1 : queue' = Append(queue, Handler("handle_response", "ok", n))
    BY SameNames DEF datagram_arrives, DC!datagram_arrives, DC!Completes
  <1>3. queue'[Len(queue')].n = n
    <2>1. queue \in Seq(Ready)
      BY <1>0 DEF TypeInv
    <2> DEFINE h == Handler("handle_response", "ok", n)
    <2>2. h \in Ready /\ h.n = n
      BY HandlerReady, FunctionNames DEF ErrorCodes
    <2>3. queue' = Append(queue, h)
      BY <1>2
    <2> HIDE DEF h
    <2>4. queue'[Len(queue')] = h
      BY <2>1, <2>2, <2>3
    <2>5. QED
      BY <2>2, <2>4
  <1>4. recv_buffer' \in IF n > 0 THEN arriving ELSE {<< >>}
    BY <1>3 DEF datagram_arrives
  <1>5. \A d \in arriving : Heard(d)
    <2>1. server # "none"
      BY <1>0, <1>1 DEF PlaceInv, ReceiveInv
    <2>2. QED
      BY <2>1 DEF arriving, on_disvovered, Heard
  <1>6. recv_buffer' # << >> => Heard(recv_buffer)'
    <2>1. recv_buffer' # << >> => Heard(recv_buffer')
      BY <1>4, <1>5
    <2>2. QED
      BY <1>1, <2>1 DEF Heard
  <1>7. "ok" \in ErrorCodes
    BY DEF ErrorCodes
  <1>8. n = 0 => recv_buffer' = << >>
    BY <1>4
  <1>9. QED
    BY <1>1, <1>2, <1>6, <1>7, <1>8, ReceiveEnds

LEMMA ReceiveFailsInv == Inv /\ receive_fails => Inv' /\ (NamedInv => NamedInv')
  <1> SUFFICES ASSUME Inv, receive_fails PROVE Inv' /\ (NamedInv => NamedInv')
    OBVIOUS
  <1>0. TypeInv /\ ReceiveInv
    BY DEF Inv
  <1>1. /\ receives = 1 /\ receives' = 0
        /\ UNCHANGED <<posting, sends, starts, at, recv_buffer, target, maps, others>>
        /\ queue' = Append(queue, Handler("handle_response", "failed", 0))
    BY <1>0, SameNames
       DEF TypeInv, receive_fails, DC!receive_fails, DC!user_vars, DC!Completes, net
  <1>2. recv_buffer' = << >>
    BY <1>0, <1>1 DEF ReceiveInv
  <1>3. "failed" \in ErrorCodes /\ 0 \in 0 .. 1
    BY DEF ErrorCodes
  <1>4. QED
    BY <1>1, <1>2, <1>3, ReceiveEnds

\* What is read from a text of words and numbers is an address and numbers.
LEMMA InfoType ==
    ASSUME NEW d \in Seq(Token), NEW info \in parse(d)
    PROVE  /\ info.ip_address \in Addresses /\ info.port \in 0 .. PortMax
           /\ info.timestamp_ms \in Nat /\ d # << >>
  <1> DEFINE first == find(d, 0)
             second == find(d, first)
             third == find(d, second)
             port_str == SubSeq(d, second + 1, third - 1)
             timestamp_str == SubSeq(d, third + 1, Len(d))
             ip_str == SubSeq(d, first + 1, second - 1)
  <1>1. /\ info.ip_address = ip_str[1][1] /\ info.port = port_of(port_str)
        /\ info.timestamp_ms = timestamp_str[1][2]
        /\ IsNumber(port_str) /\ IsNumber(timestamp_str)
        /\ \E a \in Addresses : ip_str = <<Word(a)>>
        /\ first # 0
    <2> DEFINE read == [service_name |-> SubSeq(d, 1, first - 1), ip_address |-> ip_str[1][1],
                        port |-> port_of(port_str), timestamp_ms |-> timestamp_str[1][2]]
               ok == /\ first # 0 /\ second # 0 /\ third # 0
                     /\ SubSeq(d, 1, first - 1) # << >> /\ ip_str # << >>
                     /\ IsNumber(port_str) /\ IsNumber(timestamp_str)
                     /\ \E a \in Addresses : ip_str = <<Word(a)>>
    <2>1. parse(d) = IF ok THEN {read} ELSE {}
      BY DEF parse
    <2>2. ok /\ info = read
      <3> HIDE DEF ok, read
      <3>1. QED
        BY <2>1
    <2> HIDE DEF first, second, third, ip_str, port_str, timestamp_str
    <2>3. QED
      BY <2>2
  <1>2. Len(d) \in Nat /\ \A i \in 1 .. Len(d) : d[i] \in Token
    OBVIOUS
  <1>3. \A i \in 0 .. Len(d) : find(d, i) \in 0 .. Len(d)
    <2>1. TAKE i \in 0 .. Len(d)
    <2>2. i \in Nat
      BY <1>2
    <2>3. find(d, i) = 0 \/ find(d, i) \in i + 1 .. Len(d)
      BY <1>2, <2>2, FindFirst
    <2>4. QED
      BY <1>2, <2>2, <2>3
  <1>4. first \in 0 .. Len(d)
    BY <1>2, <1>3
  <1>5. second \in 0 .. Len(d)
    BY <1>3, <1>4
  <1>6. third \in 0 .. Len(d)
    BY <1>3, <1>5
  <1> HIDE DEF first, second, third
  <1>7. port_str \in Seq(Token)
    <2>1. second + 1 \in Int /\ third - 1 \in Int
          /\ \A i \in second + 1 .. third - 1 : d[i] \in Token
      BY <1>2, <1>5, <1>6
    <2>2. QED
      BY <2>1, SubSeqProperties
  <1>8. timestamp_str \in Seq(Token)
    <2>1. third + 1 \in Int /\ Len(d) \in Int
          /\ \A i \in third + 1 .. Len(d) : d[i] \in Token
      BY <1>2, <1>6
    <2>2. QED
      BY <2>1, SubSeqProperties
  <1> HIDE DEF port_str, timestamp_str, ip_str
  <1>9. \A text \in Seq(Token) : IsNumber(text) => text[1][2] \in Nat
    <2>1. TAKE text \in Seq(Token)
    <2>2. HAVE IsNumber(text)
    <2>3. text # << >> /\ text[1][2] >= 0
      BY <2>2 DEF IsNumber
    <2>4. text[1] \in Token
      BY <2>3
    <2>5. text[1][2] \in Int
      BY <2>4 DEF Token
    <2>6. QED
      BY <2>3, <2>5
  <1>10. info.timestamp_ms \in Nat
    BY <1>1, <1>8, <1>9
  <1>11. port_str[1][2] \in Nat
    BY <1>1, <1>7, <1>9
  <1>12. info.port \in 0 .. PortMax
    BY <1>1, <1>11 DEF port_of
  <1>13. info.ip_address \in Addresses
    <2>1. PICK a \in Addresses : ip_str = <<Word(a)>>
      BY <1>1
    <2>2. ip_str[1][1] = a
      BY <2>1 DEF Word
    <2>3. QED
      BY <1>1, <2>1, <2>2
  <1>14. d # << >>
    BY <1>1, <1>4 DEF first
  <1>15. QED
    BY <1>10, <1>12, <1>13, <1>14

\* Replies for a target without a colon are understood.
LEMMA ReplyHeard ==
    ASSUME NEW text \in Targets, NEW r \in Replies
    PROVE  /\ text \in Seq(Token) /\ r[1] \in Addresses /\ r[1] # ":" /\ r[2] \in Nat
           /\ construct(text, r[1], TcpPort, r[2]) # << >>
           /\ NoColon(text) =>
                 parse(construct(text, r[1], TcpPort, r[2])) =
                     IF text # << >>
                     THEN {[service_name |-> text, ip_address |-> r[1], port |-> TcpPort,
                            timestamp_ms |-> r[2]]}
                     ELSE {}
  <1>1. text \in Seq(Token) /\ r[1] \in Addresses /\ r[1] # ":" /\ r[2] \in Nat
    OBVIOUS
  <1>2. TcpPort \in Nat /\ TcpPort % (PortMax + 1) = TcpPort
    OBVIOUS
  <1>3. construct(text, r[1], TcpPort, r[2]) # << >>
    <2>1. /\ Len(text) \in Nat
          /\ Len(construct(text, r[1], TcpPort, r[2])) = Len(text) + 6
      BY <1>1, ConstructParts
    <2>2. Len(<< >>) = 0
      OBVIOUS
    <2>3. QED
      BY <2>1, <2>2
  <1>4. NoColon(text) =>
           parse(construct(text, r[1], TcpPort, r[2])) =
               IF text # << >> /\ r[1] \in Addresses
               THEN {[service_name |-> text, ip_address |-> r[1],
                      port |-> TcpPort % (PortMax + 1), timestamp_ms |-> r[2]]}
               ELSE {}
    BY <1>1, <1>2, ParseReply
  <1>5. QED
    BY <1>1, <1>2, <1>3, <1>4

\* Whatever else arrives is not understood, or is in the form of a reply.
NoiseHasForm ==
    \A d \in Noise : parse(d) # {} =>
        \E text \in Seq(Token), a \in Addresses, port \in 0 .. 2 * PortMax + 1, k \in Nat :
            NoColon(text) /\ d = construct(text, a, port, k)

LEMMA FoundType ==
    ASSUME TypeInv, ReceiveInv, NEW info \in on_discovery_response(recv_buffer),
           recv_buffer # << >>
    PROVE  /\ info.ip_address \in Addresses /\ info.port \in 0 .. PortMax
           /\ info.timestamp_ms \in Nat /\ info.timestamp_ms \in Times
           /\ info.timestamp_ms \notin DOMAIN clients \cup DOMAIN outgoing
           /\ NoiseHasForm =>
                 \A c : c.peer = info.ip_address /\ c.port = info.port =>
                           Named(c, info.timestamp_ms)
  <1>1. /\ info \in parse(recv_buffer) /\ info.service_name = target
        /\ info.timestamp_ms \notin DOMAIN clients \cup DOMAIN outgoing
    BY DEF on_discovery_response, known
  <1>2. Heard(recv_buffer) /\ target \in Targets /\ target \in Seq(Token)
    BY DEF ReceiveInv, TypeInv
  <1>3. CASE recv_buffer \in Noise
    <2>1. recv_buffer \in Seq(Token)
      BY <1>3
    <2>2. /\ info.ip_address \in Addresses /\ info.port \in 0 .. PortMax
          /\ info.timestamp_ms \in Nat
      BY <1>1, <2>1, InfoType
    <2>3. NoiseHasForm =>
             \A c : c.peer = info.ip_address /\ c.port = info.port => Named(c, info.timestamp_ms)
      <3>1. HAVE NoiseHasForm
      <3>2. PICK text \in Seq(Token), a \in Addresses, port \in 0 .. 2 * PortMax + 1, k \in Nat :
               NoColon(text) /\ recv_buffer = construct(text, a, port, k)
        BY <1>1, <1>3, <3>1 DEF NoiseHasForm
      <3>3. a # ":" /\ port \in Nat
        OBVIOUS
      <3>4. parse(recv_buffer) =
               IF text # << >> /\ a \in Addresses
               THEN {[service_name |-> text, ip_address |-> a, port |-> port % (PortMax + 1),
                      timestamp_ms |-> k]}
               ELSE {}
        BY <3>2, <3>3, ParseReply
      <3>5. info = [service_name |-> text, ip_address |-> a, port |-> port % (PortMax + 1),
                    timestamp_ms |-> k]
        BY <1>1, <3>4
      <3>6. text = target /\ info.ip_address = a /\ info.port = port % (PortMax + 1)
            /\ info.timestamp_ms = k
        BY <1>1, <3>5
      <3>7. QED
        BY <1>3, <3>2, <3>6 DEF Named
    <2>4. info.timestamp_ms \in Times
      BY <1>1, <1>3, TimesAssumption
    <2>5. QED
      BY <1>1, <2>2, <2>3, <2>4
  <1>4. CASE \E r \in Replies : recv_buffer = construct(target, r[1], TcpPort, r[2])
    <2>1. PICK r \in Replies : recv_buffer = construct(target, r[1], TcpPort, r[2])
      BY <1>4
    <2>2. NoColon(target)
      BY <1>1, <1>2, <2>1, ServiceHasNoColon
    <2>3. info = [service_name |-> target, ip_address |-> r[1], port |-> TcpPort,
                  timestamp_ms |-> r[2]]
      <3>1. parse(recv_buffer) =
               IF target # << >>
               THEN {[service_name |-> target, ip_address |-> r[1], port |-> TcpPort,
                      timestamp_ms |-> r[2]]}
               ELSE {}
        BY <1>2, <2>1, <2>2, ReplyHeard
      <3>2. QED
        BY <1>1, <3>1
    <2>4. /\ info.ip_address = r[1] /\ info.port = TcpPort /\ info.timestamp_ms = r[2]
          /\ r[1] \in Addresses /\ r[2] \in Nat /\ TcpPort \in 0 .. PortMax
          /\ <<r[1], r[2]>> \in Replies /\ r[2] \in Times
      <3>1. info.ip_address = r[1] /\ info.port = TcpPort /\ info.timestamp_ms = r[2]
        BY <2>3
      <3>2. r \in Peers \X Times
        OBVIOUS
      <3>3. r = <<r[1], r[2]>> /\ r[1] \in Peers /\ r[2] \in Times
        BY <3>2
      <3>4. <<r[1], r[2]>> \in Replies
        BY <3>3, Zenon
      <3>5. r[1] \in Addresses /\ r[2] \in Nat
        BY <1>2, ReplyHeard
      <3>6. TcpPort \in 0 .. PortMax
        OBVIOUS
      <3>7. QED
        BY <3>1, <3>3, <3>4, <3>5, <3>6
    <2>5. \A c : c.peer = info.ip_address /\ c.port = info.port => Named(c, info.timestamp_ms)
      BY <2>4 DEF Named
    <2>6. QED
      BY <1>1, <2>4, <2>5
  <1>5. QED
    BY <1>2, <1>3, <1>4 DEF Heard

\* The clients that were in the map are left alone.
Kept == \A k \in DOMAIN clients : k \in DOMAIN clients' /\ clients'[k] = clients[k]

LEMMA HandleResponseInv ==
    Inv /\ handle_response => Inv' /\ (NoiseHasForm /\ NamedInv => NamedInv') /\ Kept
  <1> SUFFICES ASSUME Inv, handle_response
               PROVE  Inv' /\ (NoiseHasForm /\ NamedInv => NamedInv') /\ Kept
    OBVIOUS
  <1>0. TypeInv /\ PlaceInv /\ ReceiveInv /\ ClientsInv
    BY DEF Inv
  <1> DEFINE heard == Head(queue).ec = "ok" /\ Head(queue).n > 0
             found == IF heard /\ ~Destroyed THEN on_discovery_response(recv_buffer) ELSE {}
             key(info) == info.timestamp_ms
             q(info) == Append(Tail(queue), Handler("async_resolve", "ok", key(info)))
  <1>1. Next_is(queue, "handle_response")
    BY DEF handle_response, Runs
  <1>2. /\ Moves(queue, Tail(queue), {"handle_response"}, {}) /\ Tail(queue) \in Seq(Ready)
        /\ Queued(queue, "handle_response") /\ ~ Queued(Tail(queue), "handle_response")
    BY <1>0, <1>1, RunMoves DEF ReceiveInv
  <1>3. receives = 0 /\ ~Starting /\ starts # 0 /\ AtMostOnce(queue, "start")
    BY <1>0, <1>2 DEF ReceiveInv
  <1>4. /\ receives' \in 0 .. 1 /\ recv_buffer' = << >>
        /\ UNCHANGED <<posting, sends, starts, at, target, outgoing, incoming, server, answering>>
    BY <1>3 DEF handle_response, others
  <1>5. \/ /\ clients' = clients
           /\ queue' = Tail(queue) \/ queue' = Append(Tail(queue), Posted("stopped"))
        \/ \E info \in found :
              /\ on_peer_discovered(info)
              /\ queue' = q(info) \/ queue' = Append(q(info), Posted("stopped"))
    <2>1. \/ /\ found = {} /\ UNCHANGED clients
             /\ DC!resolve_on_stopped(flags', Tail(queue))
          \/ \E info \in found :
                /\ on_peer_discovered(info) /\ DC!resolve_on_stopped(flags', q(info))
      BY DEF handle_response
    <2> HIDE DEF found, q
    <2>2. QED
      BY <2>1, SameNames DEF DC!resolve_on_stopped
  \* What does not depend on whether a peer was found.
  <1>6. ASSUME NEW F, F \subseteq {"stopped", "async_resolve"},
               Moves(queue, queue', {"handle_response"}, F), ~ Queued(queue', "handle_response")
        PROVE  TypeInv' /\ PlaceInv' /\ ReceiveInv'
    <2>1. TypeInv'
      BY <1>0, <1>4, <1>6 DEF TypeInv, Moves
    <2>2. PlaceInv'
      BY <1>0, <1>4, <1>6, PlaceKept
    <2>3. AtMostOnce(queue', "start") /\ AtMostOnce(queue', "handle_response")
      BY <1>0, <1>6 DEF ReceiveInv, Moves
    <2>4. ~Starting'
      BY <1>3, <1>4, <1>6, QueuedHasHandler DEF Starting, Moves
    <2>5. ReceiveInv'
      BY <1>3, <1>4, <1>6, <2>3, <2>4 DEF ReceiveInv, Starting
    <2>6. QED
      BY <2>1, <2>2, <2>5
  <1>7. CASE /\ clients' = clients
             /\ queue' = Tail(queue) \/ queue' = Append(Tail(queue), Posted("stopped"))
    <2>1. Moves(Tail(queue), queue', {}, {"stopped"})
      BY <1>2, <1>7, ResolveMoves
    <2>2. Moves(queue, queue', {"handle_response"}, {"stopped"})
      <3>1. Moves(queue, queue', {"handle_response"} \cup {}, {} \cup {"stopped"})
        BY <1>2, <2>1, MovesBoth
      <3>2. QED
        BY <3>1, MovesWeaker
    <2>3. ~ Queued(queue', "handle_response")
      BY <1>2, <2>1, QueuedHasHandler DEF Moves
    <2>4. TypeInv' /\ PlaceInv' /\ ReceiveInv'
      BY <1>6, <2>2, <2>3
    <2>5. ClientsInv'
      BY <1>0, <1>4, <1>7, <2>2, ClientsKept DEF ClientHandlers
    <2>6. NamedInv => NamedInv'
      BY <1>4, <1>7, NamedKept
    <2>7. Kept
      BY <1>7 DEF Kept
    <2>8. QED
      BY <2>4, <2>5, <2>6, <2>7 DEF Inv
  <1>8. CASE \E info \in found :
                /\ on_peer_discovered(info)
                /\ queue' = q(info) \/ queue' = Append(q(info), Posted("stopped"))
    <2>1. PICK info \in found :
             /\ on_peer_discovered(info)
             /\ queue' = q(info) \/ queue' = Append(q(info), Posted("stopped"))
      BY <1>8
    <2>2. info \in on_discovery_response(recv_buffer) /\ ~Destroyed
      BY <2>1
    <2>3. recv_buffer # << >>
      <3>1. SUFFICES ASSUME recv_buffer = << >> PROVE FALSE
        OBVIOUS
      <3>2. info \in parse(<< >>)
        BY <2>2, <3>1 DEF on_discovery_response
      <3>3. << >> \in Seq(Token)
        OBVIOUS
      <3>4. QED
        BY <3>2, <3>3, InfoType
    <2> DEFINE k == key(info)
               h == Handler("async_resolve", "ok", k)
               c == [peer |-> info.ip_address, port |-> info.port, attempt |-> "posted",
                     stop |-> "no", late |-> at \in {"stop_clients", "destroy_incoming"}]
    <2>4. /\ info.ip_address \in Addresses /\ info.port \in 0 .. PortMax /\ k \in Nat
          /\ k \notin DOMAIN clients \cup DOMAIN outgoing
          /\ NoiseHasForm =>
                \A e : e.peer = info.ip_address /\ e.port = info.port => Named(e, k)
      BY <1>0, <2>2, <2>3, FoundType
    <2>5. c \in Client /\ c.peer = info.ip_address /\ c.port = info.port
      BY <2>4 DEF Client, Attempts, Stops
    <2>6. clients' = Put(clients, k, c)
      BY <2>1 DEF on_peer_discovered
    <2>7. h \in Ready /\ h.fn = "async_resolve" /\ h.n = k
      BY <2>4, HandlerReady, FunctionNames DEF ErrorCodes, ClientHandlers
    <2>8. q(info) = Append(Tail(queue), h)
      OBVIOUS
    <2> HIDE DEF c, h, k, q, found, key
    <2>9. /\ DOMAIN clients' = DOMAIN clients \cup {k} /\ clients'[k] = c
          /\ \A j \in DOMAIN clients : clients'[j] = clients[j]
      BY <2>4, <2>6 DEF Put
    <2>10. /\ Moves(Tail(queue), q(info), {}, {"async_resolve"}) /\ q(info) \in Seq(Ready)
           /\ \A g : HasHandler(q(info), g) => HasHandler(Tail(queue), g) \/ g = h
      <3>1. Moves(Tail(queue), q(info), {}, {"async_resolve"})
        BY <1>2, <2>7, <2>8, MovesAppend
      <3>2. \A g : HasHandler(q(info), g) => HasHandler(Tail(queue), g) \/ g = h
        <4>1. \A g : HasHandler(Append(Tail(queue), h), g) <=> HasHandler(Tail(queue), g) \/ h = g
          BY <1>2, <2>7, AppendFacts
        <4>2. QED
          BY <2>8, <4>1
      <3>3. QED
        BY <3>1, <3>2 DEF Moves
    <2>11. Moves(q(info), queue', {}, {"stopped"})
      BY <2>1, <2>10, ResolveMoves
    <2>12. Moves(queue, queue', {"handle_response"}, {"stopped", "async_resolve"})
      <3>1. Moves(queue, q(info), {"handle_response"} \cup {}, {} \cup {"async_resolve"})
        BY <1>2, <2>10, MovesBoth
      <3>2. Moves(queue, queue', ({"handle_response"} \cup {}) \cup {},
                  ({} \cup {"async_resolve"}) \cup {"stopped"})
        BY <2>11, <3>1, MovesBoth
      <3>3. QED
        BY <3>2, MovesWeaker
    <2>13. ~ Queued(queue', "handle_response")
      <3>1. ~ Queued(q(info), "handle_response")
        BY <1>2, <2>10, QueuedHasHandler DEF Moves
      <3>2. QED
        BY <2>11, <3>1, QueuedHasHandler DEF Moves
    <2>14. TypeInv' /\ PlaceInv' /\ ReceiveInv'
      BY <1>6, <2>12, <2>13
    <2>15. \A g : HasHandler(queue', g) /\ g.fn \in ClientHandlers =>
                     HasHandler(queue, g) \/ g.n = k
      <3>1. TAKE g
      <3>2. HAVE HasHandler(queue', g) /\ g.fn \in ClientHandlers
      <3>3. HasHandler(q(info), g)
        BY <2>11, <3>2 DEF Moves, ClientHandlers
      <3>4. HasHandler(Tail(queue), g) \/ g = h
        BY <2>10, <3>3
      <3>5. QED
        BY <1>2, <2>7, <3>4 DEF Moves
    <2>16. ClientsInv'
      <3>1. \A j \in DOMAIN clients' : j \in Nat /\ clients'[j] \in Client
        BY <1>0, <2>4, <2>5, <2>9 DEF ClientsInv
      <3>2. \A j \in DOMAIN outgoing' : j \in DOMAIN clients' /\ outgoing'[j] = clients'[j].peer
        BY <1>0, <1>4, <2>9 DEF ClientsInv
      <3>3. at' \in {"destroy_clients", "destroy_rest", "gone"} => DOMAIN outgoing' = {}
        BY <1>0, <1>4 DEF ClientsInv
      <3>4. at' \notin {"destroy_rest", "gone"} =>
               \A g : HasHandler(queue', g) /\ g.fn \in ClientHandlers => g.n \in DOMAIN clients'
        BY <1>0, <1>4, <2>9, <2>15 DEF ClientsInv
      <3>5. QED
        BY <3>1, <3>2, <3>3, <3>4 DEF ClientsInv
    <2>17. NoiseHasForm /\ NamedInv => NamedInv'
      <3>1. HAVE NoiseHasForm /\ NamedInv
      <3>2. Named(c, k)
        BY <2>4, <2>5, <3>1
      <3>3. \A e, j : Named(e, j)' <=> Named(e, j)
        BY <1>4 DEF Named
      <3>4. \A j \in DOMAIN clients' : Named(clients'[j], j)
        BY <2>9, <3>1, <3>2 DEF NamedInv
      <3>5. QED
        BY <1>4, <3>4 DEF NamedInv, Named
    <2>18. Kept
      BY <2>9 DEF Kept
    <2>19. QED
      BY <2>14, <2>16, <2>17, <2>18 DEF Inv
  <1> HIDE DEF found, q
  <1>9. QED
    BY <1>5, <1>7, <1>8

LEMMA NextInv == Inv /\ [Next]_vars => Inv' /\ (NoiseHasForm /\ NamedInv => NamedInv')
  <1> SUFFICES ASSUME Inv, [Next]_vars
               PROVE  Inv' /\ (NoiseHasForm /\ NamedInv => NamedInv')
    OBVIOUS
  <1>1. CASE Constructor \/ stop_discovery_client
    BY <1>1, ConstructorInv, StopDiscoveryClientInv
  <1>2. CASE Destructor
    <2>1. CASE \E k \in DOMAIN clients : stop_client(k)
      BY <2>1, StopClientInv
    <2>2. CASE ~ (\E k \in DOMAIN clients : stop_client(k))
      BY <1>2, <2>2, StopServersInv, StopClientsInv, ConnectionsInv, DestroyClientsInv,
         DestroyRestInv DEF Destructor
    <2>3. QED
      BY <2>1, <2>2
  <1>3. CASE spin \/ Terminated \/ UNCHANGED vars
    BY <1>3, StutterInv DEF spin, Terminated
  <1>4. CASE discovery_client
    <2>1. \/ DC!run_start \/ DC!run_cancel
          \/ DC!handle_send_complete \/ DC!handle_timeout \/ DC!run_stopped
      BY <1>4 DEF discovery_client
    <2>2. UNCHANGED <<at, net, maps, others>>
      BY <1>4 DEF discovery_client
    <2>3. QED
      BY <2>1, <2>2, RunStartInv, RunCancelInv, OtherHandlersInv
  <1>5. CASE handle_response
    BY <1>5, HandleResponseInv
  <1>6. CASE async_resolve \/ handle_connect \/ client_cancel \/ client_stopped
    BY <1>6, AsyncResolveInv, HandleConnectInv, ClientCancelInv, ClientStoppedInv
  <1>7. CASE \/ discovery_server_stopped \/ tcp_server_stopped \/ connections_stopped \/ complete
    BY <1>7, EndingsInv, ConnectionsStoppedInv
  <1>8. CASE \/ on_accept \/ accept_fails \/ datagram_arrives \/ receive_fails
             \/ attempt_completes \/ DiscoveryClientGoesOn
    BY <1>8, OnAcceptInv, AcceptFailsInv, DatagramArrivesInv, ReceiveFailsInv,
       AttemptCompletesInv, DiscoveryGoesOnInv
  <1>9. QED
    BY <1>1, <1>2, <1>3, <1>4, <1>5, <1>6, <1>7, <1>8 DEF Next, IoThread

LEMMA InvAlways == Spec => []Inv
  <1>1. Init => Inv
    BY InitInv
  <1>2. Inv /\ [Next]_vars => Inv'
    BY NextInv
  <1>3. QED
    BY <1>1, <1>2, PTL DEF Spec

-----------------------------------------------------------------------------
(***************************************************************************)
(* The theorems.                                                           *)
(***************************************************************************)
\* Whoever finds a bridge by discovery finds its TCP server started and not stopped, and
\* so accepting unless an accept has failed: the constructor sets the TCP server up before
\* the discovery server answers, the destructor stops the discovery server and waits for
\* it before it stops the TCP server.
THEOREM BridgeReachable == Spec => []FoundIsAccepting
  <1>1. Inv => FoundIsAccepting
    BY DEF Inv, PlaceInv, Serving, FoundIsAccepting
  <1>2. QED
    BY <1>1, InvAlways, PTL

\* Every attempt goes to an address and a port that were named together with its key, and
\* every connection belongs to the attempt with its key: the parser takes a reply apart as
\* it was put together, and the buffer holds the datagram of the handler that runs.
THEOREM BridgeConnects ==
    ASSUME NoiseHasForm
    PROVE  Spec => []ConnectsToTheNamed
  <1>1. Init => Inv /\ NamedInv
    BY InitInv
  <1>2. Inv /\ NamedInv /\ [Next]_vars => (Inv /\ NamedInv)'
    BY NextInv
  <1>3. Inv /\ NamedInv => ConnectsToTheNamed
    BY DEF Inv, ClientsInv, NamedInv, ConnectsToTheNamed
  <1>4. QED
    BY <1>1, <1>2, <1>3, PTL DEF Spec

\* Clients in the map keep their place.
Keep ==
    at' # "destroy_rest" =>
        \A k \in DOMAIN clients :
            /\ k \in DOMAIN clients' /\ clients'[k].peer = clients[k].peer
            /\ clients'[k].attempt = "posted" => clients[k].attempt = "posted"

LEMMA NextKeeps == Inv /\ [Next]_vars => Keep
  <1> SUFFICES ASSUME Inv, [Next]_vars PROVE Keep
    OBVIOUS
  <1>0. ClientsInv
    BY DEF Inv
  <1>1. CASE clients' = clients
    BY <1>1 DEF Keep
  <1>2. CASE destroy_clients
    BY <1>2 DEF destroy_clients, Keep
  <1>3. CASE \E k : Turn(k)
    BY <1>3 DEF Turn, Keep
  <1>4. CASE \E k \in DOMAIN clients : stop_client(k)
    <2>1. PICK k \in DOMAIN clients : clients' = [clients EXCEPT ![k].stop = "signaled"]
      BY <1>4 DEF stop_client
    <2>2. clients[k] \in Client
      BY <1>0 DEF ClientsInv
    <2>3. /\ DOMAIN clients' = DOMAIN clients
          /\ \A j \in DOMAIN clients : j # k => clients'[j] = clients[j]
          /\ clients'[k] = [clients[k] EXCEPT !.stop = "signaled"]
      BY <2>1
    <2>4. QED
      BY <2>2, <2>3 DEF Client, Keep
  <1>5. CASE handle_response
    <2>1. Kept
      BY <1>5, HandleResponseInv
    <2>2. QED
      BY <2>1 DEF Kept, Keep
  <1>6. CASE async_resolve \/ handle_connect \/ client_cancel \/ client_stopped \/ attempt_completes
    BY <1>3, <1>6, AsyncResolveInv, HandleConnectInv, ClientCancelInv, ClientStoppedInv,
       AttemptCompletesInv
  <1>7. CASE Constructor \/ stop_discovery_client
    BY <1>1, <1>7 DEF Constructor, set_up_tcp_server, set_up_discovery_client,
       set_up_discovery_server, stop_discovery_client, maps
  <1>8. CASE \/ stop_discovery_server \/ stop_tcp_server \/ stop_clients
             \/ end_of_loop \/ destroy_incoming \/ destroy_outgoing \/ destroy_rest
    BY <1>1, <1>8 DEF stop_discovery_server, stop_tcp_server, stop_clients, end_of_loop,
       destroy_incoming, destroy_outgoing, destroy_connections, destroy_rest, post_stop, maps
  <1>9. CASE spin \/ Terminated \/ UNCHANGED vars
    BY <1>1, <1>9 DEF spin, Terminated, vars, maps
  <1>10. CASE discovery_client \/ discovery_server_stopped \/ tcp_server_stopped
              \/ connections_stopped \/ complete
    BY <1>1, <1>10 DEF discovery_client, discovery_server_stopped, tcp_server_stopped,
       connections_stopped, complete, maps
  <1>11. CASE on_accept \/ accept_fails \/ datagram_arrives \/ receive_fails
              \/ DiscoveryClientGoesOn
    BY <1>1, <1>11 DEF on_accept, accept_fails, datagram_arrives, receive_fails,
       DiscoveryClientGoesOn, maps
  <1>12. QED
    BY <1>2, <1>4, <1>5, <1>6, <1>7, <1>8, <1>9, <1>10, <1>11 DEF Next, Destructor, IoThread

\* A client in the map, which handlers that are ready may point to, is never replaced, nor
\* its attempt begun again.
THEOREM BridgeKeepsClients == Spec => ClientsAreKept
  <1>1. Inv /\ [Next]_vars => [Keep]_vars
    BY NextKeeps
  <1>2. QED
    BY <1>1, InvAlways, PTL DEF Spec, ClientsAreKept, Keep

\* A reply that is read leads to a client under its key.
Tried ==
    \A p \in Peers, t \in Times :
        /\ recv_buffer = construct(target, p, TcpPort, t) /\ recv_buffer' # recv_buffer
        /\ target # << >> /\ find(target, 0) = 0 /\ ~Destroyed
        => t \in DOMAIN clients'

LEMMA NextTries == Inv /\ [Next]_vars => Tried
  <1> SUFFICES ASSUME Inv, [Next]_vars, NEW p \in Peers, NEW t \in Times,
                      recv_buffer = construct(target, p, TcpPort, t), recv_buffer' # recv_buffer,
                      target # << >>, find(target, 0) = 0, ~Destroyed
               PROVE  t \in DOMAIN clients'
    BY DEF Tried
  <1>0. TypeInv /\ ReceiveInv /\ ClientsInv
    BY DEF Inv
  <1>1. target \in Seq(Token) /\ Len(target) \in Nat
    BY <1>0 DEF TypeInv
  <1>2. recv_buffer # << >>
    <2>1. Len(recv_buffer) = Len(target) + 6
      BY <1>1, ConstructParts
    <2>2. Len(<< >>) = 0
      OBVIOUS
    <2>3. QED
      BY <1>1, <2>1, <2>2
  <1>3. NoColon(target)
    <2>1. 0 \in Nat
      OBVIOUS
    <2>2. \/ \A m \in 0 + 1 .. Len(target) : target[m] # Colon
          \/ find(target, 0) \in 0 + 1 .. Len(target)
      BY <1>1, <2>1, FindFirst
    <2>3. QED
      BY <1>1, <2>2 DEF NoColon
  <1>4. parse(recv_buffer) = {[service_name |-> target, ip_address |-> p, port |-> TcpPort,
                               timestamp_ms |-> t]}
    <2>1. p # ":" /\ p \in Addresses /\ TcpPort \in Nat /\ t \in Nat
          /\ TcpPort % (PortMax + 1) = TcpPort
      OBVIOUS
    <2>2. parse(construct(target, p, TcpPort, t)) =
             IF target # << >> /\ p \in Addresses
             THEN {[service_name |-> target, ip_address |-> p,
                    port |-> TcpPort % (PortMax + 1), timestamp_ms |-> t]}
             ELSE {}
      BY <1>1, <1>3, <2>1, ParseReply
    <2>3. QED
      BY <2>1, <2>2
  <1>5. handle_response
    <2>1. ~datagram_arrives
      BY <1>0, <1>2 DEF datagram_arrives, DC!datagram_arrives, ReceiveInv
    <2>2. ~ (Constructor \/ stop_discovery_client \/ on_accept \/ accept_fails \/ receive_fails
             \/ attempt_completes \/ DiscoveryClientGoesOn \/ spin \/ Terminated
             \/ UNCHANGED vars)
      BY DEF Constructor, set_up_tcp_server, set_up_discovery_client, set_up_discovery_server,
             stop_discovery_client, on_accept, accept_fails, receive_fails, attempt_completes,
             DiscoveryClientGoesOn, spin, Terminated, vars, net
    <2>3. ~Destructor
      BY DEF Destructor, stop_discovery_server, stop_tcp_server, stop_clients, stop_client,
             end_of_loop, destroy_incoming, destroy_outgoing, destroy_connections,
             destroy_clients, destroy_rest, post_stop, net
    <2>4. ~ (discovery_client \/ async_resolve \/ handle_connect \/ client_cancel
             \/ client_stopped \/ discovery_server_stopped \/ tcp_server_stopped
             \/ connections_stopped \/ complete)
      BY DEF discovery_client, async_resolve, handle_connect, client_cancel, client_goes_on,
             client_stopped, discovery_server_stopped, tcp_server_stopped,
             connections_stopped, complete, net
    <2>5. QED
      BY <2>1, <2>2, <2>3, <2>4 DEF Next, IoThread
  <1>6. Head(queue).ec = "ok" /\ Head(queue).n > 0
    <2>1. Next_is(queue, "handle_response")
      BY <1>5 DEF handle_response, Runs
    <2>2. /\ HasHandler(queue, Head(queue)) /\ Head(queue).fn = "handle_response"
          /\ Head(queue) \in Ready
      BY <1>0, <2>1, RunMoves
    <2>3. Head(queue).ec = "ok" /\ Head(queue).n # 0
      BY <1>0, <1>2, <2>2 DEF ReceiveInv
    <2>4. QED
      BY <2>2, <2>3 DEF Ready
  <1> DEFINE found == on_discovery_response(recv_buffer)
  <1>7. (found = {} /\ clients' = clients) \/ \E info \in found : on_peer_discovered(info)
    BY <1>5, <1>6 DEF handle_response
  <1>8. CASE found = {} /\ clients' = clients
    <2>1. known(t)
      <3> DEFINE reply == [service_name |-> target, ip_address |-> p, port |-> TcpPort,
                           timestamp_ms |-> t]
      <3>1. reply.service_name = target /\ reply.timestamp_ms = t
        OBVIOUS
      <3>2. reply \in parse(recv_buffer) /\ reply \notin found
        BY <1>4, <1>8
      <3> HIDE DEF reply
      <3>3. QED
        BY <3>1, <3>2 DEF on_discovery_response
    <2>2. QED
      BY <1>0, <1>8, <2>1 DEF known, ClientsInv
  <1>9. CASE \E info \in found : on_peer_discovered(info)
    <2>1. PICK info \in found : on_peer_discovered(info)
      BY <1>9
    <2>2. info.timestamp_ms = t
      BY <1>4 DEF on_discovery_response
    <2>3. QED
      BY <2>1, <2>2 DEF on_peer_discovered, Put
  <1>10. QED
    BY <1>7, <1>8, <1>9

\* A reply for our target is understood and acted upon when it is read.
THEOREM BridgeTries == Spec => HeardIsTried
  <1>1. Inv /\ [Next]_vars => [Tried]_vars
    BY NextTries
  <1>2. QED
    BY <1>1, InvAlways, PTL DEF Spec, HeardIsTried, Tried

-----------------------------------------------------------------------------
(***************************************************************************)
(* What is ready when the bridge is destroyed.  A handler that is ready is *)
(* due: the state says that it is on its way (an attempt is posted or      *)
(* completed, a stop is signaled or resolved, a request is marked, the     *)
(* thread waits for it).  What the thread waits for has happened when it   *)
(* goes on, and then nothing is due that had to come before.               *)
(***************************************************************************)
Keyed == {"attempt", "stop", "complete"}

\* Handlers of one kind (of a client, if the kind is keyed) exclude each other.
Kind(fn) ==
    IF fn \in {"async_resolve", "handle_connect"} THEN "attempt"
    ELSE IF fn \in {"client_cancel", "client_stopped"} THEN "stop"
    ELSE IF fn \in {"handle_send_complete", "handle_timeout"} THEN "request"
    ELSE IF fn \in {"stopped", "discovery_server_stopped", "tcp_server_stopped",
                    "connections_stopped"} THEN "end"
    ELSE fn

Slot(h) == <<Kind(h.fn), IF Kind(h.fn) \in Keyed THEN h.n ELSE 0>>

OneEach(q) == \A i, j \in DOMAIN q : Slot(q[i]) = Slot(q[j]) => i = j

\* The discovery server's stop is posted after the lambda of the client's async_stop.
CancelFirst(q) == Follows(q, "discovery_server_stopped", Functions \ {"cancel"})

Tidy(q) == q \in Seq(Ready) /\ OneEach(q) /\ CancelFirst(q)

ClientDue(h) ==
    /\ h.fn \in ClientHandlers => h.n \in DOMAIN clients
    /\ h.fn = "async_resolve" => clients[h.n].attempt = "posted"
    /\ h.fn = "handle_connect" => clients[h.n].attempt = "completed"
    /\ h.fn = "client_cancel" => clients[h.n].stop = "signaled"
    /\ h.fn = "client_stopped" => clients[h.n].stop = "resolved"
    /\ h.fn = "complete" =>
          /\ h.n \in Times
          /\ \/ at \in {"destroy_rest", "gone"}
             \/ h.n \in DOMAIN clients /\ clients[h.n].attempt = "over"

RequestDue(h) ==
    /\ h.fn = "handle_send_complete" => "sending_async" \in flags /\ sends = 0
    /\ h.fn = "handle_timeout" => "timer_running" \in flags /\ ~timer

StopDue(h) ==
    /\ h.fn = "cancel" =>
          /\ "cancel" \notin posting
          /\ at = "stop_discovery_client" \/ (at = "stop_discovery_server" /\ answering)
    /\ h.fn = "stopped" => at = "stop_discovery_client" /\ ~on_stopped /\ ~stopped
    /\ h.fn = "discovery_server_stopped" => at = "stop_discovery_server" /\ answering
    /\ h.fn = "tcp_server_stopped" => at = "stop_tcp_server" /\ server = "accepting"
    /\ h.fn = "connections_stopped" => at \in {"destroy_incoming", "destroy_outgoing"}

Due(h) == ClientDue(h) /\ RequestDue(h) /\ StopDue(h)

QueueInv == Tidy(queue) /\ \A h : HasHandler(queue, h) => Due(h)

RequestInv ==
    /\ flags \subseteq DC!States /\ timer \in BOOLEAN /\ sends \in 0 .. 1
    /\ sends = 1 => "sending_async" \in flags
    /\ timer => "timer_running" \in flags
    /\ ~ ("sending_async" \in flags /\ "timer_running" \in flags)
    /\ Starting => flags \subseteq {"running", "stopping"}

SettingUp == {"set_up_tcp_server", "set_up_discovery"}
Before    == SettingUp \cup {"add_discovery_server", "up"}

StopInv ==
    /\ on_stopped \in BOOLEAN /\ stopped \in BOOLEAN /\ answering \in BOOLEAN
    /\ server \in {"none", "accepting", "idle", "stopped"}
    /\ IF at \in SettingUp THEN flags = {} ELSE "running" \in flags
    /\ "stopping" \in flags <=> at \notin Before
    /\ at \in Before => ~on_stopped /\ ~stopped
    /\ at \notin Before /\ ~on_stopped => flags \subseteq {"running", "stopping"} /\ ~Starting
    /\ on_stopped => ~stopped
    /\ "start" \in posting => at = "add_discovery_server"
    /\ "cancel" \in posting => at = "stop_discovery_client"
    /\ at \notin Before \cup {"stop_discovery_client"} => stopped
    /\ at \in {"up", "stop_discovery_client"} => answering
    /\ at \notin Before \cup {"stop_discovery_client", "stop_discovery_server", "stop_tcp_server"} =>
          server = "stopped"

StageInv ==
    /\ DOMAIN clients \subseteq Times /\ incoming \subseteq Remotes
    /\ at \in {"destroy_rest", "gone"} => DOMAIN clients = {}
    /\ \A k \in DOMAIN clients :
          clients[k].stop \in {"resolved", "stopped"} => clients[k].attempt = "over"

QuietInv == QueueInv /\ RequestInv /\ StopInv /\ StageInv

-----------------------------------------------------------------------------
LEMMA KindNames ==
    \A fn \in Functions :
        /\ Kind(fn) = "attempt" <=> fn \in {"async_resolve", "handle_connect"}
        /\ Kind(fn) = "stop" <=> fn \in {"client_cancel", "client_stopped"}
        /\ Kind(fn) = "complete" <=> fn = "complete"
        /\ Kind(fn) = "request" <=> fn \in {"handle_send_complete", "handle_timeout"}
        /\ Kind(fn) = "end" <=> fn \in {"stopped", "discovery_server_stopped",
                                        "tcp_server_stopped", "connections_stopped"}
        /\ Kind(fn) = "handle_response" <=> fn = "handle_response"
        /\ Kind(fn) = "start" <=> fn = "start"
        /\ Kind(fn) = "cancel" <=> fn = "cancel"
        /\ Kind(fn) \in Keyed \cup {"request", "end", "handle_response", "start", "cancel"}
  BY DEF Kind, Keyed, Functions, DC!Functions, ClientHandlers

\* No handler in q excludes h.
Free(q, h) == \A g : HasHandler(q, g) => Slot(g) # Slot(h)

LEMMA FreeByKind ==
    ASSUME NEW q, NEW h,
           \A g : HasHandler(q, g) /\ Kind(g.fn) = Kind(h.fn) =>
                     Kind(h.fn) \in Keyed /\ g.n # h.n
    PROVE  Free(q, h)
  BY DEF Free, Slot

LEMMA HasHandlerType ==
    \A q \in Seq(Ready) : \A h : HasHandler(q, h) => h \in Ready /\ h.fn \in Functions
  <1>1. TAKE q \in Seq(Ready)
  <1>2. \A i \in DOMAIN q : q[i] \in Ready
    OBVIOUS
  <1>3. \A h \in Ready : h.fn \in Functions
    BY DEF Ready
  <1>4. QED
    BY <1>2, <1>3 DEF HasHandler

\* The handlers of r are in q or in G, and r is tidy.
Gains(q, r, G) == Tidy(r) /\ \A h : HasHandler(r, h) => HasHandler(q, h) \/ h \in G

LEMMA GainsNone == \A q : Tidy(q) => Gains(q, q, {}) /\ q \o << >> = q
  BY DEF Gains, Tidy

LEMMA GainsMore ==
    ASSUME NEW q, NEW r, NEW F, NEW G, Gains(q, r, F), F \subseteq G
    PROVE  Gains(q, r, G)
  BY DEF Gains

LEMMA GainsAppend ==
    ASSUME NEW q, Tidy(q), NEW h \in Ready, Free(q, h),
           h.fn = "cancel" => ~ Queued(q, "discovery_server_stopped")
    PROVE  Gains(q, Append(q, h), {h}) /\ Append(q, h) = q \o <<h>>
  <1> DEFINE r == Append(q, h)
  <1>1. q \in Seq(Ready) /\ h.fn \in Functions
    BY DEF Tidy, Ready
  <1>2. /\ r \in Seq(Ready) /\ Len(r) = Len(q) + 1 /\ Len(q) \in Nat
        /\ \A i \in 1 .. Len(q) : r[i] = q[i]
        /\ r[Len(q) + 1] = h
    BY <1>1, AppendProperties
  <1>3. DOMAIN r = 1 .. Len(q) + 1 /\ DOMAIN q = 1 .. Len(q)
    BY <1>1, <1>2
  <1>4. CancelFirst(r)
    BY <1>1, FollowsAppend DEF Tidy, CancelFirst
  <1>5. \A g : HasHandler(r, g) => HasHandler(q, g) \/ g = h
    BY <1>1, AppendFacts
  <1>6. r = q \o <<h>>
    BY <1>1, AddsOne
  <1> HIDE DEF r
  <1>7. ASSUME NEW i \in DOMAIN r, NEW j \in DOMAIN r, Slot(r[i]) = Slot(r[j]) PROVE i = j
    <2>1. \A m \in 1 .. Len(q) : r[m] = q[m] /\ m \in DOMAIN q /\ Slot(q[m]) # Slot(h)
      BY <1>2, <1>3 DEF Free, HasHandler
    <2>2. \A m \in DOMAIN r : m \in 1 .. Len(q) \/ m = Len(q) + 1
      BY <1>2, <1>3
    <2>3. CASE i \in 1 .. Len(q) /\ j \in 1 .. Len(q)
      <3>1. Slot(q[i]) = Slot(q[j])
        BY <1>7, <2>1, <2>3
      <3>2. QED
        BY <1>3, <2>3, <3>1 DEF Tidy, OneEach
    <2>4. CASE i = Len(q) + 1 /\ j \in 1 .. Len(q)
      BY <1>2, <1>7, <2>1, <2>4
    <2>5. CASE j = Len(q) + 1 /\ i \in 1 .. Len(q)
      BY <1>2, <1>7, <2>1, <2>5
    <2>6. QED
      BY <2>2, <2>3, <2>4, <2>5
  <1>8. Tidy(r)
    BY <1>2, <1>4, <1>7 DEF Tidy, OneEach
  <1>9. QED
    BY <1>5, <1>6, <1>8 DEF Gains, r

LEMMA TidyTail ==
    ASSUME NEW q, Tidy(q), q # << >>
    PROVE  /\ Tidy(Tail(q)) /\ Head(q) \in Ready /\ HasHandler(q, Head(q))
           /\ \A g : HasHandler(Tail(q), g) => HasHandler(q, g)
           /\ Free(Tail(q), Head(q))
           /\ Head(q).fn = "discovery_server_stopped" =>
                 \A g : HasHandler(Tail(q), g) => g.fn # "cancel"
  <1> DEFINE t == Tail(q)
  <1>1. q \in Seq(Ready)
    BY DEF Tidy
  <1>2. /\ t \in Seq(Ready) /\ Head(q) = q[1]
        /\ Len(q) \in Nat /\ Len(q) >= 1
        /\ Len(t) = Len(q) - 1
        /\ \A i \in 1 .. Len(q) - 1 : t[i] = q[i + 1]
    BY <1>1, HeadTailProperties
  <1>3. DOMAIN t = 1 .. Len(q) - 1 /\ DOMAIN q = 1 .. Len(q)
    BY <1>1, <1>2
  <1>4. /\ CancelFirst(t)
        /\ Head(q).fn = "discovery_server_stopped" =>
              \A g : HasHandler(t, g) => g.fn \in Functions \ {"cancel"}
    BY <1>1, FollowsTail DEF Tidy, CancelFirst
  <1>5. Head(q) \in Ready /\ \A g : HasHandler(q, g) <=> Head(q) = g \/ HasHandler(t, g)
    BY <1>1, TailFacts
  <1> HIDE DEF t
  <1>6. \A i \in DOMAIN t : t[i] = q[i + 1] /\ i + 1 \in DOMAIN q /\ i \in Nat /\ i + 1 # 1
        /\ 1 \in DOMAIN q
    BY <1>2, <1>3
  <1>7. OneEach(t)
    <2>1. SUFFICES ASSUME NEW i \in DOMAIN t, NEW j \in DOMAIN t, Slot(t[i]) = Slot(t[j])
                   PROVE  i = j
      BY DEF OneEach
    <2>2. i + 1 = j + 1
      BY <1>6, <2>1 DEF Tidy, OneEach
    <2>3. QED
      BY <1>6, <2>2
  <1>8. Free(t, Head(q))
    <2>1. SUFFICES ASSUME NEW i \in DOMAIN t PROVE Slot(t[i]) # Slot(q[1])
      BY <1>2 DEF Free, HasHandler
    <2>2. QED
      BY <1>6 DEF Tidy, OneEach
  <1>9. QED
    BY <1>2, <1>4, <1>5, <1>7, <1>8 DEF Tidy, t

\* There is room for so many handlers that do not exclude each other.
LEMMA TidyIsShort ==
    ASSUME NEW q, Tidy(q), IsFiniteSet(Times),
           \A h : HasHandler(q, h) /\ Kind(h.fn) \in Keyed => h.n \in Times
    PROVE  Len(q) <= 5 + 3 * Cardinality(Times)
  <1> DEFINE Other == {"request", "end", "handle_response", "start", "cancel"}
             A == Keyed \X Times
             B == Other \X {0}
             S == A \cup B
             f == [i \in 1 .. Len(q) |-> Slot(q[i])]
             c == Cardinality(Times)
  <1>1. q \in Seq(Ready) /\ Len(q) \in Nat /\ DOMAIN q = 1 .. Len(q)
    BY DEF Tidy
  <1>2. c \in Nat
    BY FS_CardinalityType
  <1>3. IsFiniteSet(Keyed) /\ Cardinality(Keyed) = 3
    BY ThreeElements DEF Keyed
  <1>4. IsFiniteSet(Other) /\ Cardinality(Other) = 5
    BY FiveElements
  <1>5. IsFiniteSet({0}) /\ Cardinality({0}) = 1
    BY FS_Singleton
  <1>6. \A i \in 1 .. Len(q) : Slot(q[i]) \in S
    <2>1. TAKE i \in 1 .. Len(q)
    <2>2. HasHandler(q, q[i]) /\ q[i].fn \in Functions
      BY <1>1, HasHandlerType DEF HasHandler
    <2>3. Kind(q[i].fn) \in Keyed \cup Other
      BY <2>2, KindNames
    <2>4. Kind(q[i].fn) \in Keyed => q[i].n \in Times
      BY <2>2
    <2> HIDE DEF Other
    <2>5. QED
      BY <2>3, <2>4 DEF Slot
  <1>7. f \in Injection(1 .. Len(q), S)
    <2>1. f \in [1 .. Len(q) -> S]
      BY <1>6
    <2>2. \A i, j \in 1 .. Len(q) : f[i] = f[j] => i = j
      BY <1>1 DEF Tidy, OneEach
    <2> HIDE DEF f, S
    <2>3. QED
      BY <2>1, <2>2 DEF Injection, IsInjective
  <1> HIDE DEF f, Other
  <1>8. /\ IsFiniteSet(A) /\ Cardinality(A) = 3 * c
        /\ IsFiniteSet(B) /\ Cardinality(B) = 5
    <2>1. IsFiniteSet(A) /\ Cardinality(A) = Cardinality(Keyed) * Cardinality(Times)
      BY <1>3, FS_Product
    <2>2. IsFiniteSet(B) /\ Cardinality(B) = Cardinality(Other) * Cardinality({0})
      BY <1>4, <1>5, FS_Product
    <2>3. QED
      BY <1>3, <1>4, <1>5, <2>1, <2>2
  <1>9. A \cap B = {}
    BY DEF Keyed, Other
  <1> HIDE DEF A, B, c
  <1>10. IsFiniteSet(S) /\ Cardinality(S) = 3 * c + 5
    <2>1. /\ IsFiniteSet(A \cup B)
          /\ Cardinality(A \cup B) = Cardinality(A) + Cardinality(B) - Cardinality(A \cap B)
      BY <1>8, FS_Union
    <2>2. Cardinality(A \cap B) = 0
      BY <1>9, FS_EmptySet
    <2>3. QED
      BY <1>2, <1>8, <2>1, <2>2
  <1> HIDE DEF S
  <1>11. Cardinality(1 .. Len(q)) <= 3 * c + 5
    BY <1>7, <1>10, FS_Injection
  <1>12. Cardinality(1 .. Len(q)) = Len(q)
    <2>1. 1 \in Int /\ Len(q) \in Int
      BY <1>1
    <2>2. Cardinality(1 .. Len(q)) = IF 1 > Len(q) THEN 0 ELSE Len(q) - 1 + 1
      BY <2>1, FS_Interval
    <2>3. QED
      BY <1>1, <2>2
  <1>13. QED
    BY <1>1, <1>2, <1>11, <1>12 DEF c

\* What DestroyedIsQuiet says of the state.
LEMMA QuietImplies == Inv /\ QuietInv => DestroyedIsQuiet
  <1> SUFFICES ASSUME Inv, QuietInv PROVE DestroyedIsQuiet
    OBVIOUS
  <1>0. /\ TypeInv /\ PlaceInv /\ ReceiveInv /\ ClientsInv
        /\ QueueInv /\ RequestInv /\ StopInv /\ StageInv
    BY DEF Inv, QuietInv
  <1>1. queue \in Seq(Ready) /\ \A i \in DOMAIN queue : HasHandler(queue, queue[i])
    BY <1>0 DEF TypeInv, HasHandler
  <1>2. Len(queue) <= 5 + 3 * Cardinality(Times)
    <2>1. \A h : HasHandler(queue, h) /\ Kind(h.fn) \in Keyed => h.n \in Times
      <3>1. TAKE h
      <3>2. HAVE HasHandler(queue, h) /\ Kind(h.fn) \in Keyed
      <3>3. h.fn \in Functions /\ ClientDue(h)
        BY <1>0, <1>1, <3>2, HasHandlerType DEF QueueInv, Due
      <3>4. h.fn \in ClientHandlers \cup {"complete"}
        BY <3>2, <3>3, KindNames DEF Keyed, ClientHandlers
      <3>5. QED
        BY <1>0, <3>3, <3>4 DEF ClientDue, StageInv
    <2>2. IsFiniteSet(Times)
      BY TimesAssumption
    <2>3. Tidy(queue)
      BY <1>0 DEF QueueInv
    <2>4. QED
      BY <2>1, <2>2, <2>3, TidyIsShort
  <1>3. TypeOK
    <2>1. \A k \in DOMAIN clients :
             clients[k] \in [peer : Addresses, port : 0 .. PortMax, attempt : Attempts,
                             stop : Stops, late : BOOLEAN]
      BY <1>0 DEF ClientsInv, Client
    <2>2. \A k \in DOMAIN outgoing : k \in DOMAIN clients /\ outgoing[k] \in Addresses
      BY <1>0 DEF ClientsInv, Client
    <2>3. DOMAIN clients \subseteq Times /\ DOMAIN outgoing \subseteq Times /\ incoming \subseteq Remotes
      BY <1>0, <2>2 DEF StageInv
    <2>4. /\ at \in Places /\ target \in Targets /\ receives \in 0 .. 1 /\ sends \in 0 .. 1
          /\ server \in {"none", "accepting", "idle", "stopped"} /\ answering \in BOOLEAN
      BY <1>0 DEF TypeInv, RequestInv, StopInv
    <2>5. QED
      BY <1>2, <2>1, <2>2, <2>3, <2>4 DEF TypeOK
  <1>4. ASSUME at \in {"destroy_rest", "gone"}
        PROVE  /\ server = "stopped" /\ ~answering /\ sends = 0 /\ ~timer
               /\ \A i \in DOMAIN queue : queue[i].fn \in {"complete", "handle_response"}
    <2>1. server = "stopped" /\ ~answering
      BY <1>0, <1>4 DEF PlaceInv, StopInv, Before, SettingUp
    <2>2. flags \subseteq {"running", "stopping"} /\ ~Starting
      BY <1>0, <1>4 DEF StopInv, Before, SettingUp
    <2>3. sends = 0 /\ ~timer
      BY <1>0, <2>2 DEF RequestInv
    <2>4. ASSUME NEW i \in DOMAIN queue
          PROVE  queue[i].fn \in {"complete", "handle_response"}
      <3> DEFINE h == queue[i]
      <3>1. HasHandler(queue, h) /\ h.fn \in Functions
        BY <1>1, HasHandlerType
      <3>2. ClientDue(h) /\ RequestDue(h) /\ StopDue(h)
        BY <1>0, <3>1 DEF QueueInv, Due
      <3>3. h.fn # "start"
        BY <2>2, <3>1, QueuedHasHandler DEF Starting
      <3> HIDE DEF h
      <3>4. h.fn \notin {"handle_send_complete", "handle_timeout"}
        BY <2>2, <3>2 DEF RequestDue
      <3>5. h.fn \notin {"cancel", "stopped", "discovery_server_stopped", "tcp_server_stopped",
                         "connections_stopped"}
        BY <1>4, <3>2 DEF StopDue
      <3>6. h.fn \notin ClientHandlers
        BY <1>0, <1>4, <3>2 DEF ClientDue, StageInv
      <3>7. QED
        BY <3>1, <3>3, <3>4, <3>5, <3>6 DEF Functions, DC!Functions, h
    <2>5. QED
      BY <2>1, <2>3, <2>4
  <1>5. QED
    BY <1>3, <1>4 DEF DestroyedIsQuiet

LEMMA InitQuiet == Init => QuietInv
  <1> SUFFICES ASSUME Init PROVE QuietInv
    OBVIOUS
  <1>1. /\ queue = << >> /\ flags = {} /\ timer = FALSE /\ sends = 0 /\ posting = {}
        /\ on_stopped = FALSE /\ stopped = FALSE /\ answering = FALSE /\ server = "none"
        /\ at = "set_up_tcp_server" /\ DOMAIN clients = {} /\ incoming = {}
    BY DEF Init, DC!Init, NoEntries
  <1>2. QueueInv
    <2>1. \A h : ~ HasHandler(queue, h)
      BY <1>1, EmptyFacts
    <2>2. Tidy(queue)
      BY <1>1 DEF Tidy, OneEach, CancelFirst, Follows
    <2>3. QED
      BY <2>1, <2>2 DEF QueueInv
  <1>3. ~Starting
    BY <1>1, EmptyFacts DEF Starting
  <1>4. RequestInv
    <2>1. sends \in 0 .. 1 /\ sends # 1 /\ flags \subseteq DC!States
      BY <1>1
    <2>2. "sending_async" \notin flags
      BY <1>1
    <2>3. timer \in BOOLEAN /\ ~timer
      BY <1>1
    <2>4. QED
      BY <1>3, <2>1, <2>2, <2>3 DEF RequestInv
  <1>5. StopInv
    BY <1>1, <1>3 DEF StopInv, Before, SettingUp
  <1>6. StageInv
    BY <1>1 DEF StageInv
  <1>7. QED
    BY <1>2, <1>4, <1>5, <1>6 DEF QuietInv

-----------------------------------------------------------------------------
(***************************************************************************)
(* What a step leaves alone.                                               *)
(***************************************************************************)
Ended == {"destroy_rest", "gone"}

LEMMA ClientDueKept ==
    ASSUME NEW h, ClientDue(h), clients' = clients, at \in Ended => at' \in Ended
    PROVE  ClientDue(h)'
  BY DEF ClientDue, Ended

LEMMA ClientDueChanged ==
    ASSUME NEW h, ClientDue(h), DOMAIN clients \subseteq DOMAIN clients',
           at \in Ended => at' \in Ended,
           h.n \in DOMAIN clients =>
              /\ h.fn \in {"async_resolve", "handle_connect", "complete"} =>
                    clients'[h.n].attempt = clients[h.n].attempt
              /\ h.fn \in {"client_cancel", "client_stopped"} =>
                    clients'[h.n].stop = clients[h.n].stop
    PROVE  ClientDue(h)'
  BY DEF ClientDue, Ended, ClientHandlers

LEMMA RequestDueKept ==
    ASSUME NEW h, RequestDue(h), flags \subseteq flags', UNCHANGED <<sends, timer>>
    PROVE  RequestDue(h)'
  BY DEF RequestDue

LEMMA StopDueKept ==
    ASSUME NEW h, StopDue(h), UNCHANGED <<posting, at, answering, on_stopped, stopped, server>>
    PROVE  StopDue(h)'
  BY DEF StopDue

LEMMA QueueKept ==
    ASSUME NEW q, NEW G, Gains(q, queue', G),
           \A h : HasHandler(q, h) => Due(h)', \A h \in G : Due(h)'
    PROVE  QueueInv'
  BY DEF Gains, QueueInv

LEMMA RequestKept ==
    ASSUME RequestInv, UNCHANGED <<flags, sends, timer>>, Starting' => Starting
    PROVE  RequestInv'
  BY DEF RequestInv

LEMMA StopKept ==
    ASSUME StopInv, UNCHANGED <<flags, posting, at, answering, on_stopped, stopped, server>>,
           Starting' => Starting
    PROVE  StopInv'
  BY DEF StopInv

LEMMA StageKept ==
    ASSUME StageInv, UNCHANGED <<clients, incoming>>, at' \in Ended => at \in Ended
    PROVE  StageInv'
  BY DEF StageInv, Ended

LEMMA StartingKept ==
    ASSUME NEW G, Gains(queue, queue', G), \A h \in G : h.fn # "start", posting' \subseteq posting
    PROVE  Starting' => Starting
  BY QueuedHasHandler DEF Starting, Gains

\* While the bridge is built and used no stop is due.
LEMMA NoStopDue ==
    ASSUME QueueInv, at \in Before, NEW h, HasHandler(queue, h)
    PROVE  h.fn \notin {"cancel", "stopped", "discovery_server_stopped", "tcp_server_stopped",
                        "connections_stopped"}
  BY DEF QueueInv, Due, StopDue, Before, SettingUp

-----------------------------------------------------------------------------
(***************************************************************************)
(* The thread that creates and destroys the bridge.                        *)
(***************************************************************************)
LEMMA ConstructorQuiet == Inv /\ QuietInv /\ Constructor => QuietInv'
  <1> SUFFICES ASSUME Inv, QuietInv, Constructor PROVE QuietInv'
    OBVIOUS
  <1>0. TypeInv /\ QueueInv /\ RequestInv /\ StopInv /\ StageInv
    BY DEF Inv, QuietInv
  <1>1. UNCHANGED <<queue, on_stopped, stopped, sends, timer, clients, incoming>>
    BY DEF Constructor, set_up_tcp_server, set_up_discovery_client, set_up_discovery_server,
           DC!async_start, DC!env_vars, dc_vars, dc_rest, net, maps, others
  <1>2. \/ /\ at = "set_up_tcp_server" /\ at' = "set_up_discovery" /\ server' = "accepting"
           /\ UNCHANGED <<flags, posting, answering>>
        \/ /\ at = "set_up_discovery" /\ at' = "add_discovery_server"
           /\ flags' = flags \cup {"running"} /\ posting' = posting \cup {"start"}
           /\ UNCHANGED <<server, answering>>
        \/ /\ at = "add_discovery_server" /\ at' = "up" /\ posting = {} /\ answering' = TRUE
           /\ UNCHANGED <<flags, posting, server>>
    BY DEF Constructor, set_up_tcp_server, set_up_discovery_client, set_up_discovery_server,
           DC!async_start, DC!env_vars, dc_vars, dc_rest, net, maps, others
  <1>3. at \in Before /\ at' \in Before /\ at' \notin Ended
    BY <1>2 DEF Before, SettingUp, Ended
  <1>4. QueueInv'
    <2>1. ASSUME NEW h, HasHandler(queue, h) PROVE Due(h)'
      <3>1. Due(h)
        BY <1>0, <2>1 DEF QueueInv
      <3>2. ClientDue(h)' /\ RequestDue(h)'
        BY <1>1, <1>2, <1>3, <3>1, ClientDueKept, RequestDueKept DEF Due, Ended, Before, SettingUp
      <3>3. StopDue(h)'
        BY <1>0, <1>3, <2>1, NoStopDue DEF StopDue
      <3>4. QED
        BY <3>2, <3>3 DEF Due
    <2>2. Gains(queue, queue', {})
      BY <1>0, <1>1, GainsNone DEF QueueInv
    <2>3. QED
      BY <2>1, <2>2, QueueKept
  <1>5. RequestInv' /\ StopInv'
    <2>1. CASE UNCHANGED <<flags, posting>>
      <3>1. Starting' => Starting
        BY <1>1, <2>1 DEF Starting
      <3>2. RequestInv'
        BY <1>0, <1>1, <2>1, <3>1, RequestKept
      <3>3. StopInv'
        BY <1>0, <1>1, <1>2, <1>3, <2>1, <3>1 DEF StopInv, Before, SettingUp
      <3>4. QED
        BY <3>2, <3>3
    <2>2. CASE /\ at = "set_up_discovery" /\ at' = "add_discovery_server"
               /\ flags' = flags \cup {"running"} /\ posting' = posting \cup {"start"}
               /\ UNCHANGED <<server, answering>>
      <3>1. flags = {} /\ flags' = {"running"}
        BY <1>0, <2>2 DEF StopInv, SettingUp
      <3>2. sends = 0 /\ ~timer
        BY <1>0, <3>1 DEF RequestInv
      <3>3. RequestInv'
        BY <1>0, <1>1, <3>1, <3>2 DEF RequestInv, DC!States
      <3>4. StopInv'
        BY <1>0, <1>1, <2>2, <3>1 DEF StopInv, Before, SettingUp
      <3>5. QED
        BY <3>3, <3>4
    <2>3. QED
      BY <1>2, <2>1, <2>2
  <1>6. StageInv'
    BY <1>0, <1>1, <1>3, StageKept
  <1>7. QED
    BY <1>4, <1>5, <1>6 DEF QuietInv

LEMMA StopDiscoveryClientQuiet == Inv /\ QuietInv /\ stop_discovery_client => QuietInv'
  <1> SUFFICES ASSUME Inv, QuietInv, stop_discovery_client PROVE QuietInv'
    OBVIOUS
  <1>0. TypeInv /\ QueueInv /\ RequestInv /\ StopInv /\ StageInv
    BY DEF Inv, QuietInv
  <1>1. /\ at = "up" /\ at' = "stop_discovery_client" /\ DC!async_stop
        /\ UNCHANGED <<queue, sends, timer, stopped, clients, incoming, server, answering>>
    BY DEF stop_discovery_client, maps, others
  <1>2. at \in Before /\ "stopping" \notin flags
    BY <1>0, <1>1 DEF StopInv, Before
  <1>3. flags' = flags \cup {"stopping"} /\ on_stopped' = TRUE /\ posting' = posting \cup {"cancel"}
    BY <1>1, <1>2 DEF DC!async_stop
  <1>4. QueueInv'
    <2>1. ASSUME NEW h, HasHandler(queue, h) PROVE Due(h)'
      <3>1. Due(h)
        BY <1>0, <2>1 DEF QueueInv
      <3>2. ClientDue(h)' /\ RequestDue(h)'
        BY <1>1, <1>3, <3>1, ClientDueKept, RequestDueKept DEF Due, Ended
      <3>3. StopDue(h)'
        BY <1>0, <1>2, <2>1, NoStopDue DEF StopDue
      <3>4. QED
        BY <3>2, <3>3 DEF Due
    <2>2. Gains(queue, queue', {})
      BY <1>0, <1>1, GainsNone DEF QueueInv
    <2>3. QED
      BY <2>1, <2>2, QueueKept
  <1>5. Starting' => Starting
    BY <1>1, <1>3 DEF Starting
  <1>6. RequestInv'
    BY <1>0, <1>1, <1>3, <1>5 DEF RequestInv, DC!States
  <1>7. StopInv'
    BY <1>0, <1>1, <1>2, <1>3, <1>5 DEF StopInv, Before, SettingUp
  <1>8. StageInv'
    BY <1>0, <1>1, StageKept DEF Ended
  <1>9. QED
    BY <1>4, <1>6, <1>7, <1>8 DEF QuietInv

StopCallbacks == {"stopped", "discovery_server_stopped", "tcp_server_stopped",
                  "connections_stopped"}

LEMMA PostStopQuiet ==
    ASSUME QuietInv, NEW place, place \notin Ended, at \notin Ended,
           NEW fn \in StopCallbacks, post_stop(place, fn),
           \A h : HasHandler(queue, h) => StopDue(h)' /\ h.fn \notin StopCallbacks,
           StopDue(Posted(fn))'
    PROVE  /\ QueueInv' /\ RequestInv' /\ StageInv' /\ (Starting' => Starting) /\ at' = place
           /\ UNCHANGED <<flags, posting, answering, on_stopped, stopped, server>>
  <1>0. QueueInv /\ RequestInv /\ StopInv /\ StageInv
    BY DEF QuietInv
  <1>1. /\ at' = place /\ queue' = Append(queue, Posted(fn))
        /\ UNCHANGED <<flags, posting, answering, on_stopped, stopped, server, sends, timer,
                       clients, incoming>>
    BY DEF post_stop, dc_rest, maps, others
  <1>2. Posted(fn) \in Ready /\ Posted(fn).fn = fn /\ fn \in Functions
    BY PostedReady, FunctionNames DEF StopCallbacks
  <1>3. Tidy(queue) /\ queue \in Seq(Ready)
    BY <1>0 DEF QueueInv, Tidy
  <1>4. Free(queue, Posted(fn))
    <2>1. ASSUME NEW g, HasHandler(queue, g), Kind(g.fn) = Kind(Posted(fn).fn) PROVE FALSE
      <3>1. g.fn \in Functions /\ g.fn \notin StopCallbacks
        BY <1>3, <2>1, HasHandlerType
      <3>2. Kind(fn) = "end" /\ Kind(g.fn) # "end"
        BY <1>2, <3>1, KindNames DEF StopCallbacks
      <3>3. QED
        BY <1>2, <2>1, <3>2
    <2>2. QED
      BY <2>1, FreeByKind
  <1>5. Gains(queue, queue', {Posted(fn)})
    BY <1>1, <1>2, <1>3, <1>4, GainsAppend DEF StopCallbacks
  <1>6. Starting' => Starting
    BY <1>1, <1>2, <1>5, StartingKept DEF StopCallbacks
  <1>7. ASSUME NEW h, HasHandler(queue, h) PROVE Due(h)'
    <2>1. Due(h)
      BY <1>0, <1>7 DEF QueueInv
    <2>2. ClientDue(h)' /\ RequestDue(h)'
      BY <1>1, <2>1, ClientDueKept, RequestDueKept DEF Due
    <2>3. QED
      BY <1>7, <2>2 DEF Due
  <1>8. Due(Posted(fn))'
    <2>1. ClientDue(Posted(fn))' /\ RequestDue(Posted(fn))'
      BY <1>2 DEF ClientDue, RequestDue, StopCallbacks, ClientHandlers
    <2>2. QED
      BY <2>1 DEF Due
  <1>9. QueueInv'
    BY <1>5, <1>7, <1>8, QueueKept
  <1>10. RequestInv' /\ StageInv'
    BY <1>0, <1>1, <1>6, RequestKept, StageKept
  <1>11. QED
    BY <1>1, <1>6, <1>9, <1>10

\* The thread goes on without a handler made ready.
LEMMA GoOnQuiet ==
    ASSUME QuietInv, at \notin Ended, at' \notin Ended,
           UNCHANGED <<dc_vars, net, maps, others>>,
           \A h : HasHandler(queue, h) => StopDue(h)'
    PROVE  /\ QueueInv' /\ RequestInv' /\ StageInv' /\ (Starting' => Starting)
           /\ UNCHANGED <<flags, posting, answering, on_stopped, stopped, server>>
  <1>0. QueueInv /\ RequestInv /\ StageInv
    BY DEF QuietInv
  <1>1. UNCHANGED <<queue, flags, posting, answering, on_stopped, stopped, server, sends, timer,
                    clients, incoming>>
    BY DEF dc_vars, dc_rest, maps, others
  <1>2. ASSUME NEW h, HasHandler(queue, h) PROVE Due(h)'
    <2>1. Due(h)
      BY <1>0, <1>2 DEF QueueInv
    <2>2. ClientDue(h)' /\ RequestDue(h)'
      BY <1>1, <2>1, ClientDueKept, RequestDueKept DEF Due
    <2>3. QED
      BY <1>2, <2>2 DEF Due
  <1>3. Gains(queue, queue', {})
    BY <1>0, <1>1, GainsNone DEF QueueInv
  <1>4. QueueInv'
    BY <1>2, <1>3, QueueKept
  <1>5. Starting' => Starting
    BY <1>1 DEF Starting
  <1>6. RequestInv' /\ StageInv'
    BY <1>0, <1>1, <1>5, RequestKept, StageKept
  <1>7. QED
    BY <1>1, <1>4, <1>5, <1>6

LEMMA StopServersQuiet ==
    Inv /\ QuietInv /\ (stop_discovery_server \/ stop_tcp_server) => QuietInv'
  <1> SUFFICES ASSUME Inv, QuietInv, stop_discovery_server \/ stop_tcp_server
               PROVE  QuietInv'
    OBVIOUS
  <1>0. QueueInv /\ StopInv
    BY DEF QuietInv
  <1>1. \A fn \in StopCallbacks : Posted(fn).fn = fn
    BY DEF Posted, Handler
  <1>2. CASE stop_discovery_server
    <2>1. /\ at = "stop_discovery_client" /\ stopped /\ posting = {}
          /\ post_stop("stop_discovery_server", "discovery_server_stopped")
      BY <1>2 DEF stop_discovery_server
    <2>2. /\ at' = "stop_discovery_server"
          /\ UNCHANGED <<posting, answering, on_stopped, stopped, server>>
      BY <2>1 DEF post_stop, dc_rest, others
    <2>3. answering
      BY <1>0, <2>1 DEF StopInv
    <2>4. ASSUME NEW h, HasHandler(queue, h) PROVE StopDue(h)' /\ h.fn \notin StopCallbacks
      <3>1. StopDue(h)
        BY <1>0, <2>4 DEF QueueInv, Due
      <3>2. QED
        BY <2>1, <2>2, <2>3, <3>1 DEF StopDue, StopCallbacks
    <2>5. StopDue(Posted("discovery_server_stopped"))'
      BY <1>1, <2>2, <2>3 DEF StopDue, StopCallbacks
    <2>6. /\ QueueInv' /\ RequestInv' /\ StageInv' /\ (Starting' => Starting)
          /\ UNCHANGED <<flags, posting, answering, on_stopped, stopped, server>>
      BY <2>1, <2>4, <2>5, PostStopQuiet DEF StopCallbacks, Ended
    <2>7. StopInv'
      BY <1>0, <2>1, <2>2, <2>6 DEF StopInv, Before, SettingUp
    <2>8. QED
      BY <2>6, <2>7 DEF QuietInv
  <1>3. CASE stop_tcp_server
    <2>1. /\ at = "stop_discovery_server" /\ ~answering /\ at' = "stop_tcp_server"
          /\ UNCHANGED <<posting, answering, on_stopped, stopped, server>>
      BY <1>3 DEF stop_tcp_server, post_stop, dc_vars, dc_rest, others
    <2>2. ASSUME NEW h, HasHandler(queue, h) PROVE StopDue(h)' /\ h.fn \notin StopCallbacks
      <3>1. StopDue(h)
        BY <1>0, <2>2 DEF QueueInv, Due
      <3>2. QED
        BY <2>1, <3>1 DEF StopDue, StopCallbacks
    <2>3. /\ QueueInv' /\ RequestInv' /\ StageInv' /\ (Starting' => Starting)
          /\ UNCHANGED <<flags, posting, answering, on_stopped, stopped, server>>
      <3>1. CASE server = "accepting"
        <4>1. post_stop("stop_tcp_server", "tcp_server_stopped")
          BY <1>3, <3>1 DEF stop_tcp_server
        <4>2. StopDue(Posted("tcp_server_stopped"))'
          BY <1>1, <2>1, <3>1 DEF StopDue, StopCallbacks
        <4>3. QED
          BY <2>1, <2>2, <4>1, <4>2, PostStopQuiet DEF StopCallbacks, Ended
      <3>2. CASE server # "accepting"
        <4>1. UNCHANGED <<dc_vars, net, maps, others>>
          BY <1>3, <3>2 DEF stop_tcp_server
        <4>2. QED
          BY <2>1, <2>2, <4>1, GoOnQuiet DEF Ended
      <3>3. QED
        BY <3>1, <3>2
    <2>4. StopInv'
      BY <1>0, <2>1, <2>3 DEF StopInv, Before, SettingUp
    <2>5. QED
      BY <2>3, <2>4 DEF QuietInv
  <1>4. QED
    BY <1>2, <1>3

\* Places from the loop over the clients to the destruction of their map.
TakingDown == {"stop_clients", "destroy_incoming", "destroy_outgoing", "destroy_clients"}

\* While the thread goes from one of these places to the next no stop is due.
LEMMA TakingDownQuiet ==
    ASSUME QuietInv, at \in TakingDown, at' \in TakingDown,
           ~ Queued(queue, "connections_stopped"),
           \/ UNCHANGED <<dc_vars, net, maps, others>>
           \/ /\ at' \in {"destroy_incoming", "destroy_outgoing"}
              /\ post_stop(at', "connections_stopped")
    PROVE  QuietInv'
  <1>0. QueueInv /\ StopInv
    BY DEF QuietInv
  <1>1. UNCHANGED <<posting, answering, on_stopped, stopped, server>>
    BY DEF post_stop, dc_vars, dc_rest, others
  <1>2. ASSUME NEW h, HasHandler(queue, h) PROVE StopDue(h)' /\ h.fn \notin StopCallbacks
    <2>1. StopDue(h)
      BY <1>0, <1>2 DEF QueueInv, Due
    <2>2. h.fn # "connections_stopped"
      BY <1>2, QueuedHasHandler
    <2>3. QED
      BY <2>1, <2>2 DEF StopDue, StopCallbacks, TakingDown
  <1>3. /\ QueueInv' /\ RequestInv' /\ StageInv' /\ (Starting' => Starting)
        /\ UNCHANGED <<flags, posting, answering, on_stopped, stopped, server>>
    <2>1. at \notin Ended /\ at' \notin Ended
      BY DEF TakingDown, Ended
    <2>2. CASE UNCHANGED <<dc_vars, net, maps, others>>
      BY <1>2, <2>1, <2>2, GoOnQuiet
    <2>3. CASE /\ at' \in {"destroy_incoming", "destroy_outgoing"}
               /\ post_stop(at', "connections_stopped")
      <3>1. PICK place : place = at'
        OBVIOUS
      <3>2. post_stop(place, "connections_stopped") /\ place \notin Ended
        BY <2>1, <2>3, <3>1
      <3>3. Posted("connections_stopped").fn = "connections_stopped"
        BY DEF Posted, Handler
      <3>4. StopDue(Posted("connections_stopped"))'
        BY <2>3, <3>3 DEF StopDue, StopCallbacks
      <3>5. "connections_stopped" \in StopCallbacks
        BY DEF StopCallbacks
      <3>6. QED
        BY <1>2, <2>1, <3>2, <3>4, <3>5, PostStopQuiet
    <2>4. QED
      BY <2>2, <2>3
  <1>4. StopInv'
    BY <1>0, <1>3 DEF StopInv, Before, SettingUp, TakingDown
  <1>5. QED
    BY <1>3, <1>4 DEF QuietInv

LEMMA ConnectionsQuiet ==
    Inv /\ QuietInv /\ (end_of_loop \/ destroy_incoming \/ destroy_outgoing) => QuietInv'
  <1> SUFFICES ASSUME Inv, QuietInv, end_of_loop \/ destroy_incoming \/ destroy_outgoing
               PROVE  QuietInv'
    OBVIOUS
  <1>1. \/ at = "stop_clients" /\ at' = "destroy_incoming"
        \/ at = "destroy_incoming" /\ incoming = {} /\ at' = "destroy_outgoing"
        \/ at = "destroy_outgoing" /\ outgoing = NoEntries /\ at' = "destroy_clients"
    BY DEF end_of_loop, destroy_incoming, destroy_outgoing, destroy_connections, post_stop
  <1>2. ~ Queued(queue, "connections_stopped")
    BY <1>1 DEF Inv, PlaceInv, Destroying
  <1>3. \/ UNCHANGED <<dc_vars, net, maps, others>>
        \/ /\ at' \in {"destroy_incoming", "destroy_outgoing"}
           /\ post_stop(at', "connections_stopped")
    BY DEF end_of_loop, destroy_incoming, destroy_outgoing, destroy_connections, post_stop
  <1>4. at \in TakingDown /\ at' \in TakingDown
    BY <1>1 DEF TakingDown
  <1>5. QED
    BY <1>2, <1>3, <1>4, TakingDownQuiet

LEMMA StopClientsQuiet == QuietInv /\ stop_clients => QuietInv'
  <1> SUFFICES ASSUME QuietInv, stop_clients PROVE QuietInv'
    OBVIOUS
  <1>0. QueueInv /\ StopInv
    BY DEF QuietInv
  <1>1. /\ at = "stop_tcp_server" /\ server = "stopped" /\ at' = "stop_clients"
        /\ UNCHANGED <<dc_vars, net, maps, others>>
        /\ UNCHANGED <<posting, answering, on_stopped, stopped, server>>
    BY DEF stop_clients, dc_vars, dc_rest, others
  <1>2. ASSUME NEW h, HasHandler(queue, h) PROVE StopDue(h)'
    <2>1. StopDue(h)
      BY <1>0, <1>2 DEF QueueInv, Due
    <2>2. QED
      BY <1>1, <2>1 DEF StopDue
  <1>3. /\ QueueInv' /\ RequestInv' /\ StageInv' /\ (Starting' => Starting)
        /\ UNCHANGED <<flags, posting, answering, on_stopped, stopped, server>>
    BY <1>1, <1>2, GoOnQuiet DEF Ended
  <1>4. StopInv'
    BY <1>0, <1>1, <1>3 DEF StopInv, Before, SettingUp
  <1>5. QED
    BY <1>3, <1>4 DEF QuietInv

LEMMA StopClientQuiet ==
    ASSUME Inv, QuietInv, NEW k \in DOMAIN clients, stop_client(k)
    PROVE  QuietInv'
  <1>0. TypeInv /\ ClientsInv /\ QueueInv /\ RequestInv /\ StopInv /\ StageInv
    BY DEF Inv, QuietInv
  <1> DEFINE h == Handler("client_cancel", "ok", k)
  <1>1. k \in Nat /\ clients[k] \in Client
    BY <1>0 DEF ClientsInv
  <1>2. h \in Ready /\ h.fn = "client_cancel" /\ h.n = k
    BY <1>1, HandlerReady, FunctionNames DEF ErrorCodes, ClientHandlers
  <1>3. /\ queue' = Append(queue, h) /\ clients[k].stop = "no"
        /\ clients' = [clients EXCEPT ![k].stop = "signaled"]
        /\ UNCHANGED <<flags, posting, answering, on_stopped, stopped, server, sends, timer,
                       at, incoming>>
    BY DEF stop_client, dc_rest, others
  <1> HIDE DEF h
  <1>4. /\ DOMAIN clients' = DOMAIN clients
        /\ \A j \in DOMAIN clients : j # k => clients'[j] = clients[j]
        /\ clients'[k].stop = "signaled" /\ clients'[k].attempt = clients[k].attempt
    BY <1>1, <1>3 DEF Client
  <1>5. Tidy(queue) /\ queue \in Seq(Ready)
    BY <1>0 DEF QueueInv, Tidy
  <1>6. ASSUME NEW g, HasHandler(queue, g)
        PROVE  g.fn \in Functions /\ Due(g) /\ (g.n = k => g.fn \notin {"client_cancel", "client_stopped"})
    <2>1. g.fn \in Functions /\ Due(g)
      BY <1>0, <1>5, <1>6, HasHandlerType DEF QueueInv
    <2>2. QED
      BY <1>3, <2>1 DEF Due, ClientDue
  <1>7. Free(queue, h)
    <2>1. ASSUME NEW g, HasHandler(queue, g), Kind(g.fn) = Kind(h.fn)
          PROVE  Kind(h.fn) \in Keyed /\ g.n # h.n
      <3>1. Kind(h.fn) = "stop" /\ Kind(h.fn) \in Keyed
        BY <1>2, KindNames, FunctionNames DEF ClientHandlers, Keyed
      <3>2. g.fn \in {"client_cancel", "client_stopped"}
        BY <1>6, <2>1, <3>1, KindNames
      <3>3. QED
        BY <1>2, <1>6, <2>1, <3>1, <3>2
    <2>2. QED
      BY <2>1, FreeByKind
  <1>8. Gains(queue, queue', {h})
    BY <1>2, <1>3, <1>5, <1>7, GainsAppend
  <1>9. ASSUME NEW g, HasHandler(queue, g) PROVE Due(g)'
    <2>1. Due(g) /\ (g.n = k => g.fn \notin {"client_cancel", "client_stopped"})
      BY <1>6, <1>9
    <2>2. ClientDue(g)'
      BY <1>3, <1>4, <2>1, ClientDueChanged DEF Due
    <2>3. RequestDue(g)' /\ StopDue(g)'
      BY <1>3, <2>1, RequestDueKept, StopDueKept DEF Due
    <2>4. QED
      BY <2>2, <2>3 DEF Due
  <1>10. Due(h)'
    BY <1>2, <1>4 DEF Due, ClientDue, RequestDue, StopDue
  <1>11. QueueInv'
    BY <1>8, <1>9, <1>10, QueueKept
  <1>12. Starting' => Starting
    BY <1>2, <1>3, <1>8, StartingKept
  <1>13. RequestInv' /\ StopInv'
    BY <1>0, <1>3, <1>12, RequestKept, StopKept
  <1>14. StageInv'
    BY <1>0, <1>3, <1>4 DEF StageInv
  <1>15. QED
    BY <1>11, <1>13, <1>14 DEF QuietInv

LEMMA DestroyClientsQuiet == QuietInv /\ destroy_clients => QuietInv'
  <1> SUFFICES ASSUME QuietInv, destroy_clients PROVE QuietInv'
    OBVIOUS
  <1>0. QueueInv /\ RequestInv /\ StopInv /\ StageInv
    BY DEF QuietInv
  <1>1. /\ at = "destroy_clients" /\ at' = "destroy_rest" /\ DOMAIN clients' = {}
        /\ \A k \in DOMAIN clients : clients[k].stop = "stopped"
        /\ UNCHANGED <<queue, flags, posting, answering, on_stopped, stopped, server, sends,
                       timer, incoming>>
    BY DEF destroy_clients, dc_vars, dc_rest, others, NoEntries
  <1>2. \A k \in DOMAIN clients : clients[k].attempt = "over"
    BY <1>0, <1>1 DEF StageInv
  <1>3. ASSUME NEW h, HasHandler(queue, h) PROVE Due(h)'
    <2>1. Due(h)
      BY <1>0, <1>3 DEF QueueInv
    <2>2. h.fn \notin ClientHandlers
      BY <1>1, <1>2, <2>1 DEF Due, ClientDue, ClientHandlers
    <2>3. ClientDue(h)'
      BY <1>1, <2>1, <2>2 DEF Due, ClientDue, ClientHandlers
    <2>4. RequestDue(h)'
      BY <1>1, <2>1, RequestDueKept DEF Due
    <2>5. StopDue(h)'
      BY <1>1, <2>1 DEF Due, StopDue
    <2>6. QED
      BY <2>3, <2>4, <2>5 DEF Due
  <1>4. Gains(queue, queue', {})
    BY <1>0, <1>1, GainsNone DEF QueueInv
  <1>5. QueueInv'
    BY <1>3, <1>4, QueueKept
  <1>6. Starting' => Starting
    BY <1>1 DEF Starting
  <1>7. RequestInv'
    BY <1>0, <1>1, <1>6, RequestKept
  <1>8. StageInv'
    BY <1>0, <1>1 DEF StageInv
  <1>9. StopInv'
    BY <1>0, <1>1, <1>6 DEF StopInv, Before, SettingUp
  <1>10. QED
    BY <1>5, <1>7, <1>8, <1>9 DEF QuietInv

Aborting(fn) == Handler(fn, "aborted", 0)

Cancellable == {"handle_timeout", "handle_response", "handle_send_complete"}

LEMMA AbortingReady ==
    \A fn \in Cancellable :
        /\ fn \in Functions /\ Aborting(fn) \in Ready /\ Aborting(fn).fn = fn
        /\ Kind(fn) \notin Keyed /\ fn \notin {"start", "cancel"}
  BY HandlerReady, FunctionNames, KindNames DEF Aborting, Cancellable, ErrorCodes, Keyed

LEMMA GainsAborted ==
    ASSUME NEW q, Tidy(q), NEW k \in 0 .. 1, NEW fn \in Cancellable,
           k = 1 => \A g : HasHandler(q, g) => Kind(g.fn) # Kind(fn)
    PROVE  Gains(q, q \o DC!Repeat(k, fn), {h \in {Aborting(fn)} : k = 1})
  <1>1. CASE k = 0
    <2>1. 0 \in Nat
      OBVIOUS
    <2>2. Cancelled(0, fn) = << >>
      BY <2>1, CancelledFacts
    <2>3. DC!Repeat(k, fn) = << >>
      BY <1>1, <2>2 DEF DC!Repeat, Cancelled
    <2>4. Gains(q, q, {h \in {Aborting(fn)} : k = 1}) /\ q \o << >> = q
      BY GainsNone, GainsMore
    <2>5. QED
      BY <2>3, <2>4
  <1>2. CASE k = 1
    <2> DEFINE h == Aborting(fn)
    <2>1. DC!Repeat(k, fn) = <<h>>
      BY <1>2 DEF DC!Repeat, DC!Handler, Aborting, Handler
    <2>2. h \in Ready /\ h.fn = fn /\ fn # "cancel"
      BY AbortingReady
    <2> HIDE DEF h
    <2>3. Free(q, h)
      BY <1>2, <2>2, FreeByKind
    <2>4. Gains(q, Append(q, h), {h}) /\ Append(q, h) = q \o <<h>>
      BY <2>2, <2>3, GainsAppend
    <2>5. {g \in {h} : k = 1} = {h}
      BY <1>2
    <2>6. QED
      BY <2>1, <2>4, <2>5 DEF h
  <1>3. QED
    BY <1>1, <1>2

\* A cancel or a close of the timer and the socket: j, k and n operations were outstanding.
Released(q, j, k, n) ==
    q \o DC!Repeat(j, "handle_timeout") \o DC!Repeat(k, "handle_response")
      \o DC!Repeat(n, "handle_send_complete")

LEMMA ReleasedQueue ==
    \A q : Released(q, IF timer THEN 1 ELSE 0, receives, sends) =
             q \o (IF timer THEN DC!Repeat(1, "handle_timeout") ELSE << >>)
               \o DC!Repeat(receives, "handle_response")
               \o DC!Repeat(sends, "handle_send_complete")
  <1>1. DC!Repeat(0, "handle_timeout") = << >>
    <2>1. 0 \in Nat
      OBVIOUS
    <2>2. Cancelled(0, "handle_timeout") = << >>
      BY <2>1, CancelledFacts
    <2>3. QED
      BY <2>2 DEF DC!Repeat, Cancelled
  <1>2. CASE timer
    BY <1>2 DEF Released
  <1>3. CASE ~timer
    BY <1>1, <1>3 DEF Released
  <1>4. QED
    BY <1>2, <1>3

LEMMA TidyReleased ==
    ASSUME NEW q, Tidy(q), NEW j \in 0 .. 1, NEW k \in 0 .. 1, NEW n \in 0 .. 1,
           ~ (j = 1 /\ n = 1),
           j = 1 \/ n = 1 => \A g : HasHandler(q, g) => Kind(g.fn) # "request",
           k = 1 => \A g : HasHandler(q, g) => Kind(g.fn) # "handle_response"
    PROVE  /\ Tidy(Released(q, j, k, n))
           /\ \A h : HasHandler(Released(q, j, k, n), h) =>
                 \/ HasHandler(q, h)
                 \/ j = 1 /\ h = Aborting("handle_timeout")
                 \/ k = 1 /\ h = Aborting("handle_response")
                 \/ n = 1 /\ h = Aborting("handle_send_complete")
  <1> DEFINE a == q \o DC!Repeat(j, "handle_timeout")
             b == a \o DC!Repeat(k, "handle_response")
             c == b \o DC!Repeat(n, "handle_send_complete")
  <1>1. /\ Kind("handle_timeout") = "request" /\ Kind("handle_send_complete") = "request"
        /\ Kind("handle_response") = "handle_response"
        /\ \A fn \in Cancellable : Aborting(fn).fn = fn
        /\ {"handle_timeout", "handle_response", "handle_send_complete"} \subseteq Cancellable
    BY AbortingReady DEF Kind, Cancellable
  <1>2. Gains(q, a, {h \in {Aborting("handle_timeout")} : j = 1})
    BY <1>1, GainsAborted
  <1>3. /\ Tidy(a)
        /\ \A h : HasHandler(a, h) => HasHandler(q, h) \/ (j = 1 /\ h = Aborting("handle_timeout"))
    BY <1>2 DEF Gains
  <1> HIDE DEF a
  <1>4. Gains(a, b, {h \in {Aborting("handle_response")} : k = 1})
    <2>1. k = 1 => \A g : HasHandler(a, g) => Kind(g.fn) # "handle_response"
      BY <1>1, <1>3
    <2>2. QED
      BY <1>1, <1>3, <2>1, GainsAborted
  <1>5. /\ Tidy(b)
        /\ \A h : HasHandler(b, h) => HasHandler(a, h) \/ (k = 1 /\ h = Aborting("handle_response"))
    BY <1>4 DEF Gains
  <1> HIDE DEF b
  <1>6. Gains(b, c, {h \in {Aborting("handle_send_complete")} : n = 1})
    <2>1. n = 1 => \A g : HasHandler(b, g) => Kind(g.fn) # "request"
      BY <1>1, <1>3, <1>5
    <2>2. QED
      BY <1>1, <1>5, <2>1, GainsAborted
  <1>7. /\ Tidy(c)
        /\ \A h : HasHandler(c, h) =>
              HasHandler(b, h) \/ (n = 1 /\ h = Aborting("handle_send_complete"))
    BY <1>6 DEF Gains
  <1>8. Released(q, j, k, n) = c
    BY DEF Released, a, b
  <1> HIDE DEF c
  <1>9. QED
    BY <1>3, <1>5, <1>7, <1>8

LEMMA DestroyRestQuiet == Inv /\ QuietInv /\ destroy_rest => QuietInv'
  <1> SUFFICES ASSUME Inv, QuietInv, destroy_rest PROVE QuietInv'
    OBVIOUS
  <1>0. TypeInv /\ ReceiveInv /\ QueueInv /\ RequestInv /\ StopInv /\ StageInv
    BY DEF Inv, QuietInv
  <1>1. /\ at = "destroy_rest" /\ at' = "gone" /\ sends' = 0 /\ timer' = FALSE
        /\ queue' = queue \o (IF timer THEN DC!Repeat(1, "handle_timeout") ELSE << >>)
                          \o DC!Repeat(receives, "handle_response")
                          \o DC!Repeat(sends, "handle_send_complete")
        /\ UNCHANGED <<flags, posting, answering, on_stopped, stopped, server, clients, incoming>>
    BY DEF destroy_rest, DC!Release, maps, others
  <1>2. flags \subseteq {"running", "stopping"} /\ ~Starting
    BY <1>0, <1>1 DEF StopInv, Before, SettingUp
  <1>3. sends = 0 /\ timer = FALSE /\ receives \in 0 .. 1
    BY <1>0, <1>2 DEF RequestInv, TypeInv
  <1>4. Tidy(queue) /\ queue \in Seq(Ready)
    BY <1>0 DEF QueueInv, Tidy
  <1>5. receives = 1 => \A g : HasHandler(queue, g) => Kind(g.fn) # "handle_response"
    <2>1. receives = 1 => ~ Queued(queue, "handle_response")
      BY <1>0 DEF ReceiveInv
    <2>2. QED
      BY <1>4, <2>1, QueuedHasHandler, HasHandlerType, KindNames
  <1>6. /\ Tidy(queue')
        /\ \A h : HasHandler(queue', h) => HasHandler(queue, h) \/ h = Aborting("handle_response")
    <2>1. queue' = Released(queue, 0, receives, 0)
      <3>1. queue' = Released(queue, IF timer THEN 1 ELSE 0, receives, sends)
        BY <1>1, ReleasedQueue
      <3>2. QED
        BY <1>3, <3>1
    <2>2. 0 \in 0 .. 1 /\ 0 # 1
      OBVIOUS
    <2>3. QED
      BY <1>3, <1>4, <1>5, <2>1, <2>2, TidyReleased
  <1>7. ASSUME NEW h, HasHandler(queue, h) PROVE Due(h)'
    <2>1. Due(h)
      BY <1>0, <1>7 DEF QueueInv
    <2>2. ClientDue(h)' /\ RequestDue(h)'
      BY <1>1, <1>3, <2>1, ClientDueKept, RequestDueKept DEF Due, Ended
    <2>3. StopDue(h)'
      BY <1>1, <2>1 DEF Due, StopDue
    <2>4. QED
      BY <2>2, <2>3 DEF Due
  <1>8. Aborting("handle_response").fn = "handle_response" /\ Due(Aborting("handle_response"))'
    <2>1. Aborting("handle_response").fn = "handle_response"
      BY AbortingReady DEF Cancellable
    <2>2. QED
      BY <2>1 DEF Due, ClientDue, RequestDue, StopDue, ClientHandlers
  <1>9. QueueInv'
    BY <1>6, <1>7, <1>8 DEF QueueInv
  <1>10. Starting' => Starting
    BY <1>1, <1>6, <1>8, QueuedHasHandler DEF Starting
  <1>11. RequestInv' /\ StageInv'
    BY <1>0, <1>1, <1>3, <1>10, RequestKept, StageKept DEF Ended
  <1>12. StopInv'
    BY <1>0, <1>1, <1>10 DEF StopInv, Before, SettingUp
  <1>13. QED
    BY <1>9, <1>11, <1>12 DEF QuietInv

-----------------------------------------------------------------------------
(***************************************************************************)
(* The handlers that end a stop.                                           *)
(***************************************************************************)
\* The handler that runs was due, and no other in the queue is of its kind.
LEMMA RunTidy ==
    ASSUME QuietInv, NEW fn, Next_is(queue, fn)
    PROVE  /\ Tidy(queue) /\ queue # << >> /\ Tidy(Tail(queue))
           /\ Head(queue) \in Ready /\ Head(queue).fn = fn /\ fn \in Functions
           /\ HasHandler(queue, Head(queue)) /\ Due(Head(queue))
           /\ fn = "discovery_server_stopped" =>
                 \A g : HasHandler(Tail(queue), g) => g.fn # "cancel"
           /\ \A g : HasHandler(Tail(queue), g) =>
                 /\ HasHandler(queue, g) /\ g \in Ready /\ g.fn \in Functions /\ Due(g)
                 /\ Slot(g) # Slot(Head(queue))
                 /\ Kind(fn) \notin Keyed => Kind(g.fn) # Kind(fn)
  <1>1. Tidy(queue) /\ queue # << >> /\ Head(queue).fn = fn
    BY DEF QuietInv, QueueInv, Next_is
  <1>2. /\ Tidy(Tail(queue)) /\ Head(queue) \in Ready /\ HasHandler(queue, Head(queue))
        /\ \A g : HasHandler(Tail(queue), g) => HasHandler(queue, g)
        /\ Free(Tail(queue), Head(queue))
        /\ Head(queue).fn = "discovery_server_stopped" =>
              \A g : HasHandler(Tail(queue), g) => g.fn # "cancel"
    BY <1>1, TidyTail
  <1>3. Tail(queue) \in Seq(Ready) /\ queue \in Seq(Ready)
    BY <1>1, <1>2 DEF Tidy
  <1>4. \A h : HasHandler(queue, h) => Due(h) /\ h \in Ready /\ h.fn \in Functions
    BY <1>3, HasHandlerType DEF QuietInv, QueueInv
  <1>5. ASSUME NEW g, HasHandler(Tail(queue), g)
        PROVE  /\ HasHandler(queue, g) /\ g \in Ready /\ g.fn \in Functions /\ Due(g)
               /\ Slot(g) # Slot(Head(queue))
               /\ Kind(fn) \notin Keyed => Kind(g.fn) # Kind(fn)
    <2>1. HasHandler(queue, g) /\ Slot(g) # Slot(Head(queue))
      BY <1>2, <1>5 DEF Free
    <2>2. Kind(fn) \notin Keyed => Kind(g.fn) # Kind(fn)
      BY <1>1, <2>1 DEF Slot
    <2>3. QED
      BY <1>4, <2>1, <2>2
  <1>6. QED
    BY <1>1, <1>2, <1>4, <1>5

LEMMA EndNames ==
    /\ StopCallbacks \subseteq Functions /\ "end" \notin Keyed
    /\ \A fn \in Functions : Kind(fn) = "end" <=> fn \in StopCallbacks
  BY KindNames, FunctionNames DEF StopCallbacks, Keyed

LEMMA EndingQuiet ==
    ASSUME QuietInv, NEW fn \in StopCallbacks, Next_is(queue, fn), queue' = Tail(queue),
           UNCHANGED <<flags, posting, on_stopped, sends, timer, clients>>,
           incoming' \subseteq incoming, at \notin Ended, at' \notin Ended,
           \A g : HasHandler(queue', g) /\ g.fn = "cancel" => StopDue(g)'
    PROVE  /\ QueueInv' /\ RequestInv' /\ StageInv' /\ (Starting' => Starting)
           /\ StopDue(Head(queue)) /\ Head(queue).fn = fn
  <1>0. QueueInv /\ RequestInv /\ StopInv /\ StageInv
    BY DEF QuietInv
  <1>1. /\ Tidy(queue') /\ Head(queue).fn = fn /\ Due(Head(queue))
        /\ \A g : HasHandler(queue', g) =>
              HasHandler(queue, g) /\ g.fn \in Functions /\ Due(g) /\ Kind(g.fn) # Kind(fn)
    BY RunTidy, EndNames
  <1>2. \A g : HasHandler(queue', g) => g.fn \notin StopCallbacks
    BY <1>1, EndNames
  <1>3. ASSUME NEW g, HasHandler(queue', g) PROVE Due(g)'
    <2>1. Due(g) /\ g.fn \notin StopCallbacks
      BY <1>1, <1>2, <1>3
    <2>2. ClientDue(g)' /\ RequestDue(g)'
      BY <2>1, ClientDueKept, RequestDueKept DEF Due
    <2>3. StopDue(g)'
      <3>1. CASE g.fn = "cancel"
        BY <1>3, <3>1
      <3>2. CASE g.fn # "cancel"
        BY <2>1, <3>2 DEF StopDue, StopCallbacks
      <3>3. QED
        BY <3>1, <3>2
    <2>4. QED
      BY <2>2, <2>3 DEF Due
  <1>4. QueueInv'
    BY <1>1, <1>3 DEF QueueInv
  <1>5. Starting' => Starting
    BY <1>1, QueuedHasHandler DEF Starting
  <1>6. RequestInv'
    BY <1>0, <1>5, RequestKept
  <1>7. StageInv'
    BY <1>0 DEF StageInv, Ended
  <1>8. QED
    BY <1>1, <1>4, <1>5, <1>6, <1>7 DEF Due

LEMMA EndingsQuiet ==
    QuietInv /\ (discovery_server_stopped \/ tcp_server_stopped \/ connections_stopped) => QuietInv'
  <1> SUFFICES ASSUME QuietInv,
                      discovery_server_stopped \/ tcp_server_stopped \/ connections_stopped
               PROVE  QuietInv'
    OBVIOUS
  <1>0. QueueInv /\ RequestInv /\ StopInv /\ StageInv
    BY DEF QuietInv
  <1>1. CASE discovery_server_stopped
    <2>1. /\ Next_is(queue, "discovery_server_stopped") /\ queue' = Tail(queue)
          /\ answering' = FALSE
          /\ UNCHANGED <<flags, posting, on_stopped, sends, timer, clients, incoming, at, stopped,
                         server>>
      BY <1>1 DEF discovery_server_stopped, Runs, dc_rest, maps
    <2>2. /\ StopDue(Head(queue)) /\ Head(queue).fn = "discovery_server_stopped"
          /\ \A g : HasHandler(queue', g) => g.fn # "cancel"
      BY <2>1, RunTidy DEF Due
    <2>3. at = "stop_discovery_server"
      BY <2>2 DEF StopDue
    <2>4. QueueInv' /\ RequestInv' /\ StageInv' /\ (Starting' => Starting)
      BY <2>1, <2>2, <2>3, EndingQuiet DEF StopCallbacks, Ended
    <2>5. StopInv'
      BY <1>0, <2>1, <2>3, <2>4 DEF StopInv, Before, SettingUp
    <2>6. QED
      BY <2>4, <2>5 DEF QuietInv
  <1>2. CASE tcp_server_stopped
    <2>1. /\ Next_is(queue, "tcp_server_stopped") /\ queue' = Tail(queue)
          /\ server' = "stopped"
          /\ UNCHANGED <<flags, posting, on_stopped, sends, timer, clients, incoming, at, stopped,
                         answering>>
      BY <1>2 DEF tcp_server_stopped, Runs, dc_rest, maps
    <2>2. /\ StopDue(Head(queue)) /\ Head(queue).fn = "tcp_server_stopped"
          /\ \A g : HasHandler(queue', g) => StopDue(g)
      BY <2>1, RunTidy DEF Due
    <2>3. at = "stop_tcp_server"
      BY <2>2 DEF StopDue
    <2>4. \A g : HasHandler(queue', g) => g.fn # "cancel"
      BY <2>2, <2>3 DEF StopDue
    <2>5. QueueInv' /\ RequestInv' /\ StageInv' /\ (Starting' => Starting)
      BY <2>1, <2>3, <2>4, EndingQuiet DEF StopCallbacks, Ended
    <2>6. StopInv'
      BY <1>0, <2>1, <2>3, <2>5 DEF StopInv, Before, SettingUp
    <2>7. QED
      BY <2>5, <2>6 DEF QuietInv
  <1>3. CASE connections_stopped
    <2>1. /\ Next_is(queue, "connections_stopped") /\ queue' = Tail(queue)
          /\ incoming' = {}
          /\ UNCHANGED <<flags, posting, on_stopped, sends, timer, clients, at, stopped, answering,
                         server>>
      BY <1>3 DEF connections_stopped, Runs, dc_rest, others
    <2>2. /\ StopDue(Head(queue)) /\ Head(queue).fn = "connections_stopped"
          /\ \A g : HasHandler(queue', g) => StopDue(g)
      BY <2>1, RunTidy DEF Due
    <2>3. at \in {"destroy_incoming", "destroy_outgoing"}
      BY <2>2 DEF StopDue
    <2>4. \A g : HasHandler(queue', g) => g.fn # "cancel"
      BY <2>2, <2>3 DEF StopDue
    <2>5. QueueInv' /\ RequestInv' /\ StageInv' /\ (Starting' => Starting)
      BY <2>1, <2>3, <2>4, EndingQuiet DEF StopCallbacks, Ended
    <2>6. StopInv'
      BY <1>0, <2>1, <2>3, <2>5 DEF StopInv, Before, SettingUp
    <2>7. QED
      BY <2>5, <2>6 DEF QuietInv
  <1>4. QED
    BY <1>1, <1>2, <1>3

\* The function that the bridge passed to the discovery client's async_stop.
LEMMA RunStoppedQuiet ==
    QuietInv /\ DC!run_stopped /\ UNCHANGED <<at, net, maps, others>> => QuietInv'
  <1> SUFFICES ASSUME QuietInv, DC!run_stopped, UNCHANGED <<at, net, maps, others>>
               PROVE  QuietInv'
    OBVIOUS
  <1>0. QueueInv /\ RequestInv /\ StopInv /\ StageInv
    BY DEF QuietInv
  <1>1. /\ Next_is(queue, "stopped") /\ queue' = Tail(queue) /\ stopped' = TRUE
        /\ UNCHANGED <<flags, posting, on_stopped, sends, timer, clients, incoming, at,
                       server, answering>>
    BY RunsNext DEF DC!run_stopped, maps, others
  <1>2. /\ StopDue(Head(queue)) /\ Head(queue).fn = "stopped"
        /\ \A g : HasHandler(queue', g) => StopDue(g)
    BY <1>1, RunTidy DEF Due
  <1>3. at = "stop_discovery_client" /\ ~on_stopped
    BY <1>2 DEF StopDue
  <1>4. \A g : HasHandler(queue', g) /\ g.fn = "cancel" => StopDue(g)'
    BY <1>1, <1>2 DEF StopDue
  <1>5. QueueInv' /\ RequestInv' /\ StageInv' /\ (Starting' => Starting)
    BY <1>1, <1>3, <1>4, EndingQuiet DEF StopCallbacks, Ended
  <1>6. StopInv'
    BY <1>0, <1>1, <1>3, <1>5 DEF StopInv, Before, SettingUp
  <1>7. QED
    BY <1>5, <1>6 DEF QuietInv

\* A step that only takes a handler, or none.
LEMMA TakesQuiet ==
    ASSUME QuietInv, queue' = queue \/ \E fn : Next_is(queue, fn) /\ queue' = Tail(queue),
           UNCHANGED <<flags, posting, answering, on_stopped, stopped, server, sends, timer, at,
                       clients>>,
           incoming' \subseteq Remotes
    PROVE  QuietInv'
  <1>0. QueueInv /\ RequestInv /\ StopInv /\ StageInv
    BY DEF QuietInv
  <1>1. Gains(queue, queue', {})
    <2>1. CASE queue' = queue
      BY <1>0, <2>1, GainsNone DEF QueueInv
    <2>2. CASE \E fn : Next_is(queue, fn) /\ queue' = Tail(queue)
      BY <2>2, RunTidy DEF Gains
    <2>3. QED
      BY <2>1, <2>2
  <1>2. ASSUME NEW h, HasHandler(queue, h) PROVE Due(h)'
    <2>1. Due(h)
      BY <1>0, <1>2 DEF QueueInv
    <2>2. ClientDue(h)' /\ RequestDue(h)' /\ StopDue(h)'
      BY <2>1, ClientDueKept, RequestDueKept, StopDueKept DEF Due
    <2>3. QED
      BY <2>2 DEF Due
  <1>3. QueueInv'
    BY <1>1, <1>2, QueueKept
  <1>4. Starting' => Starting
    BY <1>1, StartingKept
  <1>5. RequestInv' /\ StopInv'
    BY <1>0, <1>4, RequestKept, StopKept
  <1>6. StageInv'
    BY <1>0 DEF StageInv
  <1>7. QED
    BY <1>3, <1>5, <1>6 DEF QuietInv

LEMMA OthersQuiet ==
    QuietInv /\ (complete \/ on_accept \/ UNCHANGED vars) => QuietInv'
  <1> SUFFICES ASSUME QuietInv, complete \/ on_accept \/ UNCHANGED vars PROVE QuietInv'
    OBVIOUS
  <1>1. incoming \subseteq Remotes
    BY DEF QuietInv, StageInv
  <1>2. CASE complete
    <2>1. Next_is(queue, "complete") /\ queue' = Tail(queue)
          /\ UNCHANGED <<flags, posting, answering, on_stopped, stopped, server, sends, timer, at,
                         clients, incoming>>
      BY <1>2 DEF complete, Runs, dc_rest, maps, others
    <2>2. QED
      BY <1>1, <2>1, TakesQuiet
  <1>3. CASE on_accept
    <2>1. /\ UNCHANGED <<queue, flags, posting, answering, on_stopped, stopped, server, sends,
                         timer, at, clients>>
          /\ incoming' \subseteq Remotes
      BY <1>1, <1>3 DEF on_accept, dc_vars, dc_rest, others
    <2>2. QED
      BY <2>1, TakesQuiet
  <1>4. CASE UNCHANGED vars
    <2>1. UNCHANGED <<queue, flags, posting, answering, on_stopped, stopped, server, sends,
                      timer, at, clients, incoming>>
      BY <1>4 DEF vars, dc_vars, dc_rest, maps, others
    <2>2. QED
      BY <1>1, <2>1, TakesQuiet
  <1>5. QED
    BY <1>2, <1>3, <1>4

-----------------------------------------------------------------------------
(***************************************************************************)
(* The network, the clock, and the posts of the discovery client.          *)
(***************************************************************************)
\* An accept does not fail when the stop of the TCP server is waited for.
LEMMA AcceptFailsQuiet == QuietInv /\ accept_fails => QuietInv'
  <1> SUFFICES ASSUME QuietInv, accept_fails PROVE QuietInv'
    OBVIOUS
  <1>0. QueueInv /\ RequestInv /\ StopInv /\ StageInv
    BY DEF QuietInv
  <1>1. /\ server = "accepting" /\ at # "stop_tcp_server" /\ server' = "idle"
        /\ UNCHANGED <<queue, flags, posting, answering, on_stopped, stopped, sends, timer, at,
                       clients, incoming>>
    BY DEF accept_fails, dc_vars, dc_rest, maps
  <1>2. ASSUME NEW h, HasHandler(queue, h) PROVE Due(h)'
    <2>1. Due(h)
      BY <1>0, <1>2 DEF QueueInv
    <2>2. ClientDue(h)' /\ RequestDue(h)'
      BY <1>1, <2>1, ClientDueKept, RequestDueKept DEF Due
    <2>3. StopDue(h)'
      BY <1>1, <2>1 DEF Due, StopDue
    <2>4. QED
      BY <2>2, <2>3 DEF Due
  <1>3. QueueInv'
    BY <1>0, <1>1, <1>2 DEF QueueInv
  <1>4. Starting' => Starting
    BY <1>1 DEF Starting
  <1>5. RequestInv' /\ StageInv'
    BY <1>0, <1>1, <1>4, RequestKept, StageKept
  <1>6. StopInv'
    BY <1>0, <1>1, <1>4 DEF StopInv
  <1>7. QED
    BY <1>3, <1>5, <1>6 DEF QuietInv

\* A step that makes one more handler ready.
LEMMA AppendsQuiet ==
    ASSUME QuietInv, NEW h \in Ready, queue' = Append(queue, h), Free(queue, h),
           h.fn = "cancel" => ~ Queued(queue, "discovery_server_stopped"),
           \A g : HasHandler(queue, g) => Due(g)', Due(h)'
    PROVE  /\ QueueInv'
           /\ Queued(queue', "start") => Queued(queue, "start") \/ h.fn = "start"
  <1>1. Tidy(queue)
    BY DEF QuietInv, QueueInv
  <1>2. Gains(queue, queue', {h})
    BY <1>1, GainsAppend
  <1>3. QueueInv'
    BY <1>2, QueueKept
  <1>4. QED
    BY <1>2, <1>3, QueuedHasHandler DEF Gains

LEMMA DueKept ==
    ASSUME QuietInv, NEW g, HasHandler(queue, g),
           UNCHANGED <<clients, at, answering, on_stopped, stopped, server>>
    PROVE  /\ Due(g) /\ ClientDue(g)' /\ g.fn \in Functions
           /\ UNCHANGED <<flags, sends, timer>> => RequestDue(g)'
           /\ posting' \subseteq posting => StopDue(g)'
  <1>1. Due(g)
    BY DEF QuietInv, QueueInv
  <1>2. g.fn \in Functions
    BY HasHandlerType DEF QuietInv, QueueInv, Tidy
  <1>3. ClientDue(g)'
    BY <1>1, ClientDueKept DEF Due
  <1>4. UNCHANGED <<flags, sends, timer>> => RequestDue(g)'
    BY <1>1, RequestDueKept DEF Due
  <1>5. posting' \subseteq posting => StopDue(g)'
    BY <1>1 DEF Due, StopDue
  <1>6. QED
    BY <1>1, <1>2, <1>3, <1>4, <1>5

LEMMA ReceiveEndsQuiet ==
    Inv /\ QuietInv /\ (datagram_arrives \/ receive_fails) => QuietInv'
  <1> SUFFICES ASSUME Inv, QuietInv, datagram_arrives \/ receive_fails PROVE QuietInv'
    OBVIOUS
  <1>0. TypeInv /\ ReceiveInv /\ RequestInv /\ StopInv /\ StageInv
    BY DEF Inv, QuietInv
  <1>1. /\ receives = 1
        /\ UNCHANGED <<flags, posting, answering, on_stopped, stopped, server, sends, timer, at,
                       clients, incoming>>
    BY <1>0 DEF datagram_arrives, DC!datagram_arrives, receive_fails, DC!receive_fails,
                DC!user_vars, maps, others, TypeInv
  <1>2. \E ec \in ErrorCodes, n \in 0 .. 1 :
           queue' = Append(queue, Handler("handle_response", ec, n))
    <2>1. "ok" \in ErrorCodes /\ "failed" \in ErrorCodes
      BY DEF ErrorCodes
    <2>2. CASE datagram_arrives
      BY <2>1, <2>2, SameNames DEF datagram_arrives, DC!datagram_arrives, DC!Completes
    <2>3. CASE receive_fails
      BY <2>1, <2>3, SameNames DEF receive_fails, DC!receive_fails, DC!Completes
    <2>4. QED
      BY <2>2, <2>3
  <1>3. PICK h \in Ready : h.fn = "handle_response" /\ queue' = Append(queue, h)
    BY <1>2, HandlerReady, FunctionNames
  <1>4. ~ Queued(queue, "handle_response")
    BY <1>0, <1>1 DEF ReceiveInv
  <1>5. \A g : HasHandler(queue, g) => Due(g)' /\ Kind(g.fn) # Kind(h.fn)
    <2>1. TAKE g
    <2>2. HAVE HasHandler(queue, g)
    <2>3. ClientDue(g)' /\ RequestDue(g)' /\ StopDue(g)' /\ g.fn \in Functions
      BY <1>1, <2>2, DueKept
    <2>4. g.fn # "handle_response"
      BY <1>4, <2>2, QueuedHasHandler
    <2>5. QED
      BY <1>3, <2>3, <2>4, KindNames, FunctionNames DEF Due
  <1>6. Due(h)'
    BY <1>3 DEF Due, ClientDue, RequestDue, StopDue, ClientHandlers
  <1>7. Free(queue, h)
    BY <1>5, FreeByKind
  <1>8. QueueInv' /\ (Starting' => Starting)
    BY <1>1, <1>3, <1>5, <1>6, <1>7, AppendsQuiet DEF Starting
  <1>9. RequestInv' /\ StopInv' /\ StageInv'
    BY <1>0, <1>1, <1>8, RequestKept, StopKept, StageKept
  <1>10. QED
    BY <1>8, <1>9 DEF QuietInv

LEMMA AttemptCompletesQuiet == Inv /\ QuietInv /\ attempt_completes => QuietInv'
  <1> SUFFICES ASSUME Inv, QuietInv, attempt_completes PROVE QuietInv'
    OBVIOUS
  <1>0. ClientsInv /\ QueueInv /\ RequestInv /\ StopInv /\ StageInv
    BY DEF Inv, QuietInv
  <1>1. PICK k \in DOMAIN clients :
           /\ clients[k].attempt = "working"
           /\ clients' = [clients EXCEPT ![k].attempt = "completed"]
           /\ \E ec \in {"ok", "failed"} : queue' = Append(queue, Handler("handle_connect", ec, k))
    BY DEF attempt_completes
  <1>2. PICK ec \in {"ok", "failed"} : queue' = Append(queue, Handler("handle_connect", ec, k))
    BY <1>1
  <1>3. UNCHANGED <<flags, posting, answering, on_stopped, stopped, server, sends, timer, at,
                    incoming>>
    BY DEF attempt_completes, dc_rest, others
  <1> DEFINE h == Handler("handle_connect", ec, k)
  <1>4. k \in Nat /\ clients[k] \in Client
    BY <1>0 DEF ClientsInv
  <1>5. h \in Ready /\ h.fn = "handle_connect" /\ h.n = k
    BY <1>4, HandlerReady, FunctionNames DEF ErrorCodes, ClientHandlers
  <1>6. queue' = Append(queue, h)
    BY <1>2
  <1> HIDE DEF h
  <1>7. /\ DOMAIN clients' = DOMAIN clients
        /\ \A j \in DOMAIN clients : j # k => clients'[j] = clients[j]
        /\ clients'[k].attempt = "completed" /\ clients'[k].stop = clients[k].stop
    BY <1>1, <1>4 DEF Client
  <1>8. ASSUME NEW g, HasHandler(queue, g)
        PROVE  /\ Due(g) /\ g.fn \in Functions
               /\ g.n = k => g.fn \notin {"async_resolve", "handle_connect", "complete"}
    <2>1. g.fn \in Functions /\ Due(g)
      BY <1>0, <1>8, HasHandlerType DEF QueueInv, Tidy
    <2>2. at \notin Ended
      BY <1>0, <1>1 DEF StageInv, Ended
    <2>3. QED
      BY <1>1, <2>1, <2>2 DEF Due, ClientDue, Ended
  <1>9. Free(queue, h)
    <2>1. ASSUME NEW g, HasHandler(queue, g), Kind(g.fn) = Kind(h.fn)
          PROVE  Kind(h.fn) \in Keyed /\ g.n # h.n
      <3>1. Kind(h.fn) = "attempt" /\ Kind(h.fn) \in Keyed
        BY <1>5, KindNames, FunctionNames DEF ClientHandlers, Keyed
      <3>2. g.fn \in {"async_resolve", "handle_connect"}
        BY <1>8, <2>1, <3>1, KindNames
      <3>3. QED
        BY <1>5, <1>8, <2>1, <3>1, <3>2
    <2>2. QED
      BY <2>1, FreeByKind
  <1>10. ASSUME NEW g, HasHandler(queue, g) PROVE Due(g)'
    <2>1. Due(g) /\ (g.n = k => g.fn \notin {"async_resolve", "handle_connect", "complete"})
      BY <1>8, <1>10
    <2>2. ClientDue(g)'
      BY <1>3, <1>7, <2>1, ClientDueChanged DEF Due
    <2>3. RequestDue(g)' /\ StopDue(g)'
      BY <1>3, <2>1, RequestDueKept, StopDueKept DEF Due
    <2>4. QED
      BY <2>2, <2>3 DEF Due
  <1>11. Due(h)'
    BY <1>5, <1>7 DEF Due, ClientDue, RequestDue, StopDue
  <1>12. QueueInv' /\ (Starting' => Starting)
    BY <1>3, <1>5, <1>6, <1>9, <1>10, <1>11, AppendsQuiet DEF Starting
  <1>13. RequestInv' /\ StopInv'
    BY <1>0, <1>3, <1>12, RequestKept, StopKept
  <1>14. StageInv'
    BY <1>0, <1>1, <1>3, <1>7 DEF StageInv
  <1>15. QED
    BY <1>12, <1>13, <1>14 DEF QuietInv

LEMMA DiscoveryGoesOnQuiet == Inv /\ QuietInv /\ DiscoveryClientGoesOn => QuietInv'
  <1> SUFFICES ASSUME Inv, QuietInv, DiscoveryClientGoesOn PROVE QuietInv'
    OBVIOUS
  <1>0. TypeInv /\ ReceiveInv /\ QueueInv /\ RequestInv /\ StopInv /\ StageInv
    BY DEF Inv, QuietInv
  <1>1. UNCHANGED <<flags, answering, on_stopped, stopped, server, at, clients, incoming>>
    BY DEF DiscoveryClientGoesOn, DC!Posting, DC!post, DC!send_completes, DC!timer_expires,
           DC!user_vars, maps, others
  <1>2. StageInv'
    BY <1>0, <1>1, StageKept
  <1>3. CASE DC!send_completes \/ DC!timer_expires
    <2>1. PICK fn \in {"handle_send_complete", "handle_timeout"}, ec \in {"ok", "failed"} :
             queue' = Append(queue, Handler(fn, ec, 0))
      BY <1>3, SameNames DEF DC!send_completes, DC!timer_expires, DC!Completes
    <2> DEFINE h == Handler(fn, ec, 0)
    <2>2. h \in Ready /\ h.fn = fn
      BY HandlerReady, FunctionNames DEF ErrorCodes
    <2>3. queue' = Append(queue, h)
      BY <2>1
    <2>4. \/ /\ sends = 1 /\ sends' = 0 /\ UNCHANGED <<posting, timer>>
             /\ fn = "handle_send_complete"
          \/ /\ timer /\ timer' = FALSE /\ UNCHANGED <<posting, sends>>
             /\ fn = "handle_timeout"
      <3>1. CASE DC!send_completes
        <4>1. PICK e \in {"ok", "failed"} :
                 queue' = Append(queue, Handler("handle_send_complete", e, 0))
          BY <3>1, SameNames DEF DC!send_completes, DC!Completes
        <4>2. sends = 1 /\ sends' = 0 /\ UNCHANGED <<posting, timer>>
          BY <1>0, <3>1 DEF DC!send_completes, RequestInv
        <4>3. fn = "handle_send_complete"
          <5>1. /\ Append(queue, Handler("handle_send_complete", e, 0))[Len(queue) + 1]
                      = Handler("handle_send_complete", e, 0)
                /\ Append(queue, Handler(fn, ec, 0))[Len(queue) + 1] = Handler(fn, ec, 0)
            BY <1>0, HandlerReady, FunctionNames, AppendProperties DEF TypeInv, ErrorCodes
          <5>2. Handler("handle_send_complete", e, 0).fn = Handler(fn, ec, 0).fn
            BY <2>1, <4>1, <5>1
          <5>3. QED
            BY <5>2 DEF Handler
        <4>4. QED
          BY <4>2, <4>3
      <3>2. CASE DC!timer_expires
        <4>1. queue' = Append(queue, Handler("handle_timeout", "ok", 0))
          BY <3>2, SameNames DEF DC!timer_expires, DC!Completes
        <4>2. timer /\ timer' = FALSE /\ UNCHANGED <<posting, sends>>
          BY <3>2 DEF DC!timer_expires
        <4>3. fn = "handle_timeout"
          <5>1. /\ Append(queue, Handler("handle_timeout", "ok", 0))[Len(queue) + 1]
                      = Handler("handle_timeout", "ok", 0)
                /\ Append(queue, Handler(fn, ec, 0))[Len(queue) + 1] = Handler(fn, ec, 0)
            BY <1>0, HandlerReady, FunctionNames, AppendProperties DEF TypeInv, ErrorCodes
          <5>2. Handler("handle_timeout", "ok", 0).fn = Handler(fn, ec, 0).fn
            BY <2>1, <4>1, <5>1
          <5>3. QED
            BY <5>2 DEF Handler
        <4>4. QED
          BY <4>2, <4>3
      <3>3. QED
        BY <1>3, <3>1, <3>2
    <2> HIDE DEF h
    <2>5. /\ timer \in BOOLEAN /\ timer' \in BOOLEAN
          /\ sends = 1 => "sending_async" \in flags
          /\ timer => "timer_running" \in flags
          /\ ~ ("sending_async" \in flags /\ "timer_running" \in flags)
      BY <1>0, <2>4 DEF RequestInv
    <2>6. ASSUME NEW g, HasHandler(queue, g)
          PROVE  Due(g)' /\ Kind(g.fn) # Kind(h.fn)
      <3>1. Due(g) /\ ClientDue(g)' /\ StopDue(g)' /\ g.fn \in Functions
        BY <1>1, <2>4, <2>6, DueKept
      <3>2. g.fn \notin {"handle_send_complete", "handle_timeout"}
        BY <2>4, <2>5, <3>1 DEF Due, RequestDue
      <3>3. Kind(h.fn) = "request"
        BY <2>2, KindNames, FunctionNames
      <3>4. QED
        BY <3>1, <3>2, <3>3, KindNames DEF Due, RequestDue
    <2>7. Due(h)'
      <3>1. ClientDue(h)' /\ StopDue(h)'
        BY <2>2 DEF ClientDue, StopDue, ClientHandlers
      <3>2. CASE fn = "handle_send_complete"
        BY <1>1, <2>2, <2>4, <2>5, <3>1, <3>2 DEF Due, RequestDue
      <3>3. CASE fn = "handle_timeout"
        <4>1. "timer_running" \in flags' /\ ~timer'
          BY <1>1, <2>4, <2>5, <3>3
        <4>2. QED
          BY <2>2, <3>1, <3>3, <4>1 DEF Due, RequestDue
      <3>4. QED
        BY <3>2, <3>3
    <2>8. Free(queue, h)
      BY <2>6, FreeByKind
    <2>9. QueueInv' /\ (Starting' => Starting)
      BY <2>2, <2>3, <2>4, <2>6, <2>7, <2>8, AppendsQuiet DEF Starting
    <2>10. StopInv'
      BY <1>0, <1>1, <2>4, <2>9, StopKept
    <2>11. RequestInv'
      <3>1. /\ sends' \in 0 .. 1 /\ (sends' = 1 => sends = 1) /\ (timer' => timer)
        BY <1>0, <2>4, <2>5 DEF RequestInv
      <3>2. QED
        BY <1>0, <1>1, <2>5, <2>9, <3>1 DEF RequestInv
    <2>12. QED
      BY <1>2, <2>9, <2>10, <2>11 DEF QuietInv
  <1>4. CASE DC!Posting
    <2>1. PICK fn \in {"start", "cancel"} :
             fn \in posting /\ posting' = posting \ {fn} /\ queue' = Append(queue, Posted(fn))
      BY <1>4, SameNames DEF DC!Posting, DC!post
    <2>2. UNCHANGED <<sends, timer>>
      BY <1>4 DEF DC!Posting, DC!post
    <2> DEFINE h == Posted(fn)
    <2>3. h \in Ready /\ h.fn = fn /\ fn \in Functions
      BY PostedReady, FunctionNames
    <2>4. queue' = Append(queue, h)
      BY <2>1
    <2> HIDE DEF h
    <2>5. /\ fn = "start" => ~ Queued(queue, "start")
          /\ fn = "cancel" => at = "stop_discovery_client"
      BY <1>0, <2>1 DEF ReceiveInv, StopInv
    <2>6. ASSUME NEW g, HasHandler(queue, g)
          PROVE  Due(g)' /\ g.fn # fn /\ g.fn \in Functions
                 /\ (fn = "cancel" => g.fn # "discovery_server_stopped")
      <3>1. Due(g) /\ ClientDue(g)' /\ RequestDue(g)' /\ StopDue(g)' /\ g.fn \in Functions
        BY <1>1, <2>1, <2>2, <2>6, DueKept
      <3>2. CASE fn = "start"
        BY <2>5, <2>6, <3>1, <3>2, QueuedHasHandler DEF Due
      <3>3. CASE fn = "cancel"
        BY <2>1, <2>5, <3>1, <3>3 DEF Due, StopDue
      <3>4. QED
        BY <3>2, <3>3
    <2>7. Due(h)'
      <3>1. ClientDue(h)' /\ RequestDue(h)'
        BY <2>3 DEF ClientDue, RequestDue, ClientHandlers
      <3>2. StopDue(h)'
        BY <1>1, <2>1, <2>3, <2>5 DEF StopDue
      <3>3. QED
        BY <3>1, <3>2 DEF Due
    <2>8. Free(queue, h)
      <3>1. \A g : HasHandler(queue, g) => Kind(g.fn) # Kind(h.fn)
        <4>1. Kind(fn) = fn /\ \A f \in Functions : Kind(f) = Kind(fn) => f = fn
          BY <2>3, KindNames
        <4>2. QED
          BY <2>3, <2>6, <4>1
      <3>2. QED
        BY <3>1, FreeByKind
    <2>9. QueueInv' /\ (Queued(queue', "start") => Queued(queue, "start") \/ fn = "start")
      <3>1. fn = "cancel" => ~ Queued(queue, "discovery_server_stopped")
        BY <2>6, QueuedHasHandler
      <3>2. QED
        BY <2>3, <2>4, <2>6, <2>7, <2>8, <3>1, AppendsQuiet
    <2>10. Starting' => Starting
      BY <2>1, <2>9 DEF Starting
    <2>11. RequestInv'
      BY <1>0, <1>1, <2>2, <2>10, RequestKept
    <2>12. StopInv'
      BY <1>0, <1>1, <2>1, <2>10 DEF StopInv
    <2>13. QED
      BY <1>2, <2>9, <2>11, <2>12 DEF QuietInv
  <1>5. QED
    BY <1>3, <1>4 DEF DiscoveryClientGoesOn

-----------------------------------------------------------------------------
(***************************************************************************)
(* The handlers of a TcpClient.                                            *)
(***************************************************************************)
OfAttempt == {"async_resolve", "handle_connect"}
OfStop    == {"client_cancel", "client_stopped"}

\* The client whose handler runs is in the map, and no other handler of it is of the kind.
LEMMA TurnStarts ==
    ASSUME Inv, QuietInv, NEW fn \in ClientHandlers, Runs(fn), NEW k, k = key_of_next
    PROVE  /\ Next_is(queue, fn) /\ k \in Nat /\ k = Head(queue).n
           /\ k \in DOMAIN clients /\ clients[k] \in Client /\ k \in Times
           /\ at \notin Ended
           /\ fn = "async_resolve" => clients[k].attempt = "posted"
           /\ fn = "handle_connect" => clients[k].attempt = "completed"
           /\ fn = "client_cancel" => clients[k].stop = "signaled"
           /\ fn = "client_stopped" => clients[k].stop = "resolved"
           /\ \A g : HasHandler(Tail(queue), g) /\ g.n = k =>
                 /\ ClientDue(g)
                 /\ fn \in OfAttempt => g.fn \notin OfAttempt
                 /\ fn \in OfStop => g.fn \notin OfStop
  <1>0. ClientsInv /\ StageInv
    BY DEF Inv, QuietInv
  <1>1. /\ Next_is(queue, fn) /\ k \in Nat /\ k = Head(queue).n
        /\ k \in DOMAIN clients => clients[k] \in Client
    BY NextClient
  <1>2. /\ Head(queue).fn = fn /\ fn \in Functions /\ Due(Head(queue))
        /\ \A g : HasHandler(Tail(queue), g) =>
              Due(g) /\ g.fn \in Functions /\ Slot(g) # Slot(Head(queue))
    BY <1>1, RunTidy
  <1>3. ClientDue(Head(queue))
    BY <1>2 DEF Due
  <1>4. /\ k \in DOMAIN clients
        /\ fn = "async_resolve" => clients[k].attempt = "posted"
        /\ fn = "handle_connect" => clients[k].attempt = "completed"
        /\ fn = "client_cancel" => clients[k].stop = "signaled"
        /\ fn = "client_stopped" => clients[k].stop = "resolved"
    BY <1>1, <1>2, <1>3 DEF ClientDue
  <1>5. at \notin Ended /\ k \in Times
    BY <1>0, <1>4 DEF StageInv, Ended
  <1>6. ASSUME NEW g, HasHandler(Tail(queue), g), g.n = k
        PROVE  /\ ClientDue(g)
               /\ fn \in OfAttempt => g.fn \notin OfAttempt
               /\ fn \in OfStop => g.fn \notin OfStop
    <2>1. Due(g) /\ g.fn \in Functions /\ Slot(g) # Slot(Head(queue))
      BY <1>2, <1>6
    <2>2. Kind(g.fn) # Kind(fn) \/ Kind(fn) \notin Keyed
      BY <1>1, <1>2, <1>6, <2>1 DEF Slot
    <2>3. \A f \in Functions : /\ Kind(f) = "attempt" <=> f \in OfAttempt
                               /\ Kind(f) = "stop" <=> f \in OfStop
      BY KindNames DEF OfAttempt, OfStop
    <2>4. "attempt" \in Keyed /\ "stop" \in Keyed
      BY DEF Keyed
    <2>5. QED
      BY <1>2, <2>1, <2>2, <2>3, <2>4 DEF Due
  <1>7. QED
    BY <1>1, <1>4, <1>5, <1>6

LEMMA GainsOne ==
    ASSUME NEW q, Tidy(q), NEW h \in Ready, h.fn # "cancel", NEW s,
           s = << >> \/ (s = <<h>> /\ Free(q, h))
    PROVE  Gains(q, q \o s, {h})
           /\ (s = << >> => \A g : HasHandler(q \o s, g) => HasHandler(q, g))
  <1>1. CASE s = << >>
    <2>1. Gains(q, q, {}) /\ q \o << >> = q
      BY GainsNone
    <2>2. Gains(q, q \o s, {})
      BY <1>1, <2>1
    <2>3. Gains(q, q \o s, {h})
      BY <2>2, GainsMore
    <2>4. QED
      BY <2>2, <2>3 DEF Gains
  <1>2. CASE s = <<h>> /\ Free(q, h)
    <2>1. Gains(q, Append(q, h), {h}) /\ Append(q, h) = q \o <<h>>
      BY <1>2, GainsAppend
    <2>2. <<h>> # << >>
      OBVIOUS
    <2>3. QED
      BY <1>2, <2>1, <2>2
  <1>3. QED
    BY <1>1, <1>2

\* What the handler posts: h perhaps, before or after the stopped callback o.
LEMMA GainsTwo ==
    ASSUME NEW q, Tidy(q), NEW h \in Ready, NEW o \in Ready, h.fn # "cancel", o.fn # "cancel",
           Slot(h) # Slot(o), NEW s, s = << >> \/ (s = <<h>> /\ Free(q, h)),
           NEW t, t = << >> \/ (t = <<o>> /\ Free(q, o)),
           NEW r, r = q \o s \o t \o << >> \/ r = q \o << >> \o t \o s
    PROVE  /\ Gains(q, r, {h, o})
           /\ s = << >> => Gains(q, r, {o})
           /\ t = << >> => Gains(q, r, {h})
           /\ s = << >> /\ t = << >> => Gains(q, r, {})
  <1>1. CASE r = q \o s \o t \o << >>
    <2> DEFINE a == q \o s
               b == a \o t
    <2>1. Gains(q, a, {h}) /\ (s = << >> => Gains(q, a, {}))
      <3>1. Gains(q, a, {h}) /\ (s = << >> => \A g : HasHandler(a, g) => HasHandler(q, g))
        BY GainsOne
      <3>2. QED
        BY <3>1 DEF Gains
    <2>2. Tidy(a) /\ \A g : HasHandler(a, g) => HasHandler(q, g) \/ g = h
      BY <2>1 DEF Gains
    <2> HIDE DEF a
    <2>3. t = << >> \/ (t = <<o>> /\ Free(a, o))
      BY <2>2 DEF Free
    <2>4. Gains(a, b, {o}) /\ (t = << >> => Gains(a, b, {}))
      <3>1. Gains(a, b, {o}) /\ (t = << >> => \A g : HasHandler(b, g) => HasHandler(a, g))
        BY <2>2, <2>3, GainsOne
      <3>2. QED
        BY <3>1 DEF Gains
    <2>5. Tidy(b)
      BY <2>4 DEF Gains
    <2>6. r = b \o << >>
      BY <1>1 DEF a
    <2> HIDE DEF b
    <2>7. r = b
      BY <2>5, <2>6, GainsNone
    <2>8. QED
      BY <2>1, <2>4, <2>7 DEF Gains
  <1>2. CASE r = q \o << >> \o t \o s
    <2> DEFINE b == q \o t
    <2>1. q \o << >> = q
      BY GainsNone
    <2>2. r = b \o s
      BY <1>2, <2>1
    <2>3. Gains(q, b, {o}) /\ (t = << >> => Gains(q, b, {}))
      <3>1. Gains(q, b, {o}) /\ (t = << >> => \A g : HasHandler(b, g) => HasHandler(q, g))
        BY GainsOne
      <3>2. QED
        BY <3>1 DEF Gains
    <2>4. Tidy(b) /\ \A g : HasHandler(b, g) => HasHandler(q, g) \/ g = o
      BY <2>3 DEF Gains
    <2> HIDE DEF b
    <2>5. s = << >> \/ (s = <<h>> /\ Free(b, h))
      BY <2>4 DEF Free
    <2>6. Gains(b, r, {h}) /\ (s = << >> => Gains(b, r, {}))
      <3>1. Gains(b, r, {h}) /\ (s = << >> => \A g : HasHandler(r, g) => HasHandler(b, g))
        BY <2>2, <2>4, <2>5, GainsOne
      <3>2. QED
        BY <3>1 DEF Gains
    <2>7. QED
      BY <2>3, <2>6 DEF Gains
  <1>3. QED
    BY <1>1, <1>2

LEMMA GoesOnQuiet ==
    ASSUME Inv, QuietInv, NEW fn \in ClientHandlers, Next_is(queue, fn), NEW k \in Times,
           k \in Nat, k \in DOMAIN clients, clients[k] \in Client, at \notin Ended, NEW c \in Client,
           NEW h \in Ready, h.n = k, h.fn \in {"handle_connect", "complete"},
           NEW s, s = << >> \/ (s = <<h>> /\ Free(Tail(queue), h)),
           s = <<h>> => /\ h.fn = "handle_connect" => c.attempt = "completed"
                        /\ h.fn = "complete" => c.attempt = "over",
           client_goes_on(k, c, s, << >>) \/ client_goes_on(k, c, << >>, s),
           \A g : HasHandler(Tail(queue), g) /\ g.n = k =>
              /\ g.fn \in {"async_resolve", "handle_connect", "complete"} =>
                    c.attempt = clients[k].attempt
              /\ g.fn \in OfStop => c.stop = clients[k].stop /\ ~resolves(c),
           c.stop \in {"resolved", "stopped"} => c.attempt = "over"
    PROVE  QuietInv'
  <1>0. QueueInv /\ RequestInv /\ StopInv /\ StageInv
    BY DEF QuietInv
  <1> DEFINE o == Handler("client_stopped", "ok", k)
             t == IF resolves(c) THEN <<o>> ELSE << >>
             d == IF resolves(c) THEN [c EXCEPT !.stop = "resolved"] ELSE c
             q == Tail(queue)
  <1>1. o \in Ready /\ o.fn = "client_stopped" /\ o.n = k
    BY HandlerReady, FunctionNames DEF ErrorCodes, ClientHandlers
  <1>2. /\ clients' = [clients EXCEPT ![k] = d]
        /\ queue' = q \o s \o t \o << >> \/ queue' = q \o << >> \o t \o s
        /\ UNCHANGED <<flags, posting, answering, on_stopped, stopped, server, sends, timer, at,
                       incoming>>
    BY DEF client_goes_on, dc_rest, others
  <1>3. /\ d.attempt = c.attempt /\ d.stop = IF resolves(c) THEN "resolved" ELSE c.stop
        /\ resolves(c) => c.attempt = "over"
    BY DEF Client, resolves
  <1>4. t = << >> \/ (t = <<o>> /\ resolves(c))
    OBVIOUS
  <1> HIDE DEF o, t, d, q
  <1>5. /\ DOMAIN clients' = DOMAIN clients /\ clients'[k] = d
        /\ \A j \in DOMAIN clients : j # k => clients'[j] = clients[j]
    BY <1>2
  <1>6. /\ Tidy(q)
        /\ \A g : HasHandler(q, g) => HasHandler(queue, g) /\ g.fn \in Functions /\ Due(g)
    BY RunTidy DEF q
  <1>7. Slot(h) # Slot(o)
    <2>1. Kind("handle_connect") # Kind("client_stopped") /\ Kind("complete") # Kind("client_stopped")
      BY DEF Kind
    <2>2. QED
      BY <1>1, <2>1 DEF Slot
  <1>8. resolves(c) => Free(q, o)
    <2>1. HAVE resolves(c)
    <2>2. ASSUME NEW g, HasHandler(q, g), Kind(g.fn) = Kind(o.fn)
          PROVE  Kind(o.fn) \in Keyed /\ g.n # o.n
      <3>1. Kind(o.fn) = "stop" /\ "stop" \in Keyed
        BY <1>1, KindNames, FunctionNames DEF ClientHandlers, Keyed
      <3>2. g.fn \in OfStop
        BY <1>6, <2>2, <3>1, KindNames DEF OfStop
      <3>3. QED
        BY <1>1, <2>1, <2>2, <3>1, <3>2 DEF q
    <2>3. QED
      BY <2>2, FreeByKind
  <1>9. s = << >> \/ (s = <<h>> /\ Free(q, h))
    BY DEF q
  <1>10. /\ Gains(q, queue', {h, o})
         /\ s = << >> => Gains(q, queue', {o})
         /\ t = << >> => Gains(q, queue', {h})
         /\ s = << >> /\ t = << >> => Gains(q, queue', {})
    BY <1>1, <1>2, <1>4, <1>6, <1>7, <1>8, <1>9, GainsTwo
  <1>11. ASSUME NEW g, HasHandler(q, g) PROVE Due(g)'
    <2>1. Due(g)
      BY <1>6, <1>11
    <2>2. g.n = k => /\ g.fn \in {"async_resolve", "handle_connect", "complete"} =>
                           c.attempt = clients[k].attempt
                     /\ g.fn \in OfStop => c.stop = clients[k].stop /\ ~resolves(c)
      BY <1>11 DEF q
    <2>3. ClientDue(g)'
      BY <1>2, <1>3, <1>5, <2>1, <2>2, ClientDueChanged DEF Due, OfStop
    <2>4. RequestDue(g)' /\ StopDue(g)'
      BY <1>2, <2>1, RequestDueKept, StopDueKept DEF Due
    <2>5. QED
      BY <2>3, <2>4 DEF Due
  <1>12. s = <<h>> => Due(h)'
    BY <1>3, <1>5 DEF Due, ClientDue, RequestDue, StopDue
  <1>13. resolves(c) => Due(o)'
    BY <1>1, <1>3, <1>5 DEF Due, ClientDue, RequestDue, StopDue
  <1>14. QueueInv'
    <2>1. CASE s = << >> /\ t = << >>
      BY <1>10, <1>11, <2>1, QueueKept
    <2>2. CASE s = << >> /\ resolves(c)
      BY <1>10, <1>11, <1>13, <2>2, QueueKept
    <2>3. CASE s = <<h>> /\ t = << >>
      BY <1>10, <1>11, <1>12, <2>3, QueueKept
    <2>4. CASE s = <<h>> /\ resolves(c)
      BY <1>10, <1>11, <1>12, <1>13, <2>4, QueueKept
    <2>5. QED
      BY <1>4, <1>9, <2>1, <2>2, <2>3, <2>4
  <1>15. Starting' => Starting
    <2>1. \A g : HasHandler(queue', g) => HasHandler(queue, g) \/ g \in {h, o}
      BY <1>6, <1>10 DEF Gains
    <2>2. QED
      BY <1>1, <1>2, <2>1, QueuedHasHandler DEF Starting
  <1>16. RequestInv' /\ StopInv'
    BY <1>0, <1>2, <1>15, RequestKept, StopKept
  <1>17. StageInv'
    BY <1>0, <1>2, <1>3, <1>5 DEF StageInv
  <1>18. QED
    BY <1>14, <1>16, <1>17 DEF QuietInv

LEMMA AsyncResolveQuiet == Inv /\ QuietInv /\ async_resolve => QuietInv'
  <1> SUFFICES ASSUME Inv, QuietInv, async_resolve PROVE QuietInv'
    OBVIOUS
  <1> DEFINE k == key_of_next
             c == [clients[k] EXCEPT !.attempt = IF clients[k].stop = "no" THEN "working" ELSE "over"]
             h == Handler("complete", "ok", k)
  <1>1. Runs("async_resolve") /\ client_goes_on(k, c, << >>, << >>)
        /\ "async_resolve" \in ClientHandlers /\ "async_resolve" \in OfAttempt
    BY DEF async_resolve, ClientHandlers, OfAttempt
  <1> HIDE DEF k
  <1>2. /\ Next_is(queue, "async_resolve") /\ k \in Nat /\ k \in DOMAIN clients
        /\ clients[k] \in Client /\ k \in Times /\ at \notin Ended
        /\ clients[k].attempt = "posted"
        /\ \A g : HasHandler(Tail(queue), g) /\ g.n = k => ClientDue(g) /\ g.fn \notin OfAttempt
    BY <1>1, TurnStarts DEF k
  <1>3. c \in Client /\ c.stop = clients[k].stop /\ clients[k].stop \notin {"resolved", "stopped"}
    BY <1>2 DEF Client, Attempts, QuietInv, StageInv
  <1>4. h \in Ready /\ h.n = k /\ h.fn = "complete"
    BY <1>2, HandlerReady, FunctionNames DEF ErrorCodes
  <1> HIDE DEF c, h
  <1>5. ASSUME NEW g, HasHandler(Tail(queue), g), g.n = k
        PROVE  /\ g.fn \notin {"async_resolve", "handle_connect", "complete"}
               /\ g.fn \in OfStop => c.stop = clients[k].stop /\ ~resolves(c)
    <2>1. ClientDue(g) /\ g.fn \notin OfAttempt
      BY <1>2, <1>5
    <2>2. QED
      BY <1>2, <1>3, <1>5, <2>1 DEF ClientDue, OfAttempt, OfStop, Ended, resolves
  <1> DEFINE s == << >>
  <1>6. client_goes_on(k, c, s, << >>)
    BY <1>1 DEF c
  <1>7. s = << >> /\ s # <<h>>
    OBVIOUS
  <1> HIDE DEF s
  <1>8. QED
    BY <1>1, <1>2, <1>3, <1>4, <1>5, <1>6, <1>7, GoesOnQuiet

LEMMA HandleConnectQuiet == Inv /\ QuietInv /\ handle_connect => QuietInv'
  <1> SUFFICES ASSUME Inv, QuietInv, handle_connect PROVE QuietInv'
    OBVIOUS
  <1> DEFINE k == key_of_next
             c == [clients[k] EXCEPT !.attempt = "over"]
             h == Handler("complete", "ok", k)
  <1>1. /\ Runs("handle_connect")
        /\ "handle_connect" \in ClientHandlers /\ "handle_connect" \in OfAttempt
        /\ \/ client_goes_on(k, c, << >>, << >>) \/ client_goes_on(k, c, <<h>>, << >>)
           \/ client_goes_on(k, c, << >>, <<h>>)
    BY DEF handle_connect, ClientHandlers, OfAttempt
  <1> HIDE DEF k
  <1>2. /\ Next_is(queue, "handle_connect") /\ k \in Nat /\ k \in DOMAIN clients
        /\ clients[k] \in Client /\ k \in Times /\ at \notin Ended
        /\ clients[k].attempt = "completed"
        /\ \A g : HasHandler(Tail(queue), g) /\ g.n = k => ClientDue(g) /\ g.fn \notin OfAttempt
    BY <1>1, TurnStarts DEF k
  <1>3. /\ c \in Client /\ c.stop = clients[k].stop /\ c.attempt = "over"
        /\ clients[k].stop \notin {"resolved", "stopped"}
    BY <1>2 DEF Client, Attempts, QuietInv, StageInv
  <1>4. h \in Ready /\ h.n = k /\ h.fn = "complete"
    BY <1>2, HandlerReady, FunctionNames DEF ErrorCodes
  <1> HIDE DEF c, h
  <1>5. ASSUME NEW g, HasHandler(Tail(queue), g), g.n = k
        PROVE  /\ g.fn \notin {"async_resolve", "handle_connect", "complete"}
               /\ g.fn \in OfStop => c.stop = clients[k].stop /\ ~resolves(c)
    <2>1. ClientDue(g) /\ g.fn \notin OfAttempt
      BY <1>2, <1>5
    <2>2. QED
      BY <1>2, <1>3, <1>5, <2>1 DEF ClientDue, OfAttempt, OfStop, Ended, resolves
  <1>6. Free(Tail(queue), h)
    <2>1. ASSUME NEW g, HasHandler(Tail(queue), g), Kind(g.fn) = Kind(h.fn)
          PROVE  Kind(h.fn) \in Keyed /\ g.n # h.n
      <3>1. g.fn \in Functions
        BY <1>2, <2>1, RunTidy
      <3>2. g.fn = "complete" /\ Kind(h.fn) \in Keyed
        BY <1>4, <2>1, <3>1, KindNames, FunctionNames DEF Keyed
      <3>3. QED
        BY <1>4, <1>5, <2>1, <3>2
    <2>2. QED
      BY <2>1, FreeByKind
  <1>7. PICK s \in {<< >>, <<h>>} : client_goes_on(k, c, s, << >>) \/ client_goes_on(k, c, << >>, s)
    BY <1>1 DEF c, h
  <1>8. s = << >> \/ (s = <<h>> /\ Free(Tail(queue), h))
    BY <1>6, <1>7
  <1>9. QED
    BY <1>1, <1>2, <1>3, <1>4, <1>5, <1>7, <1>8, GoesOnQuiet

LEMMA ClientCancelQuiet == Inv /\ QuietInv /\ client_cancel => QuietInv'
  <1> SUFFICES ASSUME Inv, QuietInv, client_cancel PROVE QuietInv'
    OBVIOUS
  <1> DEFINE k == key_of_next
             c == [clients[k] EXCEPT !.stop = "cancelled"]
             d == [c EXCEPT !.attempt = "completed"]
             h == Handler("handle_connect", "aborted", k)
  <1>1. /\ Runs("client_cancel") /\ "client_cancel" \in ClientHandlers /\ "client_cancel" \in OfStop
        /\ \/ client_goes_on(k, c, << >>, << >>)
           \/ c.attempt = "working" /\ client_goes_on(k, d, <<h>>, << >>)
    BY DEF client_cancel, ClientHandlers, OfStop
  <1> HIDE DEF k
  <1>2. /\ Next_is(queue, "client_cancel") /\ k \in Nat /\ k \in DOMAIN clients
        /\ clients[k] \in Client /\ k \in Times /\ at \notin Ended
        /\ \A g : HasHandler(Tail(queue), g) /\ g.n = k => ClientDue(g) /\ g.fn \notin OfStop
    BY <1>1, TurnStarts DEF k
  <1>3. /\ c \in Client /\ c.stop = "cancelled" /\ c.attempt = clients[k].attempt
        /\ d \in Client /\ d.stop = "cancelled" /\ d.attempt = "completed"
    BY <1>2 DEF Client, Attempts, Stops
  <1>4. h \in Ready /\ h.n = k /\ h.fn = "handle_connect"
    BY <1>2, HandlerReady, FunctionNames DEF ErrorCodes, ClientHandlers
  <1> HIDE DEF c, d, h
  <1>5. CASE client_goes_on(k, c, << >>, << >>)
    <2> DEFINE s == << >>
    <2>1. client_goes_on(k, c, s, << >>)
      BY <1>5
    <2>2. s = << >> /\ s # <<h>>
      OBVIOUS
    <2> HIDE DEF s
    <2>3. QED
      BY <1>1, <1>2, <1>3, <1>4, <2>1, <2>2, GoesOnQuiet
  <1>6. CASE c.attempt = "working" /\ client_goes_on(k, d, <<h>>, << >>)
    <2>1. ASSUME NEW g, HasHandler(Tail(queue), g), g.n = k
          PROVE  /\ g.fn \notin {"async_resolve", "handle_connect", "complete"}
                 /\ g.fn \notin OfStop
      <3>1. ClientDue(g) /\ g.fn \notin OfStop
        BY <1>2, <2>1
      <3>2. QED
        BY <1>2, <1>3, <1>6, <2>1, <3>1 DEF ClientDue, Ended
    <2>2. Free(Tail(queue), h)
      <3>1. ASSUME NEW g, HasHandler(Tail(queue), g), Kind(g.fn) = Kind(h.fn)
            PROVE  Kind(h.fn) \in Keyed /\ g.n # h.n
        <4>1. g.fn \in Functions
          BY <1>2, <3>1, RunTidy
        <4>2. Kind(h.fn) = "attempt"
          BY <1>4, KindNames, FunctionNames DEF ClientHandlers
        <4>3. g.fn \in {"async_resolve", "handle_connect"} /\ Kind(h.fn) \in Keyed
          BY <3>1, <4>1, <4>2, KindNames DEF Keyed
        <4>4. QED
          BY <1>4, <2>1, <3>1, <4>3
      <3>2. QED
        BY <3>1, FreeByKind
    <2> DEFINE s == <<h>>
    <2>3. client_goes_on(k, d, s, << >>)
      BY <1>6
    <2>4. s = <<h>>
      OBVIOUS
    <2> HIDE DEF s
    <2>5. QED
      BY <1>1, <1>2, <1>3, <1>4, <2>1, <2>2, <2>3, <2>4, GoesOnQuiet
  <1>7. QED
    BY <1>1, <1>5, <1>6 DEF c, d, h

LEMMA ClientStoppedQuiet == Inv /\ QuietInv /\ client_stopped => QuietInv'
  <1> SUFFICES ASSUME Inv, QuietInv, client_stopped PROVE QuietInv'
    OBVIOUS
  <1> DEFINE k == key_of_next
  <1>0. QueueInv /\ RequestInv /\ StopInv /\ StageInv
    BY DEF QuietInv
  <1>1. /\ Runs("client_stopped") /\ "client_stopped" \in ClientHandlers
        /\ "client_stopped" \in OfStop
        /\ clients' = [clients EXCEPT ![k].stop = "stopped"] /\ queue' = Tail(queue)
        /\ UNCHANGED <<flags, posting, answering, on_stopped, stopped, server, sends, timer, at,
                       incoming>>
    BY DEF client_stopped, ClientHandlers, OfStop, dc_rest, others
  <1> HIDE DEF k
  <1>2. /\ Next_is(queue, "client_stopped") /\ k \in DOMAIN clients /\ clients[k] \in Client
        /\ clients[k].stop = "resolved"
        /\ \A g : HasHandler(queue', g) /\ g.n = k => g.fn \notin OfStop
    BY <1>1, TurnStarts DEF k
  <1>3. /\ DOMAIN clients' = DOMAIN clients
        /\ \A j \in DOMAIN clients : j # k => clients'[j] = clients[j]
        /\ clients'[k].attempt = clients[k].attempt
    BY <1>1, <1>2 DEF Client
  <1>4. clients[k].attempt = "over"
    BY <1>0, <1>2 DEF StageInv
  <1>5. Tidy(queue') /\ \A g : HasHandler(queue', g) => HasHandler(queue, g) /\ Due(g)
    BY <1>1, <1>2, RunTidy
  <1>6. ASSUME NEW g, HasHandler(queue', g) PROVE Due(g)'
    <2>1. Due(g) /\ (g.n = k => g.fn \notin {"client_cancel", "client_stopped"})
      BY <1>2, <1>5, <1>6 DEF OfStop
    <2>2. ClientDue(g)'
      BY <1>1, <1>3, <2>1, ClientDueChanged DEF Due
    <2>3. RequestDue(g)' /\ StopDue(g)'
      BY <1>1, <2>1, RequestDueKept, StopDueKept DEF Due
    <2>4. QED
      BY <2>2, <2>3 DEF Due
  <1>7. QueueInv'
    BY <1>5, <1>6 DEF QueueInv
  <1>8. Starting' => Starting
    BY <1>1, <1>5, QueuedHasHandler DEF Starting
  <1>9. RequestInv' /\ StopInv'
    BY <1>0, <1>1, <1>8, RequestKept, StopKept
  <1>10. StageInv'
    BY <1>0, <1>1, <1>3, <1>4 DEF StageInv
  <1>11. QED
    BY <1>7, <1>9, <1>10 DEF QuietInv

-----------------------------------------------------------------------------
(***************************************************************************)
(* The handlers of the discovery client.                                   *)
(***************************************************************************)
Idle == {"running", "stopping"}

\* The handler changes the flags, leaves q of the queue, and looks at the stop.
LEMMA ResolvesQuiet ==
    ASSUME StopInv, NEW q, Tidy(q), "start" \notin posting,
           \A h : HasHandler(q, h) =>
              StopDue(h) /\ h.fn # "start" /\ h.fn \in Functions /\ ClientDue(h)' /\ RequestDue(h)',
           UNCHANGED <<posting, stopped, at, server, answering>>,
           DC!resolve_on_stopped(flags', q), flags' \subseteq DC!States,
           flags' \cap Idle = flags \cap Idle, flags \subseteq Idle => flags' = flags
    PROVE  QueueInv' /\ StopInv' /\ ~Starting'
  <1>1. /\ "running" \in flags' <=> "running" \in flags
        /\ "stopping" \in flags' <=> "stopping" \in flags
        /\ flags = {} => flags' = {}
    BY DEF Idle
  <1>2. \A h : HasHandler(q, h) /\ on_stopped' = on_stopped => StopDue(h)'
    BY DEF StopDue
  <1> DEFINE o == Posted("stopped")
             ends == /\ "stopping" \in flags' /\ on_stopped
                     /\ flags' \cap {"receiving_async", "sending_async", "timer_running"} = {}
  <1>3. o \in Ready /\ o.fn = "stopped"
    BY PostedReady, FunctionNames
  <1>4. IF ends THEN queue' = Append(q, o) /\ on_stopped' = FALSE
        ELSE queue' = q /\ on_stopped' = on_stopped
    BY SameNames DEF DC!resolve_on_stopped
  <1> HIDE DEF o
  <1>5. CASE ~ends
    <2>1. queue' = q /\ on_stopped' = on_stopped
      BY <1>4, <1>5
    <2>2. QueueInv'
      BY <1>2, <2>1 DEF QueueInv, Due
    <2>3. ~Starting'
      BY <2>1, QueuedHasHandler DEF Starting
    <2>4. StopInv'
      BY <1>1, <2>1, <2>3 DEF StopInv, Idle
    <2>5. QED
      BY <2>2, <2>3, <2>4
  <1>6. CASE ends
    <2>1. queue' = Append(q, o) /\ on_stopped' = FALSE
      BY <1>4, <1>6
    <2>2. flags' \subseteq {"running", "stopping"}
      BY <1>6 DEF DC!States
    <2>3. at = "stop_discovery_client" /\ ~stopped /\ on_stopped
      BY <1>1, <1>6 DEF StopInv, Before, SettingUp
    <2>4. \A h : HasHandler(q, h) => h.fn \notin StopCallbacks
      BY <2>3 DEF StopDue, StopCallbacks
    <2>5. Free(q, o)
      <3>1. \A h : HasHandler(q, h) => Kind(h.fn) # Kind(o.fn)
        <4>1. TAKE h
        <4>2. HAVE HasHandler(q, h)
        <4>3. h.fn \in Functions /\ h.fn \notin StopCallbacks
          BY <2>4, <4>2
        <4>4. Kind(o.fn) = "end"
          BY <1>3 DEF Kind
        <4>5. QED
          BY <4>3, <4>4, EndNames
      <3>2. QED
        BY <3>1, FreeByKind
    <2>6. Gains(q, queue', {o})
      BY <1>3, <2>1, <2>5, GainsAppend
    <2>7. \A h : HasHandler(q, h) => StopDue(h)'
      BY <2>1, <2>3 DEF StopDue
    <2>8. Due(o)'
      <3>1. StopDue(o)'
        BY <1>3, <2>1, <2>3 DEF StopDue
      <3>2. QED
        BY <1>3, <3>1 DEF Due, ClientDue, RequestDue, ClientHandlers
    <2>9. QueueInv'
      <3>1. \A h : HasHandler(q, h) => Due(h)'
        BY <2>7 DEF Due
      <3>2. QED
        BY <2>6, <2>8, <3>1, QueueKept
    <2>10. ~Starting'
      BY <1>3, <2>6, QueuedHasHandler DEF Starting, Gains
    <2>11. StopInv'
      BY <1>1, <2>1, <2>2, <2>3, <2>10 DEF StopInv, Before, SettingUp
    <2>12. QED
      BY <2>9, <2>10, <2>11
  <1>7. QED
    BY <1>5, <1>6

\* A handler of the request or of the timer: whichever runs, nothing else is under way.
LEMMA RequestQuiet ==
    ASSUME QuietInv, DC!handle_send_complete \/ DC!handle_timeout, UNCHANGED <<at, net, maps, others>>
    PROVE  QuietInv'
  <1>0. QueueInv /\ RequestInv /\ StopInv /\ StageInv
    BY DEF QuietInv
  <1>1. PICK fn \in {"handle_send_complete", "handle_timeout"} :
           /\ Next_is(queue, fn)
           /\ fn = "handle_send_complete" => DC!handle_send_complete
           /\ fn = "handle_timeout" => DC!handle_timeout
    BY RunsNext DEF DC!handle_send_complete, DC!handle_timeout
  <1>2. /\ DC!resolve_on_stopped(flags', Tail(queue))
        /\ UNCHANGED <<posting, stopped, at, server, answering, clients, incoming>>
    BY DEF DC!handle_send_complete, DC!handle_timeout, DC!user_vars, maps, others
  <1>3. /\ Tidy(Tail(queue)) /\ Head(queue).fn = fn /\ RequestDue(Head(queue))
        /\ \A g : HasHandler(Tail(queue), g) =>
              g.fn \in Functions /\ Due(g) /\ HasHandler(queue, g) /\ Kind(g.fn) # "request"
    <2>1. Kind(fn) = "request" /\ Kind(fn) \notin Keyed
      BY DEF Kind, Keyed
    <2>2. QED
      BY <1>1, <2>1, RunTidy DEF Due
  <1>4. /\ sends = 0 /\ timer = FALSE /\ ~Starting
        /\ IF fn = "handle_send_complete"
           THEN "sending_async" \in flags /\ "timer_running" \notin flags
           ELSE "timer_running" \in flags /\ "sending_async" \notin flags
    <2>1. CASE fn = "handle_send_complete"
      <3>1. sends = 0 /\ "sending_async" \in flags /\ "timer_running" \notin flags
        BY <1>0, <1>3, <2>1 DEF RequestDue, RequestInv
      <3>2. timer \in BOOLEAN /\ ~timer /\ ~Starting
        BY <1>0, <3>1 DEF RequestInv
      <3>3. QED
        BY <2>1, <3>1, <3>2
    <2>2. CASE fn = "handle_timeout"
      <3>1. "timer_running" \in flags /\ "sending_async" \notin flags
        BY <1>0, <1>3, <2>2 DEF RequestDue, RequestInv
      <3>2. timer \in BOOLEAN /\ ~timer
        BY <1>0, <1>3, <2>2 DEF RequestDue, RequestInv
      <3>3. sends = 0 /\ ~Starting
        BY <1>0, <3>1 DEF RequestInv
      <3>4. QED
        BY <2>2, <3>1, <3>2, <3>3
    <2>3. QED
      BY <2>1, <2>2
  <1>5. /\ flags' \subseteq DC!States /\ flags' \cap Idle = flags \cap Idle
        /\ timer' \in BOOLEAN /\ sends' \in 0 .. 1
        /\ sends' = 1 => "sending_async" \in flags'
        /\ timer' => "timer_running" \in flags'
        /\ ~ ("sending_async" \in flags' /\ "timer_running" \in flags')
    <2>1. flags \subseteq DC!States
      BY <1>0 DEF RequestInv
    <2>2. CASE fn = "handle_send_complete"
      <3>1. PICK arm \in BOOLEAN :
               /\ flags' = (flags \cup (IF arm THEN {"timer_running"} ELSE {})) \ {"sending_async"}
               /\ timer' = (timer \/ arm)
        BY <1>1, <2>2 DEF DC!handle_send_complete
      <3>2. sends' = sends
        BY <1>1, <2>2 DEF DC!handle_send_complete
      <3>3. timer' = arm
        BY <1>4, <3>1
      <3>4. QED
        BY <1>4, <2>1, <2>2, <3>1, <3>2, <3>3 DEF Idle, DC!States
    <2>3. CASE fn = "handle_timeout"
      <3>1. PICK send \in BOOLEAN :
               /\ flags' = (flags \cup (IF send THEN {"sending_async"} ELSE {})) \ {"timer_running"}
               /\ sends' = IF send THEN sends + 1 ELSE sends
        BY <1>1, <2>3 DEF DC!handle_timeout
      <3>2. timer' = FALSE
        BY <1>1, <1>4, <2>3 DEF DC!handle_timeout
      <3>3. sends' = IF send THEN 1 ELSE 0
        BY <1>4, <3>1
      <3>4. /\ flags' \subseteq DC!States /\ flags' \cap Idle = flags \cap Idle
            /\ "timer_running" \notin flags' /\ (send => "sending_async" \in flags')
        BY <2>1, <3>1 DEF Idle, DC!States
      <3>5. sends' \in 0 .. 1 /\ (sends' = 1 => "sending_async" \in flags')
        BY <3>3, <3>4
      <3>6. timer' \in BOOLEAN /\ ~timer'
        BY <3>2
      <3>7. QED
        BY <3>4, <3>5, <3>6
    <2>4. QED
      BY <2>2, <2>3
  <1>6. ASSUME NEW h, HasHandler(Tail(queue), h)
        PROVE  StopDue(h) /\ h.fn # "start" /\ h.fn \in Functions /\ ClientDue(h)' /\ RequestDue(h)'
    <2>1. h.fn \in Functions /\ Due(h) /\ HasHandler(queue, h)
          /\ h.fn \notin {"handle_send_complete", "handle_timeout"}
      BY <1>3, <1>6, KindNames
    <2>2. ClientDue(h)'
      BY <1>2, <2>1, ClientDueKept DEF Due
    <2>3. RequestDue(h)'
      BY <2>1 DEF RequestDue
    <2>4. h.fn # "start"
      BY <1>4, <2>1, QueuedHasHandler DEF Starting
    <2>5. QED
      BY <2>1, <2>2, <2>3, <2>4 DEF Due
  <1>7. ~ (flags \subseteq Idle) /\ "start" \notin posting
    BY <1>4 DEF Idle, Starting
  <1>8. QueueInv' /\ StopInv' /\ ~Starting'
    BY <1>0, <1>2, <1>3, <1>5, <1>6, <1>7, ResolvesQuiet
  <1>9. RequestInv'
    BY <1>5, <1>8 DEF RequestInv
  <1>10. StageInv'
    BY <1>0, <1>2, StageKept
  <1>11. QED
    BY <1>8, <1>9, <1>10 DEF QuietInv

LEMMA RunStartQuiet ==
    ASSUME Inv, QuietInv, DC!run_start, UNCHANGED <<at, net, maps, others>>
    PROVE  QuietInv'
  <1>0. PlaceInv /\ ReceiveInv /\ QueueInv /\ RequestInv /\ StopInv /\ StageInv
    BY DEF Inv, QuietInv
  <1>1. /\ Next_is(queue, "start")
        /\ UNCHANGED <<posting, stopped, at, server, answering, clients, incoming, timer>>
    BY RunsNext DEF DC!run_start, DC!user_vars, maps, others
  <1>2. /\ Tidy(Tail(queue)) /\ Head(queue).fn = "start" /\ HasHandler(queue, Head(queue))
        /\ \A g : HasHandler(Tail(queue), g) =>
              g.fn \in Functions /\ Due(g) /\ HasHandler(queue, g) /\ g.fn # "start"
    <2>1. Kind("start") = "start" /\ "start" \notin Keyed
      BY DEF Kind, Keyed
    <2>2. QED
      BY <1>1, <2>1, RunTidy
  <1>3. Queued(queue, "start") /\ Starting /\ "start" \notin posting
    BY <1>0, <1>2, QueuedHasHandler DEF Starting, ReceiveInv
  <1>4. /\ flags \subseteq Idle /\ sends = 0 /\ timer \in BOOLEAN /\ ~timer
        /\ at \notin SettingUp /\ "running" \in flags
    <2>1. flags \subseteq {"running", "stopping"}
      BY <1>0, <1>3 DEF RequestInv
    <2>2. sends = 0 /\ timer \in BOOLEAN /\ ~timer
      BY <1>0, <2>1 DEF RequestInv
    <2>3. at \notin SettingUp
      BY <1>0, <1>3 DEF PlaceInv, ReceiveInv, SettingUp
    <2>4. QED
      BY <1>0, <2>1, <2>2, <2>3 DEF StopInv, Idle
  <1>5. ASSUME NEW h, HasHandler(Tail(queue), h)
        PROVE  /\ StopDue(h) /\ h.fn # "start" /\ h.fn \in Functions /\ ClientDue(h)'
               /\ RequestDue(h)'
    <2>1. h.fn \in Functions /\ Due(h) /\ h.fn # "start"
      BY <1>2, <1>5
    <2>2. ClientDue(h)'
      BY <1>1, <2>1, ClientDueKept DEF Due
    <2>3. h.fn \notin {"handle_send_complete", "handle_timeout"}
      BY <1>4, <2>1 DEF Due, RequestDue, Idle
    <2>4. RequestDue(h)'
      BY <2>3 DEF RequestDue
    <2>5. QED
      BY <2>1, <2>2, <2>4 DEF Due
  <1>6. StageInv'
    BY <1>0, <1>1, StageKept
  <1>7. CASE "stopping" \in flags
    <2>1. DC!resolve_on_stopped(flags, Tail(queue)) /\ UNCHANGED <<flags, sends>>
      BY <1>7 DEF DC!run_start
    <2>2. DC!resolve_on_stopped(flags', Tail(queue))
      <3>1. flags' = flags
        BY <2>1
      <3>2. QED
        BY <2>1, <3>1
    <2>3. flags' \subseteq DC!States /\ flags' \cap Idle = flags \cap Idle
      BY <1>0, <2>1 DEF RequestInv
    <2>4. QueueInv' /\ StopInv' /\ ~Starting'
      BY <1>0, <1>1, <1>2, <1>3, <1>5, <2>1, <2>2, <2>3, ResolvesQuiet
    <2>5. RequestInv'
      BY <1>0, <1>1, <2>1, <2>4, RequestKept
    <2>6. QED
      BY <1>6, <2>4, <2>5 DEF QuietInv
  <1>8. CASE "stopping" \notin flags
    <2>1. /\ flags' = flags \cup {"receiving_async", "sending_async"}
          /\ sends' = sends + 1 /\ queue' = Tail(queue) /\ on_stopped' = on_stopped
      BY <1>8 DEF DC!run_start
    <2>2. at \in Before
      BY <1>0, <1>8 DEF StopInv
    <2>3. QueueInv'
      <3>1. \A h : HasHandler(queue', h) => StopDue(h)'
        BY <1>1, <1>5, <2>1, StopDueKept
      <3>2. QED
        BY <1>2, <1>5, <2>1, <3>1 DEF QueueInv, Due
    <2>4. ~Starting'
      BY <1>1, <1>2, <1>3, <2>1, QueuedHasHandler DEF Starting
    <2>5. RequestInv'
      <3>1. flags' \subseteq DC!States /\ sends' = 1 /\ timer' \in BOOLEAN /\ ~timer'
            /\ "sending_async" \in flags' /\ "timer_running" \notin flags'
        BY <1>1, <1>4, <2>1 DEF Idle, DC!States
      <3>2. QED
        BY <2>4, <3>1 DEF RequestInv
    <2>6. StopInv'
      <3>1. "running" \in flags' /\ "stopping" \notin flags'
        BY <1>4, <1>8, <2>1
      <3>2. QED
        BY <1>0, <1>1, <1>3, <1>4, <2>1, <2>2, <2>4, <3>1 DEF StopInv
    <2>7. QED
      BY <1>6, <2>3, <2>5, <2>6 DEF QuietInv
  <1>9. QED
    BY <1>7, <1>8

LEMMA RunCancelQuiet ==
    ASSUME Inv, QuietInv, DC!run_cancel, UNCHANGED <<at, net, maps, others>>
    PROVE  QuietInv'
  <1>0. TypeInv /\ ReceiveInv /\ QueueInv /\ RequestInv /\ StopInv /\ StageInv
    BY DEF Inv, QuietInv
  <1>1. /\ Next_is(queue, "cancel")
        /\ UNCHANGED <<flags, posting, stopped, at, server, answering, clients, incoming>>
    BY RunsNext DEF DC!run_cancel, DC!user_vars, maps, others
  <1>2. /\ Tidy(Tail(queue)) /\ Head(queue).fn = "cancel" /\ StopDue(Head(queue))
        /\ \A g : HasHandler(Tail(queue), g) => g.fn \in Functions /\ Due(g) /\ HasHandler(queue, g)
    BY <1>1, RunTidy DEF Due
  <1>3. "running" \in flags
    BY <1>0, <1>2 DEF StopDue, StopInv, SettingUp
  <1>4. /\ sends' = 0 /\ timer' = FALSE /\ on_stopped' = on_stopped
        /\ queue' = Tail(queue)
                        \o (IF timer THEN DC!Repeat(1, "handle_timeout") ELSE << >>)
                        \o DC!Repeat(receives, "handle_response")
                        \o DC!Repeat(sends, "handle_send_complete")
    BY <1>3 DEF DC!run_cancel
  <1>5. timer \in BOOLEAN /\ sends \in 0 .. 1 /\ receives \in 0 .. 1
        /\ (sends = 1 => "sending_async" \in flags) /\ (timer => "timer_running" \in flags)
        /\ ~ ("sending_async" \in flags /\ "timer_running" \in flags)
    BY <1>0 DEF RequestInv, TypeInv
  <1>6. timer \/ sends = 1 => \A g : HasHandler(Tail(queue), g) => Kind(g.fn) # "request"
    <2>1. HAVE timer \/ sends = 1
    <2>2. TAKE g
    <2>3. HAVE HasHandler(Tail(queue), g)
    <2>4. g.fn \in Functions /\ RequestDue(g)
      BY <1>2, <2>3 DEF Due
    <2>5. g.fn \notin {"handle_send_complete", "handle_timeout"}
      BY <1>5, <2>1, <2>4 DEF RequestDue
    <2>6. QED
      BY <2>4, <2>5, KindNames
  <1>7. receives = 1 => \A g : HasHandler(Tail(queue), g) => Kind(g.fn) # "handle_response"
    <2>1. receives = 1 => ~ Queued(queue, "handle_response")
      BY <1>0 DEF ReceiveInv
    <2>2. QED
      BY <1>2, <2>1, QueuedHasHandler, KindNames
  <1> DEFINE q == Tail(queue)
             Comes(h) == \/ timer /\ h = Aborting("handle_timeout")
                         \/ receives = 1 /\ h = Aborting("handle_response")
                         \/ sends = 1 /\ h = Aborting("handle_send_complete")
  <1>8. Tidy(queue') /\ \A h : HasHandler(queue', h) => HasHandler(q, h) \/ Comes(h)
    <2>1. /\ Tidy(q) /\ ~ (timer /\ sends = 1)
          /\ timer \/ sends = 1 => \A g : HasHandler(q, g) => Kind(g.fn) # "request"
          /\ receives = 1 => \A g : HasHandler(q, g) => Kind(g.fn) # "handle_response"
      BY <1>2, <1>5, <1>6, <1>7
    <2> DEFINE j == IF timer THEN 1 ELSE 0
    <2>2. queue' = Released(q, j, receives, sends)
      BY <1>4, ReleasedQueue
    <2>3. j \in 0 .. 1 /\ (j = 1 <=> timer)
      BY <1>5
    <2> HIDE DEF q, j
    <2>4. QED
      BY <1>5, <2>1, <2>2, <2>3, TidyReleased
  <1>9. ASSUME NEW h, Comes(h)
        PROVE  Due(h)' /\ h.fn # "start"
    <2>1. \/ timer /\ h.fn = "handle_timeout"
          \/ h.fn = "handle_response"
          \/ sends = 1 /\ h.fn = "handle_send_complete"
      BY <1>9, AbortingReady DEF Cancellable
    <2>2. ClientDue(h)' /\ StopDue(h)'
      BY <2>1 DEF ClientDue, StopDue, ClientHandlers
    <2>3. timer' \in BOOLEAN /\ ~timer'
      BY <1>4
    <2>4. RequestDue(h)'
      BY <1>1, <1>4, <1>5, <2>1, <2>3 DEF RequestDue
    <2>5. QED
      BY <2>1, <2>2, <2>4 DEF Due
  <1> HIDE DEF Comes
  <1>10. ASSUME NEW h, HasHandler(Tail(queue), h) PROVE Due(h)'
    <2>1. Due(h)
      BY <1>2, <1>10
    <2>2. ClientDue(h)' /\ StopDue(h)'
      BY <1>1, <1>4, <2>1, ClientDueKept, StopDueKept DEF Due
    <2>3. timer' \in BOOLEAN /\ ~timer'
      BY <1>4
    <2>4. RequestDue(h)'
      BY <1>1, <1>4, <2>1, <2>3 DEF Due, RequestDue
    <2>5. QED
      BY <2>2, <2>4 DEF Due
  <1>11. QueueInv'
    BY <1>8, <1>9, <1>10 DEF QueueInv
  <1>12. Starting' => Starting
    BY <1>1, <1>2, <1>8, <1>9, QueuedHasHandler DEF Starting
  <1>13. StopInv' /\ StageInv'
    BY <1>0, <1>1, <1>4, <1>12, StopKept, StageKept
  <1>14. RequestInv'
    <2>1. timer' \in BOOLEAN /\ ~timer' /\ sends' = 0
      BY <1>4
    <2>2. QED
      BY <1>0, <1>1, <1>12, <2>1 DEF RequestInv
  <1>15. QED
    BY <1>11, <1>13, <1>14 DEF QuietInv

LEMMA HandleResponseQuiet == Inv /\ QuietInv /\ handle_response => QuietInv'
  <1> SUFFICES ASSUME Inv, QuietInv, handle_response PROVE QuietInv'
    OBVIOUS
  <1>0. TypeInv /\ ReceiveInv /\ ClientsInv /\ QueueInv /\ RequestInv /\ StopInv /\ StageInv
    BY DEF Inv, QuietInv
  <1> DEFINE heard == Head(queue).ec = "ok" /\ Head(queue).n > 0
             found == IF heard /\ ~Destroyed THEN on_discovery_response(recv_buffer) ELSE {}
             key(info) == info.timestamp_ms
             q(info) == Append(Tail(queue), Handler("async_resolve", "ok", key(info)))
  <1>1. /\ Next_is(queue, "handle_response") /\ flags' = flags \ {"receiving_async"}
        /\ UNCHANGED <<posting, stopped, at, server, answering, incoming, sends, timer>>
    BY DEF handle_response, Runs, others
  <1>2. \/ UNCHANGED clients /\ DC!resolve_on_stopped(flags', Tail(queue))
        \/ \E info \in found : on_peer_discovered(info) /\ DC!resolve_on_stopped(flags', q(info))
    BY DEF handle_response
  <1>3. /\ Tidy(Tail(queue)) /\ HasHandler(queue, Head(queue)) /\ Head(queue).fn = "handle_response"
        /\ \A g : HasHandler(Tail(queue), g) => g.fn \in Functions /\ Due(g) /\ HasHandler(queue, g)
    BY <1>1, RunTidy
  <1>4. ~Starting /\ "start" \notin posting
    BY <1>0, <1>3, QueuedHasHandler DEF ReceiveInv, Starting
  <1>5. /\ flags' \subseteq DC!States /\ flags' \cap Idle = flags \cap Idle
        /\ flags \subseteq Idle => flags' = flags
        /\ "sending_async" \in flags' <=> "sending_async" \in flags
        /\ "timer_running" \in flags' <=> "timer_running" \in flags
    BY <1>0, <1>1 DEF RequestInv, Idle
  <1>6. ASSUME NEW h, HasHandler(Tail(queue), h)
        PROVE  /\ StopDue(h) /\ h.fn # "start" /\ h.fn \in Functions /\ ClientDue(h)
               /\ RequestDue(h)' /\ HasHandler(queue, h)
    <2>1. h.fn \in Functions /\ Due(h) /\ HasHandler(queue, h)
      BY <1>3, <1>6
    <2>2. RequestDue(h)'
      BY <1>1, <1>5, <2>1 DEF Due, RequestDue
    <2>3. h.fn # "start"
      BY <1>4, <2>1, QueuedHasHandler DEF Starting
    <2>4. QED
      BY <2>1, <2>2, <2>3 DEF Due
  <1>7. ~Starting' => RequestInv'
    BY <1>0, <1>1, <1>5 DEF RequestInv
  <1>8. CASE UNCHANGED clients /\ DC!resolve_on_stopped(flags', Tail(queue))
    <2>1. \A h : HasHandler(Tail(queue), h) => ClientDue(h)'
      BY <1>1, <1>6, <1>8, ClientDueKept
    <2>2. QueueInv' /\ StopInv' /\ ~Starting'
      BY <1>0, <1>1, <1>3, <1>4, <1>5, <1>6, <1>8, <2>1, ResolvesQuiet
    <2>3. StageInv'
      BY <1>0, <1>1, <1>8, StageKept
    <2>4. QED
      BY <1>7, <2>2, <2>3 DEF QuietInv
  <1>9. CASE \E info \in found : on_peer_discovered(info) /\ DC!resolve_on_stopped(flags', q(info))
    <2>1. PICK info \in found : on_peer_discovered(info) /\ DC!resolve_on_stopped(flags', q(info))
      BY <1>9
    <2>2. info \in on_discovery_response(recv_buffer) /\ ~Destroyed
      BY <2>1
    <2>3. recv_buffer # << >>
      <3>1. SUFFICES ASSUME recv_buffer = << >> PROVE FALSE
        OBVIOUS
      <3>2. info \in parse(<< >>)
        BY <2>2, <3>1 DEF on_discovery_response
      <3>3. << >> \in Seq(Token)
        OBVIOUS
      <3>4. QED
        BY <3>2, <3>3, InfoType
    <2> DEFINE k == key(info)
               h == Handler("async_resolve", "ok", k)
               r == q(info)
    <2>4. k \in Nat /\ k \in Times /\ k \notin DOMAIN clients
      BY <1>0, <2>2, <2>3, FoundType
    <2>5. /\ DOMAIN clients' = DOMAIN clients \cup {k}
          /\ \A j \in DOMAIN clients : clients'[j] = clients[j]
          /\ clients'[k].attempt = "posted" /\ clients'[k].stop = "no"
      BY <2>1, <2>4 DEF on_peer_discovered, Put
    <2>6. h \in Ready /\ h.fn = "async_resolve" /\ h.n = k
      BY <2>4, HandlerReady, FunctionNames DEF ErrorCodes, ClientHandlers
    <2>7. r = Append(Tail(queue), h) /\ DC!resolve_on_stopped(flags', r)
      BY <2>1
    <2> HIDE DEF h, k, r, q, found, key
    <2>8. Free(Tail(queue), h)
      <3>1. ASSUME NEW g, HasHandler(Tail(queue), g), Kind(g.fn) = Kind(h.fn)
            PROVE  Kind(h.fn) \in Keyed /\ g.n # h.n
        <4>1. Kind(h.fn) = "attempt" /\ "attempt" \in Keyed
          BY <2>6 DEF Kind, Keyed
        <4>2. g.fn \in Functions /\ ClientDue(g)
          BY <1>6, <3>1
        <4>3. g.fn \in {"async_resolve", "handle_connect"}
          BY <3>1, <4>1, <4>2, KindNames
        <4>4. QED
          BY <2>4, <2>6, <4>1, <4>2, <4>3 DEF ClientDue, ClientHandlers
      <3>2. QED
        BY <3>1, FreeByKind
    <2>9. Tidy(r) /\ \A g : HasHandler(r, g) => HasHandler(Tail(queue), g) \/ g = h
      <3>1. Gains(Tail(queue), Append(Tail(queue), h), {h})
        BY <1>3, <2>6, <2>8, GainsAppend
      <3>2. QED
        BY <2>7, <3>1 DEF Gains
    <2>10. ASSUME NEW g, HasHandler(r, g)
           PROVE  /\ StopDue(g) /\ g.fn # "start" /\ g.fn \in Functions /\ ClientDue(g)'
                  /\ RequestDue(g)'
      <3>1. CASE HasHandler(Tail(queue), g)
        <4>1. /\ StopDue(g) /\ g.fn # "start" /\ g.fn \in Functions /\ ClientDue(g)
              /\ RequestDue(g)'
          BY <1>6, <3>1
        <4>2. ClientDue(g)'
          BY <1>1, <2>5, <4>1, ClientDueChanged
        <4>3. QED
          BY <4>1, <4>2
      <3>2. CASE g = h
        <4>1. ClientDue(h)' /\ RequestDue(h)' /\ StopDue(h)
          BY <2>5, <2>6 DEF ClientDue, RequestDue, StopDue
        <4>2. QED
          BY <2>6, <3>2, <4>1, FunctionNames DEF ClientHandlers
      <3>3. QED
        BY <2>9, <2>10, <3>1, <3>2
    <2>11. QueueInv' /\ StopInv' /\ ~Starting'
      BY <1>0, <1>1, <1>4, <1>5, <2>7, <2>9, <2>10, ResolvesQuiet
    <2>12. StageInv'
      BY <1>0, <1>1, <2>2, <2>4, <2>5 DEF StageInv, Destroyed
    <2>13. QED
      BY <1>7, <2>11, <2>12 DEF QuietInv
  <1> HIDE DEF found, q
  <1>10. QED
    BY <1>2, <1>8, <1>9

LEMMA NextQuiet == Inv /\ QuietInv /\ [Next]_vars => QuietInv'
  <1> SUFFICES ASSUME Inv, QuietInv, [Next]_vars PROVE QuietInv'
    OBVIOUS
  <1>1. CASE Constructor \/ stop_discovery_client
    BY <1>1, ConstructorQuiet, StopDiscoveryClientQuiet
  <1>2. CASE Destructor
    <2>1. CASE \E k \in DOMAIN clients : stop_client(k)
      BY <2>1, StopClientQuiet
    <2>2. CASE ~ (\E k \in DOMAIN clients : stop_client(k))
      BY <1>2, <2>2, StopServersQuiet, StopClientsQuiet, ConnectionsQuiet, DestroyClientsQuiet,
         DestroyRestQuiet DEF Destructor
    <2>3. QED
      BY <2>1, <2>2
  <1>3. CASE spin \/ Terminated \/ UNCHANGED vars
    BY <1>3, OthersQuiet DEF spin, Terminated
  <1>4. CASE discovery_client
    <2>1. \/ DC!run_start \/ DC!run_cancel
          \/ DC!handle_send_complete \/ DC!handle_timeout \/ DC!run_stopped
      BY <1>4 DEF discovery_client
    <2>2. UNCHANGED <<at, net, maps, others>>
      BY <1>4 DEF discovery_client
    <2>3. QED
      BY <2>1, <2>2, RunStartQuiet, RunCancelQuiet, RequestQuiet, RunStoppedQuiet
  <1>5. CASE handle_response
    BY <1>5, HandleResponseQuiet
  <1>6. CASE async_resolve \/ handle_connect \/ client_cancel \/ client_stopped
    BY <1>6, AsyncResolveQuiet, HandleConnectQuiet, ClientCancelQuiet, ClientStoppedQuiet
  <1>7. CASE \/ discovery_server_stopped \/ tcp_server_stopped \/ connections_stopped \/ complete
    BY <1>7, EndingsQuiet, OthersQuiet
  <1>8. CASE \/ on_accept \/ accept_fails \/ datagram_arrives \/ receive_fails
             \/ attempt_completes \/ DiscoveryClientGoesOn
    BY <1>8, OthersQuiet, AcceptFailsQuiet, ReceiveEndsQuiet, AttemptCompletesQuiet,
       DiscoveryGoesOnQuiet
  <1>9. QED
    BY <1>1, <1>2, <1>3, <1>4, <1>5, <1>6, <1>7, <1>8 DEF Next, IoThread

\* The state has its type, the queue among it: there is room for five handlers and three
\* for each client.  When the maps are gone nothing is under way or ready that would use
\* them: each stop of the destructor is waited for, and what a stop's callback vouches for
\* (no request, no timer, no attempt) stays so while the next stop is waited for.
THEOREM BridgeIsQuiet == Spec => []DestroyedIsQuiet
  <1>1. Init => Inv /\ QuietInv
    BY InitInv, InitQuiet
  <1>2. Inv /\ QuietInv /\ [Next]_vars => (Inv /\ QuietInv)'
    BY NextInv, NextQuiet
  <1>3. Inv /\ QuietInv => DestroyedIsQuiet
    BY QuietImplies
  <1>4. QED
    BY <1>1, <1>2, <1>3, PTL DEF Spec
=============================================================================
