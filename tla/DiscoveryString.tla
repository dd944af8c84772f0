-------------------------- MODULE DiscoveryString --------------------------
(***************************************************************************)
(* eestv/net/discovery/discovery_string.{hpp,cpp}: the text of a discovery *)
(* reply.  A text is a sequence of tokens: words, numbers and colons.      *)
(***************************************************************************)
EXTENDS Integers, Sequences

CONSTANTS PortMax,    \* the largest unsigned short
          Addresses   \* the words boost::asio::ip::make_address accepts

\* No address is a colon.
ASSUME StringAssumption == PortMax \in Nat /\ ":" \notin Addresses

Word(s) == <<s, -1>>
Num(n)  == <<"", n>>
Colon   == <<":", -1>>
Token   == STRING \X Int

construct(service_name, ip_address, port, timestamp_ms) ==
    service_name \o <<Colon, Word(ip_address), Colon, Num(port), Colon, Num(timestamp_ms)>>

\* std::stoi and std::stoull read the number a text begins with; they throw if there is none.
IsNumber(text) == text # << >> /\ text[1][2] >= 0

\* The position of the first colon behind position i; 0 is std::string::npos.
find(text, i) == LET after == {j \in i + 1 .. Len(text) : text[j] = Colon}
                 IN  IF after = {} THEN 0 ELSE CHOOSE j \in after : \A k \in after : j <= k

\* The cast drops the high bits of a number that is too large.
port_of(port_str) == port_str[1][2] % (PortMax + 1)

\* std::nullopt is the empty set.
parse(response) ==
    LET first  == find(response, 0)
        second == find(response, first)
        third  == find(response, second)
        service_name  == SubSeq(response, 1, first - 1)
        ip_str        == SubSeq(response, first + 1, second - 1)
        port_str      == SubSeq(response, second + 1, third - 1)
        timestamp_str == SubSeq(response, third + 1, Len(response))
    IN  IF /\ first # 0 /\ second # 0 /\ third # 0
           /\ service_name # << >> /\ ip_str # << >>
           /\ IsNumber(port_str) /\ IsNumber(timestamp_str)
           /\ \E a \in Addresses : ip_str = <<Word(a)>>
        THEN {[service_name |-> service_name, ip_address |-> ip_str[1][1],
               port |-> port_of(port_str), timestamp_ms |-> timestamp_str[1][2]]}
        ELSE {}
=============================================================================
