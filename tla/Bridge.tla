------------------------------- MODULE Bridge -------------------------------
(***************************************************************************)
(* eestv/data_bridge/bridge.{hpp,cpp}: find peers by discovery, connect to *)
(* each, accept their connections, and take everything down again.         *)
(*                                                                         *)
(* The discovery client is the one of UdpDiscoveryClient, action by        *)
(* action, on the io_context's queue.  The other components put their      *)
(* handlers into the same queue and are reduced to what their own modules  *)
(* show of them: a TcpClient of the bridge makes one attempt and is        *)
(* stopped once; the TCP server and the discovery server work until their  *)
(* stopped callback has run, which never comes from a TCP server whose     *)
(* accept has failed before the stop.  The n of a client's handler is its  *)
(* key.                                                                    *)
(*                                                                         *)
(* One thread creates and destroys the bridge while the io thread runs.    *)
(* What happens to an object a late handler uses after it was destroyed    *)
(* (a reply that comes when the maps are gone, say) is not followed.       *)
(***************************************************************************)
EXTENDS IoContext, DiscoveryString, FiniteSets

CONSTANTS Peers,      \* the addresses that answer requests, one of them our own
          Self,       \* our own address
          TcpPort,    \* the port a TCP server gets
          Times,      \* timestamps: the keys
          Replies,    \* the replies that are given: a peer and a time each
          Targets,    \* values of the discovery target, which all peers share
          Noise,      \* other datagrams that arrive
          Remotes,    \* endpoints that connect to our TCP server
          FaultSets,  \* the sets of discovery socket directions that may fail together
          AcceptErrors \* whether accept can fail

ASSUME BridgeAssumption ==
    /\ Self \in Peers /\ Peers \subseteq Addresses
    /\ TcpPort \in 1 .. PortMax /\ Times \subseteq Nat \ {0} /\ Replies \subseteq Peers \X Times
    /\ \A text \in Targets \cup Noise : text \in Seq(Token)
    /\ FaultSets \subseteq SUBSET {"send", "receive"} /\ AcceptErrors \in BOOLEAN

\* A time is a number of 64 bits, and so is what is read as one.
ASSUME TimesAssumption ==
    IsFiniteSet(Times) /\ \A text \in Noise : \A info \in parse(text) : info.timestamp_ms \in Times

VARIABLES
    flags, on_stopped, queue, posting, receives, sends, timer,  \* the discovery client
    owner, stopped, starts, faults, deaf,
    recv_buffer,  \* its _recv_buffer, emptied when it has been read
    at,           \* where the thread is that creates and destroys the bridge
    target,       \* _config.discovery_target
    clients,      \* _connecting_clients
    outgoing,     \* _pending_outgoing_connections: by key, the peer
    incoming,     \* _pending_incoming_connections: the keys
    server,       \* *_tcp_server: "none", "accepting", "stopped", or "idle" after an error
    answering     \* whether *_discovery_server answers

DC == INSTANCE UdpDiscoveryClient WITH MaxStarts <- 1, StaleResets <- FALSE

dc_rest == <<on_stopped, posting, receives, sends, timer, owner, stopped, starts, faults, deaf>>
dc_vars == <<flags, queue, dc_rest>>
net     == <<recv_buffer, target>>
maps    == <<clients, outgoing, incoming>>
others  == <<server, answering>>
vars    == <<dc_vars, at, net, maps, others>>

Places == {"set_up_tcp_server", "set_up_discovery", "add_discovery_server", "up",
           "stop_discovery_client", "stop_discovery_server", "stop_tcp_server",
           "stop_clients", "destroy_incoming", "destroy_outgoing", "destroy_clients",
           "destroy_rest", "gone"}

\* An attempt is posted to the io thread, under way, about to be handled, or over.
Attempts == {"posted", "working", "completed", "over"}

\* A stop is signaled, has cancelled the attempt, is about to call back, or has done so.
Stops == {"no", "signaled", "cancelled", "resolved", "stopped"}

TypeOK ==
    /\ at \in Places /\ target \in Targets
    /\ DOMAIN clients \subseteq Times /\ DOMAIN outgoing \subseteq Times
    /\ \A k \in DOMAIN clients :
          clients[k] \in [peer : Addresses, port : 0 .. PortMax, attempt : Attempts,
                          stop : Stops, late : BOOLEAN]
    /\ \A k \in DOMAIN outgoing : outgoing[k] \in Addresses
    /\ incoming \subseteq Remotes
    /\ server \in {"none", "accepting", "idle", "stopped"} /\ answering \in BOOLEAN
    /\ receives \in 0 .. 1 /\ sends \in 0 .. 1 /\ Len(queue) <= 5 + 3 * Cardinality(Times)

NoEntries == [k \in {} |-> 0]

Init ==
    /\ DC!Init
    /\ at = "set_up_tcp_server" /\ target \in Targets
    /\ recv_buffer = << >>
    /\ clients = NoEntries /\ outgoing = NoEntries /\ incoming = {}
    /\ server = "none" /\ answering = FALSE

\* A map with one entry set.
Put(map, key, value) == [k \in DOMAIN map \cup {key} |-> IF k = key THEN value ELSE map[k]]

-----------------------------------------------------------------------------
(***************************************************************************)
(* The constructor.                                                        *)
(***************************************************************************)
\* Mutated: the TCP server is left to the end of the constructor.
set_up_tcp_server_later ==
    /\ at = "set_up_tcp_server" /\ at' = "set_up_discovery"
    /\ UNCHANGED <<dc_vars, net, maps, others>>

set_up_tcp_server ==
    /\ at = "set_up_tcp_server" /\ at' = "set_up_discovery"
    /\ server' = "accepting"
    /\ UNCHANGED <<dc_vars, net, maps, answering>>

set_up_discovery_client ==
    /\ at = "set_up_discovery" /\ at' = "add_discovery_server"
    /\ DC!async_start
    /\ UNCHANGED <<net, maps, others>>

set_up_discovery_server ==
    /\ at = "add_discovery_server" /\ at' = "up"
    /\ posting = {}
    /\ answering' = TRUE
    /\ UNCHANGED <<dc_vars, net, maps, server>>

Constructor == set_up_tcp_server \/ set_up_discovery_client \/ set_up_discovery_server

-----------------------------------------------------------------------------
(***************************************************************************)
(* The destructor: four stops, then the members, in reverse order.         *)
(***************************************************************************)
stop_discovery_client ==
    /\ at = "up" /\ at' = "stop_discovery_client"
    /\ DC!async_stop
    /\ UNCHANGED <<queue, receives, sends, timer, owner, stopped, starts, faults, deaf>>
    /\ UNCHANGED <<net, maps, others>>

\* The thread posts a stop and goes on to wait at the next place.
post_stop(place, fn) ==
    /\ at' = place
    /\ queue' = Append(queue, Posted(fn))
    /\ UNCHANGED <<flags, dc_rest, net, maps, others>>

stop_discovery_server ==
    /\ at = "stop_discovery_client" /\ stopped /\ posting = {}
    /\ post_stop("stop_discovery_server", "discovery_server_stopped")

\* The accept that is cancelled completes the stop.  Without one the thread spins for ever.
stop_tcp_server ==
    /\ at = "stop_discovery_server" /\ ~answering
    /\ IF server = "accepting" THEN post_stop("stop_tcp_server", "tcp_server_stopped")
       ELSE at' = "stop_tcp_server" /\ UNCHANGED <<dc_vars, net, maps, others>>

stop_clients ==
    /\ at = "stop_tcp_server" /\ server = "stopped"
    /\ at' = "stop_clients"
    /\ UNCHANGED <<dc_vars, net, maps, others>>

\* TcpClient::stop(), in the loop of the destructor or in ~TcpClient: one client after
\* the other, each until it has stopped.
stop_client(k) ==
    /\ at \in {"stop_clients", "destroy_clients"}
    /\ clients[k].stop = "no"
    /\ \A j \in DOMAIN clients : clients[j].stop \in {"no", "stopped"}
    /\ clients' = [clients EXCEPT ![k].stop = "signaled"]
    /\ queue' = Append(queue, Handler("client_cancel", "ok", k))
    /\ UNCHANGED <<flags, dc_rest, at, net, outgoing, incoming, others>>

\* A map of connections is destroyed: ~TcpConnection stops each one, which has nothing to
\* cancel.
destroy_connections(place, any) ==
    IF any THEN post_stop(place, "connections_stopped")
    ELSE at' = place /\ UNCHANGED <<dc_vars, net, maps, others>>

\* The loop is over.  A client added during the loop may have been passed by.
end_of_loop ==
    /\ at = "stop_clients"
    /\ \A k \in DOMAIN clients :
          clients[k].stop = "stopped" \/ (clients[k].late /\ clients[k].stop = "no")
    /\ destroy_connections("destroy_incoming", incoming # {})

destroy_incoming ==
    /\ at = "destroy_incoming" /\ incoming = {}
    /\ destroy_connections("destroy_outgoing", outgoing # NoEntries)

destroy_outgoing ==
    /\ at = "destroy_outgoing" /\ outgoing = NoEntries
    /\ at' = "destroy_clients"
    /\ UNCHANGED <<dc_vars, net, maps, others>>

\* Mutated: a stop that has been signaled is not waited for.
destroy_clients_at_once ==
    /\ at = "destroy_clients" /\ at' = "destroy_rest"
    /\ \A k \in DOMAIN clients : clients[k].stop # "no"
    /\ clients' = NoEntries
    /\ UNCHANGED <<dc_vars, net, outgoing, incoming, others>>

destroy_clients ==
    /\ at = "destroy_clients" /\ at' = "destroy_rest"
    /\ \A k \in DOMAIN clients : clients[k].stop = "stopped"
    /\ clients' = NoEntries
    /\ UNCHANGED <<dc_vars, net, outgoing, incoming, others>>

\* ~TcpServer, ~UdpDiscoveryClient and ~UdpDiscoveryServer: they were stopped before, so
\* their stop() returns at once.
destroy_rest ==
    /\ at = "destroy_rest" /\ at' = "gone"
    /\ DC!Release
    /\ UNCHANGED <<flags, on_stopped, posting, stopped, starts, faults, deaf>>
    /\ UNCHANGED <<net, maps, others>>

Destructor == \/ stop_discovery_server \/ stop_tcp_server \/ stop_clients
              \/ (\E k \in DOMAIN clients : stop_client(k))
              \/ end_of_loop \/ destroy_incoming \/ destroy_outgoing
              \/ destroy_clients \/ destroy_rest

\* while (!stopped) {}, in one stop or another.
spin ==
    /\ at \in {"stop_discovery_client", "stop_discovery_server", "stop_tcp_server",
               "stop_clients", "destroy_incoming", "destroy_outgoing", "destroy_clients"}
    /\ UNCHANGED vars

-----------------------------------------------------------------------------
(***************************************************************************)
(* The io thread: one action per handler.                                  *)
(***************************************************************************)
Runs(fn) == at # "gone" /\ Next_is(queue, fn)

\* The handlers of the discovery client that do not reach the bridge.
discovery_client ==
    /\ \/ DC!run_start \/ DC!run_cancel \/ DC!handle_send_complete
       \/ DC!handle_timeout \/ DC!run_stopped
    /\ UNCHANGED <<at, net, maps, others>>

\* Mutated: only the connections are looked at.
known_connected(key) == key \in DOMAIN outgoing

\* Mutated: one connection is enough.
known_any(key) == outgoing # NoEntries \/ key \in DOMAIN clients

\* Already connected or connecting.
known(key) == key \in DOMAIN outgoing \cup DOMAIN clients

\* Mutated: the service is not looked at.
on_discovery_response_any(response) ==
    {info \in parse(response) : ~known(info.timestamp_ms)}

\* What a response tells that is for us and new; at most one.
on_discovery_response(response) ==
    {info \in parse(response) : info.service_name = target /\ ~known(info.timestamp_ms)}

\* Every TcpClient is new, and accepts the call of async_connect.
on_peer_discovered(info) ==
    clients' = Put(clients, info.timestamp_ms,
                   [peer |-> info.ip_address, port |-> info.port, attempt |-> "posted",
                    stop |-> "no", late |-> at \in {"stop_clients", "destroy_incoming"}])

\* The maps that a reply is looked up in have been destroyed, or are being.
Destroyed == at \in {"destroy_outgoing", "destroy_clients", "destroy_rest", "gone"}

\* UdpDiscoveryClient::handle_response with the bridge's callback in it.
handle_response ==
    /\ Runs("handle_response")
    /\ LET heard == Head(queue).ec = "ok" /\ Head(queue).n > 0
           found == IF heard /\ ~Destroyed THEN on_discovery_response(recv_buffer) ELSE {}
       IN  /\ receives' = IF heard THEN receives + 1 ELSE receives
           /\ flags' = flags \ {"receiving_async"}
           /\ \/ /\ found = {} /\ UNCHANGED clients
                 /\ DC!resolve_on_stopped(flags', Tail(queue))
              \/ \E info \in found :
                    /\ on_peer_discovered(info)
                    /\ DC!resolve_on_stopped(flags', Append(Tail(queue),
                           Handler("async_resolve", "ok", info.timestamp_ms)))
    /\ recv_buffer' = << >>
    /\ UNCHANGED <<posting, sends, timer, owner, stopped, starts, faults, deaf>>
    /\ UNCHANGED <<at, target, outgoing, incoming, others>>

-----------------------------------------------------------------------------
(***************************************************************************)
(* The handlers of a TcpClient (see TcpClient).                            *)
(***************************************************************************)
key_of_next == Head(queue).n

\* TcpClient::resolve_on_stopped: the stopped callback is posted.
resolves(c) == c.attempt = "over" /\ c.stop = "cancelled"

\* The handler changes the client to c.  It posts before, looks at the stop, posts after.
client_goes_on(k, c, before, after) ==
    /\ clients' = [clients EXCEPT ![k] = IF resolves(c) THEN [c EXCEPT !.stop = "resolved"] ELSE c]
    /\ queue' = Tail(queue) \o before
                \o (IF resolves(c) THEN <<Handler("client_stopped", "ok", k)>> ELSE << >>) \o after
    /\ UNCHANGED <<flags, dc_rest, at, net, incoming, others>>

async_resolve ==
    /\ Runs("async_resolve")
    /\ LET k == key_of_next IN
       client_goes_on(k, [clients[k] EXCEPT !.attempt =
                             IF clients[k].stop = "no" THEN "working" ELSE "over"], << >>, << >>)
    /\ UNCHANGED outgoing

\* The bridge's callback gets the socket, unless the client is being stopped.
connected(k) ==
    IF clients[k].stop = "no" /\ ~Destroyed
    THEN outgoing' = Put(outgoing, k, clients[k].peer) ELSE UNCHANGED outgoing

\* The callback with an error is posted, behind the stopped callback or (when the
\* look-up failed) before it; it changes nothing.
handle_connect ==
    /\ Runs("handle_connect")
    /\ LET k    == key_of_next
           over == [clients[k] EXCEPT !.attempt = "over"]
           fail == <<Handler("complete", "ok", k)>>
       IN  IF Head(queue).ec = "ok"
           THEN client_goes_on(k, over, << >>, << >>) /\ connected(k)
           ELSE /\ client_goes_on(k, over, fail, << >>) \/ client_goes_on(k, over, << >>, fail)
                /\ UNCHANGED outgoing

\* The attempt is aborted, or was about to complete or to go on to its next step.
client_cancel ==
    /\ Runs("client_cancel")
    /\ LET k == key_of_next
           c == [clients[k] EXCEPT !.stop = "cancelled"]
       IN  \/ client_goes_on(k, c, << >>, << >>)
           \/ /\ c.attempt = "working"
              /\ client_goes_on(k, [c EXCEPT !.attempt = "completed"],
                                <<Handler("handle_connect", "aborted", k)>>, << >>)
    /\ UNCHANGED outgoing

client_stopped ==
    /\ Runs("client_stopped")
    /\ clients' = [clients EXCEPT ![key_of_next].stop = "stopped"]
    /\ queue' = Tail(queue)
    /\ UNCHANGED <<flags, dc_rest, at, net, outgoing, incoming, others>>

-----------------------------------------------------------------------------
(***************************************************************************)
(* Handlers that end a stop, and the one that does nothing for the bridge. *)
(***************************************************************************)
discovery_server_stopped ==
    /\ Runs("discovery_server_stopped")
    /\ queue' = Tail(queue) /\ answering' = FALSE
    /\ UNCHANGED <<flags, dc_rest, at, net, maps, server>>

tcp_server_stopped ==
    /\ Runs("tcp_server_stopped")
    /\ queue' = Tail(queue) /\ server' = "stopped"
    /\ UNCHANGED <<flags, dc_rest, at, net, maps, answering>>

\* The connections of the map that is being destroyed are gone.
connections_stopped ==
    /\ Runs("connections_stopped")
    /\ queue' = Tail(queue)
    /\ incoming' = {}
    /\ outgoing' = IF at = "destroy_outgoing" THEN NoEntries ELSE outgoing
    /\ UNCHANGED <<flags, dc_rest, at, net, clients, others>>

complete ==
    /\ Runs("complete")
    /\ queue' = Tail(queue)
    /\ UNCHANGED <<flags, dc_rest, at, net, maps, others>>

IoThread == \/ discovery_client \/ handle_response
            \/ async_resolve \/ handle_connect \/ client_cancel \/ client_stopped
            \/ discovery_server_stopped \/ tcp_server_stopped \/ connections_stopped \/ complete

-----------------------------------------------------------------------------
(***************************************************************************)
(* The network.                                                            *)
(***************************************************************************)
\* TcpServer::handle_accept with the bridge's callback in it.
on_accept ==
    /\ server = "accepting" /\ \E remote \in Remotes : incoming' = incoming \cup {remote}
    /\ UNCHANGED <<dc_vars, at, net, clients, outgoing, others>>

\* TcpServer::handle_accept with an error, before the stop is signaled: the server accepts
\* no more, and has nothing that could complete its stop.
accept_fails ==
    /\ AcceptErrors
    /\ server = "accepting" /\ at # "stop_tcp_server" /\ server' = "idle"
    /\ UNCHANGED <<dc_vars, at, net, maps, answering>>

\* Our discovery server's reply at time t.
on_disvovered(t) == construct(target, Self, IF server = "none" THEN 0 ELSE TcpPort, t)

\* What may arrive: a reply to a request, delayed or repeated by the network, or something
\* else.  Our own discovery server answers once it has been set up; a bridge that finds no
\* local address does not answer.
arriving ==
    {on_disvovered(r[2]) : r \in {r \in Replies : r[1] = Self /\ at # "add_discovery_server"}}
    \cup {construct(target, r[1], TcpPort, r[2]) : r \in {r \in Replies : r[1] # Self}}
    \cup Noise

\* The receive begins together with the first request.  A datagram may be empty.
datagram_arrives ==
    /\ DC!datagram_arrives
    /\ recv_buffer' \in IF queue'[Len(queue')].n > 0 THEN arriving ELSE {<< >>}
    /\ UNCHANGED <<at, target, maps, others>>

receive_fails == DC!receive_fails /\ UNCHANGED <<at, net, maps, others>>

\* A look-up and a connect end, in one way or another.
attempt_completes ==
    /\ \E k \in DOMAIN clients :
          /\ at # "gone" /\ clients[k].attempt = "working"
          /\ clients' = [clients EXCEPT ![k].attempt = "completed"]
          /\ \E ec \in {"ok", "failed"} : queue' = Append(queue, Handler("handle_connect", ec, k))
    /\ UNCHANGED <<flags, dc_rest, at, net, outgoing, incoming, others>>

DiscoveryClientGoesOn ==
    /\ DC!Posting \/ DC!send_completes \/ DC!timer_expires
    /\ UNCHANGED <<at, net, maps, others>>

\* After destruction the program goes on without the bridge.
Terminated == at = "gone" /\ UNCHANGED vars

Next == \/ Constructor \/ stop_discovery_client \/ Destructor \/ spin \/ IoThread
        \/ on_accept \/ accept_fails \/ datagram_arrives \/ receive_fails
        \/ attempt_completes \/ DiscoveryClientGoesOn \/ Terminated

Spec == Init /\ [][Next]_vars

\* As for the components: both threads run, the operating system ends a send, a look-up
\* and a connect, and the clock goes on.  Whether and when the bridge is destroyed, and
\* what arrives, is open.
FairSpec == Spec /\ WF_vars(Constructor \/ Destructor) /\ WF_vars(IoThread)
                 /\ WF_vars(attempt_completes) /\ WF_vars(DiscoveryClientGoesOn)

-----------------------------------------------------------------------------
\* Properties.

\* A reply for this target, or some other datagram, named the address and the port of c
\* together with the key k.
Named(c, k) ==
    \/ <<c.peer, k>> \in Replies /\ c.port = TcpPort
    \/ \E port \in 0 .. 2 * PortMax + 1 :
          construct(target, c.peer, port, k) \in Noise /\ c.port = port % (PortMax + 1)

\* Every attempt goes to an address and a port that were named together with its key, and
\* every connection to the peer of the attempt with its key.
ConnectsToTheNamed ==
    /\ \A k \in DOMAIN clients : Named(clients[k], k)
    /\ \A k \in DOMAIN outgoing : k \in DOMAIN clients /\ outgoing[k] = clients[k].peer

\* Whenever the bridge can be found its TCP server has been started and not been stopped,
\* while the bridge is built and while it is taken down: it accepts, unless an accept has
\* failed.
FoundIsAccepting == answering => server \in {"accepting", "idle"}

\* A client that is in the map is not replaced, nor its attempt begun again, however
\* often its reply arrives: handlers that point to the client may be ready.
ClientsAreKept ==
    [][at' # "destroy_rest" =>
         \A k \in DOMAIN clients :
            /\ k \in DOMAIN clients' /\ clients'[k].peer = clients[k].peer
            /\ clients'[k].attempt = "posted" => clients[k].attempt = "posted"]_vars

\* The state has its type, and when the maps are gone nothing is under way or ready that
\* would use them, but for the call of a failed attempt's callback and for what the
\* discovery client still receives.
DestroyedIsQuiet ==
    /\ TypeOK
    /\ at \in {"destroy_rest", "gone"} =>
          /\ server = "stopped" /\ ~answering /\ sends = 0 /\ ~timer
          /\ \A i \in DOMAIN queue : queue[i].fn \in {"complete", "handle_response"}

\* Something of the discovery client is outstanding or ready that can complete its stop.
Discovering ==
    \/ receives > 0 \/ flags \cap {"sending_async", "timer_running"} # {}
    \/ "start" \in posting \/ Queued(queue, "start") \/ Queued(queue, "handle_response")

\* The destructor returns, although replies keep arriving and clients are added to the
\* map while it works, under two conditions: when it begins one of the directions of the
\* discovery client still works, and no accept fails before the TCP server is stopped.
\* Without the first stop() of the discovery client spins, without the second stop() of
\* the TCP server.
DestructorReturns ==
    at = "stop_discovery_client" /\ Discovering ~> at = "gone" \/ server = "idle"

\* A reply is understood and acted upon when it is read: there is a client under its key
\* then (of whichever bridge replied first at that time), as long as there are the maps.
\* A target that is empty or holds a colon is never found.
HeardIsTried ==
    [][\A p \in Peers, t \in Times :
         /\ recv_buffer = construct(target, p, TcpPort, t) /\ recv_buffer' # recv_buffer
         /\ target # << >> /\ find(target, 0) = 0 /\ ~Destroyed
         => t \in DOMAIN clients']_vars

\* "It attempts to establish a TCP connection to the discovered peer if not already
\* connected or in the process of connecting" (bridge.cpp lines 115 to 116): no peer is
\* connected to while another attempt for it is in progress or has succeeded.
OneConnectionPerPeer ==
    \A j, k \in DOMAIN clients :
        /\ clients[j].peer = clients[k].peer /\ clients[j].port = clients[k].port
        /\ \A i \in {j, k} : clients[i].attempt # "over" \/ i \in DOMAIN outgoing
        => j = k
=============================================================================
