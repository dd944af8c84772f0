# A TLA+ development of eestv_lib

eestv_lib is a C++ library for programs that find each other by UDP broadcast,
connect by TCP and exchange serialized records. Its core is a family of asynchronous
classes on top of `boost::asio`. Each is shared by user threads and one io thread,
protected by a mutex, governed by a set of flags, and stopped by a protocol that must
leave no handler behind when the object is destroyed. That protocol, the byte
streams that pass through the buffers, the bridge that composes the classes, and the
parser of timestamps are what this development is about.

Paths are relative to `src/eestv/`.

## 1. Inventory

| Component | State | Operations | Talks to |
|---|---|---|---|
| `data/linear_buffer` LinearBuffer | byte array, write index, read index, count | `get_write_head`, `commit`, `get_read_head`, `consume` | Serializer, Deserializer, TcpConnection hold raw pointers into it |
| `net/connection/tcp_connection` TcpConnection | socket, 7 flags, receive and send buffer, 3 callbacks | `call_queue_send_function`, `start_sending`, `start_receiving`, `async_stop`, `stop`, destructor; handlers `on_receive`, `on_send` and four lambdas | created by TcpServer or from TcpClient's socket; calls back into the user |
| `net/connection/tcp_server` TcpServer | acceptor, 5 flags, stopped callback | `async_start`, `async_stop`, `stop`, destructor; `handle_accept` and two lambdas | hands TcpConnections to its callback |
| `net/connection/tcp_client` TcpClient | resolver, socket, 5 flags, two callbacks | `async_connect`, `async_stop`, `stop`, `reset`, destructor; `async_resolve`, `handle_resolve`, `handle_connect` and three lambdas | hands a socket to its callback |
| `net/discovery/udp_discovery_client` | socket, timer, receive buffer, 5 flags | `async_start`, `async_stop`, `stop`, `reset`, destructor; `handle_response`, `handle_send_complete`, `handle_timeout` and two lambdas | broadcasts requests, hands responses to a callback |
| `net/discovery/udp_discovery_server` | socket, receive buffer, 5 flags, map of Discoverables | `add_discoverable`, `async_start`, `async_stop`, `stop`, `reset`, destructor; `handle_receive`, `handle_send` and two lambdas | answers requests with what a Discoverable returns |
| `serial/` | a reference to a buffer, a byte count; the demultiplexer also a header | serialize, deserialize, tagged records over one buffer | LinearBuffer |
| `data_bridge/bridge` Bridge | TCP server, discovery client and discovery server; the maps `_connecting_clients`, `_pending_outgoing_connections`, `_pending_incoming_connections` | constructor, destructor; callbacks `on_disvovered`, `on_discovery_response` with `on_peer_discovered`, `on_accept` and the connect lambda | composes all of the above on one io_context |
| `net/discovery/discovery_string` | none | `construct`, `parse` | Bridge |
| `timestamp/timestamp_parser` | none; a compiled parser is a list of steps | `CompileFormat`, the steps, `possible_parse_start_indices`, `nth_parse_start_index`, `to_time_point` | none |
| `threading/spinlock_mutex` | an atomic flag | lock, unlock | nothing in the library uses it |
| `flags/flags` | a bit mask | set, clear, get, clear all | every network class |
| `data_bridge/command_param_parser`, `logging/`, `net/network_utils` | none that matters | input and output | Bridge |

What is hard in this code, and what the properties are for (`hazards` in
`PROJECT.json` lists each at its line):

* a user thread sets a flag that the io thread tests, and the operation it stands for
  is started later, by a posted lambda. Lost wakeups (`start_sending` against the end
  of a write), double starts, and a stop that falls between flag and operation;
* cancelling races with completing: a handler whose operation completed before the
  cancel still runs afterwards, with success, and may start a new operation;
* the stopped callback must be the last thing that happens to an object, since the
  destructor spins on it; what is posted behind it finds the object gone;
* `async_stop` of three classes posts its lambda only after it has released the lock;
* pointers into a LinearBuffer are kept across asynchronous operations while the other
  side consumes, and an emptied buffer moves its indices back to 0;
* errors end chains of operations (accept, receive, send) that nothing restarts;
* the bridge's maps are written by callbacks on the io thread and destroyed by another
  thread, while discovery goes on, replies are repeated, and attempts end as they like;
* the timestamp parser reads by hand-checked indices, accumulates numbers of any length,
  and converts between civil time, offsets and 64 bits of nanoseconds.

Correctness, per component: LinearBuffer is a byte queue and reservations stay valid;
TcpConnection delivers both streams intact, loses no wakeup, and keeps the stop
protocol; the demultiplexer returns what the multiplexer accepted; TcpServer has one accept and hands every connection over; TcpClient runs one
attempt and answers it at most once; the discovery client keeps asking and listening;
the discovery server always has exactly one receive; every stop completes; the bridge
connects to what it was told of, keeps its clients, has its TCP server set up whenever it can
be found, and is destroyed in an order that leaves its maps unused; the timestamp parser reads
what is written, and nothing else.

## 2. Modules

    LinearBuffer        the data type: records and operators
      LinearBufferSpec  the buffer between a producer and a consumer
        ByteQueue         what it promises (abstract specification)
      SerializationMux  records over two buffers; SerializationMuxMC gives the types
      BufferAndMuxProofs  about both
    IoContext           what the classes need from boost::asio (external)
      TcpConnection     extends IoContext and LinearBuffer
        AsyncService      the stop protocol (abstract specification)
        TcpConnectionProofs
      TcpServer         AsyncService as well
        TcpServerProofs
      TcpClient
        TcpClientProofs
      UdpDiscoveryClient
        UdpDiscoveryClientProofs
      UdpDiscoveryServer
        UdpDiscoveryServerProofs
      Bridge            instantiates UdpDiscoveryClient; the others condensed
        DiscoveryString   the text of a reply
        BridgeMC          the datagrams
        BridgeProofs
    TimestampParser     the parser, its user, and reference definitions
      TimestampParserMC the formats and the lines
    BufferAndQueueLemmas  facts about the operators, for all proofs

Definitions have the names of the functions they model; `run_x` is a posted lambda.
`map` in `PROJECT.json` gives the lines. A definition marked *Mutated* is a plausible
wrong version of the definition that follows it. It is not part of any specification:
it documents which mistake a property detects, and each property has one.

### Conventions of the network modules

* `flags` is the set of flags that are set; `on_stopped`, `disconnected_callback` and
  the like are TRUE while the `std::function` member is not empty. A moved-from
  `std::function` is taken to be empty, as in every implementation the library builds
  with.
* `queue` is the sequence of ready handlers. An outstanding operation is in `reads`,
  `writes`, `accepts`, `receives`, ... until the environment completes it, which
  appends its handler to `queue`. Cancelling and closing append the aborted handlers.
* A section that holds the mutex is one action. The io thread runs handlers one after
  the other, so a handler is one action too; the logging it does before it takes the
  lock is left out. Where a member function posts after it has unlocked (TcpClient,
  both discovery classes), the post is an action of its own (`posting`, `post`).
* `owner` says where the thread is that owns the object: free, spinning in `stop()`,
  spinning in the destructor, or done with it. Other threads may call the remaining
  member functions while it spins in `stop()`; none may be called once the destructor
  has begun. `stop()` on the io thread does nothing but warn.
* Nothing runs after `owner = "gone"`: a handler that is ready then and captures `this`
  is a use after destruction, which `NoDanglingHandler` and `AsyncService` exclude.
* When the user has called `async_stop`, the object is destroyed only after that
  stop's callback (`stop()` in the destructor would return at once). This is what the
  classes require of a user.

From `boost::asio` the modules assume: one thread runs the io_context; handlers run in
the order in which they became ready; `cancel` makes every outstanding operation of
the object ready with `operation_aborted`, reads before writes; `async_write` and
`async_connect` are single operations to their user; a completed operation cannot be
cancelled any more.

### Correspondence and abstractions

*LinearBuffer*: `_buffer`, `_head`, `_tail`, `_size` are the fields `mem`, `head`,
`tail`, `size`; a pointer is an index, `nullptr` is -1. A refused `commit` or `consume`
leaves the buffer alone. The indices do not overflow: they are bounded by the capacity,
which is what `BufferWellFormed` says.

*SerializationMux*: a type is the list of the widths of its fields (`FieldSizes`), a
record a type index and its fields. What depends on the width of a byte (`max_types`,
`max_payload_size`, the split of the size into two bytes) is computed from the constant
`ByteSize`, so that with bytes of 0 .. 3 a size needs both bytes and a payload of 16
bytes is too large. The connection between the two buffers is `transfer`: it carries
bytes in order, which is what `SentStreamIntact` and `ReceivedStreamIntact` show of
TcpConnection. `slips` records what went wrong in the stream so far.

*TcpConnection*: the i-th byte the user queues and the i-th byte the peer sends have
the value i, so that loss, duplication and reordering are visible in the history
variables `wire` and `delivered`. The user's data callback consumes any number of the
readable bytes. How many reads `start_receiving` may cause at a time is the constant
`MaxReads`: with 1, the user calls it once; with 2, also during a read.

*TcpServer*: connections are counted, `accepted` against `handed`.

*TcpClient*: `async_connect` is called only while no stop has been signaled, or after
`reset()` (tcp_client.hpp line 54); the code itself would accept the call.

*Discovery client*: responses are not distinguished except for being empty; `faults`
is the set of socket directions that may fail in the behaviour. The response callback
is always set (the constructor takes it). *Discovery server*: an identifier is a
number; a reply may be empty. The map is only ever added to.

*Bridge*: the thread that constructs and destroys the bridge is at the place `at`; the
destructor's four stops, its loop and the destruction of the members are one place each,
in the order of bridge.cpp lines 27 to 37 and, for the members, of their declaration
backwards. The discovery client is the module UdpDiscoveryClient, action by action, on the
bridge's queue, with its send and receive errors (`FaultSets`); its callback is the
bridge's, so `handle_response` is written out here. `recv_buffer` holds the datagram and is emptied when it has been read. A TcpClient is a
record: peer, port, how far its attempt is, how far its stop is, and whether it was added
while the destructor's loop ran (`late`): such a client may be seen by the loop or passed
by, and is stopped by its own destructor then. An attempt is one operation, as the bridge
does not see the look-up apart from the connect. The two servers work until their
stopped callback has run, which TcpServer and UdpDiscoveryServer show of them. A TCP server
whose accept has failed (`AcceptErrors`) is `"idle"`: it accepts nothing more, and a stop
that comes after that never calls back, so the destructor spins. An accept that fails
during the stop completes it. Connections are never started, so that their stop has
nothing to cancel; the destructor waits for the stops of the incoming ones, then for those
of the outgoing ones, and for nothing where a map is empty. A reply may arrive at any time after the first request, be lost, delayed or
repeated; `Noise` holds datagrams that are no reply to us. What a late reply does to
maps that are already destroyed is undefined in C++ and not followed.

*DiscoveryString*: a text is a sequence of words, numbers and colons. Numbers are not
negative; `std::stoi` and `std::stoull` read the number a text begins with. The cast to 16
bits is `% (PortMax + 1)`.

*TimestampParser*: characters are strings of length one and indices count from 0, as in
the code. `UnsignedMax` is the width of `unsigned`, small enough for a value to wrap. The
local time zone is a fixed offset. Times are a day, a second and a nanosecond; a time that
64 bits of nanoseconds do not hold is `Garbled`, since the overflow is undefined. The
library leaves it to the user to run the steps; `Compile`, `ReadLine`, `NextCandidate`,
`RunStep` and `Convert` are a user who does what the header says. The wording of error
messages is left out. The reference definitions are the header's table of tokens with the
rule that the longest matches (`LongestMatch`), the texts each step may read (`Reading`),
where a number may be left (`Uncut`), and the lengths of months computed from day numbers (`MonthLength`).

## 3. Runs

| Run | Checks | Bounds |
|---|---|---|
| `buffer` | BufferWellFormed, ReservationValid, IsByteQueue (refinement) | 4 cells, 2 byte values |
| `conn` | SentStreamIntact, ReceivedStreamIntact, OneWrite, ReceptionGoesOn, IsAsyncService (refinement), StopCompletes, AnnouncedIsSent | 2 cells per buffer, 3 bytes each way, one read at a time, a connection-lost callback |
| `mux` | InStep, FailureHasCause, AcceptedIsDelivered | 3 records of 3 types, buffers of 20 and 11 cells, bytes that hold 0 .. 3 |
| `server` | OneAccept, IsAsyncService (refinement), ConnectionsHandedOver, AcceptingStopCompletes | 5 connections, accept may fail |
| `client` | OneAttempt, StopIsClean, AnsweredAtMostOnce, StopCompletes, AnsweredUnlessStopped | 3 attempts |
| `discovery_client` | OneRequest, Listening, StopIsQuiet, RequestsGoOn, StopCompletes | 3 starts, any set of faults |
| `discovery_server` | OneReceive, StopIsQuiet, StopCompletes | 3 starts, 3 datagrams, 1 identifier |
| `bridge` | ConnectsToTheNamed, FoundIsAccepting, DestroyedIsQuiet, ClientsAreKept, HeardIsTried, DestructorReturns | 2 keys, our own reply and a datagram from elsewhere that names a peer and a port too large, targets with and without a colon, 1 incoming connection; sends, receives and accepts may fail |
| `timestamp` | FormatIsTokenised, CandidatesAgree, StepsReadTheirTokens, TimeIsTheOneWritten | every format of two runs of up to 5 characters, runs of `f` around 10, ten formats with lines at and beyond the limits of every field, lines of up to 6 characters for the candidates, a 7-bit `unsigned` |

The type invariant TypeOK of a module is a conjunct of the first property of its run (of
TimeIsTheOneWritten in `timestamp`, of DestroyedIsQuiet in `bridge`), except in LinearBufferSpec and TcpConnection, where it
is proved. Every run but `timestamp` also checks the absence of deadlock: a line that has
been parsed is the end there.

The bounds are small because the interesting cases are: a buffer of 2 cells can be
filled to its end while not full, be partly consumed, and be reset; 3 bytes make a
second write start behind a first one and a third be queued during it; two starts put
a stop and a reset between them, and a third shows that nothing is left over. In the
bridge two keys are enough for one client to be stopped while another is added. That two
peers reply under the same key is left to the proofs, which are about any replies.

`StepsReadTheirTokens` is about both outcomes of a step. One that succeeds has read a text
of its token and written what it means; one that fails had none before it. Numbers of
variable width, `s*` and `f*`, are read to their last digit. The padded day is not: `D*`
reads two characters at most, so that " 12" is read as " 1", and the step behind
it meets the 2.

The following runs end in a counterexample. Each states what a comment of the code
promises, and shows that the code does not keep it.

| Run | Property | What happens |
|---|---|---|
| `conn_stop_stall` | StopCompletes | a write completes, the stop cancels, `on_send` writes what was queued meanwhile; nobody cancels that write, and with a peer that does not read `stop()` never returns |
| `conn_lost_callback` | NoDanglingHandler | the connection-lost lambda is posted behind the stopped callback and captures `this` |
| `bridge_repeats` | OneConnectionPerPeer | the peer answers two requests; its replies have different timestamps, which are the keys, and it is connected to twice |

What the passing runs had to be told, because the code does not promise more:

* TcpConnection: `IsAsyncService` does not count connection-lost notices as work of the
  connection; `conn_lost_callback` is about them. The user calls `start_receiving` once
  (`MaxReads = 1`): the flag `receiving` is never set, and a second call during a read
  starts a second one into the same cells. With `MaxReads = 2` TLC finds
  `ReceivedStreamIntact` violated.
* TcpServer: `AcceptingStopCompletes` is about a stop that finds the server accepting or about
  to accept; after a failed accept there is nothing to cancel, and `stop()` never returns.
* TcpClient: `StopIsClean` allows the callback of a failed attempt to be ready behind the
  stopped callback. `handle_connect` posts them in that order, and the callback captures
  `this`, so the object must outlive it. A resolve that completed before the cancel
  still starts a connect after it. `stop()` returns at once when an `async_stop`
  came first, although the attempt goes on. An attempt that is stopped before it
  resolves never calls its callback, which `AnsweredUnlessStopped` leaves open.
* SerializationMux: `InStep` ends with the first payload that is truncated (`serialize`
  returns true for it) or too large (`serialize` returns false with the frame already
  in the buffer), and with the first header taken before its payload has arrived:
  `deserialize` consumes it and does not put it back. `AcceptedIsDelivered` leaves out a
  receiving buffer that ends in the middle of a header: it is never empty, so it is
  never reset, and the rest of the header has no room.
* Discovery client: `StopIsQuiet` allows a cancel lambda and a response handler to be left
  after a stop: the lambda is posted after the unlock, and the stopped callback can
  overtake it; `handle_response` re-arms the receive and clears the flag, so that the
  receive outlives the stop. `reset` comes only when neither is left (`StaleResets =
  FALSE`): the next start would receive into the same buffer twice.
  `StopCompletes` is not claimed for behaviours in which both directions may fail: then
  no handler may be left that could complete the stop.
* Discovery server: `reset` comes only when no handler of the stopped run is left
  (`StaleResets = FALSE`). With `StaleResets = TRUE` a late `handle_send` clears the one
  flag for replies in the next run and completes its stop while its start lambda is
  still to be run; a third start then leads to two receives on one buffer, and
  `OneReceive` fails.
* Bridge: `DestructorReturns` has two conditions. When the destructor begins,
  something of the discovery client must be at work that can complete its stop
  (`Discovering`): when sending has ended by an error (udp_discovery_client.cpp line 130) and
  receiving by an error or an empty datagram (lines 157 and 167), nothing is, and the first `stop()` of the destructor spins for ever. And no accept may
  fail before the TCP server is stopped: after one (tcp_server.hpp line 234) nothing is
  outstanding there, and the third `stop()` spins for ever. For the same reason
  `FoundIsAccepting` allows a bridge that is found and whose accept has failed.
* Bridge: `DestroyedIsQuiet` leaves out replies that arrive late, for which the discovery
  client still listens after its stop, and the posted callbacks of failed attempts: both
  capture `this`, and nothing in the code keeps the io_context from running them after
  the bridge is gone. `HeardIsTried` says that there is a client under a reply's key;
  another bridge that replied in the same millisecond may be its peer. A target with a
  colon in it never finds a peer, since `parse` cuts at the first, and neither does an
  empty one, which `parse` refuses. A port beyond 65535 is
  cut to 16 bits and tried (`ConnectsToTheNamed` says so).
* TimestampParser: 64 bits of nanoseconds hold the years 1678 to 2261 only, and a
  timestamp without a year has the year 0: `TimeIsTheOneWritten` claims nothing of the
  value then. Of seconds above 59, which `s*` accepts, `to_time_point` keeps 59. -1 is
  tested before the offset is subtracted, so it is the civil time 1969-12-31 23:59:59 that
  has no conversion at any offset, not only in UTC (timestamp_parser.hpp lines 32 and 33).

### Fairness

Weak fairness of `IoThread`: the program runs the io_context in a thread of its own,
and no handler blocks for ever (the spinning thread does not hold the mutex). Weak
fairness of `stop_returns` and `Posting`: a thread inside a member function is
scheduled. Weak fairness of `send_completes` and `timer_expires` in the discovery
modules: the operating system ends a datagram send, and time passes. Weak fairness of `transfer` and
`deserialize` in SerializationMux: the connection carries what is written, and the
reader calls `deserialize` whenever data arrives. Of a peer nothing
is assumed, except in `conn`: there a write ends, successfully or not, which
`conn_stop_stall` shows to be needed. `FairSpec` of TcpClient assumes that a resolve
and a connect end, since both have time limits in the operating system. `FairSpec` of
Bridge assumes the same of both threads, of sends, attempts and the clock, and nothing of
what arrives or fails, nor that the bridge is ever destroyed: `DestructorReturns` begins when
it is.

Deadlock is checked in every run but `timestamp`. `spin` and `Terminated` are stuttering steps that
stand for the busy loop and for the program that goes on without the object, so a
deadlock would be a state in which the object is alive and no thread can do anything.
In SerializationMux a refused call is a stuttering step; there `AcceptedIsDelivered` says
what the absence of deadlock would.

## 4. Proofs

A module `XProofs` holds the theorems about the specification of module X, for every
value of its constants; `BufferAndMuxProofs` those about LinearBufferSpec and
SerializationMux. `BufferAndQueueLemmas` holds facts about numbers, recursion and
sequences, and the facts about the operators the
modules are built from: what filling, committing and consuming do to
the contents of a buffer; what appending, taking, aborting and concatenating do to the
handlers in a queue, to how many there are, and to their order (`Follows`). Each of the
network proofs has one lemma per action, or one for the actions that leave the same
things alone, and from there one induction per theorem. Every inductive invariant was
model-checked with the bounds of section 3 before it was proved.

### BufferAndMuxProofs

* `BufferSafe`: BufferSpec => [](BufferTypeOK /\ BufferWellFormed /\ ReservationValid). Their
  conjunction is inductive. None of them is on its own: that `commit` stays in bounds
  needs head = tail + size, that a consume keeps a reservation needs that `head` does
  not move unless the buffer is emptied, and the rule that a buffer is not emptied
  under a reservation is the guard of `Consume`.
* `BufferIsByteQueue`: BufferSpec => IsByteQueue, the refinement, from the same invariant.
* `MuxSafe`: Spec => [](InStep /\ FailureHasCause), for every size of a byte, of the buffers
  and of the fields, from `MuxInvariant`: Spec => []Inv. `Inv` has three parts.
  `TypeInv` gives the types, among them that records hold bytes and that the buffers are
  well formed. `StepInv` says that unless a slip has happened the bytes on the way
  are in step (`Delivers`): what is unread in the receiving buffer, followed by what is
  unread in the sending one, is the concatenation of the frames of the records accepted
  and not yet delivered; and each of these records has the fields its type says
  and a size that two bytes can hold (`Framed`). The last is what InStep lacks to be
  inductive: without it the header at the front would not say where its payload ends.
  `CauseInv` says that every slip goes back to one of the three that `serialize`, or a
  `deserialize` before the payload, commits.

  Four recursive functions had to be reasoned about: `FlattenSeq` of the community
  modules, `Serialized`, `Deserialized` and through them the folding of a record. That a
  function which is defined by recursion exists, so that CHOOSE finds it, is
  `RecursionExists`; what holds for each of its values is `UpTo`, both by the least number
  for which it would fail (`NatMin`). From there the argument is: a Serializer writes all
  fields in order or counts fewer bytes (`SerializedWrites`); patching the two size bytes
  changes nothing else (`OverwriteContents`, `FramePatched`), so an accepted record adds
  its frame at the end (`DeliversAppended`); `transfer` keeps the concatenation; the
  first three bytes of the concatenation are the header of the next record (`HeaderRead`), and
  a Deserializer that finds the payload behind it returns the fields it was put
  together from (`DeserializedReads`), so that a frame is gone from the front and the next
  record delivered (`DeliversNext`, `ReadInStep`). Hence an unknown type or a wrong size is
  never met in step.

### TcpConnectionProofs

* `ConnectionSafe`: Spec => [](TypeOK /\ OneWrite). The inductive invariant `Inv` adds
  three things. The buffers are well formed: only then do the regions handed to
  `async_read_some` and `async_write` lie inside the array, which is part of TypeOK. The
  flag `start_sending` stands for exactly one posted lambda. The flags `start_sending`
  and `sending` exclude each other: without that, the lambda could begin a write beside
  the one in progress. The theorems below use `Inv` and add to it.
* `SentStreamCorrect`: Spec => []SentStreamIntact. `SentInv` says that the cells of the
  send buffer below `head` hold the last bytes produced, including those already sent
  (`Numbered`), and that the sending side is in one of four conditions. In the first
  (`InStep`) the peer has got all that is no longer in the buffer, plus what a write
  that has completed and is not handled yet took from the front; an outstanding write
  begins at `tail`. In the others nothing is sent any more: the stop has cancelled the
  write (`Finished`), the connection is broken, or the object is gone. The second is
  why it matters that a stop which cancels a write never begins another after it.
* `ReceptionContinues`: Spec => []ReceptionGoesOn, whatever the number of reads.
  `GoesOnInv` adds where failed reads come from: a stop or the broken connection.
* `ReceivedStreamCorrect`: Spec => []ReceivedStreamIntact if MaxReads <= 1. `Pending` is
  the number of bytes that are in the array behind what is committed. `ReceivedInv` says
  that reception is in one place (posted, reading, completed), that a read is made at the
  present write head, and that the handler of a completed read carries exactly
  `Pending`. The hypothesis is needed: two reads are given the same cells.
* `ConnectionIsAsyncService`: Spec => IsAsyncService, the refinement, whatever the number
  of reads. `StopInv` says what the stop depends on. `closing` stands for the one posted
  cancellation; no `async_receive` is posted behind it, and none is left when it has run,
  so that no read is begun after the cancel. The stopped callback is held, then posted
  when the flags are clear, then has run, and only a connection-lost notice follows it.
* `NothingDangles`: Spec => []NoDanglingHandler if LostCallback = FALSE. The run
  `conn_lost_callback` shows that the hypothesis is needed.

### TcpServerProofs

* `ServerSafe`: Spec => [](OneAccept /\ handed <= accepted). `start_accepting` stands for
  one posted lambda, `accepting` for one accept, and they exclude each other (`StartInv`);
  an accepted connection whose handler is ready has not been handed over (`HandInv`).
* `ServerIsAsyncService`: Spec => IsAsyncService. `StopInv`: the stopped callback is held,
  posted at the end of the queue, then has run with the queue empty.

### TcpClientProofs

* `ClientSafe`: Spec => [](OneAttempt /\ StopIsClean /\ AnsweredAtMostOnce). Each of the
  flags `schedule_resolving`, `resolving` and `connecting` stands for one thing, which is
  about to be posted, posted, under way or completed, and they exclude each other
  (`OneEach`, `AttemptInv`); `stopping` stands for the cancel lambda, which may be posted
  after the unlock; the stopped callback is posted when none of the four is left, and only
  `reset` ends that (`StopInv`). The answers given and those posted are counted together.

### UdpDiscoveryClientProofs and UdpDiscoveryServerProofs

* `DiscoveryClientSafe`: Spec => [](OneRequest /\ Listening /\ StopIsQuiet) if StaleResets =
  FALSE. There is one receive at most, and a completed one that no other follows is the
  work of a fault or of a stop (`ListenInv`); the request is being sent, sent, waited for
  or expired, and the two flags tell which (`RequestInv`).
* `DiscoveryServerSafe`: Spec => [](OneReceive /\ StopIsQuiet) if StaleResets = FALSE.
  `receiving_async` stands for exactly one receive (`ReceiveInv`); there are never more
  replies under way than requests that were read (`SendInv`). StopIsQuiet speaks of the time
  after the stopped callback has run, and of receives, starts and flags only: one flag
  stands for all replies, so that replies, their `handle_send` and the lambda of the cancel
  may be left.

Both need `StartInv`: the lambda of `async_start` finds nothing that an earlier run left.
That is what `reset` breaks when it comes too early, and TLC finds `OneReceive` violated
without the hypothesis.

### BridgeProofs

The first part is about the parser. `find` returns the first colon (`FindFirst`); it is a
CHOOSE, and that it chooses anything rests on the well-ordering of the numbers (`NatMin`).
`ParseReply` then says that `parse` undoes `construct` for every service name without a
colon, and `ServiceHasNoColon` that a reply read for our target was not cut at a colon of
the target. The first invariant, `Inv`, has four parts.

* `PlaceInv` relates the servers to the place of the constructing and destroying thread,
  and to the stops in the queue. `BridgeReachable`: Spec => []FoundIsAccepting, from it.
* `ReceiveInv` says that there is at most one receive, which is about to be posted, posted,
  in progress, or completed with its handler ready; after an error or an empty datagram there
  is none. So the buffer still holds the datagram of
  that handler, and a handler that was aborted has nothing to read. `BridgeTries`:
  Spec => HeardIsTried, from it and `ParseReply`.
* `ClientsInv` says that a handler of a TcpClient that is ready has the key of a client
  in the map until the map is destroyed, and that a connection has the peer of the client
  under its key. `BridgeKeepsClients`: Spec => ClientsAreKept, from it.
* `TypeInv` gives the types these need. It says nothing of the flags of the discovery
  client: none of the theorems up to here depends on them.

`BridgeConnects`: Spec => []ConnectsToTheNamed, from `Inv` and `NamedInv`, which is
inductive under the hypothesis `NoiseHasForm`: a datagram that is no reply to us is not
understood, or has the form of a reply. A text such as "name:address:80x:5y" is understood
too, since the numbers are read as far as they go; the property has no name for it. The
model checker's datagrams satisfy the hypothesis.

These proofs go by what a step does to the queue: `Moves(q, r, L, F)` says that between q
and r only handlers of functions in L may have gone and only those in F have come.

`BridgeIsQuiet`: Spec => []DestroyedIsQuiet, TypeOK and its bound on the queue among it,
from `Inv` and a second invariant, `QuietInv`, which is inductive relative to `Inv`.

* `QueueInv`: the queue is `Tidy`, that is, handlers that exclude each other (the two
  functions of an attempt, those of a stop, the ends of a request) are never ready
  together, and the lambda of the discovery client's stop comes before the callback of the
  discovery server's. And every handler that is ready is `Due`: the state says that it is
  on its way. The order is needed because another handler may see the flag of the
  discovery client's stop and finish it while that lambda is still queued; the callback of
  the discovery server's stop is posted later, so the lambda has run when that stop is done.
  The callback that ends the stops of connections is due only while a map of connections
  that is not empty is being destroyed.
* `RequestInv`: a request in progress is marked by one flag of the discovery client, and
  a client that is about to start has no request.
* `StopInv`: which stops have been asked for, have taken effect and have been announced,
  by the place of the thread; once `on_stopped` is taken, nothing is in progress and
  nothing is posted that would begin a request.
* `StageInv`: the map of clients is empty when it has been destroyed, and a client whose
  stop has resolved has no attempt left.

The bound on the queue is a count: a tidy queue has at most five handlers without a key
and three for each key (`TidyIsShort`), so it needs `TimesAssumption`, that the times, which
are numbers of 64 bits in the code, are finitely many.

The assumptions of all of these are the ASSUMEs of the modules, which say that sizes and
bounds are natural numbers, switches are BOOLEAN, texts are sequences of tokens and a
colon is not an address, and the hypotheses given above.

### What is model-checked only

* The liveness properties, and with them every use of fairness: out of the prover's reach.
* TimestampParser, all four properties: that a format is cut into its longest tokens,
  that a step reads what its text means, and that the two searches for candidates agree are
  inductions through several recursive functions at once, and the range of the converted
  time is arithmetic with products and quotients of unknowns.

## 5. Not modelled, and the plan

Next:

* Lemmas for TimestampParser: the day limit of `make_date_validator` is `MonthLength` for
  every year, and the guard of `variable_second` keeps the value below `UnsignedMax`.

Not planned: logging, the command line and `network_utils`, which only do input and
output; SpinlockMutex, which is one atomic operation per call and which no other part of
the library uses; callbacks of the user that call back into the object, which the code
forbids in comments (tcp_connection.hpp lines 46-48).
