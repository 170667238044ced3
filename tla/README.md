# PeerCore in TLA+

A verification development for PeerCore, a small libp2p-style networking library
in C++: TLA+ modules translated from the source, TLC configurations that
model-check them on small instances, and TLAPS proofs for every instance.

Paths below are relative to the repository (`src/swarm.cpp`, `doc/...`).

## 1. The system

PeerCore is single-threaded.  A `Swarm` owns a `TcpTransport`, an `EventLoop` and
one `ConnectionSession` per TCP connection; the application calls `poll_once()`
in a loop.  Concurrency comes from the other end of each connection, from the
kernel (descriptor numbers, edges of epoll, arrival of data and end of file) and
from time.

| Component | State it keeps | Operations | Talks to |
|---|---|---|---|
| **Yamux** `src/protocol/yamux/` | `streams_`, `send_windows_`, `next_stream_id_`, `remote_go_away_`; per stream `recv_buf_`, `read_closed_`, `write_closed_`, `reset_` | `open_stream`, `receive`/`handle_frame`, `try_read`, `try_write`, `close_write`, `reset` | its peer, by frames; the session, by `outgoing_cb_`, `accept_cb_`, `close_cb_` |
| **ConnectionSession** `src/connection_session.cpp` | state, security stage, wire buffers, Noise state, muxer, direct stream, `event_queue_` | `begin_*_upgrade`, `on_socket_readable/writable`, `on_timeout`, `request_open_stream`, `close`, direct stream calls | the socket; the Swarm, by its event queue |
| **Noise** `src/protocol/noise/` | handshake state, two cipher states with nonces, the remote identity | messages 1-3, `encrypt`, `decrypt` | called by the session |
| **multistream-select** `src/protocol/multistream_select.cpp` | none | framing and offer/answer | session, stream negotiation |
| **Swarm** `src/swarm.cpp` | `connections_`, `conn_fds_`, `fd_to_conn_`, `peer_connections_`, `connection_peers_`, `dialing_fds_`, `listener_fds_`, `event_queue_`, `pending_streams_` | `listen_on`, `dial_addr`, `poll_once`, `apply_action`, `open_stream`, `stop` | transport callbacks, loop handlers, session events |
| **TcpTransport** `src/transport/tcp_transport.cpp` | listeners, `pending_dials_` | `listen`, `dial`, `on_accept_ready`, `on_connect_ready`, `close_all` | kernel; Swarm, by callbacks |
| **EventLoop** `src/runtime/event_loop.cpp` | `fd_handlers_`, `timers_`, the epoll set | `register_fd`, `unregister_fd`, `add_timer`, `cancel_timer`, `poll_with_timeout`, `fire_timers` | kernel; handlers |
| **ProtocolNegotiatingStream** `src/swarm.cpp` | step of the per-stream negotiation, its buffers | `poll`, `try_read`, `try_write`, `close_write`, `reset` | polled by `pending_streams_` of the Swarm and by the application's calls |
| **RoutingTable** `src/routing_table.cpp` | `peers_` | `insert`, `remove`, `closest_peers` | |
| **Peer ids** `src/types.cpp` | none | `to_string`, `from_string`, base58 | dialed addresses, the Swarm's peer tables |
| **PeerStore, Node, Controller, services, Multiaddr, log** | maps, wrappers, stubs | | |

What is hard here, and what makes each part correct:

- **Yamux**: opens, resets, half-closes and credit of both ends cross on the
  wire.  Bytes must come in order, end of stream after the last byte, credit must
  be conserved, a stream accepted once, none left half-open.
- **ConnectionSession**: a callback parses many messages, each of which may end
  the upgrade; close, end of file and errors may arrive anywhere.  The session
  must tell its owner one consistent story, both ends must agree on the muxer, the
  nonces must stay in step, an upgrade must end.
- **Swarm, transport, loop**: a descriptor number outlives its socket in five
  tables, and the kernel hands it out again at once; events are dispatched from a
  batch taken earlier; connections are removed later than they close.  No socket
  may leak or be shared, no registration may fail, every dial and every close must
  be reported once.
- **Stream negotiation**: messages arrive split, or together with application
  data, FIN or RST; the Swarm and the application advance the same negotiation;
  sessions disappear under pending streams.  Both ends must agree, no byte may be
  lost, each stream must be reported once, and a negotiation must end.
- **Noise**: two roles must mix the same things in the same order; nothing altered
  may go unnoticed, no nonce may meet its key twice, the peer must be the one that
  signed.
- **multistream-select, peer ids**: two parsers of the same bytes, varints at the
  end of their width, carry loops between radices.
- **Timers**: the clock is read once to run timers and again for each to remove it.
  A one-shot timer must run once before it goes.

`PROJECT.json` lists the hazards line by line with the properties aimed at them.

## 2. Modules

| Module | Models |
|---|---|
| `Yamux` | two yamux sessions, the two ends of a connection, and the frames between them |
| `StreamPipe` | what one direction of a stream promises: a reliable bounded pipe |
| `YamuxIds`, `YamuxData` | the inductive invariants about stream ids and about what the frames on the wire carry |
| `Session` | the two ConnectionSessions of a TCP connection, with Noise and multistream-select as they use them |
| `Swarm` | one Swarm with TcpTransport, EventLoop (descriptors) and the kernel's descriptor table |
| `Streams` | the streams of one ready connection as the Swarms at its ends use them: `open_stream`, `ProtocolNegotiatingStream`, `pending_streams_`, handlers, the application's handles |
| `Noise` | the XX handshake of two ends and their transport ciphers, symbolically |
| `Framing` | multistream-select messages as bytes, read by its two parsers |
| `PeerIds` | base58 and the text of a PeerId |
| `RoutingTable` | the flat routing table |
| `Timers` | the EventLoop's timers |
| `MCYamux`, `MCSession`, `MCSwarm` | instances for TLC |
| `MCLibrary` | one instance for `Timers`, `Noise`, `Framing`, `PeerIds` and `RoutingTable`: a behaviour takes the steps of one of them |
| `NoiseTranscript` | the inductive invariant of the handshake and the transport ciphers |
| `SessionInv` | the inductive invariants of the two sessions: their events and nonces, and the choice of the muxer |
| `StreamsInv` | the inductive invariants of the polling of streams and of what their ends say to each other |
| `SwarmInv` | the inductive invariant of the Swarm's books: descriptors, dials, connections, peers and reported events; and that of a Swarm that only dials |
| `YamuxIdProofs`, `YamuxDataProofs`, `YamuxPipeProofs`, `NoiseProofs`, `StreamsProofs`, `StreamsTalkProofs`, `SessionProofs`, `SwarmProofs` | proofs |

Definitions named `Faulty...` are variants with a plausible mistake.  No
specification uses them; they exist to show that a property notices the mistake.

### Yamux

State is per side and per stream id.  One action per public operation
(`OpenStream`, `TryWrite`, `TryRead`, `CloseWrite`, `Reset`), and `Receive`, which
takes the first frame of the peer and is `handle_frame`, one disjunct per outcome.
Operations that return early without changing anything (EAGAIN, a write to a
closed stream, a read of zero bytes) are the guards.  `send_buf_`, the connection
and the peer's `recv_buf_` are one FIFO of whole frames: `try_parse_frame` leaves a
partial frame where it is.  Bytes are their positions in the stream (ghost field
`off`), so "in order" can be said without payloads.  `ForeignSend` is another
implementation that pings, says go-away, or opens a stream of the wrong parity.
Errors of the flush (`outgoing_cb_`) belong to the connection and are in `Session`.

### Session

`ep[e]` is the record of one end, methods are operators from record to record, and
the kernel's send queue `net` carries whole messages and the end of file.
`on_socket_readable` fills the receive buffer and then handles one message per step
(`busy`), so that the other end can move in between, as it can while the code is
inside the handler.  The upgrade begins in the callback that creates the session.
Close by FIN and by RST are not distinguished: both end in `recv` or `send`
telling so.  `on_timeout` has no caller in the repository; it is modelled as a call
its owner may make.  Yamux is reduced to SYN and ACK here.  Keeping and reading an
old direct-stream handle after the session has replaced the stream is not modelled.
`recv` may fail at any time (`RecvFails`).  The peer id of a dial target matches the
peer, does not, is absent, or is one that `PeerId::from_string` cannot read
("unreadable"): then `validate_expected_remote_peer` accepts any peer that has proved an
identity, as its comment says, and `ReadyWithDialedPeer` makes that exception.

### Swarm

`node` is everything the process owns.  `poll_once` is split where the network can
interfere: sync and `epoll_wait`; one step per dispatched event and per `accept()`;
sync; one step per drained event and per removed connection.  A socket that was
accepted and cannot be set up is closed at once.  epoll is edge-triggered;
the batch holds one entry per descriptor and its order is arbitrary.  A new socket
gets the lowest free number.  Connections are numbered from 1, so what the Swarm keeps
by connection id is a sequence; `fd_handlers_` is kept by descriptor, since the loop
looks only for the first entry of a descriptor.  A session is reduced to its socket, its peer and its
events, in the orders module `Session` shows it to emit (`EventStory`).

### Streams

`st[p][s]` is side p's end of stream s: the YamuxStream (`rx`, `readClosed`,
`writeClosed`, `reset`) and the ProtocolNegotiatingStream around it (`stage`,
`buffer`, `appRx`, `protocol`, `detail`), with histories of what was written, read
and reported.  `Poll` is `poll()`, a function of the end, called by `PollStream` (the
Swarm) and by `TryRead`, `TryWrite` and `CloseWrite` (the application).  A `poll_once`
is some `Receive` steps, `Drain`, and one `PollStream` per pending stream; the
application of a side acts between them, the other side at any time.  Messages are
whole and frames carry any number of them, so that data arrives together with the
negotiation or apart from it; the byte level is `Framing`.  Windows and
acknowledgements are left to `Yamux`, and writes above 65535 bytes, which
`encode_frame` refuses after `encrypt` has used a nonce, to `Session`: messages here are
smaller than that.  A side may be another implementation, which
opens, sends, ends and hangs up as it likes.  `link` follows the session up, closed
and destroyed; after that the application must not use its handles, and the model
keeps to it, while the Swarm's own polling is checked (`NoDanglingPoll`).  Handlers
are registered before the start, and handlers that open streams from inside
their callback are left out, as are negotiations over a direct stream.

### Noise

The chaining key and the handshake hash are the sequences of what was mixed in, a
Diffie-Hellman secret is the set of its two keys, a ciphertext opens only under its
key, nonce and associated data.  One action per message and for `encrypt` and
`decrypt`; `Damage` alters a part of a message or cuts it short.  A failure ends the
session, as `process_handshake_frame` and `process_pending_input` do with an error.
Identities may be absent, or carry a signature over another key.  UINT64_MAX is
`MaxNonce`, so that the last nonce is reached.

### Framing, PeerIds, RoutingTable

Operators translated from the code, checked over inputs that grow step by step.
`Framing` has bytes of `GroupBits` + 1 bits and lengths of `Width` bits (7 and 64 in the
code; 2 and 3 in the run, which also leaves room for one bit in the last group).
`PeerIds` has the radices as constants (256 and 58; 5 and 3 in the run).

### Timers

`fire_timers` as its walk, by one reading of the clock, and its removal, by one reading
for each timer; both take one step per timer, and the clock is free to advance before
every step.  Callbacks that add or cancel timers are left out: they
change the vector under the walk, which is undefined.

## 3. Runs

| Run | Shows | Bounds |
|---|---|---|
| `yamux_stream` | types; `InOrder`, `EofComplete`, `CreditConserved`; refinement of `StreamPipe` (`ImplementsPipe`); under fairness `WindowRefilled`, `EofReached` | one stream, window 2, 4 bytes each way (two windows, so credit must return), reads and writes of 1 or 2, up to 2 frames in flight each way when a stream is reset, UINT32_MAX as 3 |
| `yamux_ids` | `IdInv`, `AcceptOnce`, `NoProtocolError`, `NoHalfOpen` | one stream opened by each side, closes and resets crossing the SYNs with up to 2 frames in flight, one foreign frame (ping, go-away, SYN of a wrong parity) |
| `session_any` | `EventStory`, `ReadyWithDialedPeer`, `NoncesInStep`, `MuxerAgreement`, `DirectInOrder` | every combination of identities, muxer lists and dial targets (an unreadable peer id among them); two application messages, one open per end, kernel queue of 2 |
| `session_upgrade` | `UpgradeSettles`, `CloseReachesPeer` | compatible configurations, oversized writes, one unreadable message, kernel queue of 1 so that writes block |
| `swarm_any` | `SocketsOwned`, `NoRegisterThrow`, `ClosedReportedOnce`, `PeerRouteLive`, `DialAnsweredOnce` | 3 descriptors, 2 connections, 1 listener, 1 dial, 1 stop and restart, stream resets; 2 peers, symmetric |
| `swarm_dialer` | `ConnectionsDriven`, `DialAnswered`, `PeerCloseReported` | no listener and no stream reset, 2 dials |
| `streams` | `ProtocolAgreed`, `DataAfterNegotiation`, `OutcomeOnce`, `NoDanglingPoll`, `StreamSettles` | one stream, two protocols of which one is supported, two application messages each way; both sides of this implementation, or one of them another one that sends 3 frames; resets, closes and stops |
| `library` | `Timers`: `OneShotOnce` | 2 timers, delays 0 to 2, clock to 4 |
| | `Noise`: `SameChannel`, `PeerAuthentic`, `FailureHasCause`, `NonceOnce` | every combination of identities and extensions, one altered message, transport messages up to the last nonce |
| | `Framing`: `ParsersAgree` (with `RoundTrip`), `SpanStable` | every string of 5 bytes |
| | `PeerIds`: `PeerIdCanonical` (with `Base58Exact`) | every text of 6 symbols, one of them outside of the alphabet |
| | `RoutingTable`: `ClosestAreNearest` | ids of 3 bits, tables of up to 4 peers, every target and number |
| `session_early_data`, `swarm_fd_reuse`, `swarm_peer_route`, `timers_lost` | findings, section 5 | the smallest that show them |

Two of everything is enough to make numbers collide: two connections with three
descriptors let a number be freed and reused inside one batch; two windows of data
need credit to come back; with ids limited to one per side, the theorems of section 4
cover later streams of a side.  All bounds are
in guards of named constants, and none cuts a step in half.

Deadlock checking is off (`CHECK_DEADLOCK FALSE`): the systems are quiescent when the
application has used up its bounded calls, which is not an error.

Liveness assumes:

- `Yamux`: received frames are handled and applications keep reading their streams;
  nobody must write, close or reset.  The event loop reads the socket whenever it is
  readable, and a reader that stops is flow control at work.
- `Session`: the upgrade is begun, handlers run to their end, readable and writable
  sockets are reported and what has arrived is received (`Receive`); nothing is assumed
  of `RecvFails`, which may happen or not.
- `Streams`: `poll_once` is called for ever: pending streams are polled and events
  drained (weak fairness); what has arrived, and the end of the connection, is
  delivered (strong fairness, since a poll of streams in progress puts it off).
  Applications and the other implementation promise nothing.
- `Swarm`: `poll_once` is called for ever, and a `connect()` ends, at the latest by the
  kernel's own timeout.  Nothing is assumed of peers.

`UpgradeSettles` needs compatible configurations (`Compatible`), see section 5.

## 4. Proofs

The theorems hold for every value of the constants, from the named assumptions
about them only: `WindowAssumption` (positive), `MaxU32Assumption` (at least the
window), `BoundsAssumption`, `NoiseAssumption` (bounds are natural numbers),
`StreamsAssumption` (sets of the right kind, bounds natural, and no protocol is
called "none", the model's word for an empty `protocol_`), `SessionAssumption`
(muxer lists are sequences of names, the kernel takes at least one message) and
`SwarmAssumption` (bounds natural, at least one descriptor and one connection, and the
model's word for "no peer" is not a peer).

| Theorem | Shows | By |
|---|---|---|
| `TypeCorrect` (`YamuxIdProofs`) | `TypeOK` | inductive |
| `IdsInvariant` (`YamuxIdProofs`) | `IdInv` | inductive |
| `AcceptedAtMostOnce`, `NoProtocolErrors` | `AcceptOnce`, `NoProtocolError` | from `IdInv` |
| `DataInvariant` (`YamuxDataProofs`) | `DataInv` | inductive, with `IdInv` |
| `BytesInOrder`, `EofNeverEarly`, `StreamsNeverHalfOpen` | `InOrder`, `EofComplete`, `NoHalfOpen` | from `DataInv` |
| `StreamsArePipes` (`YamuxPipeProofs`) | `ImplementsPipe`: Yamux implements `StreamPipe` | step simulation, with `DataInv` |
| `TranscriptInvariant` (`NoiseProofs`) | `NoiseInv` | inductive |
| `ChannelsAgree`, `PeersAreAuthentic`, `FailuresHaveACause`, `NoncesAreFresh` | `SameChannel`, `PeerAuthentic`, `FailureHasCause`, `NonceOnce` | from `NoiseInv` |
| `PollInvariant` (`StreamsProofs`) | `PollInv` | inductive |
| `OutcomesOnce`, `NoDanglingPolls` | `OutcomeOnce`, `NoDanglingPoll` | from `PollInv` |
| `TalkInvariant` (`StreamsTalkProofs`) | `TalkInv` | inductive, with `PollInv` |
| `ProtocolsAgree`, `DataFollowsNegotiation` | `ProtocolAgreed`, `DataAfterNegotiation` | from `TalkInv` |
| `SessionInvariant` (`SessionProofs`) | `SessionInv` | inductive |
| `EventsTellOneStory`, `DialedPeerIsChecked`, `CipherStatesInStep` | `EventStory`, `ReadyWithDialedPeer`, `NoncesInStep` | from `SessionInv` |
| `MuxerInvariant` (`SessionProofs`) | `MuxerInv` | inductive, with `SessionInv` |
| `MuxersAgree` | `MuxerAgreement` | from `MuxerInv` and `Compatible` |
| `DirectInvariant` (`SessionProofs`) | `DirectInv` | inductive, with `SessionInv` and `MuxerInv` |
| `DirectMessagesInOrder` | `DirectInOrder`: from the first message that was not left in the negotiation buffer | from `DirectInv` |
| `SwarmInvariant` (`SwarmProofs`) | `SwarmInv` | inductive |
| `RegisterNeverThrows`, `SocketsAreOwned`, `ClosedIsReportedOnce`, `PeerRoutesLive`, `DialsAnsweredOnce` | `NoRegisterThrow`, `SocketsOwned`, `ClosedReportedOnce`, `PeerRouteLive`, `DialAnsweredOnce` | from `SwarmInv` |
| `DialerDrivesConnections` (`SwarmProofs`) | `ConnectionsDriven`, if `MaxListeners = 0` and `~ResetStreams` | from `DrivenInv`, inductive |

### Stream ids (`IdInv`)

`AcceptOnce` is not inductive: a second SYN of an id that was accepted and then
reset would be accepted again, since `get_or_create_stream` looks only at `streams_`.
It never arrives because of what is on the wire.  `IdInv` says so: next ids keep
their parity; a stream's object is known wherever its entry is (`StreamsHandled`);
known ids have been allocated (`HandlesAllocated`); a SYN in flight carries an
allocated id that the receiver never had and no other SYN in flight carries
(`WiresOk`); accepted ids are known and distinct (`AcceptedOnce`).  As long as
nothing foreign was sent (`foreign = 0`), every SYN has its sender's parity and no
go-away is on the wire, which gives `NoProtocolError`.  The lemmas `WireTail`,
`WireAppend`, `WireSyn` and `WireForeign` are these arguments for one wire; the rest
is one case per action.

### Bytes and credits (`DataInv`)

The frames of a stream on a wire hold exactly the bytes written and not arrived, each
once and in order, and those in the other direction the credits granted and not
arrived (`Carries`).  `Told` says what one end's frames tell the other: a stream the
peer does not know has its SYN ahead of everything, nothing follows a FIN, and what
one end has reset the other has reset or is about to hear.  `InOrder` and
`EofComplete` are conjuncts; `NoHalfOpen` is `Told` for an empty wire.

For the refinement, the pipe of a direction is what is written, taken, closed and
broken at its two ends.  Initial states map to initial states; each action maps to
a write, a read, a close or a break of the pipe it is about and leaves the other
pipes alone.  That a write fits the pipe's capacity is `CreditCarried`: what is
written is at most the window beyond what was taken.

### Handshake (`NoiseInv`)

An end completes only on ciphertexts whose associated data is its own transcript
hash, and only the other end made any: so, whatever was altered on the way, the
session of a completed end is the one determined by the two identities
(`InitiatorShape`, `ResponderShape`).  Before that, the responder's session is
determined by the key and the payload that it took for the first message.
`InFlight` says that what is on the way is what was sent and not taken, the first of
it perhaps altered.  `NonceOnce` follows because a use of a key is marked by the
length of its chaining key, which of its outputs the key is, and the nonce, and
these marks differ along the history of an end.

### Polling (`PollInv`)

A stream polled by the Swarm was reported if its negotiation was over, so a pending
one has read all there is and waits for an incomplete exchange (`Idle`): polling it
again does nothing until a frame arrives.  Frames arrive inside `poll_once` only,
every round of polling that begins is finished before the application runs
(`Rounds`), and whatever takes the session away (`CloseConnection`, `stop()`, a drained
close) happens outside of such a round.  So a pending stream whose session is gone is
idle (`PendingIdle`), which is why the plain pointer is never used; and a stream
leaves `pending` in the step that reports it (`ReportedOnce`).

### Conversation (`TalkInv`)

For each end of a stream: what it has seen (`Seen`: the negotiation buffer and
what is unread, or, once a protocol is settled, what the application has read and can
read) is what the other end has said after its first `Skip` messages, in order; as long
as frames reach it, the frames in flight carry exactly the rest (`Follows`, `Carried`)
and a SYN goes ahead of them (`SynFirst`).  `Heard` adds that a settled protocol is
named by the other end's first messages, and that an acceptor has said something
only after the whole proposal.  `OpenerOk` and `AcceptorOk` say what an end's stage,
protocol and detail mean in terms of what it has said itself.  As long as an
acceptor has not accepted, `Undecided` limits the ways in which the opener can
have failed, which is what makes a refusal the same at both ends.  All of it is
kept per direction (`Half`), so a side may be another implementation, of which only
its messages are known.  A step of one end is shown for the pair of directions of its
stream (`Pair`); `EndTalks`, `TalkReceive` and `TalkOpens` lift it to the state.

### Sessions (`SessionInv`, `MuxerInv`, `DirectInv`)

A method of ConnectionSession is an operator on a session's record, so each method
has a lemma about the record it returns, and each action one that puts these together.

`SessionInv` has two parts.  `SessionOk` is about one end: the events told so far are
a beginning of a story (`Story`); a session that is not closed has told neither an
error nor its end, and nothing at all before it is ready (`Told`); past the handshake
the expected peer was checked, as far as its id can be read.  Closing is the only step that tells `Closed`, and it
asks first.  `NoncesInStep` is about both ends and is inductive together with the types:
queueing an encrypted frame puts the sender's nonce behind all others, decrypting takes
the lowest one, and flushing and receiving move messages along `InTransit` without
changing it.  When either end closes its socket, nothing more is claimed.

`MuxerInv` says what the two configurations alone decide: the one muxer the initiator
can propose, the one answer to it, and what each end selects from the other's
Noise extensions.  What an end has queued, what is in the kernel and what the other end
has received or buffered are such messages (`SaysOk`); so the muxer of a session is
determined at each stage (`MuxerOk`).  `SameSelection` is where compatibility counts:
the first common muxer of one list is the first common muxer of the other, since two
common muxers are in the same order in both.

`DirectInv` is about the application's messages on direct streams.  A receiver decrypts
by nonce, one after the other, so the place of a message among all that were written
is the nonce of its frame, less one for the end's part of the muxer negotiation, if
there was one (`Base`, `Placed`).  `Numbered` says so of every frame on its way,
`Counted` of the next one to be written, `ReceivesOk` of what a stream holds and of
what was read.  Nonces also get lost: an oversized write uses one up, a frame is
damaged or dropped with a socket.  What was written after that is no longer at
its place, but it is behind a `Hole` that the receiver never crosses, so it is never
read.  Unlike `NoncesInStep` this needs no premise on damage, oversized writes or open
sockets.  `FirstOk` counts where the first stream begins: what is decrypted before the session is
ready goes to the buffer of the muxer negotiation, and what is still there when it
is ready is exactly what is missing at the beginning of the stream (`LeftBehind`;
finding `session_early_data`).
A second stream on the same connection (`Renewed`) may begin with a later
message, since unread ones go with the first; `GotOk` keeps the order across them.
Compatibility is used where a frame is taken: both ends must agree that the connection
has direct streams, and on the offset (`BothMatched`).  The session's methods are
classified by what they do to one end (`Calm`, `Sent`, `Spent`, `Took`, `Filled`, `Read`,
`Renewed`, `Shut`, `Becomes`); each class has one lemma that it keeps what `DirectInv` says
of that end and its two directions (`Near`), and `TwoEnds` lifts a step of one end.

### The Swarm's books (`SwarmInv`)

The five properties of `swarm_any` hold between polls, or need to be told about what
happens inside of one; `SwarmInv` says what holds at every point of `poll_once`.  It is a
predicate of the node and of what a method has in hand (`NodeOk(n, orphans, collected)`):
descriptors that `accept()` or a finished `connect()` has just turned into a
connection's socket and that no session owns yet, and the connections that
`drain_connection_events` has collected for removal.  Its parts:

- `DialsOk`: a pending dial has no answer yet, and no two descriptors are of one dial.
  `on_connect_ready` erases the dial before it answers, so its second call for the same
  batch entry finds none, and a number that is reused is of another dial.
- `SocketsOk`: which sockets are listening, dialing or a connection's is exactly what
  the transport and the sessions say, orphans apart, and no two sessions share one.
- `WatchOk`: epoll watches open sockets only, and of the listeners, the pending dials
  and the orphans only those the Swarm has in its books.  This is what `NoRegisterThrow`
  needs: a finished dial's descriptor is still watched when its connection registers it,
  and is in `dialing_fds_`, so `register_connection` unregisters it first; a failed
  dial's number stays in `dialing_fds_` too, but its socket was closed, so it is not
  watched when `accept()` gets it.
- `StoryOk`: a session's `Closed` is the last of its events, queued or already
  reported; a connection whose end was reported is collected, removed or forgotten by
  `stop()`.  `ClosedReportedOnce` says this only of the idle Swarm.
- `RoutesOk`: a peer's entry names a connection whose remote end proved that peer, and
  which names the peer in `connection_peers_`: `remove_connection` goes from the one to
  the other, so it always finds the entry it must erase.  (It may erase the entry of
  another connection to that peer as well: finding `swarm_peer_route`.)

Each method has a lemma about what it changes (`...Step`) or that it keeps these parts
(`...Keeps`), with the orphan or the collected connection it takes in or hands over;
each action has one that puts them together (`...Inv`).

### A Swarm that only dials (`DrivenInv`)

`ConnectionsDriven` is false of a Swarm that accepts (finding `swarm_fd_reuse`) or whose
application resets a direct stream, since both let a number be reused while the books
of its last connection still have it.  Without them it holds, and
`DialerDrivesConnections` proves it for all other constants: a number is taken by
`dial_addr` alone, which is called between polls, and by then every connection that
lost its socket has been removed.  `DrivenInv` adds to `SwarmInv`

- `BooksOk`: `fd_to_conn_` and the connections' descriptors are inverse to each other, and
  the loop's handler list of a descriptor follows from them and from `dialing_fds_`;
- `DrivenOk`: a session that is not closed has its socket, the Swarm has it in its
  books, and epoll watches it;
- `EventsTaken`: outside of the batch a connection has events only until the poll has
  drained it.  Between polls there are none, so a number that is free is in no book
  (`IdleFree`), which is what `dial_addr` relies on.

What a session does to itself is one relation (`Follows`): only that connection changes,
and a socket is lost only by one that closes.

The inductive invariants were checked with TLC before they were proved, on the
instances of the runs: `DataInv` on `yamux_stream`'s (143180 states), `NoiseInv` on the
Noise part of `library` (17944 states), `PollInv` and `TalkInv` on that of `streams`
with 4 foreign frames and two in flight (1119286 states), `SessionInv`, `MuxerInv` and
`DirectInv` on that of `session_any` (1851610 states), `SwarmInv` on that of `swarm_any`
(593685 states), and `DrivenInv` on that of `swarm_dialer` (72178 states).  They are no
properties of a run, since their consequences are.

### Only model-checked

- All liveness: fairness is outside of the prover's reach.
- `CreditConserved`: it sums lengths over a wire with a fold, and sums over sequences
  need induction.  `DataInv` proves its content, that the frames on the wire carry
  exactly the credits that have not arrived (`CreditCarried`).
- `ParsersAgree`, `SpanStable`, `PeerIdCanonical`, `ClosestAreNearest`: about functions
  computed by recursion or folds over data (the parsers, base58, the sort by distance),
  which need induction.
- `OneShotOnce`: `cancel_timer` filters a vector, and what a filter keeps needs induction
  as well.

## 5. Findings and observations

Checked as runs that TLC must refute:

- `session_early_data`: what arrives with the answer of the muxer negotiation is decrypted
  into the negotiation's buffer and stays there (`SentArrives`).  The responder answers
  the proposal, is ready and sends at once; the initiator finds the answer and what
  follows it in one read.  When yamux was taken, the responder's SYN is lost and its
  stream is never accepted; when the proposal and answer did not end with yamux, it is
  the first message of the direct stream, and what the initiator's application reads
  first is the next one.  Either half of `SentArrives` is refuted alone, and both hold
  where the ends exchange no proposal (no muxer, or yamux through the Noise extensions).
- `timers_lost`: a one-shot timer that becomes due between the walk of `fire_timers`
  and its removal is removed without having run.
- `swarm_fd_reuse`: a session that closes in a batch frees its number; `accept()`
  takes it in the same batch; `remove_connection` of the old connection then
  unregisters the new one, which nobody drives any more.
- `swarm_peer_route`: with two connections to a peer, the closing of one erases the
  route of the other.

Seen while modelling, and the reason for a premise of a property or a constant of
a run:

- A direct stream's `reset()` closes the socket behind the session's back: the session
  stays `Ready` and no `Closed` event follows.  `fd_to_conn_` keeps the number, too: a
  later dial that
  gets the number is skipped by `sync_transport_fds` and never answered (`DialAnswered`
  is checked with `ResetStreams = FALSE`).
- `encrypt` uses up a nonce before `encode_frame` refuses a message above 65535 bytes;
  every later frame then fails at the peer (`NoncesInStep` has the premise
  `~HugeWrites`).
- Each end takes the muxer by its own preference: with two lists in different
  orders, or with muxers or an identity on one side only, an upgrade may never end,
  and `on_timeout` is never called (`Compatible`).  For the same reason an upgrade whose
  peer stays silent never ends; `UpgradeSettles` is about two ends that go on.
- `close_write` of a direct stream shuts the socket down for writing, and the peer's
  session takes end of file as the end of the connection: only yamux streams can be
  half-closed.  End of file that is read together with the last data also
  discards that data.
- `remove_connection` erases the pending streams of a connection without a
  `ProtocolError`, and `stop()` keeps them: their streams are reported by
  `ConnectionClosed`, or not at all.  A failed negotiation leaves its yamux stream open.
- A negotiation with another implementation can stay pending for ever: nothing times
  it out, and its buffer is not bounded (`StreamSettles` is about two ends of this
  implementation).
- `encode_base58` of no bytes is "1", which decodes to one zero byte; no caller passes
  an empty sequence.  `leading_zeros` returns 255 for equal ids and for ids that differ
  in the last bit only; it has no caller.
- A repeating timer that runs late is rescheduled from now, while
  `doc/runtime/event_loop.md` says that its deadline advances by one interval.

## 6. Not modelled, and the plan

Left out for good: cryptography itself and protobuf encoding (Noise is symbolic),
multiaddr splitting, log output, socket options and address conversion, the kqueue
branch (same structure as epoll), the service stubs, `PeerStore` (a list that
`dial_peer` takes the first address of), `Node` and `Controller` (wrappers; a
controller's actions are the calls between polls).  Stream ids at the end of their
32 bits, and callbacks that change the loop's or the Swarm's tables under an
iteration, are outside of the models.

Next:

A liveness property for a listener whose `accept()` failed for want of
descriptors; negotiations over a direct stream.
