------------------------------- MODULE Swarm -------------------------------
(***************************************************************************)
(* One Swarm (swarm.cpp) with its TcpTransport (tcp_transport.cpp), its    *)
(* EventLoop on epoll (event_loop.cpp) and the kernel's table of file      *)
(* descriptors, which gives a new socket the lowest free number.           *)
(*                                                                         *)
(* node is everything the process owns, and a method is an operator from   *)
(* node to the new node, or to the set of new nodes where the network      *)
(* decides.  poll_once is split at the points where the network may move:  *)
(* sync and epoll_wait; one step per event of the batch, and one per       *)
(* accept(); sync again; one step per drained event; one per removed       *)
(* connection.  The application and the controller call in between polls.  *)
(* Connections are numbered from 1, so what the Swarm keeps by connection  *)
(* id is a sequence; an entry that was erased is NoSession, 0 or NoPeer.   *)
(*                                                                         *)
(* A ConnectionSession is reduced to what the Swarm sees of it: whether    *)
(* its socket is open, its peer, and its events, in the orders that module *)
(* Session allows.  Streams and their negotiation are not here.            *)
(***************************************************************************)
EXTENDS Naturals, Sequences, FiniteSets, SequencesExt

CONSTANTS
    Peers,         \* identities a remote end can prove
    NoPeer,        \* the absence of one: the remote end sent no identity
    MaxFd,         \* bound: size of the descriptor table
    MaxConn,       \* bound: connections over the life of the Swarm
    MaxDials,      \* bound: dials
    MaxListeners,  \* bound: listening sockets
    MaxStops,      \* bound: calls of stop()
    MaxInputs,     \* bound: arrivals of data on established connections
    ResetStreams   \* TRUE: the application may reset a direct stream

ASSUME SwarmAssumption ==
    /\ NoPeer \notin Peers
    /\ MaxFd \in Nat \ {0} /\ MaxConn \in Nat \ {0}
    /\ MaxDials \in Nat /\ MaxListeners \in Nat /\ MaxStops \in Nat
    /\ MaxInputs \in Nat
    /\ ResetStreams \in BOOLEAN

Fd     == 1..MaxFd
Dial   == 1..MaxDials

VARIABLES
    node,    \* the process: Swarm, TcpTransport, EventLoop, its kernel state
    pc,      \* where poll_once is: "idle" means outside of it
    batch,   \* batch[fd]: what epoll_wait returned and is not dispatched yet
    todo,    \* connections drain_connection_events has still to visit
    closed,  \* closed_connections
    inputs   \* arrivals of data so far

vars == <<node, pc, batch, todo, closed, inputs>>

----------------------------------------------------------------------------
(* The process at the start.                                               *)

\* waiting: connections to accept, input to read, or a finished connect();
\* gone: the peer closed, or refused the connect().
Free      == [kind |-> "free", waiting |-> 0, gone |-> FALSE]
NoSession == [state |-> "Absent", fd |-> 0, open |-> FALSE, peer |-> NoPeer,
              events |-> <<>>]

Start ==
    [sock |-> [f \in Fd |-> Free],              \* kernel
     watched |-> {}, edges |-> [f \in Fd |-> {}],
     fd_handlers |-> [f \in Fd |-> <<>>],       \* EventLoop, by descriptor
     threw |-> FALSE,
     listeners |-> {},                          \* TcpTransport
     pending_dials |-> [f \in Fd |-> 0],
     listener_fds |-> {}, dialing_fds |-> {},   \* Swarm
     connections |-> <<>>, conn_fds |-> <<>>, fd_to_conn |-> [f \in Fd |-> 0],
     peer_connections |-> [p \in Peers |-> 0], connection_peers |-> <<>>,
     story |-> <<>>,                            \* event_queue_, by connection
     outcomes |-> [d \in Dial |-> <<>>],        \* event_queue_, by dial
     dialed |-> 0, stops |-> 0]

ConnIds(n)      == DOMAIN n.connections
next_conn_id(n) == Len(n.connections) + 1

Init ==
    /\ node = Start
    /\ pc = "idle"
    /\ batch = [f \in {} |-> {}]
    /\ todo = {} /\ closed = <<>> /\ inputs = 0

----------------------------------------------------------------------------
(* The kernel: descriptors and edge-triggered epoll.                       *)

FreeFds(n)    == {f \in Fd : n.sock[f].kind = "free"}
LowestFree(n) == CHOOSE f \in FreeFds(n) : \A g \in FreeFds(n) : f <= g

OpenSocket(n, f, kind) == [n EXCEPT !.sock[f] = [Free EXCEPT !.kind = kind]]

\* The last close of a socket also takes it out of the epoll set.
CloseFd(n, f) == [n EXCEPT !.sock[f] = Free, !.watched = @ \ {f}, !.edges[f] = {}]

\* What EPOLL_CTL_ADD finds true already.
Level(s) ==
    CASE s.kind = "listener" -> IF s.waiting > 0 THEN {"in"} ELSE {}
      [] s.kind = "dial"     -> IF s.waiting = 0 THEN {}
                                ELSE IF s.gone THEN {"in", "out", "err"} ELSE {"out"}
      [] s.kind = "conn"     -> {"out"} \cup
                                (IF s.waiting > 0 \/ s.gone THEN {"in"} ELSE {})
      [] OTHER               -> {}

Raise(n, f, edges) ==
    IF f \in n.watched THEN [n EXCEPT !.edges[f] = @ \cup edges] ELSE n

----------------------------------------------------------------------------
(* EventLoop.                                                              *)

\* register_fd for each of fds.  epoll_ctl refuses a descriptor it watches
\* already, and register_fd throws.
RegisterFds(n, fds, handler) ==
    LET new == fds \ n.watched IN
    [n EXCEPT !.threw = @ \/ new # fds, !.watched = @ \cup new,
              !.edges = [f \in Fd |-> IF f \in new THEN Level(n.sock[f]) ELSE @[f]],
              !.fd_handlers = [f \in Fd |-> IF f \in new THEN Append(@[f], handler)
                                            ELSE @[f]]]

UnregisterFds(n, fds) ==
    [n EXCEPT !.watched = @ \ fds,
              !.edges = [f \in Fd |-> IF f \in fds THEN {} ELSE @[f]],
              !.fd_handlers = [f \in Fd |-> IF f \in fds THEN <<>> ELSE @[f]]]

\* The first handler of a descriptor gets its events.
HandlerOf(n, f) ==
    IF n.fd_handlers[f] = <<>> THEN "none" ELSE Head(n.fd_handlers[f])

----------------------------------------------------------------------------
(* ConnectionSession, as the Swarm sees it.                                *)

IsActive(s) == s.open /\ s.state # "Closed"

EmitEvents(n, c, evs) == [n EXCEPT !.connections[c].events = @ \o evs]

CloseSession(n, c) ==
    LET s == n.connections[c] IN
    IF s.state = "Closed" THEN n
    ELSE EmitEvents([(IF s.open THEN CloseFd(n, s.fd) ELSE n)
                        EXCEPT !.connections[c] = [s EXCEPT !.state = "Closed",
                                                            !.open = FALSE]],
                    c, <<"Closed">>)

FailSession(n, c) == CloseSession(EmitEvents(n, c, <<"Error">>), c)

CompleteReadyState(n, c, p) ==
    EmitEvents([n EXCEPT !.connections[c] = [@ EXCEPT !.state = "Ready", !.peer = p]],
               c, <<"Secured", "MultiplexerReady">>)

OnSocketReadable(n, c) ==
    LET s == n.connections[c]
        m == [n EXCEPT !.sock[s.fd].waiting = 0]
    IN IF ~IsActive(s) THEN {n}
       ELSE IF n.sock[s.fd].gone THEN {CloseSession(n, c)}
       ELSE IF n.sock[s.fd].waiting = 0 THEN {n}
       ELSE {m, FailSession(m, c)} \cup
            (IF s.state # "Securing" THEN {}
             ELSE LET up == {CompleteReadyState(m, c, p) : p \in Peers \cup {NoPeer}}
                  IN up \cup {FailSession(u, c) : u \in up})

OnSocketWritable(n, c) ==
    LET s == n.connections[c] IN
    IF IsActive(s) /\ n.sock[s.fd].gone THEN {n, FailSession(n, c)} ELSE {n}

----------------------------------------------------------------------------
(* Swarm: the events of a connection and its removal.                      *)

Tell(n, c, ev) == [n EXCEPT !.story[c] = Append(@, ev)]

HandleConnectionEvent(n, c, ev) ==
    CASE ev = "Secured" ->
            LET p == n.connections[c].peer IN
            IF p = NoPeer THEN n
            ELSE Tell([n EXCEPT !.peer_connections[p] = c, !.connection_peers[c] = p],
                      c, "PeerIdentified")
      [] ev = "MultiplexerReady" -> Tell(n, c, "ConnectionEstablished")
      [] ev = "Error"            -> Tell(n, c, "ProtocolError")
      [] ev = "Closed"           -> Tell(n, c, "ConnectionClosed")

\* One turn of drain_connection_events_for's loop.
NextEvent(n, c) == Head(n.connections[c].events)

DrainEvent(n, c) ==
    HandleConnectionEvent([n EXCEPT !.connections[c].events = Tail(@)],
                          c, NextEvent(n, c))

FaultyRemoveKeepsPeer(n, c) ==
    LET f == n.conn_fds[c]
        a == IF f = 0 THEN n
             ELSE [UnregisterFds(n, {f}) EXCEPT !.fd_to_conn[f] = 0, !.conn_fds[c] = 0]
    IN [a EXCEPT !.connections[c] = NoSession]
FaultyRemoveKeepsFd(n, c) ==
    LET p == n.connection_peers[c]
        a == IF p = NoPeer THEN n
             ELSE [n EXCEPT !.peer_connections[p] = 0, !.connection_peers[c] = NoPeer]
    IN [a EXCEPT !.connections[c] = NoSession]
RemoveConnection(n, c) ==
    LET p == n.connection_peers[c]
        a == IF p = NoPeer THEN n
             ELSE [n EXCEPT !.peer_connections[p] = 0, !.connection_peers[c] = NoPeer]
        f == n.conn_fds[c]
        b == IF f = 0 THEN a
             ELSE [UnregisterFds(a, {f}) EXCEPT !.fd_to_conn[f] = 0, !.conn_fds[c] = 0]
    IN [b EXCEPT !.connections[c] = NoSession]

FaultyRegisterConnection(n, c, f) ==
    RegisterFds([n EXCEPT !.conn_fds[c] = f, !.fd_to_conn[f] = c], {f}, "conn")
RegisterConnection(n, c, f) ==
    LET a == IF f \in n.dialing_fds
             THEN [UnregisterFds(n, {f}) EXCEPT !.dialing_fds = @ \ {f}] ELSE n
    IN RegisterFds([a EXCEPT !.conn_fds[c] = f, !.fd_to_conn[f] = c], {f}, "conn")

\* The end of on_connected: begin the upgrade, report its failure, drain and
\* remove.  A session that fails here has one event, Closed.
BeginUpgrade(n, c, fails) ==
    IF ~fails THEN n
    ELSE LET a == CloseSession(Tell(n, c, "ProtocolError"), c)
             b == DrainEvent(a, c)
         IN IF NextEvent(a, c) = "Closed" THEN RemoveConnection(b, c) ELSE b

NewSession(f) == [NoSession EXCEPT !.state = "Securing", !.fd = f, !.open = TRUE]

NewConnection(n, f) ==
    RegisterConnection(
        [n EXCEPT !.connections = Append(@, NewSession(f)), !.conn_fds = Append(@, 0),
                  !.connection_peers = Append(@, NoPeer), !.story = Append(@, <<>>)],
        next_conn_id(n), f)

OnAccepted(n, f) == Tell(NewConnection(n, f), next_conn_id(n), "IncomingConnection")

OnConnected(n, f, fails) == BeginUpgrade(NewConnection(n, f), next_conn_id(n), fails)

----------------------------------------------------------------------------
(* Swarm: following the transport's descriptors.                           *)

Dials(n) == {f \in Fd : n.pending_dials[f] # 0}

SyncTransportFds(n) ==
    LET a == [RegisterFds(n, n.listeners \ n.listener_fds, "accept")
                 EXCEPT !.listener_fds = n.listeners]
        b == UnregisterFds(a, n.listener_fds \ n.listeners)
        new == {f \in Dials(n) \ n.dialing_fds : n.fd_to_conn[f] = 0}
        d == RegisterFds(b, new, "connect")
    IN [UnregisterFds(d, n.dialing_fds \ Dials(n))
           EXCEPT !.dialing_fds = (n.dialing_fds \cap Dials(n)) \cup new]

----------------------------------------------------------------------------
(* Calls between polls.                                                    *)

Idle == pc = "idle"

Call(n) == node' = n /\ UNCHANGED <<pc, batch, todo, closed, inputs>>

\* Connections made, waiting to be accepted or being dialed: the bound
\* MaxConn is on the sum, so that the Swarm never runs out of model ids.
Promised ==
    LET waiting == FoldLeft(LAMBDA a, f : a + node.sock[f].waiting, 0,
                            SetToSeq(node.listeners))
    IN Len(node.connections) + waiting + Cardinality(Dials(node))

ListenOn ==
    /\ Idle /\ FreeFds(node) # {} /\ Cardinality(node.listeners) < MaxListeners
    /\ LET f == LowestFree(node)
       IN Call(SyncTransportFds(OpenSocket([node EXCEPT !.listeners = @ \cup {f}],
                                           f, "listener")))

Settle(n, d, how) == [n EXCEPT !.outcomes[d] = Append(@, how)]

\* dial_addr: connect() is in progress, succeeds at once, or fails at once.
DialAddr ==
    /\ Idle /\ FreeFds(node) # {} /\ node.dialed < MaxDials /\ Promised < MaxConn
    /\ LET d == node.dialed + 1
           f == LowestFree(node)
           n == [node EXCEPT !.dialed = d]
       IN \/ Call(SyncTransportFds(OpenSocket([n EXCEPT !.pending_dials[f] = d],
                                              f, "dial")))
          \/ \E fails \in BOOLEAN :
                Call(SyncTransportFds(
                        OnConnected(Settle(OpenSocket(n, f, "conn"), d, "connected"),
                                    f, fails)))
          \/ Call(SyncTransportFds(Settle(n, d, "failed")))

\* apply_action(CloseConnection): close, then drain every connection.
Present(n) == {c \in ConnIds(n) : n.connections[c].state # "Absent"}

CloseConnection(c) ==
    /\ Idle /\ c \in Present(node)
    /\ node' = CloseSession(node, c)
    /\ pc' = "drain" /\ todo' = Present(node)
    /\ UNCHANGED <<batch, closed, inputs>>

\* DirectMuxedStream::reset closes the socket and tells the session nothing.
StreamReset(c) ==
    /\ Idle /\ ResetStreams
    /\ node.connections[c].state = "Ready" /\ node.connections[c].open
    /\ Call([CloseFd(node, node.connections[c].fd)
                EXCEPT !.connections[c].open = FALSE])

\* stop(): everything is closed and forgotten, the EventLoop with it; the
\* event queue is kept.
Stop ==
    /\ Idle /\ node.stops < MaxStops
    /\ LET hungUp == {node.connections[c].fd : c \in
                         {c \in Present(node) : IsActive(node.connections[c])}}
           gone == hungUp \cup node.listeners \cup Dials(node)
       IN Call([Start EXCEPT
                  !.sock = [f \in Fd |-> IF f \in gone THEN Free ELSE node.sock[f]],
                  !.connections = [c \in ConnIds(node) |-> NoSession],
                  !.conn_fds = [c \in ConnIds(node) |-> 0],
                  !.connection_peers = [c \in ConnIds(node) |-> NoPeer],
                  !.story = node.story, !.outcomes = node.outcomes,
                  !.dialed = node.dialed, !.stops = node.stops + 1])

----------------------------------------------------------------------------
(* poll_once.                                                              *)

\* sync_transport_fds and epoll_wait, which takes every edge there is.
PollBegin ==
    /\ Idle
    /\ LET n == SyncTransportFds(node)
           fired == {f \in n.watched : n.edges[f] # {}}
       IN /\ node' = [n EXCEPT !.edges = [f \in Fd |-> {}]]
          /\ batch' = [f \in fired |-> n.edges[f]]
    /\ pc' = "dispatch"
    /\ UNCHANGED <<todo, closed, inputs>>

Undispatched(f) == [g \in DOMAIN batch \ {f} |-> batch[g]]

\* A connection's handler: Readable, Writable and Error in this order.  The
\* descriptor is looked up in fd_to_conn_ when the event is dispatched.
OnConnectionEvents(n, f, evs) ==
    LET c == n.fd_to_conn[f]
        read    == IF "in" \in evs THEN OnSocketReadable(n, c) ELSE {n}
        written == IF "out" \in evs THEN UNION {OnSocketWritable(m, c) : m \in read}
                   ELSE read
    IN IF c = 0 \/ n.connections[c].state = "Absent" THEN {n}
       ELSE IF "err" \in evs THEN {CloseSession(m, c) : m \in written}
       ELSE written

\* The dial is taken off pending_dials_ first; its descriptor stays in
\* dialing_fds_ and in the handler list until the next sync.
FaultyOnConnectReady(n, f, fails) ==
    LET d == n.pending_dials[f]
        m == [n EXCEPT !.pending_dials[f] = 0]
    IN IF d = 0 THEN n
       ELSE IF n.sock[f].gone THEN Settle(m, d, "failed")
       ELSE OnConnected(Settle(OpenSocket(m, f, "conn"), d, "connected"), f, fails)
FaultyOnConnectReadyTwice(n, f, fails) ==
    LET d == n.pending_dials[f]
    IN IF d = 0 THEN n
       ELSE IF n.sock[f].gone THEN Settle(n, d, "failed")
       ELSE OnConnected(Settle(OpenSocket(n, f, "conn"), d, "connected"), f, fails)
OnConnectReady(n, f, fails) ==
    LET d == n.pending_dials[f]
        m == [n EXCEPT !.pending_dials[f] = 0]
    IN IF d = 0 THEN n
       ELSE IF n.sock[f].gone THEN CloseFd(Settle(m, d, "failed"), f)
       ELSE OnConnected(Settle(OpenSocket(m, f, "conn"), d, "connected"), f, fails)

\* on_accept_ready is in its loop: the thread is with this descriptor.
MayDispatch(f) ==
    /\ pc = "dispatch" /\ f \in DOMAIN batch
    /\ \A g \in DOMAIN batch \ {f} : "accepting" \notin batch[g]

\* No handler is removed while its entry waits in the batch: inside of the
\* batch only a finished dial's is, after its own entry was dispatched.
DispatchConnection(f) ==
    /\ MayDispatch(f) /\ HandlerOf(node, f) = "conn"
    /\ node' \in OnConnectionEvents(node, f, batch[f])
    /\ batch' = Undispatched(f)
    /\ UNCHANGED <<pc, todo, closed, inputs>>

\* Writable and Error both call on_connect_ready.
DispatchConnect(f) ==
    /\ MayDispatch(f)
    /\ HandlerOf(node, f) = "connect"
    /\ \E fails \in BOOLEAN :
          LET n == OnConnectReady(node, f, fails) IN
          node' = IF {"out", "err"} \subseteq batch[f] THEN OnConnectReady(n, f, fails)
                  ELSE n
    /\ batch' = Undispatched(f)
    /\ UNCHANGED <<pc, todo, closed, inputs>>

\* on_accept_ready accepts until accept() fails: nothing is waiting, or the
\* descriptor table is full.  An accepted socket that cannot be set up is
\* closed at once.
DispatchAccept(f) ==
    /\ MayDispatch(f) /\ HandlerOf(node, f) = "accept"
    /\ IF node.sock[f].waiting > 0 /\ FreeFds(node) # {}
       THEN LET g     == LowestFree(node)
                taken == [node EXCEPT !.sock[f].waiting = @ - 1]
            IN
            /\ node' \in {taken, OnAccepted(OpenSocket(taken, g, "conn"), g)}
            /\ batch' = [batch EXCEPT ![f] = {"accepting"}]
       ELSE batch' = Undispatched(f) /\ UNCHANGED node
    /\ UNCHANGED <<pc, todo, closed, inputs>>

\* The batch is done: sync, then drain_connection_events.
DispatchDone ==
    /\ pc = "dispatch" /\ DOMAIN batch = {}
    /\ node' = SyncTransportFds(node)
    /\ pc' = "drain" /\ todo' = Present(node)
    /\ UNCHANGED <<batch, closed, inputs>>

FaultyDrain(c) ==
    /\ pc = "drain" /\ c \in todo
    /\ IF node.connections[c].events = <<>>
       THEN todo' = todo \ {c} /\ UNCHANGED <<node, closed>>
       ELSE /\ node' = DrainEvent(node, c)
            /\ closed' = IF /\ NextEvent(node, c) = "Closed"
                            /\ node.connection_peers[c] # NoPeer
                         THEN Append(closed, c) ELSE closed
            /\ UNCHANGED todo
    /\ UNCHANGED <<pc, batch, inputs>>
Drain(c) ==
    /\ pc = "drain" /\ c \in todo
    /\ IF node.connections[c].events = <<>>
       THEN todo' = todo \ {c} /\ UNCHANGED <<node, closed>>
       ELSE /\ node' = DrainEvent(node, c)
            /\ closed' = IF NextEvent(node, c) = "Closed" THEN Append(closed, c)
                         ELSE closed
            /\ UNCHANGED todo
    /\ UNCHANGED <<pc, batch, inputs>>

RemoveClosed ==
    /\ pc = "drain" /\ todo = {}
    /\ IF closed = <<>> THEN pc' = "idle" /\ UNCHANGED <<node, closed>>
       ELSE /\ node' = RemoveConnection(node, Head(closed))
            /\ closed' = Tail(closed)
            /\ UNCHANGED pc
    /\ UNCHANGED <<batch, todo, inputs>>

----------------------------------------------------------------------------
(* The network.                                                            *)

Network(n) == node' = n /\ UNCHANGED <<pc, batch, todo, closed>>

PeerConnects(f) ==
    /\ node.sock[f].kind = "listener" /\ Promised < MaxConn
    /\ Network(Raise([node EXCEPT !.sock[f].waiting = @ + 1], f, {"in"}))
    /\ UNCHANGED inputs

ConnectEnds(f, refused) ==
    /\ node.sock[f].kind = "dial" /\ node.sock[f].waiting = 0
    /\ LET s == [node.sock[f] EXCEPT !.waiting = 1, !.gone = refused]
       IN Network(Raise([node EXCEPT !.sock[f] = s], f, Level(s)))
    /\ UNCHANGED inputs

PeerSends(f) ==
    /\ node.sock[f].kind = "conn" /\ ~node.sock[f].gone /\ inputs < MaxInputs
    /\ Network(Raise([node EXCEPT !.sock[f].waiting = 1], f, {"in"}))
    /\ inputs' = inputs + 1

PeerCloses(f, aborts) ==
    /\ node.sock[f].kind = "conn" /\ ~node.sock[f].gone
    /\ Network(Raise([node EXCEPT !.sock[f].gone = TRUE], f,
                     IF aborts THEN {"in", "out", "err"} ELSE {"in"}))
    /\ UNCHANGED inputs

----------------------------------------------------------------------------

PollOnce ==
    \/ PollBegin
    \/ \E f \in Fd : DispatchConnection(f) \/ DispatchConnect(f) \/ DispatchAccept(f)
    \/ DispatchDone
    \/ \E c \in todo : Drain(c)
    \/ RemoveClosed

Owner ==
    \/ ListenOn \/ DialAddr \/ Stop
    \/ \E c \in Present(node) : CloseConnection(c) \/ StreamReset(c)

Kernel ==
    \E f \in Fd :
       \/ PeerConnects(f) \/ PeerSends(f)
       \/ \E b \in BOOLEAN : ConnectEnds(f, b) \/ PeerCloses(f, b)

Next == PollOnce \/ Owner \/ Kernel

Spec == Init /\ [][Next]_vars

\* The application polls for ever, and a connect() ends at the latest when
\* the kernel gives up on it.
Fairness ==
    /\ WF_vars(PollOnce)
    /\ \A f \in Fd : WF_vars(\E b \in BOOLEAN : ConnectEnds(f, b))

FairSpec == Spec /\ Fairness

----------------------------------------------------------------------------
(* Properties.                                                             *)

\* Between polls every open socket has one owner: a listener, a pending dial
\* or the session of a connection.  No path of the transport's callbacks, of
\* remove_connection or of stop() leaks a descriptor or shares one.
SocketsOwned ==
    Idle => \A f \in Fd :
       LET owners == {<<"session", c>> : c \in {c \in Present(node) :
                            node.connections[c].open /\ node.connections[c].fd = f}}
                     \cup {<<"listener", l>> : l \in node.listeners \cap {f}}
                     \cup {<<"dial", d>> : d \in {node.pending_dials[f]} \ {0}}
       IN Cardinality(owners) = IF node.sock[f].kind = "free" THEN 0 ELSE 1

\* register_fd never meets a descriptor that epoll watches already, the case
\* in which it throws out of poll_once: a failed dial's descriptor may stay in
\* dialing_fds_ and in the handler list while accept() reuses its number.
NoRegisterThrow == ~node.threw

\* A connection is reported closed once, as the last of its events, and is
\* gone from the Swarm exactly from then on (or since stop()).
ClosedReportedOnce ==
    Idle => \A c \in ConnIds(node) :
       LET closes == {i \in DOMAIN node.story[c] : node.story[c][i] = "ConnectionClosed"}
       IN /\ closes \subseteq {Len(node.story[c])}
          /\ closes # {} => c \notin Present(node)
          /\ (c \notin Present(node) /\ node.stops = 0) => closes # {}

\* open_stream(peer) finds a connection to that peer, or none: a peer's entry
\* never outlives its connection and never names another peer's.
PeerRouteLive ==
    Idle => \A p \in Peers : node.peer_connections[p] # 0 =>
       LET c == node.peer_connections[p]
       IN c \in Present(node) /\ node.connections[c].peer = p

\* A dial is answered at most once.
DialAnsweredOnce == \A d \in Dial : Len(node.outcomes[d]) <= 1

\* "poll_once(): drives the state machines of all connections": between polls
\* every open socket of a session is watched, and its events reach the session.
ConnectionsDriven ==
    Idle => \A c \in Present(node) : node.connections[c].open =>
       LET f == node.connections[c].fd
       IN f \in node.watched /\ HandlerOf(node, f) = "conn" /\ node.fd_to_conn[f] = c

\* "open_stream(): opens a stream to a connected peer": between polls a peer
\* with a ready connection has an entry in peer_connections_.
PeerReachable ==
    Idle => \A c \in Present(node) :
       (node.connections[c].state = "Ready" /\ node.connections[c].open
        /\ node.connections[c].peer # NoPeer)
          => node.peer_connections[node.connections[c].peer] # 0

\* A dial is answered, by a connection or by DialFailed, unless the Swarm is
\* stopped first.
DialAnswered ==
    \A d \in Dial : node.dialed >= d ~> (node.outcomes[d] # <<>> \/ node.stops > 0)

\* A connection whose peer has closed is reported closed.
PeerCloseReported ==
    \A c \in 1..MaxConn :
       (c \in Present(node) /\ node.connections[c].open
          /\ node.sock[node.connections[c].fd].gone)
       ~> c \notin Present(node)

=============================================================================
