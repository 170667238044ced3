------------------------------ MODULE SwarmInv ------------------------------
(***************************************************************************)
(* The inductive invariant of Swarm.  Its parts are predicates of a node n *)
(* and of what a method has in hand in the middle of its work:             *)
(*   orphans   descriptors that accept() or a finished dial just turned    *)
(*             into a connection's socket and that no session owns yet;    *)
(*   collected the connections drain_connection_events has to remove.      *)
(***************************************************************************)
EXTENDS Swarm

Event   == {"Secured", "MultiplexerReady", "Error", "Closed"}
Report  == {"IncomingConnection", "PeerIdentified", "ConnectionEstablished",
            "ProtocolError", "ConnectionClosed"}
Edge    == {"in", "out", "err"}
PeerOpt == Peers \cup {NoPeer}

SockRec == [kind : {"free", "listener", "dial", "conn"}, waiting : Nat, gone : BOOLEAN]

SessionRec == [state : {"Absent", "Securing", "Ready", "Closed"}, fd : 0..MaxFd,
               open : BOOLEAN, peer : PeerOpt, events : Seq(Event)]

NodeRec == [sock : [Fd -> SockRec], watched : SUBSET Fd, edges : [Fd -> SUBSET Edge],
            fd_handlers : [Fd -> Seq({"accept", "connect", "conn"})], threw : BOOLEAN,
            listeners : SUBSET Fd, pending_dials : [Fd -> Nat],
            listener_fds : SUBSET Fd, dialing_fds : SUBSET Fd,
            connections : Seq(SessionRec), conn_fds : Seq(0..MaxFd),
            fd_to_conn : [Fd -> Nat], peer_connections : [Peers -> Nat],
            connection_peers : Seq(PeerOpt), story : Seq(Seq(Report)),
            outcomes : [Dial -> Seq({"connected", "failed"})],
            dialed : Nat, stops : Nat]

\* The Swarm's books name only connections and dials there have been.
Typed(n) ==
    /\ n \in NodeRec
    /\ Len(n.conn_fds) = Len(n.connections)
    /\ Len(n.connection_peers) = Len(n.connections)
    /\ Len(n.story) = Len(n.connections)
    /\ \A f \in Fd : n.fd_to_conn[f] \in 0..Len(n.connections)
    /\ \A p \in Peers : n.peer_connections[p] \in 0..Len(n.connections)
    /\ n.dialed <= MaxDials

\* A pending dial has no answer yet, and no two descriptors are of one dial.
DialsOk(n) ==
    /\ \A f \in Fd : n.pending_dials[f] # 0 =>
          n.pending_dials[f] <= n.dialed /\ n.outcomes[n.pending_dials[f]] = <<>>
    /\ \A f, g \in Fd : (n.pending_dials[f] # 0 /\ n.pending_dials[f] = n.pending_dials[g])
                           => f = g
    /\ \A d \in Dial : d > n.dialed => n.outcomes[d] = <<>>
    /\ \A d \in Dial : Len(n.outcomes[d]) <= 1

\* What a socket is, and who owns it.
Owns(n, c, f) == n.connections[c].open /\ n.connections[c].fd = f

SocketsOk(n, orphans) ==
    /\ \A f \in Fd : (n.sock[f].kind = "listener") <=> (f \in n.listeners)
    /\ \A f \in Fd : (n.sock[f].kind = "dial") <=> (n.pending_dials[f] # 0)
    /\ \A f \in Fd : (n.sock[f].kind = "conn")
                        <=> (f \in orphans \/ \E c \in ConnIds(n) : Owns(n, c, f))
    /\ \A c \in ConnIds(n) : n.connections[c].open =>
          /\ n.connections[c].state \in {"Securing", "Ready"}
          /\ n.connections[c].fd \in Fd \ orphans
    /\ \A c, e \in ConnIds(n) :
          (n.connections[c].open /\ Owns(n, e, n.connections[c].fd)) => c = e

\* epoll watches no closed socket, and the Swarm knows which of its listeners
\* and dials are watched.
WatchOk(n, orphans) ==
    /\ ~n.threw
    /\ \A f \in n.watched :
          /\ n.sock[f].kind # "free"
          /\ f \in n.listeners => f \in n.listener_fds
          /\ (f \in orphans \/ n.pending_dials[f] # 0) => f \in n.dialing_fds

\* A session's Closed is the last of its events, whether it is still queued
\* or already reported; what was reported is collected, removed or forgotten.
Ends(s, x) == Len(s) > 0 /\ s[Len(s)] = x

StoryOk(n, collected) ==
    \A c \in ConnIds(n) :
       LET s == n.connections[c] IN
       /\ s.state = "Absent" => s = NoSession
       /\ \A i \in DOMAIN s.events :
             /\ s.events[i] = "Closed" => i = Len(s.events) /\ s.state = "Closed"
             /\ s.events[i] = "Secured" => s.state # "Securing"
       /\ \A i \in DOMAIN n.story[c] : n.story[c][i] = "ConnectionClosed" =>
             /\ i = Len(n.story[c]) /\ s.events = <<>>
             /\ s.state = "Absent" \/ (s.state = "Closed" /\ c \in collected)
       /\ s.state = "Closed" =>
             Ends(s.events, "Closed") \/ Ends(n.story[c], "ConnectionClosed")
       /\ (s.state = "Absent" /\ n.stops = 0) => Ends(n.story[c], "ConnectionClosed")
       /\ c \in collected => Ends(n.story[c], "ConnectionClosed")

\* A peer's entry names a connection of that peer, which names the peer.
RoutesOk(n) ==
    \A p \in Peers : n.peer_connections[p] # 0 =>
       LET c == n.peer_connections[p] IN
       /\ n.connections[c].state \in {"Ready", "Closed"}
       /\ n.connections[c].peer = p /\ n.connection_peers[c] = p

NodeOk(n, orphans, collected) ==
    /\ Typed(n) /\ DialsOk(n) /\ SocketsOk(n, orphans) /\ WatchOk(n, orphans)
    /\ StoryOk(n, collected) /\ RoutesOk(n)

\* Outside of drain_connection_events nothing is left to visit or to remove.
PhaseOk ==
    /\ pc \in {"idle", "dispatch", "drain"}
    /\ closed \in Seq(ConnIds(node))
    /\ pc # "drain" => closed = <<>> /\ todo = {}
    /\ todo \subseteq ConnIds(node)

\* The inductive invariant.
SwarmInv == NodeOk(node, {}, Range(closed)) /\ PhaseOk
----------------------------------------------------------------------------
(* A Swarm that only dials.                                                *)

\* What waits in the loop's handler list follows from the Swarm's books.
HandlersOf(n, f) ==
    IF n.fd_to_conn[f] # 0 THEN <<"conn">>
    ELSE IF f \in n.dialing_fds THEN <<"connect">> ELSE <<>>

\* fd_to_conn_ and the connections' descriptors name each other, and a
\* descriptor is of a dial or of a connection, never of both.
BooksOk(n) ==
    /\ n.listeners = {} /\ n.listener_fds = {}
    /\ \A f \in Fd : n.fd_handlers[f] = HandlersOf(n, f)
    /\ \A f \in Fd : n.fd_to_conn[f] # 0 =>
          /\ f \notin n.dialing_fds /\ n.pending_dials[f] = 0
          /\ n.conn_fds[n.fd_to_conn[f]] = f
    /\ \A c \in ConnIds(n) : n.conn_fds[c] # 0 =>
          /\ n.fd_to_conn[n.conn_fds[c]] = c
          /\ n.connections[c].state # "Absent"
          /\ n.connections[c].fd = n.conn_fds[c]

\* A session that is not closed has its socket, and the loop watches it.
DrivenOk(n) ==
    \A c \in ConnIds(n) :
       /\ n.connections[c].state \in {"Securing", "Ready"} => n.connections[c].open
       /\ n.connections[c].open =>
             n.conn_fds[c] = n.connections[c].fd /\ n.connections[c].fd \in n.watched

\* Events wait only for a poll that has not drained their connection yet.
EventsTaken ==
    pc # "dispatch" => \A c \in ConnIds(node) \ todo : node.connections[c].events = <<>>

DrivenInv == SwarmInv /\ BooksOk(node) /\ DrivenOk(node) /\ EventsTaken
=============================================================================
