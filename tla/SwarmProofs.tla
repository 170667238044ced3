----------------------------- MODULE SwarmProofs -----------------------------
(***************************************************************************)
(* Proofs about Swarm, for any number of descriptors, connections, dials,  *)
(* listeners and stops.  A method that works in several steps passes       *)
(* through nodes where NodeOk holds with orphans or collected connections: *)
(* the lemmas that end in Keeps say which of the parts a call keeps, those *)
(* that end in Step what it changes, and those that end in Inv that an     *)
(* action of the specification keeps SwarmInv.  The second half is about a *)
(* Swarm that only dials, and keeps DrivenInv (lemmas ending in Driven).   *)
(***************************************************************************)
EXTENDS SwarmInv, Integers, SequenceTheorems, FiniteSetTheorems, WellFoundedInduction,
        TLAPS

----------------------------------------------------------------------------
(* What an operation leaves alone, and the operations of EventLoop and     *)
(* the kernel.                                                             *)

SameSockets(q, n) == q.sock = n.sock /\ q.watched = n.watched /\ q.threw = n.threw
SameTransport(q, n) ==
    /\ q.listeners = n.listeners /\ q.pending_dials = n.pending_dials
    /\ q.listener_fds = n.listener_fds /\ q.dialing_fds = n.dialing_fds
SameDials(q, n) == q.outcomes = n.outcomes /\ q.dialed = n.dialed /\ q.stops = n.stops
SameConnections(q, n) ==
    /\ q.connections = n.connections /\ q.story = n.story
    /\ q.conn_fds = n.conn_fds /\ q.fd_to_conn = n.fd_to_conn
SameRoutes(q, n) ==
    q.peer_connections = n.peer_connections /\ q.connection_peers = n.connection_peers

LEMMA FreeType == Free \in SockRec
BY DEF Free, SockRec

LEMMA CloseFdStep ==
    ASSUME NEW n \in NodeRec, NEW f \in Fd
    PROVE  /\ CloseFd(n, f) \in NodeRec
           /\ CloseFd(n, f).sock = [n.sock EXCEPT ![f] = Free]
           /\ CloseFd(n, f).watched = n.watched \ {f}
           /\ CloseFd(n, f).threw = n.threw
           /\ SameTransport(CloseFd(n, f), n) /\ SameDials(CloseFd(n, f), n)
           /\ SameConnections(CloseFd(n, f), n) /\ SameRoutes(CloseFd(n, f), n)
BY FreeType DEF CloseFd, NodeRec, SameTransport, SameDials, SameConnections, SameRoutes

LEMMA OpenSocketStep ==
    ASSUME NEW n \in NodeRec, NEW f \in Fd, NEW k \in {"listener", "dial", "conn"}
    PROVE  /\ OpenSocket(n, f, k) \in NodeRec
           /\ OpenSocket(n, f, k).sock = [n.sock EXCEPT ![f] = [Free EXCEPT !.kind = k]]
           /\ OpenSocket(n, f, k).watched = n.watched
           /\ OpenSocket(n, f, k).threw = n.threw
           /\ SameTransport(OpenSocket(n, f, k), n) /\ SameDials(OpenSocket(n, f, k), n)
           /\ SameConnections(OpenSocket(n, f, k), n) /\ SameRoutes(OpenSocket(n, f, k), n)
<1>1. [Free EXCEPT !.kind = k] \in SockRec
  BY DEF Free, SockRec
<1> QED
  BY <1>1 DEF OpenSocket, NodeRec, SameTransport, SameDials, SameConnections, SameRoutes

LEMMA RegisterFdsStep ==
    ASSUME NEW n \in NodeRec, NEW F \in SUBSET Fd, NEW h \in {"accept", "connect", "conn"}
    PROVE  /\ RegisterFds(n, F, h) \in NodeRec
           /\ RegisterFds(n, F, h).sock = n.sock
           /\ RegisterFds(n, F, h).watched = n.watched \cup F
           /\ F \cap n.watched = {} /\ ~n.threw => ~RegisterFds(n, F, h).threw
           /\ SameTransport(RegisterFds(n, F, h), n) /\ SameDials(RegisterFds(n, F, h), n)
           /\ SameConnections(RegisterFds(n, F, h), n) /\ SameRoutes(RegisterFds(n, F, h), n)
<1> DEFINE new == F \ n.watched
           ed  == [f \in Fd |-> IF f \in new THEN Level(n.sock[f]) ELSE n.edges[f]]
           hs  == [f \in Fd |-> IF f \in new THEN Append(n.fd_handlers[f], h)
                                ELSE n.fd_handlers[f]]
<1>1. ed \in [Fd -> SUBSET Edge]
  <2>1. \A f \in Fd : Level(n.sock[f]) \in SUBSET Edge
    BY DEF Level, Edge
  <2> QED BY <2>1 DEF NodeRec
<1>2. hs \in [Fd -> Seq({"accept", "connect", "conn"})]
  BY DEF NodeRec
<1>3. n.watched \cup new \in SUBSET Fd
  BY DEF NodeRec
<1>4. (n.threw \/ new # F) \in BOOLEAN
  OBVIOUS
<1>5. RegisterFds(n, F, h) = [n EXCEPT !.threw = n.threw \/ new # F,
                                 !.watched = n.watched \cup new, !.edges = ed,
                                 !.fd_handlers = hs]
  BY DEF RegisterFds, NodeRec
<1>6. n.watched \cup new = n.watched \cup F /\ (F \cap n.watched = {} => new = F)
  OBVIOUS
<1> HIDE DEF ed, hs, new
<1> QED
  BY ZenonT(30), <1>1, <1>2, <1>3, <1>4, <1>5, <1>6
  DEF NodeRec, SameTransport, SameDials, SameConnections, SameRoutes

LEMMA UnregisterFdsStep ==
    ASSUME NEW n \in NodeRec, NEW F \in SUBSET Fd
    PROVE  /\ UnregisterFds(n, F) \in NodeRec
           /\ UnregisterFds(n, F).sock = n.sock
           /\ UnregisterFds(n, F).watched = n.watched \ F
           /\ UnregisterFds(n, F).threw = n.threw
           /\ SameTransport(UnregisterFds(n, F), n) /\ SameDials(UnregisterFds(n, F), n)
           /\ SameConnections(UnregisterFds(n, F), n) /\ SameRoutes(UnregisterFds(n, F), n)
<1> DEFINE hs == [f \in Fd |-> IF f \in F THEN <<>> ELSE n.fd_handlers[f]]
           ed == [f \in Fd |-> IF f \in F THEN {} ELSE n.edges[f]]
<1>1. hs \in [Fd -> Seq({"accept", "connect", "conn"})]
  BY EmptySeq DEF NodeRec
<1>2. ed \in [Fd -> SUBSET Edge]
  BY DEF NodeRec
<1>3. UnregisterFds(n, F) = [n EXCEPT !.watched = n.watched \ F, !.edges = ed,
                                      !.fd_handlers = hs]
  BY DEF UnregisterFds, NodeRec
<1> HIDE DEF ed, hs
<1> QED
  BY ZenonT(30), <1>1, <1>2, <1>3
  DEF NodeRec, SameTransport, SameDials, SameConnections, SameRoutes

----------------------------------------------------------------------------
(* A session that goes on, or closes.                                      *)

\* The session s becomes r, by an event of its own.
Moves(s, r) ==
    /\ s.state \in {"Securing", "Ready"} /\ r \in SessionRec
    /\ r.fd = s.fd /\ (r.open => s.open)
    /\ r.state \in {"Securing", "Ready", "Closed"}
    /\ r.state = "Closed" => ~r.open /\ Ends(r.events, "Closed")
    /\ r.state = "Securing" => s.state = "Securing"
    /\ s.state = "Ready" => r.peer = s.peer
    /\ \A i \in DOMAIN r.events :
          /\ r.events[i] = "Closed" => i = Len(r.events) /\ r.state = "Closed"
          /\ r.events[i] = "Secured" => r.state # "Securing"

\* The node after connection c became r, and gave up its socket if r has none.
Moved(n, q, c, r) ==
    LET s == n.connections[c]
        shut == IF s.open /\ ~r.open THEN {s.fd} ELSE {}
    IN /\ q \in NodeRec
       /\ q.sock = [f \in Fd |-> IF f \in shut THEN Free ELSE n.sock[f]]
       /\ q.watched = n.watched \ shut /\ q.threw = n.threw
       /\ q.connections = [n.connections EXCEPT ![c] = r]
       /\ q.story = n.story /\ q.conn_fds = n.conn_fds /\ q.fd_to_conn = n.fd_to_conn
       /\ SameTransport(q, n) /\ SameDials(q, n) /\ SameRoutes(q, n)

LEMMA SessionMoves ==
    ASSUME NEW n, NEW q, NEW S, NodeOk(n, {}, S), NEW c \in ConnIds(n), NEW r,
           Moves(n.connections[c], r), Moved(n, q, c, r)
    PROVE  NodeOk(q, {}, S) /\ ConnIds(q) = ConnIds(n) /\ q.connections[c] = r
           /\ q.story = n.story
<1> DEFINE s == n.connections[c]
           shut == IF s.open /\ ~r.open THEN {s.fd} ELSE {}
<1>1. /\ n \in NodeRec /\ q \in NodeRec /\ r \in SessionRec
      /\ n.connections \in Seq(SessionRec) /\ c \in 1 .. Len(n.connections)
  <2>1. n \in NodeRec /\ q \in NodeRec /\ r \in SessionRec
    BY DEF NodeOk, Typed, Moves, Moved
  <2>2. n.connections \in Seq(SessionRec)
    BY <2>1 DEF NodeRec
  <2> QED BY <2>1, <2>2 DEF ConnIds
<1>2. /\ Len(q.connections) = Len(n.connections)
      /\ ConnIds(q) = ConnIds(n) /\ q.connections[c] = r
      /\ \A e \in ConnIds(n) : q.connections[e] = IF e = c THEN r ELSE n.connections[e]
  BY <1>1, ExceptSeq DEF Moved, ConnIds
<1>3. s \in SessionRec /\ \A e \in ConnIds(n) : n.connections[e] \in SessionRec
  BY <1>1 DEF ConnIds
<1>4. Typed(q)
  BY <1>1, <1>2 DEF NodeOk, Typed, Moved, SameRoutes, SameDials
<1>5. DialsOk(q)
  BY DEF NodeOk, DialsOk, Moved, SameTransport, SameDials
<1>6. /\ \A f \in Fd : q.sock[f].kind = IF f \in shut THEN "free" ELSE n.sock[f].kind
      /\ q.watched = n.watched \ shut
      /\ q.listeners = n.listeners /\ q.pending_dials = n.pending_dials
      /\ q.listener_fds = n.listener_fds /\ q.dialing_fds = n.dialing_fds
  BY DEF Moved, Free, SameTransport
<1>7. s.open => s.fd \in Fd /\ n.sock[s.fd].kind = "conn"
  BY <1>3 DEF NodeOk, SocketsOk, Owns
<1>8. r.fd = s.fd /\ (r.open => s.open)
      /\ (r.open => r.state \in {"Securing", "Ready"})
  BY DEF Moves
<1>9. SocketsOk(q, {})
  <2>1. \A f \in Fd : (q.sock[f].kind = "listener") <=> (f \in q.listeners)
    BY <1>6, <1>7 DEF NodeOk, SocketsOk
  <2>2. \A f \in Fd : (q.sock[f].kind = "dial") <=> (q.pending_dials[f] # 0)
    BY <1>6, <1>7 DEF NodeOk, SocketsOk
  <2>3. ASSUME NEW f \in Fd
        PROVE (q.sock[f].kind = "conn")
                        <=> (f \in {} \/ \E e \in ConnIds(q) : Owns(q, e, f))
    <3>1. (n.sock[f].kind = "conn") <=> \E e \in ConnIds(n) : Owns(n, e, f)
      BY DEF NodeOk, SocketsOk
    <3>2. \A e \in ConnIds(n) : Owns(n, c, f) /\ Owns(n, e, f) => e = c
      BY DEF NodeOk, SocketsOk, Owns
    <3>3. \A e \in ConnIds(n) : Owns(q, e, f) <=> (Owns(n, e, f) /\ f \notin shut)
      BY <1>2, <1>3, <1>8, <3>2 DEF Owns
    <3> QED BY <1>2, <1>6, <3>1, <3>3
  <2>4. \A e \in ConnIds(q) : q.connections[e].open =>
          /\ q.connections[e].state \in {"Securing", "Ready"}
          /\ q.connections[e].fd \in Fd \ {}
    BY <1>2, <1>8, <1>7 DEF NodeOk, SocketsOk
  <2>5. \A d, e \in ConnIds(q) :
          (q.connections[d].open /\ Owns(q, e, q.connections[d].fd)) => d = e
    BY <1>2, <1>8 DEF NodeOk, SocketsOk, Owns
  <2> QED BY <2>1, <2>2, <2>3, <2>4, <2>5 DEF SocketsOk
<1>10. WatchOk(q, {})
  BY <1>6 DEF NodeOk, WatchOk, Moved, NodeRec, Typed
<1>11. StoryOk(q, S)
  <2>1. q.story = n.story /\ q.stops = n.stops
    BY DEF Moved, SameDials
  <2>2. ASSUME NEW e \in ConnIds(q), e # c
        PROVE  q.connections[e] = n.connections[e] /\ e \in ConnIds(n)
    BY <1>2, <2>2
  <2>3. \A i \in DOMAIN n.story[c] : n.story[c][i] # "ConnectionClosed"
    BY DEF NodeOk, StoryOk, Moves
  <2>4. c \notin S
    <3>1. n.story[c] \in Seq(Report)
      BY <1>1 DEF NodeOk, Typed, NodeRec
    <3>2. ~Ends(n.story[c], "ConnectionClosed")
      BY <2>3, <3>1 DEF Ends
    <3> QED BY <3>2 DEF NodeOk, StoryOk
  <2> QED BY <1>2, <2>1, <2>2, <2>3, <2>4 DEF NodeOk, StoryOk, Moves
<1>12. RoutesOk(q)
  <2> SUFFICES ASSUME NEW p \in Peers, q.peer_connections[p] # 0
               PROVE  LET e == q.peer_connections[p] IN
                      /\ q.connections[e].state \in {"Ready", "Closed"}
                      /\ q.connections[e].peer = p /\ q.connection_peers[e] = p
    BY DEF RoutesOk
  <2> DEFINE e == n.peer_connections[p]
  <2>1. q.peer_connections[p] = e /\ e # 0 /\ q.connection_peers = n.connection_peers
    BY DEF Moved, SameRoutes
  <2>2. e \in ConnIds(n)
    BY <1>1, <2>1 DEF NodeOk, Typed, ConnIds
  <2>3. /\ n.connections[e].state \in {"Ready", "Closed"}
        /\ n.connections[e].peer = p /\ n.connection_peers[e] = p
    BY <2>1 DEF NodeOk, RoutesOk
  <2> HIDE DEF e
  <2> QED BY <1>2, <2>1, <2>2, <2>3 DEF Moves
<1> QED BY <1>2, <1>4, <1>5, <1>9, <1>10, <1>11, <1>12 DEF NodeOk, Moved

\* Sockets that change nothing of what they are.
LEMMA SameKinds ==
    ASSUME NEW n, NEW q, NEW O, NEW S, NodeOk(n, O, S), q \in NodeRec,
           \A f \in Fd : q.sock[f].kind = n.sock[f].kind,
           q.watched = n.watched, q.threw = n.threw,
           SameTransport(q, n), SameDials(q, n), SameConnections(q, n), SameRoutes(q, n)
    PROVE  NodeOk(q, O, S) /\ ConnIds(q) = ConnIds(n)
<1> USE DEF SameTransport, SameDials, SameConnections, SameRoutes
<1>1. ConnIds(q) = ConnIds(n) /\ Typed(q)
  BY DEF NodeOk, Typed, ConnIds
<1>2. DialsOk(q)
  BY DEF NodeOk, DialsOk
<1>3. SocketsOk(q, O)
  BY <1>1 DEF NodeOk, SocketsOk, Owns
<1>4. WatchOk(q, O)
  BY DEF NodeOk, WatchOk, Typed, NodeRec
<1>5. StoryOk(q, S)
  BY <1>1 DEF NodeOk, StoryOk
<1>6. RoutesOk(q)
  BY <1>1 DEF NodeOk, RoutesOk
<1> QED BY <1>1, <1>2, <1>3, <1>4, <1>5, <1>6 DEF NodeOk

\* What a node's record says of its connections.
LEMMA SessionTyped ==
    ASSUME NEW n, n \in NodeRec, NEW c \in ConnIds(n)
    PROVE  /\ n.connections \in Seq(SessionRec) /\ c \in 1 .. Len(n.connections)
           /\ n.connections[c] \in SessionRec
<1>1. n.connections \in Seq(SessionRec)
  BY DEF NodeRec
<1> QED BY <1>1 DEF ConnIds

LEMMA NodeTyped ==
    ASSUME NEW n, NEW O, NEW S, NodeOk(n, O, S)
    PROVE  n \in NodeRec
BY DEF NodeOk, Typed

LEMMA SetConnections ==
    ASSUME NEW n \in NodeRec, NEW cs \in Seq(SessionRec)
    PROVE  LET q == [n EXCEPT !.connections = cs] IN
           /\ q \in NodeRec /\ q.connections = cs /\ q.story = n.story
           /\ q.conn_fds = n.conn_fds /\ q.fd_to_conn = n.fd_to_conn
           /\ SameSockets(q, n) /\ SameTransport(q, n) /\ SameDials(q, n)
           /\ SameRoutes(q, n)
BY DEF NodeRec, SameTransport, SameDials, SameSockets, SameRoutes

\* [n EXCEPT !.connections[c] = r] as a move.
LEMMA SetSession ==
    ASSUME NEW n, NEW S, NodeOk(n, {}, S), NEW c \in ConnIds(n), NEW r \in SessionRec,
           r.open = n.connections[c].open
    PROVE  /\ Moved(n, [n EXCEPT !.connections = [@ EXCEPT ![c] = r]], c, r)
<1> DEFINE cs == [n.connections EXCEPT ![c] = r]
           q == [n EXCEPT !.connections = cs]
<1>1. n \in NodeRec
  BY NodeTyped
<1>2. cs \in Seq(SessionRec)
  BY <1>1, SessionTyped, ExceptSeq
<1>3. [n EXCEPT !.connections = [@ EXCEPT ![c] = r]] = q
  BY <1>1 DEF NodeRec
<1>4. /\ q \in NodeRec /\ q.connections = cs /\ q.story = n.story
      /\ q.conn_fds = n.conn_fds /\ q.fd_to_conn = n.fd_to_conn
      /\ SameSockets(q, n) /\ SameTransport(q, n) /\ SameDials(q, n)
      /\ SameRoutes(q, n)
  <2> HIDE DEF cs
  <2> QED BY <1>1, <1>2, SetConnections
<1>5. n.sock \in [Fd -> SockRec] /\ n.watched \in SUBSET Fd
  BY <1>1 DEF NodeRec
<1>6. (IF n.connections[c].open /\ ~r.open THEN {n.connections[c].fd} ELSE {}) = {}
  OBVIOUS
<1> HIDE DEF q
<1>7. q.sock = [f \in Fd |-> IF f \in {} THEN Free ELSE n.sock[f]]
      /\ q.watched = n.watched \ {}
  BY <1>4, <1>5 DEF SameSockets
<1> QED BY <1>3, <1>4, <1>6, <1>7 DEF Moved, SameSockets

\* A session that is not closed has said nothing of its end.
LEMMA ActiveEvents ==
    ASSUME NEW n, NEW O, NEW S, NodeOk(n, O, S), NEW c \in ConnIds(n),
           n.connections[c].state \in {"Securing", "Ready"}
    PROVE  /\ n.connections[c] \in SessionRec
           /\ \A i \in DOMAIN n.connections[c].events :
                 /\ n.connections[c].events[i] # "Closed"
                 /\ n.connections[c].events[i] = "Secured" => n.connections[c].state = "Ready"
<1>1. n.connections[c] \in SessionRec
  BY NodeTyped, SessionTyped
<1> QED BY <1>1 DEF NodeOk, StoryOk

LEMMA EventsGrow ==
    ASSUME NEW s \in Seq(Event), NEW t \in Seq(Event)
    PROVE  /\ s \o t \in Seq(Event) /\ Len(s \o t) = Len(s) + Len(t)
           /\ DOMAIN (s \o t) = 1 .. Len(s) + Len(t)
           /\ \A i \in DOMAIN (s \o t) : (s \o t)[i] = IF i <= Len(s) THEN s[i] ELSE t[i - Len(s)]
<1>1. s \o t \in Seq(Event) /\ Len(s \o t) = Len(s) + Len(t)
  BY ConcatProperties
<1>2. DOMAIN (s \o t) = 1 .. Len(s) + Len(t)
  BY <1>1
<1>3. \A i \in 1 .. Len(s) + Len(t) :
         (s \o t)[i] = IF i <= Len(s) THEN s[i] ELSE t[i - Len(s)]
  BY ConcatProperties
<1> QED BY <1>1, <1>2, <1>3

LEMMA EmitEventsKeeps ==
    ASSUME NEW n, NEW S, NodeOk(n, {}, S), NEW c \in ConnIds(n), NEW evs \in Seq(Event),
           n.connections[c].state \in {"Securing", "Ready"},
           \A i \in DOMAIN evs : evs[i] # "Closed",
           \A i \in DOMAIN evs : evs[i] = "Secured" => n.connections[c].state = "Ready"
    PROVE  LET q == EmitEvents(n, c, evs) IN
           /\ NodeOk(q, {}, S) /\ ConnIds(q) = ConnIds(n) /\ q.story = n.story
           /\ q.connections[c] = [n.connections[c] EXCEPT !.events = @ \o evs]
<1> DEFINE s == n.connections[c]
           both == s.events \o evs
           r == [s EXCEPT !.events = both]
<1>1. /\ s \in SessionRec
      /\ \A i \in DOMAIN s.events :
            s.events[i] # "Closed" /\ (s.events[i] = "Secured" => s.state = "Ready")
  BY ActiveEvents
<1>2. s.events \in Seq(Event)
  BY <1>1 DEF SessionRec
<1>3. both \in Seq(Event) /\ Len(both) = Len(s.events) + Len(evs)
      /\ \A i \in DOMAIN both : \/ \E j \in DOMAIN s.events : both[i] = s.events[j]
                                \/ \E j \in DOMAIN evs : both[i] = evs[j]
  <2>1. DOMAIN s.events = 1 .. Len(s.events) /\ DOMAIN evs = 1 .. Len(evs)
        /\ Len(s.events) \in Nat /\ Len(evs) \in Nat
    BY <1>2
  <2>2. /\ both \in Seq(Event) /\ Len(both) = Len(s.events) + Len(evs)
        /\ DOMAIN both = 1 .. Len(s.events) + Len(evs)
        /\ \A i \in DOMAIN both : both[i] = IF i <= Len(s.events) THEN s.events[i]
                                            ELSE evs[i - Len(s.events)]
    BY <1>2, EventsGrow
  <2> HIDE DEF both, s
  <2>3. ASSUME NEW i \in DOMAIN both, i <= Len(s.events)
        PROVE  \E j \in DOMAIN s.events : both[i] = s.events[j]
    BY <2>1, <2>2, <2>3
  <2>4. ASSUME NEW i \in DOMAIN both, ~(i <= Len(s.events))
        PROVE  \E j \in DOMAIN evs : both[i] = evs[j]
    <3>1. i - Len(s.events) \in DOMAIN evs /\ both[i] = evs[i - Len(s.events)]
      BY <2>1, <2>2, <2>4
    <3> QED BY <3>1
  <2> QED BY <2>2, <2>3, <2>4
<1>4. n \in NodeRec /\ n.connections \in Seq(SessionRec)
  BY NodeTyped, SessionTyped
<1>5. EmitEvents(n, c, evs) = [n EXCEPT !.connections = [@ EXCEPT ![c] = r]]
  BY <1>1, <1>4 DEF EmitEvents, SessionRec
<1> HIDE DEF both
<1>6. r \in SessionRec /\ r.open = s.open /\ r.state = s.state /\ r.fd = s.fd
      /\ r.peer = s.peer /\ r.events = both
  BY <1>1, <1>3 DEF SessionRec
<1>7. Moves(s, r)
  BY <1>1, <1>3, <1>6 DEF Moves
<1> HIDE DEF r, s
<1>8. Moved(n, EmitEvents(n, c, evs), c, r)
  BY <1>5, <1>6, SetSession DEF s
<1>9. NodeOk(EmitEvents(n, c, evs), {}, S) /\ ConnIds(EmitEvents(n, c, evs)) = ConnIds(n)
      /\ EmitEvents(n, c, evs).connections[c] = r /\ EmitEvents(n, c, evs).story = n.story
  BY <1>7, <1>8, SessionMoves DEF s
<1> QED BY <1>9 DEF r, s, both

\* CloseSession of a session that is not closed.
LEMMA CloseSessionCloses ==
    ASSUME NEW n, NEW S, NodeOk(n, {}, S), NEW c \in ConnIds(n),
           n.connections[c].state \in {"Securing", "Ready"}
    PROVE  LET q == CloseSession(n, c) IN
           /\ NodeOk(q, {}, S) /\ ConnIds(q) = ConnIds(n) /\ q.story = n.story
           /\ q.connections[c].state = "Closed"
           /\ q.connections[c].events = n.connections[c].events \o <<"Closed">>
<1> DEFINE s == n.connections[c]
           end == <<"Closed">>
           both == s.events \o end
           a == IF s.open THEN CloseFd(n, s.fd) ELSE n
           t == [s EXCEPT !.state = "Closed", !.open = FALSE]
           b == [a EXCEPT !.connections = [@ EXCEPT ![c] = t]]
           r == [t EXCEPT !.events = both]
           q == CloseSession(n, c)
<1>1. /\ s \in SessionRec
      /\ \A i \in DOMAIN s.events :
            s.events[i] # "Closed" /\ (s.events[i] = "Secured" => s.state = "Ready")
  BY ActiveEvents
<1>2. s.events \in Seq(Event)
  BY <1>1 DEF SessionRec
<1>3. end \in Seq(Event) /\ Len(end) = 1 /\ end[1] = "Closed" /\ DOMAIN end = {1}
  BY DEF Event
<1>4. /\ both \in Seq(Event) /\ Len(both) = Len(s.events) + 1
      /\ Ends(both, "Closed")
      /\ \A i \in DOMAIN both : i # Len(both) => both[i] # "Closed"
  <2> HIDE DEF end
  <2>1. DOMAIN s.events = 1 .. Len(s.events) /\ Len(s.events) \in Nat
    BY <1>2
  <2>2. /\ both \in Seq(Event) /\ Len(both) = Len(s.events) + 1
        /\ DOMAIN both = 1 .. Len(s.events) + 1
        /\ \A i \in DOMAIN both : both[i] = IF i <= Len(s.events) THEN s.events[i]
                                            ELSE end[i - Len(s.events)]
    BY <1>2, <1>3, EventsGrow
  <2> HIDE DEF both
  <2>3. Len(both) > 0
    BY <2>1, <2>2
  <2>4. both[Len(both)] = "Closed"
    <3> HIDE DEF s
    <3>1. Len(both) \in DOMAIN both /\ ~(Len(both) <= Len(s.events))
          /\ Len(both) - Len(s.events) = 1
      BY <2>1, <2>2
    <3>2. both[Len(both)] = end[Len(both) - Len(s.events)]
      BY <2>2, <3>1
    <3> QED BY <3>1, <3>2, <1>3
  <2>5. \A i \in DOMAIN both : i # Len(both) => both[i] # "Closed"
    BY <2>1, <2>2, <1>1
  <2> QED BY <2>2, <2>3, <2>4, <2>5 DEF Ends
<1>5. n \in NodeRec /\ n.connections \in Seq(SessionRec) /\ c \in 1 .. Len(n.connections)
  BY NodeTyped, SessionTyped
<1>6. s.open => s.fd \in Fd
  BY DEF NodeOk, SocketsOk
<1> DEFINE shut == IF s.open THEN {s.fd} ELSE {}
<1>7. /\ a \in NodeRec
      /\ a.sock = [f \in Fd |-> IF f \in shut THEN Free ELSE n.sock[f]]
      /\ a.watched = n.watched \ shut /\ a.threw = n.threw
      /\ SameTransport(a, n) /\ SameDials(a, n) /\ SameConnections(a, n) /\ SameRoutes(a, n)
  <2>1. n.sock \in [Fd -> SockRec] /\ n.watched \in SUBSET Fd
    BY <1>5 DEF NodeRec
  <2>2. CASE s.open
    BY <1>5, <1>6, <2>1, <2>2, CloseFdStep
  <2>3. CASE ~s.open
    BY <1>5, <2>1, <2>3 DEF SameTransport, SameDials, SameConnections, SameRoutes
  <2> QED BY <2>2, <2>3
<1>8. t \in SessionRec /\ t.events = s.events
  BY <1>1 DEF SessionRec
<1> DEFINE cs == [n.connections EXCEPT ![c] = r]
<1>9. q = [a EXCEPT !.connections = cs]
  <2> HIDE DEF a, end
  <2>1. s.state # "Closed"
    OBVIOUS
  <2>2. q = EmitEvents([a EXCEPT !.connections[c] = t], c, end)
    BY <2>1 DEF CloseSession, a, end
  <2>3. a.connections = n.connections
    BY <1>7 DEF SameConnections
  <2> DEFINE us == [n.connections EXCEPT ![c] = t]
             u == [a EXCEPT !.connections = us]
  <2>4. [a EXCEPT !.connections[c] = t] = u
    BY <1>7, <2>3 DEF NodeRec
  <2>5. us \in Seq(SessionRec) /\ us[c] = t
    BY <1>5, <1>8, ExceptSeq
  <2>6. cs = [us EXCEPT ![c] = r]
    BY <1>5
  <2>7. r = [us[c] EXCEPT !.events = us[c].events \o end]
    BY <2>5, <1>8
  <2> HIDE DEF us, t, r, cs
  <2>8. u \in NodeRec /\ u.connections = us
    BY <1>7, <2>5, SetConnections
  <2>9. EmitEvents(u, c, end) = [u EXCEPT !.connections = cs]
    BY <2>6, <2>7, <2>8 DEF EmitEvents, NodeRec
  <2>10. [u EXCEPT !.connections = cs] = [a EXCEPT !.connections = cs]
    BY <1>7 DEF NodeRec
  <2> QED BY <2>2, <2>4, <2>9, <2>10
<1>10. r \in SessionRec /\ r.open = FALSE /\ r.state = "Closed" /\ r.fd = s.fd
      /\ r.peer = s.peer /\ r.events = both
  <2> HIDE DEF both
  <2> QED BY <1>1, <1>4 DEF SessionRec
<1> HIDE DEF both, a, t, q
<1>11. Moves(s, r)
  BY <1>4, <1>10 DEF Moves
<1>12. cs \in Seq(SessionRec)
  BY <1>5, <1>10, ExceptSeq
<1> HIDE DEF r
<1>13. Moved(n, q, c, r)
  <2>1. /\ q \in NodeRec /\ q.connections = cs /\ q.story = a.story
        /\ q.conn_fds = a.conn_fds /\ q.fd_to_conn = a.fd_to_conn
        /\ SameSockets(q, a) /\ SameTransport(q, a) /\ SameDials(q, a)
        /\ SameRoutes(q, a)
    <3> HIDE DEF cs
    <3> QED BY <1>7, <1>9, <1>12, SetConnections
  <2>2. (IF s.open /\ ~r.open THEN {s.fd} ELSE {}) = shut
    BY <1>10
  <2> HIDE DEF shut, s
  <2> QED BY <1>7, <2>1, <2>2 DEF Moved, SameTransport, SameDials, SameConnections,
           SameRoutes, SameSockets, s
<1>14. NodeOk(q, {}, S) /\ ConnIds(q) = ConnIds(n) /\ q.connections[c] = r
       /\ q.story = n.story
  BY <1>11, <1>13, SessionMoves
<1> QED BY <1>10, <1>14 DEF both, q

LEMMA EventsOnly ==
    ASSUME NEW s \in SessionRec, NEW evs
    PROVE  LET r == [s EXCEPT !.events = evs] IN
           r.state = s.state /\ r.fd = s.fd /\ r.open = s.open /\ r.peer = s.peer
BY DEF SessionRec

LEMMA FailSessionCloses ==
    ASSUME NEW n, NEW S, NodeOk(n, {}, S), NEW c \in ConnIds(n),
           n.connections[c].state \in {"Securing", "Ready"}
    PROVE  LET q == FailSession(n, c) IN
           /\ NodeOk(q, {}, S) /\ ConnIds(q) = ConnIds(n) /\ q.story = n.story
           /\ q.connections[c].state = "Closed"
<1> DEFINE err == <<"Error">>
           a == EmitEvents(n, c, err)
<1>1. err \in Seq(Event) /\ \A i \in DOMAIN err : err[i] # "Closed" /\ err[i] # "Secured"
  BY DEF Event
<1>2. n.connections[c] \in SessionRec
  BY ActiveEvents
<1>3. FailSession(n, c) = CloseSession(a, c)
  BY DEF FailSession
<1> HIDE DEF err
<1>4. /\ NodeOk(a, {}, S) /\ ConnIds(a) = ConnIds(n) /\ a.story = n.story
      /\ a.connections[c] = [n.connections[c] EXCEPT !.events = @ \o err]
  BY <1>1, EmitEventsKeeps
<1> HIDE DEF a
<1>5. a.connections[c].state = n.connections[c].state
  BY <1>2, <1>4, EventsOnly
<1>6. c \in ConnIds(a) /\ a.connections[c].state \in {"Securing", "Ready"}
  BY <1>4, <1>5
<1>7. NodeOk(a, {}, S)
  BY <1>4
<1>8. LET q == CloseSession(a, c) IN
      /\ NodeOk(q, {}, S) /\ ConnIds(q) = ConnIds(a) /\ q.story = a.story
      /\ q.connections[c].state = "Closed"
  BY <1>6, <1>7, CloseSessionCloses
<1> QED BY <1>3, <1>4, <1>8

LEMMA CompleteReadyKeeps ==
    ASSUME NEW n, NEW S, NodeOk(n, {}, S), NEW c \in ConnIds(n), NEW p \in PeerOpt,
           n.connections[c].state = "Securing"
    PROVE  LET q == CompleteReadyState(n, c, p) IN
           /\ NodeOk(q, {}, S) /\ ConnIds(q) = ConnIds(n) /\ q.story = n.story
           /\ q.connections[c].state = "Ready"
<1> DEFINE s == n.connections[c]
           r == [s EXCEPT !.state = "Ready", !.peer = p]
           a == [n EXCEPT !.connections = [@ EXCEPT ![c] = r]]
           evs == <<"Secured", "MultiplexerReady">>
<1>1. /\ s \in SessionRec
      /\ \A i \in DOMAIN s.events :
            s.events[i] # "Closed" /\ (s.events[i] = "Secured" => s.state = "Ready")
  BY ActiveEvents
<1>2. evs \in Seq(Event) /\ \A i \in DOMAIN evs : evs[i] # "Closed"
  BY DEF Event
<1>3. n \in NodeRec /\ n.connections \in Seq(SessionRec)
  BY NodeTyped, SessionTyped
<1>4. CompleteReadyState(n, c, p) = EmitEvents(a, c, evs)
  <2>1. [n EXCEPT !.connections[c] = [@ EXCEPT !.state = "Ready", !.peer = p]] = a
    BY <1>3 DEF NodeRec
  <2> QED BY <2>1 DEF CompleteReadyState
<1>5. r \in SessionRec /\ r.open = s.open /\ r.state = "Ready" /\ r.fd = s.fd
      /\ r.events = s.events
  BY <1>1 DEF SessionRec
<1>6. s.state = "Securing"
  OBVIOUS
<1> HIDE DEF r, evs
<1>7. Moves(s, r)
  BY <1>1, <1>5, <1>6 DEF Moves
<1>8. Moved(n, a, c, r)
  BY <1>5, SetSession
<1> HIDE DEF a
<1>9. NodeOk(a, {}, S) /\ ConnIds(a) = ConnIds(n) /\ a.connections[c] = r
      /\ a.story = n.story
  BY <1>7, <1>8, SessionMoves
<1>10. a.connections[c].state = "Ready" /\ a.connections[c] \in SessionRec
  BY <1>5, <1>9
<1>11. /\ NodeOk(EmitEvents(a, c, evs), {}, S)
       /\ ConnIds(EmitEvents(a, c, evs)) = ConnIds(a)
       /\ EmitEvents(a, c, evs).story = a.story
       /\ EmitEvents(a, c, evs).connections[c] = [a.connections[c] EXCEPT !.events = @ \o evs]
  <2>1. c \in ConnIds(a)
    BY <1>9
  <2>2. /\ a.connections[c].state \in {"Securing", "Ready"}
        /\ \A i \in DOMAIN evs : evs[i] = "Secured" => a.connections[c].state = "Ready"
    BY <1>10
  <2>3. NodeOk(a, {}, S)
    BY <1>9
  <2> QED BY <1>2, <2>1, <2>2, <2>3, EmitEventsKeeps
<1>12. EmitEvents(a, c, evs).connections[c].state = "Ready"
  BY <1>10, <1>11, EventsOnly
<1> QED BY <1>4, <1>9, <1>11, <1>12

\* A socket's input is read, or the network moves.
LEMMA SetSocket ==
    ASSUME NEW n, NEW O, NEW S, NodeOk(n, O, S), NEW f \in Fd, NEW k \in SockRec,
           k.kind = n.sock[f].kind
    PROVE  LET q == [n EXCEPT !.sock = [@ EXCEPT ![f] = k]] IN
           /\ NodeOk(q, O, S) /\ ConnIds(q) = ConnIds(n)
           /\ q.connections = n.connections /\ q.story = n.story
<1> DEFINE ks == [n.sock EXCEPT ![f] = k]
           q == [n EXCEPT !.sock = ks]
<1>1. n \in NodeRec
  BY NodeTyped
<1>2. n.sock \in [Fd -> SockRec]
  BY <1>1 DEF NodeRec
<1>3. ks \in [Fd -> SockRec] /\ \A g \in Fd : ks[g].kind = n.sock[g].kind
  BY <1>2
<1>4. [n EXCEPT !.sock = [@ EXCEPT ![f] = k]] = q
  BY <1>1 DEF NodeRec
<1> HIDE DEF ks
<1>5. q \in NodeRec /\ q.sock = ks /\ q.watched = n.watched /\ q.threw = n.threw
      /\ SameTransport(q, n) /\ SameDials(q, n) /\ SameConnections(q, n) /\ SameRoutes(q, n)
  BY <1>1, <1>3 DEF NodeRec, SameTransport, SameDials, SameConnections, SameRoutes
<1>6. NodeOk(q, O, S) /\ ConnIds(q) = ConnIds(n)
  <2> HIDE DEF q
  <2> QED BY <1>3, <1>5, SameKinds
<1> QED BY <1>4, <1>5, <1>6 DEF SameConnections

\* What a handler of connection c leaves.
Handled(n, q, c, S) ==
    /\ NodeOk(q, {}, S) /\ ConnIds(q) = ConnIds(n) /\ q.story = n.story
    /\ q.connections[c].state # "Absent"

LEMMA OnSocketReadableKeeps ==
    ASSUME NEW n, NEW S, NodeOk(n, {}, S), NEW c \in ConnIds(n),
           n.connections[c].state # "Absent", NEW q \in OnSocketReadable(n, c)
    PROVE  Handled(n, q, c, S)
<1> DEFINE s == n.connections[c]
           k == [n.sock[s.fd] EXCEPT !.waiting = 0]
           m == [n EXCEPT !.sock = [@ EXCEPT ![s.fd] = k]]
<1>1. CASE ~IsActive(s)
  BY <1>1 DEF OnSocketReadable, Handled
<1>2. CASE IsActive(s)
  <2>1. s \in SessionRec /\ s.state \in {"Securing", "Ready"} /\ s.fd \in Fd
    <3>1. s \in SessionRec
      BY NodeTyped, SessionTyped
    <3>2. s.open
      BY <1>2 DEF IsActive
    <3> QED BY <3>1, <3>2 DEF NodeOk, SocketsOk
  <2>2. n \in NodeRec /\ n.sock[s.fd] \in SockRec
    <3>1. n \in NodeRec
      BY NodeTyped
    <3> QED BY <2>1, <3>1 DEF NodeRec
  <2>3. k \in SockRec /\ k.kind = n.sock[s.fd].kind
    BY <2>2 DEF SockRec
  <2>4. [n EXCEPT !.sock[s.fd].waiting = 0] = m
    BY <2>1, <2>2 DEF NodeRec
  <2>5. NodeOk(m, {}, S) /\ ConnIds(m) = ConnIds(n)
        /\ m.connections = n.connections /\ m.story = n.story
    <3> HIDE DEF k
    <3> QED BY <2>1, <2>3, SetSocket
  <2>6. \/ q = CloseSession(n, c) \/ q = n \/ q = m \/ q = FailSession(m, c)
        \/ s.state = "Securing" /\ \E p \in PeerOpt :
              \/ q = CompleteReadyState(m, c, p)
              \/ q = FailSession(CompleteReadyState(m, c, p), c)
    <3> DEFINE up == {CompleteReadyState(m, c, p) : p \in PeerOpt}
    <3> HIDE DEF m
    <3>1. q \in {n} \cup {CloseSession(n, c)} \cup {m, FailSession(m, c)} \cup
                (IF s.state # "Securing" THEN {}
                 ELSE up \cup {FailSession(u, c) : u \in up})
      BY <2>4 DEF OnSocketReadable, PeerOpt
    <3> QED BY <3>1
  <2> HIDE DEF m
  <2>7. CASE q = CloseSession(n, c)
    BY <2>1, <2>7, CloseSessionCloses DEF Handled
  <2>8. CASE q = n
    BY <2>8 DEF Handled
  <2>9. CASE q = m
    BY <2>5, <2>9 DEF Handled
  <2>10. m.connections[c].state = s.state /\ c \in ConnIds(m)
    BY <2>5
  <2>11. CASE q = FailSession(m, c)
    BY <2>1, <2>5, <2>10, <2>11, FailSessionCloses DEF Handled
  <2>12. ASSUME s.state = "Securing", NEW p \in PeerOpt,
                \/ q = CompleteReadyState(m, c, p)
                \/ q = FailSession(CompleteReadyState(m, c, p), c)
         PROVE  Handled(n, q, c, S)
    <3> DEFINE u == CompleteReadyState(m, c, p)
    <3>1. /\ NodeOk(u, {}, S) /\ ConnIds(u) = ConnIds(m) /\ u.story = m.story
          /\ u.connections[c].state = "Ready"
      BY <2>5, <2>10, <2>12, CompleteReadyKeeps
    <3> HIDE DEF u
    <3>2. CASE q = u
      BY <2>5, <3>1, <3>2 DEF Handled
    <3>3. CASE q = FailSession(u, c)
      <4>1. c \in ConnIds(u)
        BY <2>10, <3>1
      <4> QED BY <2>5, <3>1, <3>3, <4>1, FailSessionCloses DEF Handled
    <3> QED BY <2>12, <3>2, <3>3 DEF u
  <2> QED BY <2>6, <2>7, <2>8, <2>9, <2>11, <2>12
<1> QED BY <1>1, <1>2

LEMMA OnSocketWritableKeeps ==
    ASSUME NEW n, NEW S, NodeOk(n, {}, S), NEW c \in ConnIds(n),
           n.connections[c].state # "Absent", NEW q \in OnSocketWritable(n, c)
    PROVE  Handled(n, q, c, S)
<1>1. q = n \/ (IsActive(n.connections[c]) /\ q = FailSession(n, c))
  BY DEF OnSocketWritable
<1>2. CASE q = n
  BY <1>2 DEF Handled
<1>3. CASE IsActive(n.connections[c]) /\ q = FailSession(n, c)
  <2>1. n.connections[c].state \in {"Securing", "Ready"}
    BY <1>3 DEF IsActive, NodeOk, SocketsOk
  <2> QED BY <1>3, <2>1, FailSessionCloses DEF Handled
<1> QED BY <1>1, <1>2, <1>3

LEMMA CloseSessionKeeps ==
    ASSUME NEW n, NEW S, NodeOk(n, {}, S), NEW c \in ConnIds(n),
           n.connections[c].state # "Absent"
    PROVE  Handled(n, CloseSession(n, c), c, S)
<1>1. n.connections[c] \in SessionRec
  BY NodeTyped, SessionTyped
<1>2. CASE n.connections[c].state = "Closed"
  BY <1>2 DEF CloseSession, Handled
<1>3. CASE n.connections[c].state \in {"Securing", "Ready"}
  BY <1>3, CloseSessionCloses DEF Handled
<1> QED BY <1>1, <1>2, <1>3 DEF SessionRec

LEMMA OnConnectionEventsKeeps ==
    ASSUME NEW n, NEW S, NodeOk(n, {}, S), NEW f \in Fd, NEW evs,
           NEW q \in OnConnectionEvents(n, f, evs)
    PROVE  NodeOk(q, {}, S) /\ ConnIds(q) = ConnIds(n)
<1> DEFINE c == n.fd_to_conn[f]
           read == IF "in" \in evs THEN OnSocketReadable(n, c) ELSE {n}
           written == IF "out" \in evs THEN UNION {OnSocketWritable(m, c) : m \in read}
                      ELSE read
<1>1. CASE c = 0 \/ n.connections[c].state = "Absent"
  BY <1>1 DEF OnConnectionEvents
<1>2. CASE ~(c = 0 \/ n.connections[c].state = "Absent")
  <2>1. n \in NodeRec /\ c \in 0 .. Len(n.connections)
    BY DEF NodeOk, Typed
  <2>2. n.connections \in Seq(SessionRec)
    BY <2>1 DEF NodeRec
  <2>3. c \in ConnIds(n)
    BY <1>2, <2>1, <2>2 DEF ConnIds
  <2>4. \A m \in read : Handled(n, m, c, S)
    <3>1. Handled(n, n, c, S)
      BY <1>2 DEF Handled
    <3> QED BY <1>2, <2>3, <3>1, OnSocketReadableKeeps
  <2> HIDE DEF c, read
  <2>5. \A m \in written : Handled(n, m, c, S)
    <3>1. ASSUME NEW m \in read, NEW w \in OnSocketWritable(m, c)
          PROVE  Handled(n, w, c, S)
      <4>1. Handled(n, m, c, S)
        BY <2>4
      <4>2. Handled(m, w, c, S)
        BY <2>3, <4>1, OnSocketWritableKeeps DEF Handled
      <4> QED BY <4>1, <4>2 DEF Handled
    <3> QED BY <2>4, <3>1
  <2> HIDE DEF written
  <2>6. ASSUME NEW m \in written
        PROVE  Handled(n, CloseSession(m, c), c, S)
    <3>1. Handled(n, m, c, S)
      BY <2>5
    <3>2. Handled(m, CloseSession(m, c), c, S)
      BY <2>3, <3>1, CloseSessionKeeps DEF Handled
    <3> QED BY <3>1, <3>2 DEF Handled
  <2>7. q \in written \/ \E m \in written : q = CloseSession(m, c)
    BY <1>2 DEF OnConnectionEvents, written, read, c
  <2> QED BY <2>5, <2>6, <2>7 DEF Handled
<1> QED BY <1>1, <1>2

----------------------------------------------------------------------------
(* The events of a connection reach the Swarm.                             *)

\* handle_connection_event writes down at most one report and one route.
LEMMA TellStep ==
    ASSUME NEW n \in NodeRec, NEW c \in DOMAIN n.story, NEW ev \in Report
    PROVE  LET q == Tell(n, c, ev) IN
           /\ q \in NodeRec
           /\ q.story = [n.story EXCEPT ![c] = Append(@, ev)]
           /\ q.connections = n.connections /\ q.conn_fds = n.conn_fds
           /\ q.fd_to_conn = n.fd_to_conn
           /\ SameSockets(q, n) /\ SameTransport(q, n) /\ SameDials(q, n)
           /\ SameRoutes(q, n)
<1> DEFINE one == Append(n.story[c], ev)
           st == [n.story EXCEPT ![c] = one]
<1>1. n.story \in Seq(Seq(Report)) /\ c \in 1 .. Len(n.story)
  BY DEF NodeRec
<1>2. one \in Seq(Report)
  BY <1>1
<1>3. st \in Seq(Seq(Report))
  <2> HIDE DEF one
  <2> QED BY <1>1, <1>2, ExceptSeq
<1>4. Tell(n, c, ev) = [n EXCEPT !.story = st]
  BY DEF Tell, NodeRec
<1>5. st = [n.story EXCEPT ![c] = Append(@, ev)]
  OBVIOUS
<1> HIDE DEF st
<1> QED BY <1>3, <1>4, <1>5
        DEF NodeRec, SameSockets, SameTransport, SameDials, SameRoutes

LEMMA SetRoute ==
    ASSUME NEW n \in NodeRec, NEW pc1 \in [Peers -> Nat], NEW cp1 \in Seq(PeerOpt)
    PROVE  LET q == [n EXCEPT !.peer_connections = pc1, !.connection_peers = cp1] IN
           /\ q \in NodeRec
           /\ q.peer_connections = pc1 /\ q.connection_peers = cp1
           /\ SameConnections(q, n)
           /\ SameSockets(q, n) /\ SameTransport(q, n) /\ SameDials(q, n)
BY DEF NodeRec, SameSockets, SameTransport, SameDials, SameConnections

LEMMA NewRoute ==
    ASSUME NEW n, n \in NodeRec, NEW p \in Peers, NEW c \in Nat, c \in DOMAIN n.connection_peers
    PROVE  LET q == [n EXCEPT !.peer_connections[p] = c, !.connection_peers[c] = p] IN
           /\ q \in NodeRec
           /\ q.peer_connections = [n.peer_connections EXCEPT ![p] = c]
           /\ q.connection_peers = [n.connection_peers EXCEPT ![c] = p]
           /\ SameConnections(q, n)
           /\ SameSockets(q, n) /\ SameTransport(q, n) /\ SameDials(q, n)
<1> DEFINE a == [n.peer_connections EXCEPT ![p] = c]
           b == [n.connection_peers EXCEPT ![c] = p]
<1>1. n.peer_connections \in [Peers -> Nat] /\ n.connection_peers \in Seq(PeerOpt)
  BY DEF NodeRec
<1>2. a \in [Peers -> Nat]
  BY <1>1
<1>3. b \in Seq(PeerOpt)
  <2>1. p \in PeerOpt /\ c \in 1 .. Len(n.connection_peers)
    BY <1>1 DEF PeerOpt
  <2> QED BY <1>1, <2>1, ExceptSeq
<1>4. [n EXCEPT !.peer_connections[p] = c, !.connection_peers[c] = p]
        = [n EXCEPT !.peer_connections = a, !.connection_peers = b]
  BY DEF NodeRec
<1>5. LET q == [n EXCEPT !.peer_connections = a, !.connection_peers = b] IN
      /\ q \in NodeRec
      /\ q.peer_connections = a /\ q.connection_peers = b
      /\ SameConnections(q, n)
      /\ SameSockets(q, n) /\ SameTransport(q, n) /\ SameDials(q, n)
  <2> HIDE DEF a, b
  <2> QED BY <1>2, <1>3, SetRoute
<1> QED BY <1>4, <1>5

\* The reports and routes of one event ev of connection c, of peer p.
Noted(n, q, c, ev, p) ==
    /\ q \in NodeRec /\ q.connections = n.connections
    /\ q.conn_fds = n.conn_fds /\ q.fd_to_conn = n.fd_to_conn
    /\ SameSockets(q, n) /\ SameTransport(q, n) /\ SameDials(q, n)
    /\ \/ ev = "Secured" /\ q.story = n.story
       \/ \E x \in Report : /\ q.story = [n.story EXCEPT ![c] = Append(@, x)]
                            /\ (x = "ConnectionClosed") <=> (ev = "Closed")
    /\ \/ SameRoutes(q, n)
       \/ /\ ev = "Secured" /\ p \in Peers
          /\ q.peer_connections = [n.peer_connections EXCEPT ![p] = c]
          /\ q.connection_peers = [n.connection_peers EXCEPT ![c] = p]

LEMMA HandleConnectionEventStep ==
    ASSUME NEW n, n \in NodeRec, NEW c \in ConnIds(n), NEW ev \in Event,
           Len(n.story) = Len(n.connections), Len(n.connection_peers) = Len(n.connections)
    PROVE  Noted(n, HandleConnectionEvent(n, c, ev), c, ev, n.connections[c].peer)
<1> DEFINE p == n.connections[c].peer
           m == [n EXCEPT !.peer_connections[p] = c, !.connection_peers[c] = p]
<1>1. /\ n.connections[c] \in SessionRec /\ c \in 1 .. Len(n.connections)
      /\ n.connections \in Seq(SessionRec)
  BY SessionTyped
<1>2. c \in DOMAIN n.story /\ c \in DOMAIN n.connection_peers /\ c \in Nat
  <2>1. n.story \in Seq(Seq(Report)) /\ n.connection_peers \in Seq(PeerOpt)
    BY DEF NodeRec
  <2> QED BY <1>1, <2>1
<1>3. p \in PeerOpt
  BY <1>1 DEF SessionRec
<1>4. \A x \in Report : LET q == Tell(n, c, x) IN
           /\ q \in NodeRec
           /\ q.story = [n.story EXCEPT ![c] = Append(@, x)]
           /\ q.connections = n.connections /\ q.conn_fds = n.conn_fds
           /\ q.fd_to_conn = n.fd_to_conn
           /\ SameSockets(q, n) /\ SameTransport(q, n) /\ SameDials(q, n)
           /\ SameRoutes(q, n)
  BY <1>2, TellStep
<1> HIDE DEF p
<1>5. CASE ev = "Secured"
  <2>1. CASE p = NoPeer
    <3>1. HandleConnectionEvent(n, c, ev) = n
      BY <1>5, <2>1 DEF HandleConnectionEvent, p
    <3> QED BY <1>5, <3>1
            DEF Noted, SameSockets, SameTransport, SameDials, SameRoutes
  <2>2. CASE p # NoPeer
    <3>1. HandleConnectionEvent(n, c, ev) = Tell(m, c, "PeerIdentified")
      BY <1>5, <2>2 DEF HandleConnectionEvent, p
    <3>2. p \in Peers
      BY <1>3, <2>2 DEF PeerOpt
    <3>3. /\ m \in NodeRec
          /\ m.peer_connections = [n.peer_connections EXCEPT ![p] = c]
          /\ m.connection_peers = [n.connection_peers EXCEPT ![c] = p]
          /\ SameConnections(m, n)
          /\ SameSockets(m, n) /\ SameTransport(m, n) /\ SameDials(m, n)
      BY <1>2, <3>2, NewRoute
    <3> HIDE DEF m
    <3>4. "PeerIdentified" \in Report /\ c \in DOMAIN m.story
      BY <1>2, <3>3 DEF Report, SameConnections
    <3>5. LET q == Tell(m, c, "PeerIdentified") IN
           /\ q \in NodeRec
           /\ q.story = [m.story EXCEPT ![c] = Append(@, "PeerIdentified")]
           /\ q.connections = m.connections /\ q.conn_fds = m.conn_fds
           /\ q.fd_to_conn = m.fd_to_conn
           /\ SameSockets(q, m) /\ SameTransport(q, m) /\ SameDials(q, m)
           /\ SameRoutes(q, m)
      BY <3>3, <3>4, TellStep
    <3> QED BY ZenonT(30), <1>5, <3>1, <3>2, <3>3, <3>4, <3>5
            DEF Noted, SameSockets, SameTransport, SameDials, SameRoutes, SameConnections, p
  <2> QED BY <2>1, <2>2
<1>6. CASE ev = "MultiplexerReady"
  <2>1. HandleConnectionEvent(n, c, ev) = Tell(n, c, "ConnectionEstablished")
    BY <1>6 DEF HandleConnectionEvent
  <2>2. "ConnectionEstablished" \in Report
    BY DEF Report
  <2> QED BY <1>4, <1>6, <2>1, <2>2 DEF Noted
<1>7. CASE ev = "Error"
  <2>1. HandleConnectionEvent(n, c, ev) = Tell(n, c, "ProtocolError")
    BY <1>7 DEF HandleConnectionEvent
  <2>2. "ProtocolError" \in Report
    BY DEF Report
  <2> QED BY <1>4, <1>7, <2>1, <2>2 DEF Noted
<1>8. CASE ev = "Closed"
  <2>1. HandleConnectionEvent(n, c, ev) = Tell(n, c, "ConnectionClosed")
    BY <1>8 DEF HandleConnectionEvent
  <2>2. "ConnectionClosed" \in Report
    BY DEF Report
  <2> QED BY <1>4, <1>8, <2>1, <2>2 DEF Noted
<1> QED BY <1>5, <1>6, <1>7, <1>8 DEF Event

\* What the end of a sequence tells.
LEMMA AppendEnds ==
    ASSUME NEW T, NEW s \in Seq(T), NEW x \in T
    PROVE  /\ Append(s, x) \in Seq(T) /\ Len(Append(s, x)) = Len(s) + 1
           /\ DOMAIN Append(s, x) = 1 .. Len(s) + 1 /\ DOMAIN s = 1 .. Len(s)
           /\ Len(s) \in Nat
           /\ \A i \in DOMAIN s : Append(s, x)[i] = s[i]
           /\ Append(s, x)[Len(s) + 1] = x
           /\ \A y : Ends(Append(s, x), y) <=> x = y
<1>1. /\ Append(s, x) \in Seq(T) /\ Len(Append(s, x)) = Len(s) + 1
      /\ DOMAIN s = 1 .. Len(s) /\ Len(s) \in Nat
      /\ \A i \in DOMAIN s : Append(s, x)[i] = s[i]
      /\ Append(s, x)[Len(s) + 1] = x
  BY AppendProperties
<1>2. DOMAIN Append(s, x) = 1 .. Len(s) + 1
  BY <1>1
<1> DEFINE a == Append(s, x)
<1> HIDE DEF a
<1>3. \A y : Ends(a, y) <=> x = y
  BY <1>1 DEF Ends, a
<1> QED BY <1>1, <1>2, <1>3 DEF a

LEMMA TailEvents ==
    ASSUME NEW s \in Seq(Event), Len(s) > 0
    PROVE  /\ Head(s) = s[1] /\ Head(s) \in Event /\ 1 \in DOMAIN s
           /\ Tail(s) \in Seq(Event) /\ Len(Tail(s)) = Len(s) - 1
           /\ \A i \in DOMAIN Tail(s) : i + 1 \in DOMAIN s /\ Tail(s)[i] = s[i + 1]
<1>1. /\ Tail(s) \in Seq(Event) /\ Len(Tail(s)) = Len(s) - 1
      /\ \A i \in 1 .. Len(Tail(s)) : Tail(s)[i] = s[i+1]
      /\ Head(s) \in Event
  BY HeadTailProperties
<1>2. Head(s) = s[1] /\ 1 \in DOMAIN s
  OBVIOUS
<1>3. DOMAIN Tail(s) = 1 .. Len(s) - 1 /\ DOMAIN s = 1 .. Len(s) /\ Len(s) \in Nat
  BY <1>1
<1> QED BY <1>1, <1>2, <1>3

LEMMA NoEvents ==
    ASSUME NEW s \in Seq(Event)
    PROVE  s = <<>> <=> Len(s) = 0
BY EmptySeq, SeqEqual

\* The record of a session whose first event was taken.
LEMMA TakeEvent ==
    ASSUME NEW s \in SessionRec, Len(s.events) > 0
    PROVE  LET r == [s EXCEPT !.events = Tail(@)] IN
           /\ r \in SessionRec /\ r.events = Tail(s.events)
           /\ r.state = s.state /\ r.fd = s.fd /\ r.open = s.open /\ r.peer = s.peer
<1> DEFINE t == Tail(s.events)
<1>1. s.events \in Seq(Event)
  BY DEF SessionRec
<1>2. t \in Seq(Event)
  BY <1>1, TailEvents
<1>3. [s EXCEPT !.events = Tail(@)] = [s EXCEPT !.events = t]
  BY DEF SessionRec
<1> HIDE DEF t
<1>4. LET r == [s EXCEPT !.events = t] IN
           /\ r \in SessionRec /\ r.events = t
           /\ r.state = s.state /\ r.fd = s.fd /\ r.open = s.open /\ r.peer = s.peer
  BY <1>2 DEF SessionRec
<1> QED BY <1>3, <1>4 DEF t

\* A session's events and its story after an event ev is taken.
LEMMA StoryGoesOn ==
    ASSUME NEW n, NEW S, NEW O, NodeOk(n, O, S), NEW c \in ConnIds(n),
           Len(n.connections[c].events) > 0, NEW st,
           LET s == n.connections[c] IN
           \/ Head(s.events) = "Secured" /\ st = n.story[c]
           \/ \E x \in Report : /\ st = Append(n.story[c], x)
                                /\ (x = "ConnectionClosed") <=> (Head(s.events) = "Closed"),
           NEW T, T = IF Head(n.connections[c].events) = "Closed" THEN S \cup {c} ELSE S
    PROVE  LET s == n.connections[c]
               evs == Tail(s.events)
           IN /\ s.state # "Absent"
              /\ \A i \in DOMAIN evs :
                    /\ evs[i] = "Closed" => i = Len(evs) /\ s.state = "Closed"
                    /\ evs[i] = "Secured" => s.state # "Securing"
              /\ \A i \in DOMAIN st : st[i] = "ConnectionClosed" =>
                    i = Len(st) /\ evs = <<>> /\ s.state = "Closed" /\ c \in T
              /\ s.state = "Closed" => Ends(evs, "Closed") \/ Ends(st, "ConnectionClosed")
              /\ c \in T => Ends(st, "ConnectionClosed")
<1> DEFINE s == n.connections[c]
           evs == Tail(s.events)
           ev == Head(s.events)
<1>1. s \in SessionRec
  BY NodeTyped, SessionTyped
<1>2. s.events \in Seq(Event) /\ Len(s.events) > 0 /\ Len(s.events) \in Nat
  BY <1>1 DEF SessionRec
<1>3. n.story[c] \in Seq(Report)
  <2>1. n.story \in Seq(Seq(Report)) /\ Len(n.story) = Len(n.connections)
    BY DEF NodeOk, Typed, NodeRec
  <2>2. c \in 1 .. Len(n.connections)
    BY NodeTyped, SessionTyped
  <2> QED BY <2>1, <2>2
<1>4. s.state # "Absent"
  <2>1. NoSession.events = <<>> /\ Len(<<>>) = 0
    BY DEF NoSession
  <2> QED BY <1>2, <2>1 DEF NodeOk, StoryOk
<1>5. \A i \in DOMAIN n.story[c] : n.story[c][i] # "ConnectionClosed"
  <2>1. s.events # <<>>
    BY <1>2, NoEvents
  <2> QED BY <2>1 DEF NodeOk, StoryOk
<1>6. \A i \in DOMAIN s.events :
         /\ s.events[i] = "Closed" => i = Len(s.events) /\ s.state = "Closed"
         /\ s.events[i] = "Secured" => s.state # "Securing"
  BY DEF NodeOk, StoryOk
<1>7. ~Ends(n.story[c], "ConnectionClosed")
  BY <1>3, <1>5 DEF Ends
<1>8. c \notin S
  BY <1>7 DEF NodeOk, StoryOk
<1>9. s.state = "Closed" => Ends(s.events, "Closed")
  BY <1>7 DEF NodeOk, StoryOk
<1>10. /\ ev = s.events[1] /\ ev \in Event /\ 1 \in DOMAIN s.events
       /\ evs \in Seq(Event) /\ Len(evs) = Len(s.events) - 1
       /\ \A i \in DOMAIN evs : i + 1 \in DOMAIN s.events /\ evs[i] = s.events[i + 1]
  BY <1>2, TailEvents
<1>11. \/ ev = "Secured" /\ st = n.story[c]
       \/ \E x \in Report : /\ st = Append(n.story[c], x)
                            /\ (x = "ConnectionClosed") <=> (ev = "Closed")
  OBVIOUS
<1>12. T = IF ev = "Closed" THEN S \cup {c} ELSE S
  OBVIOUS
<1> HIDE DEF s, evs, ev
<1>13. /\ Len(evs) \in Nat /\ DOMAIN evs = 1 .. Len(evs)
  BY <1>10
<1>14. \A i \in DOMAIN evs :
          /\ evs[i] = "Closed" => i = Len(evs) /\ s.state = "Closed"
          /\ evs[i] = "Secured" => s.state # "Securing"
  BY <1>2, <1>6, <1>10, <1>13
<1>15. CASE ev # "Closed"
  <2>1. \A i \in DOMAIN st : st[i] # "ConnectionClosed"
    <3>1. CASE st = n.story[c]
      BY <1>5, <3>1
    <3>2. ASSUME NEW x \in Report, st = Append(n.story[c], x), x # "ConnectionClosed"
          PROVE  \A i \in DOMAIN st : st[i] # "ConnectionClosed"
      <4>1. /\ DOMAIN st = 1 .. Len(n.story[c]) + 1 /\ DOMAIN n.story[c] = 1 .. Len(n.story[c])
            /\ Len(n.story[c]) \in Nat
            /\ \A i \in DOMAIN n.story[c] : st[i] = n.story[c][i]
            /\ st[Len(n.story[c]) + 1] = x
        BY SMTT(30), <1>3, <3>2, AppendEnds
      <4> QED BY <1>5, <3>2, <4>1
    <3> QED BY <1>11, <1>15, <3>1, <3>2
  <2>2. c \notin T
    BY <1>8, <1>12, <1>15
  <2>3. ASSUME s.state = "Closed"
        PROVE  Ends(evs, "Closed")
    <3>1. Len(s.events) > 0 /\ s.events[Len(s.events)] = "Closed"
      BY <1>9, <2>3 DEF Ends
    <3>2. Len(s.events) # 1
      BY <1>10, <1>15, <3>1
    <3>3. Len(evs) \in DOMAIN evs /\ Len(evs) > 0 /\ Len(evs) + 1 = Len(s.events)
      <4>1. Len(evs) = Len(s.events) - 1
        BY <1>10
      <4>2. Len(s.events) \in Nat /\ Len(s.events) > 0 /\ DOMAIN evs = 1 .. Len(evs)
        BY <1>2, <1>13
      <4>3. Len(evs) > 0 /\ Len(evs) + 1 = Len(s.events) /\ Len(evs) \in Nat
        <5>1. \A k, l \in Nat : (l > 0 /\ l # 1 /\ k = l - 1) => k > 0 /\ k + 1 = l
          OBVIOUS
        <5>2. Len(evs) \in Nat
          BY <1>13
        <5> QED BY <3>2, <4>1, <4>2, <5>1, <5>2
      <4>4. Len(evs) \in 1 .. Len(evs)
        BY <4>3
      <4> QED BY <4>2, <4>3, <4>4
    <3> QED BY <1>10, <3>1, <3>3 DEF Ends
  <2> QED BY <1>4, <1>14, <2>1, <2>2, <2>3 DEF s, evs
<1>16. CASE ev = "Closed"
  <2>1. Len(s.events) = 1 /\ s.state = "Closed"
    BY <1>6, <1>10, <1>16
  <2>2. evs = <<>>
    BY <1>10, <2>1, NoEvents
  <2>3. st = Append(n.story[c], "ConnectionClosed") /\ "ConnectionClosed" \in Report
    BY <1>11, <1>16
  <2>4. /\ DOMAIN st = 1 .. Len(n.story[c]) + 1 /\ DOMAIN n.story[c] = 1 .. Len(n.story[c])
        /\ Len(n.story[c]) \in Nat /\ Len(st) = Len(n.story[c]) + 1
        /\ \A i \in DOMAIN n.story[c] : st[i] = n.story[c][i]
        /\ Ends(st, "ConnectionClosed")
    BY <1>3, <2>3, AppendEnds
  <2>5. \A i \in DOMAIN st : st[i] = "ConnectionClosed" => i = Len(st)
    BY <1>5, <2>4
  <2>6. c \in T
    BY <1>12, <1>16
  <2> QED BY <1>4, <1>14, <2>1, <2>2, <2>4, <2>5, <2>6 DEF s, evs
<1> QED BY <1>15, <1>16

\* One turn of the loop that drains connection c.
LEMMA DrainEventKeeps ==
    ASSUME NEW n, NEW S, NodeOk(n, {}, S), NEW c \in ConnIds(n),
           Len(n.connections[c].events) > 0,
           NEW T, T = IF NextEvent(n, c) = "Closed" THEN S \cup {c} ELSE S
    PROVE  NodeOk(DrainEvent(n, c), {}, T) /\ ConnIds(DrainEvent(n, c)) = ConnIds(n)
<1> DEFINE s == n.connections[c]
           r == [s EXCEPT !.events = Tail(@)]
           ev == NextEvent(n, c)
           cs == [n.connections EXCEPT ![c] = r]
           m == [n EXCEPT !.connections = cs]
           q == DrainEvent(n, c)
<1>1. n \in NodeRec /\ s \in SessionRec /\ n.connections \in Seq(SessionRec)
      /\ c \in 1 .. Len(n.connections)
  BY NodeTyped, SessionTyped
<1>2. /\ r \in SessionRec /\ r.events = Tail(s.events)
      /\ r.state = s.state /\ r.fd = s.fd /\ r.open = s.open /\ r.peer = s.peer
  BY <1>1, TakeEvent
<1>3. s.events \in Seq(Event) /\ ev = Head(s.events) /\ ev \in Event
  <2>1. s.events \in Seq(Event)
    BY <1>1 DEF SessionRec
  <2>2. Len(s.events) > 0
    OBVIOUS
  <2> HIDE DEF s
  <2> QED BY <2>1, <2>2, TailEvents DEF NextEvent, s
<1>4. q = HandleConnectionEvent(m, c, ev)
  <2>1. [n EXCEPT !.connections[c].events = Tail(@)] = m
    BY <1>1 DEF NodeRec
  <2> QED BY <2>1 DEF DrainEvent
<1> HIDE DEF r
<1>5. /\ cs \in Seq(SessionRec) /\ Len(cs) = Len(n.connections) /\ cs[c] = r
      /\ \A e \in 1 .. Len(n.connections) : cs[e] = IF e = c THEN r ELSE n.connections[e]
  BY <1>1, <1>2, ExceptSeq
<1> HIDE DEF cs
<1>6. /\ m \in NodeRec /\ m.connections = cs /\ m.story = n.story
      /\ m.conn_fds = n.conn_fds /\ m.fd_to_conn = n.fd_to_conn
      /\ SameSockets(m, n) /\ SameTransport(m, n) /\ SameDials(m, n)
      /\ SameRoutes(m, n)
  BY <1>1, <1>5, SetConnections
<1>7. /\ Len(n.story) = Len(n.connections) /\ Len(n.connection_peers) = Len(n.connections)
      /\ Len(n.conn_fds) = Len(n.connections)
  BY DEF NodeOk, Typed
<1> HIDE DEF m, q
<1>8. Noted(m, q, c, ev, r.peer)
  <2>1. Len(m.story) = Len(m.connections) /\ Len(m.connection_peers) = Len(m.connections)
    BY <1>5, <1>6, <1>7 DEF SameRoutes
  <2>2. c \in ConnIds(m) /\ m.connections[c] = r
    BY <1>1, <1>5, <1>6 DEF ConnIds
  <2> QED BY <1>3, <1>4, <1>6, <2>1, <2>2, HandleConnectionEventStep
<1>9. /\ q \in NodeRec /\ q.connections = cs
      /\ q.conn_fds = n.conn_fds /\ q.fd_to_conn = n.fd_to_conn
      /\ SameSockets(q, n) /\ SameTransport(q, n) /\ SameDials(q, n)
  BY <1>6, <1>8 DEF Noted, SameSockets, SameTransport, SameDials
<1>10. ConnIds(q) = ConnIds(n) /\ ConnIds(n) = 1 .. Len(n.connections)
  BY <1>1, <1>5, <1>9 DEF ConnIds
<1>11. \A e \in ConnIds(n) : q.connections[e] = IF e = c THEN r ELSE n.connections[e]
  BY <1>5, <1>9, <1>10
<1>12. n.story \in Seq(Seq(Report))
  BY <1>1 DEF NodeRec
<1> DEFINE Told ==
              /\ Len(q.story) = Len(n.story)
              /\ \A e \in ConnIds(n) : e # c => q.story[e] = n.story[e]
              /\ \/ ev = "Secured" /\ q.story[c] = n.story[c]
                 \/ \E x \in Report : /\ q.story[c] = Append(n.story[c], x)
                                      /\ (x = "ConnectionClosed") <=> (ev = "Closed")
<1>13. Told
  <2>1. CASE ev = "Secured" /\ q.story = m.story
    BY <1>6, <2>1
  <2>2. ASSUME NEW x \in Report, q.story = [m.story EXCEPT ![c] = Append(@, x)],
               (x = "ConnectionClosed") <=> (ev = "Closed")
        PROVE  Told
    <3> DEFINE one == Append(n.story[c], x)
    <3>1. one \in Seq(Report) /\ c \in 1 .. Len(n.story)
      BY <1>1, <1>7, <1>12
    <3>2. q.story = [n.story EXCEPT ![c] = one]
      BY <1>6, <2>2
    <3> HIDE DEF one
    <3>3. Len(q.story) = Len(n.story)
          /\ \A j \in 1 .. Len(n.story) : q.story[j] = IF j = c THEN one ELSE n.story[j]
      BY <1>12, <3>1, <3>2, ExceptSeq
    <3> QED BY <1>1, <1>7, <1>10, <2>2, <3>1, <3>3 DEF one
  <2> QED BY <1>8, <2>1, <2>2 DEF Noted
<1>14. \/ SameRoutes(q, n)
       \/ /\ r.peer \in Peers /\ ev = "Secured"
          /\ q.peer_connections = [n.peer_connections EXCEPT ![r.peer] = c]
          /\ q.connection_peers = [n.connection_peers EXCEPT ![c] = r.peer]
  BY <1>6, <1>8 DEF Noted, SameRoutes
<1>15. /\ n.peer_connections \in [Peers -> Nat] /\ n.connection_peers \in Seq(PeerOpt)
       /\ \A p \in Peers : n.peer_connections[p] \in 0 .. Len(n.connections)
  BY <1>1 DEF NodeOk, Typed, NodeRec
<1>16. /\ Len(q.connection_peers) = Len(n.connections)
       /\ \A p \in Peers : q.peer_connections[p] \in 0 .. Len(n.connections)
       /\ \A p \in Peers : \/ /\ q.peer_connections[p] = c /\ r.peer = p /\ ev = "Secured"
                              /\ q.connection_peers[c] = p
                           \/ /\ q.peer_connections[p] = n.peer_connections[p]
                              /\ \/ q.connection_peers = n.connection_peers
                                 \/ r.peer # p /\ \A e \in ConnIds(n) : e # c =>
                                                    q.connection_peers[e] = n.connection_peers[e]
  <2>1. CASE SameRoutes(q, n)
    BY <1>7, <1>15, <2>1 DEF SameRoutes
  <2>2. CASE /\ r.peer \in Peers /\ ev = "Secured"
             /\ q.peer_connections = [n.peer_connections EXCEPT ![r.peer] = c]
             /\ q.connection_peers = [n.connection_peers EXCEPT ![c] = r.peer]
    <3>1. r.peer \in PeerOpt /\ c \in 1 .. Len(n.connection_peers)
      BY <1>1, <1>7, <2>2 DEF PeerOpt
    <3>2. /\ Len(q.connection_peers) = Len(n.connection_peers)
          /\ \A j \in 1 .. Len(n.connection_peers) :
                q.connection_peers[j] = IF j = c THEN r.peer ELSE n.connection_peers[j]
      BY <1>15, <2>2, <3>1, ExceptSeq
    <3>3. \A p \in Peers : q.peer_connections[p] = IF p = r.peer THEN c ELSE n.peer_connections[p]
      BY <1>15, <2>2
    <3>4. c \in 0 .. Len(n.connections)
      BY <1>1
    <3> QED BY <1>1, <1>7, <1>10, <1>15, <2>2, <3>2, <3>3, <3>4
  <2> QED BY <1>14, <2>1, <2>2
<1>17. Typed(q)
  BY <1>5, <1>7, <1>9, <1>13, <1>16 DEF NodeOk, Typed, SameDials
<1>18. DialsOk(q)
  BY <1>9 DEF NodeOk, DialsOk, SameTransport, SameDials
<1>19. SocketsOk(q, {})
  BY SMTT(30), <1>2, <1>9, <1>10, <1>11 DEF NodeOk, SocketsOk, Owns, SameSockets, SameTransport
<1>20. WatchOk(q, {})
  BY <1>9 DEF NodeOk, WatchOk, SameSockets, SameTransport, Typed, NodeRec
<1>21. RoutesOk(q)
  <2> SUFFICES ASSUME NEW p \in Peers, q.peer_connections[p] # 0
               PROVE  LET e == q.peer_connections[p] IN
                      /\ q.connections[e].state \in {"Ready", "Closed"}
                      /\ q.connections[e].peer = p /\ q.connection_peers[e] = p
    BY DEF RoutesOk
  <2>1. CASE /\ q.peer_connections[p] = c /\ r.peer = p /\ ev = "Secured"
             /\ q.connection_peers[c] = p
    <3>1. q.connections[c] = r
      BY <1>11
    <3>2. s.events[1] = "Secured" /\ 1 \in DOMAIN s.events
      BY <1>3, <2>1, TailEvents
    <3>3. s.state # "Securing"
      BY <3>2 DEF NodeOk, StoryOk
    <3>4. s.state # "Absent"
      <4>1. NoSession.events = <<>> /\ Len(<<>>) = 0
        BY DEF NoSession
      <4> QED BY <4>1 DEF NodeOk, StoryOk
    <3>5. s.state \in {"Absent", "Securing", "Ready", "Closed"}
      BY <1>1 DEF SessionRec
    <3> HIDE DEF s
    <3> QED BY <1>2, <2>1, <3>1, <3>3, <3>4, <3>5
  <2>2. CASE /\ q.peer_connections[p] = n.peer_connections[p]
             /\ \/ q.connection_peers = n.connection_peers
                \/ r.peer # p /\ \A e \in ConnIds(n) : e # c =>
                                   q.connection_peers[e] = n.connection_peers[e]
    <3> DEFINE e == n.peer_connections[p]
    <3>1. e # 0 /\ e \in ConnIds(n)
      BY <1>10, <1>15, <2>2
    <3>2. /\ n.connections[e].state \in {"Ready", "Closed"}
          /\ n.connections[e].peer = p /\ n.connection_peers[e] = p
      BY <3>1 DEF NodeOk, RoutesOk
    <3>3. q.connections[e].state = n.connections[e].state
          /\ q.connections[e].peer = n.connections[e].peer
      BY <1>2, <1>11, <3>1
    <3>4. q.connection_peers[e] = p
      BY <1>2, <2>2, <3>1, <3>2
    <3> QED BY <2>2, <3>2, <3>3, <3>4
  <2> QED BY <1>16, <2>1, <2>2
<1>22. StoryOk(q, T)
  <2> DEFINE st == q.story[c]
             evs == Tail(s.events)
  <2>1. T = IF ev = "Closed" THEN S \cup {c} ELSE S
    OBVIOUS
  <2>2. /\ s.state # "Absent"
        /\ \A i \in DOMAIN evs :
              /\ evs[i] = "Closed" => i = Len(evs) /\ s.state = "Closed"
              /\ evs[i] = "Secured" => s.state # "Securing"
        /\ \A i \in DOMAIN st : st[i] = "ConnectionClosed" =>
              i = Len(st) /\ evs = <<>> /\ s.state = "Closed" /\ c \in T
        /\ s.state = "Closed" => Ends(evs, "Closed") \/ Ends(st, "ConnectionClosed")
        /\ c \in T => Ends(st, "ConnectionClosed")
    <3>1. \/ Head(s.events) = "Secured" /\ st = n.story[c]
          \/ \E x \in Report : /\ st = Append(n.story[c], x)
                               /\ (x = "ConnectionClosed") <=> (Head(s.events) = "Closed")
      BY <1>3, <1>13
    <3>2. T = IF Head(s.events) = "Closed" THEN S \cup {c} ELSE S
      BY <1>3, <2>1
    <3> HIDE DEF st
    <3> QED BY <3>1, <3>2, StoryGoesOn
  <2>3. q.connections[c] = r /\ r.events = evs /\ r.state = s.state
    BY <1>2, <1>11
  <2>4. q.stops = n.stops /\ \A e \in ConnIds(n) : e # c => (e \in T <=> e \in S)
    BY <1>9, <2>1 DEF SameDials
  <2>5. \A e \in ConnIds(n) : e # c =>
           q.connections[e] = n.connections[e] /\ q.story[e] = n.story[e]
    BY <1>11, <1>13
  <2> HIDE DEF s, ev
  <2> DEFINE Good(e) ==
       LET x == q.connections[e] IN
       /\ x.state = "Absent" => x = NoSession
       /\ \A i \in DOMAIN x.events :
             /\ x.events[i] = "Closed" => i = Len(x.events) /\ x.state = "Closed"
             /\ x.events[i] = "Secured" => x.state # "Securing"
       /\ \A i \in DOMAIN q.story[e] : q.story[e][i] = "ConnectionClosed" =>
             /\ i = Len(q.story[e]) /\ x.events = <<>>
             /\ x.state = "Absent" \/ (x.state = "Closed" /\ e \in T)
       /\ x.state = "Closed" =>
             Ends(x.events, "Closed") \/ Ends(q.story[e], "ConnectionClosed")
       /\ (x.state = "Absent" /\ q.stops = 0) => Ends(q.story[e], "ConnectionClosed")
       /\ e \in T => Ends(q.story[e], "ConnectionClosed")
  <2>6. Good(c)
    BY <2>2, <2>3
  <2>7. ASSUME NEW e \in ConnIds(n), e # c PROVE Good(e)
    BY <2>4, <2>5, <2>7 DEF NodeOk, StoryOk
  <2> HIDE DEF Good
  <2>8. \A e \in ConnIds(q) : Good(e)
    BY <1>10, <2>6, <2>7
  <2> QED BY <2>8 DEF StoryOk, Good
<1> QED BY <1>10, <1>17, <1>18, <1>19, <1>20, <1>21, <1>22 DEF NodeOk, q

----------------------------------------------------------------------------
(* Connections that come and go.                                           *)

LEMMA NoSessionTyped == NoSession \in SessionRec /\ NoSession.state = "Absent"
                        /\ NoSession.open = FALSE
<1> DEFINE nil == <<>>
<1>1. nil \in Seq(Event)
  BY EmptySeq
<1>2. NoSession = [state |-> "Absent", fd |-> 0, open |-> FALSE, peer |-> NoPeer,
                   events |-> nil]
  BY DEF NoSession
<1> HIDE DEF nil
<1>3. 0 \in 0 .. MaxFd
  BY SwarmAssumption
<1> QED BY <1>1, <1>2, <1>3 DEF SessionRec, PeerOpt

LEMMA NewSessionTyped ==
    ASSUME NEW f \in Fd
    PROVE  /\ NewSession(f) \in SessionRec /\ NewSession(f).state = "Securing"
           /\ NewSession(f).open /\ NewSession(f).fd = f /\ NewSession(f).events = <<>>
<1>1. NoSession \in SessionRec /\ NoSession.events = <<>>
  BY NoSessionTyped DEF NoSession
<1>2. f \in 0 .. MaxFd
  BY SwarmAssumption DEF Fd
<1> QED BY <1>1, <1>2 DEF NewSession, SessionRec

\* remove_connection, of a connection that was collected.
LEMMA RemoveConnectionStep ==
    ASSUME NEW n, n \in NodeRec, NEW c \in ConnIds(n),
           Len(n.conn_fds) = Len(n.connections),
           Len(n.connection_peers) = Len(n.connections)
    PROVE  LET q == RemoveConnection(n, c)
               p == n.connection_peers[c]
           IN
           /\ q \in NodeRec
           /\ q.connections = [n.connections EXCEPT ![c] = NoSession]
           /\ q.story = n.story
           /\ Len(q.conn_fds) = Len(n.conn_fds)
           /\ \A f \in Fd : q.fd_to_conn[f] \in {0, n.fd_to_conn[f]}
           /\ q.sock = n.sock /\ q.threw = n.threw /\ q.watched \subseteq n.watched
           /\ SameTransport(q, n) /\ SameDials(q, n)
           /\ IF p = NoPeer THEN SameRoutes(q, n)
              ELSE /\ q.peer_connections = [n.peer_connections EXCEPT ![p] = 0]
                   /\ q.connection_peers = [n.connection_peers EXCEPT ![c] = NoPeer]
<1> DEFINE p == n.connection_peers[c]
           pcs == [n.peer_connections EXCEPT ![p] = 0]
           cps == [n.connection_peers EXCEPT ![c] = NoPeer]
           a == IF p = NoPeer THEN n
                ELSE [n EXCEPT !.peer_connections = pcs, !.connection_peers = cps]
           f == n.conn_fds[c]
           u == UnregisterFds(a, {f})
           ftc == [u.fd_to_conn EXCEPT ![f] = 0]
           cfs == [u.conn_fds EXCEPT ![c] = 0]
           b == IF f = 0 THEN a ELSE [u EXCEPT !.fd_to_conn = ftc, !.conn_fds = cfs]
           cs == [n.connections EXCEPT ![c] = NoSession]
<1>1. /\ n.connections \in Seq(SessionRec) /\ c \in 1 .. Len(n.connections)
  BY SessionTyped
<1>2. /\ n.peer_connections \in [Peers -> Nat] /\ n.connection_peers \in Seq(PeerOpt)
      /\ n.conn_fds \in Seq(0 .. MaxFd) /\ n.fd_to_conn \in [Fd -> Nat]
  BY DEF NodeRec
<1>3. p \in PeerOpt /\ f \in 0 .. MaxFd /\ c \in 1 .. Len(n.connection_peers)
      /\ c \in 1 .. Len(n.conn_fds)
  <2>1. c \in 1 .. Len(n.connection_peers) /\ c \in 1 .. Len(n.conn_fds)
    BY <1>1
  <2>2. \A T, t, i : t \in Seq(T) /\ i \in 1 .. Len(t) => t[i] \in T
    OBVIOUS
  <2>3. p \in PeerOpt
    BY <1>2, <2>1, <2>2
  <2>4. f \in 0 .. MaxFd
    BY <1>2, <2>1, <2>2
  <2> QED BY <2>1, <2>3, <2>4
<1>4. pcs \in [Peers -> Nat]
  BY <1>2
<1>5. cps \in Seq(PeerOpt)
  <2>1. NoPeer \in PeerOpt
    BY DEF PeerOpt
  <2> QED BY <1>2, <1>3, <2>1, ExceptSeq
<1>6. /\ a \in NodeRec /\ a.conn_fds = n.conn_fds /\ a.fd_to_conn = n.fd_to_conn
      /\ SameConnections(a, n) /\ SameSockets(a, n) /\ SameTransport(a, n) /\ SameDials(a, n)
      /\ IF p = NoPeer THEN SameRoutes(a, n)
         ELSE a.peer_connections = pcs /\ a.connection_peers = cps
  <2>1. CASE p = NoPeer
    BY <2>1 DEF SameConnections, SameSockets, SameTransport, SameDials, SameRoutes
  <2>2. CASE p # NoPeer
    <3>1. a = [n EXCEPT !.peer_connections = pcs, !.connection_peers = cps]
      BY <2>2
    <3> HIDE DEF pcs, cps, a, p
    <3>2. /\ a \in NodeRec
          /\ a.peer_connections = pcs /\ a.connection_peers = cps
          /\ SameConnections(a, n)
          /\ SameSockets(a, n) /\ SameTransport(a, n) /\ SameDials(a, n)
      BY <1>4, <1>5, <3>1
      DEF NodeRec, SameSockets, SameTransport, SameDials, SameConnections
    <3> QED BY <2>2, <3>2 DEF SameConnections
  <2> QED BY <2>1, <2>2
<1> HIDE DEF a
<1>7. f # 0 => f \in Fd
  BY <1>3, SwarmAssumption DEF Fd
<1>8. f # 0 =>
         /\ u \in NodeRec /\ u.sock = a.sock /\ u.watched = a.watched \ {f}
         /\ u.threw = a.threw
         /\ SameTransport(u, a) /\ SameDials(u, a)
         /\ SameConnections(u, a) /\ SameRoutes(u, a)
  <2> HIDE DEF f
  <2>1. ASSUME f # 0 PROVE {f} \in SUBSET Fd
    BY <1>7, <2>1
  <2> QED BY <1>6, <2>1, UnregisterFdsStep
<1> HIDE DEF u
<1>9. f # 0 => u.fd_to_conn = n.fd_to_conn /\ u.conn_fds = n.conn_fds
  BY <1>6, <1>8 DEF SameConnections
<1>10. f # 0 => /\ ftc \in [Fd -> Nat]
                /\ \A g \in Fd : ftc[g] \in {0, n.fd_to_conn[g]}
  BY <1>2, <1>9
<1>11. f # 0 => cfs \in Seq(0 .. MaxFd) /\ Len(cfs) = Len(n.conn_fds)
  <2>1. 0 \in 0 .. MaxFd
    BY SwarmAssumption
  <2> QED BY <1>2, <1>3, <1>9, <2>1, ExceptSeq
<1>12. cs \in Seq(SessionRec)
  BY <1>1, NoSessionTyped, ExceptSeq
<1> DEFINE q == RemoveConnection(n, c)
<1> HIDE DEF f, ftc, cfs, cs, pcs, cps, p
<1>13. CASE f # 0
  <2>1. q = [u EXCEPT !.connections = cs, !.fd_to_conn = ftc, !.conn_fds = cfs]
    <3>1. q = [b EXCEPT !.connections = [@ EXCEPT ![c] = NoSession]]
      <4>1. [n EXCEPT !.peer_connections[p] = 0, !.connection_peers[c] = NoPeer]
              = [n EXCEPT !.peer_connections = pcs, !.connection_peers = cps]
        BY DEF NodeRec, pcs, cps
      <4>2. [u EXCEPT !.fd_to_conn[f] = 0, !.conn_fds[c] = 0]
              = [u EXCEPT !.fd_to_conn = ftc, !.conn_fds = cfs]
        BY <1>8, <1>13 DEF NodeRec, ftc, cfs
      <4> QED BY <1>13, <4>1, <4>2 DEF RemoveConnection, a, u, f, p
    <3>2. u.connections = n.connections
      BY <1>6, <1>8, <1>13 DEF SameConnections
    <3>3. b.connections = n.connections /\ b = [u EXCEPT !.fd_to_conn = ftc, !.conn_fds = cfs]
      BY <1>8, <1>13, <3>2 DEF NodeRec
    <3> QED BY <1>8, <1>13, <3>1, <3>3 DEF NodeRec, cs
  <2>2. /\ q \in NodeRec /\ q.connections = cs /\ q.fd_to_conn = ftc /\ q.conn_fds = cfs
        /\ q.story = u.story
        /\ SameSockets(q, u) /\ SameTransport(q, u) /\ SameDials(q, u)
        /\ SameRoutes(q, u)
    <3>1. u \in NodeRec /\ ftc \in [Fd -> Nat] /\ cfs \in Seq(0 .. MaxFd)
      BY <1>8, <1>10, <1>11, <1>13
    <3> HIDE DEF q
    <3> QED BY <1>12, <2>1, <3>1
            DEF NodeRec, SameSockets, SameTransport, SameDials, SameRoutes
  <2> HIDE DEF q
  <2>3. /\ q.sock = n.sock /\ q.threw = n.threw /\ q.watched \subseteq n.watched
        /\ q.story = n.story
    BY <1>6, <1>8, <1>13, <2>2 DEF SameSockets, SameConnections
  <2>4. SameTransport(q, n) /\ SameDials(q, n)
    BY <1>6, <1>8, <1>13, <2>2 DEF SameTransport, SameDials
  <2>5. IF p = NoPeer THEN SameRoutes(q, n)
         ELSE q.peer_connections = pcs /\ q.connection_peers = cps
    BY <1>6, <1>8, <1>13, <2>2 DEF SameRoutes
  <2> QED BY <1>10, <1>11, <1>13, <2>2, <2>3, <2>4, <2>5 DEF cs, pcs, cps, p, q
<1>14. CASE f = 0
  <2>1. q = [a EXCEPT !.connections = cs]
    <3>1. q = [a EXCEPT !.connections = [@ EXCEPT ![c] = NoSession]]
      <4>1. [n EXCEPT !.peer_connections[p] = 0, !.connection_peers[c] = NoPeer]
              = [n EXCEPT !.peer_connections = pcs, !.connection_peers = cps]
        BY DEF NodeRec, pcs, cps
      <4> QED BY <1>14, <4>1 DEF RemoveConnection, a, f, p
    <3> QED BY <1>6, <3>1 DEF NodeRec, cs, SameConnections
  <2>2. /\ q \in NodeRec /\ q.connections = cs /\ q.story = a.story
        /\ q.conn_fds = a.conn_fds /\ q.fd_to_conn = a.fd_to_conn
        /\ SameSockets(q, a) /\ SameTransport(q, a) /\ SameDials(q, a)
        /\ SameRoutes(q, a)
    BY <1>6, <1>12, <2>1, SetConnections
  <2> HIDE DEF q
  <2>3. /\ q.sock = n.sock /\ q.threw = n.threw /\ q.watched = n.watched
        /\ q.story = n.story /\ SameTransport(q, n) /\ SameDials(q, n)
    BY <1>6, <2>2 DEF SameSockets, SameConnections, SameTransport, SameDials
  <2>4. IF p = NoPeer THEN SameRoutes(q, n)
         ELSE q.peer_connections = pcs /\ q.connection_peers = cps
    BY <1>6, <2>2 DEF SameRoutes
  <2> QED BY <1>6, <2>2, <2>3, <2>4 DEF cs, pcs, cps, p, q
<1> QED BY <1>13, <1>14

LEMMA RemoveConnectionKeeps ==
    ASSUME NEW n, NEW T, NEW c \in ConnIds(n), NodeOk(n, {}, T \cup {c})
    PROVE  NodeOk(RemoveConnection(n, c), {}, T)
           /\ ConnIds(RemoveConnection(n, c)) = ConnIds(n)
<1> DEFINE q == RemoveConnection(n, c)
           p == n.connection_peers[c]
           S == T \cup {c}
<1>1. n \in NodeRec /\ n.connections \in Seq(SessionRec) /\ c \in 1 .. Len(n.connections)
  BY NodeTyped, SessionTyped
<1>2. /\ Len(n.conn_fds) = Len(n.connections) /\ Len(n.story) = Len(n.connections)
      /\ Len(n.connection_peers) = Len(n.connections)
  BY DEF NodeOk, Typed
<1>3. /\ q \in NodeRec
      /\ q.connections = [n.connections EXCEPT ![c] = NoSession]
      /\ q.story = n.story
      /\ Len(q.conn_fds) = Len(n.conn_fds)
      /\ \A f \in Fd : q.fd_to_conn[f] \in {0, n.fd_to_conn[f]}
      /\ q.sock = n.sock /\ q.threw = n.threw /\ q.watched \subseteq n.watched
      /\ SameTransport(q, n) /\ SameDials(q, n)
      /\ IF p = NoPeer THEN SameRoutes(q, n)
         ELSE /\ q.peer_connections = [n.peer_connections EXCEPT ![p] = 0]
              /\ q.connection_peers = [n.connection_peers EXCEPT ![c] = NoPeer]
  BY <1>1, <1>2, RemoveConnectionStep
<1> HIDE DEF q
<1>4. /\ Len(q.connections) = Len(n.connections)
      /\ \A e \in 1 .. Len(n.connections) :
            q.connections[e] = IF e = c THEN NoSession ELSE n.connections[e]
  BY <1>1, <1>3, NoSessionTyped, ExceptSeq
<1>5. ConnIds(q) = ConnIds(n) /\ ConnIds(n) = 1 .. Len(n.connections)
  <2>1. q.connections \in Seq(SessionRec)
    BY <1>3 DEF NodeRec
  <2> QED BY <1>1, <1>4, <2>1 DEF ConnIds
<1>6. \A e \in ConnIds(n) : q.connections[e] = IF e = c THEN NoSession ELSE n.connections[e]
  BY <1>4, <1>5
<1>7. NoSession.open = FALSE /\ NoSession.state = "Absent" /\ NoSession.events = <<>>
  BY DEF NoSession
\* The connection has been reported closed, so it has no socket.
<1>8. Ends(n.story[c], "ConnectionClosed")
  BY DEF NodeOk, StoryOk
<1>9. n.story[c] \in Seq(Report)
  <2>1. n.story \in Seq(Seq(Report))
    BY <1>1 DEF NodeRec
  <2> QED BY <1>1, <1>2, <2>1
<1>10. /\ Len(n.story[c]) \in DOMAIN n.story[c]
       /\ n.story[c][Len(n.story[c])] = "ConnectionClosed"
  BY <1>8, <1>9 DEF Ends
<1>11. n.connections[c].state \in {"Absent", "Closed"}
  BY <1>10 DEF NodeOk, StoryOk
<1>12. ~n.connections[c].open
  BY <1>11 DEF NodeOk, SocketsOk
<1>13. /\ n.peer_connections \in [Peers -> Nat] /\ n.connection_peers \in Seq(PeerOpt)
       /\ \A x \in Peers : n.peer_connections[x] \in 0 .. Len(n.connections)
       /\ \A f \in Fd : n.fd_to_conn[f] \in 0 .. Len(n.connections)
  BY <1>1 DEF NodeOk, Typed, NodeRec
<1>14. NoPeer \notin Peers /\ NoPeer \in PeerOpt
  BY SwarmAssumption DEF PeerOpt
<1>15. /\ Len(q.connection_peers) = Len(n.connections)
       /\ \A e \in ConnIds(n) : e # c => q.connection_peers[e] = n.connection_peers[e]
       /\ \A x \in Peers : q.peer_connections[x] \in {0, n.peer_connections[x]}
       /\ p \in Peers => q.peer_connections[p] = 0
  <2>1. CASE p = NoPeer
    <3>1. SameRoutes(q, n)
      BY <1>3, <2>1
    <3> QED BY <1>2, <1>13, <1>14, <2>1, <3>1 DEF SameRoutes
  <2>2. CASE p # NoPeer
    <3>1. /\ q.peer_connections = [n.peer_connections EXCEPT ![p] = 0]
          /\ q.connection_peers = [n.connection_peers EXCEPT ![c] = NoPeer]
      BY <1>3, <2>2
    <3>2. c \in 1 .. Len(n.connection_peers)
      BY <1>1, <1>2
    <3> HIDE DEF p
    <3>3. /\ Len(q.connection_peers) = Len(n.connection_peers)
          /\ \A e \in 1 .. Len(n.connection_peers) :
                q.connection_peers[e] = IF e = c THEN NoPeer ELSE n.connection_peers[e]
      BY <1>13, <1>14, <3>1, <3>2, ExceptSeq
    <3>4. \A x \in Peers : q.peer_connections[x] = IF x = p THEN 0 ELSE n.peer_connections[x]
      BY <1>13, <3>1
    <3> QED BY <1>2, <1>5, <3>3, <3>4
  <2> QED BY <2>1, <2>2
<1>16. Typed(q)
  <2>1. \A f \in Fd : q.fd_to_conn[f] \in 0 .. Len(q.connections)
    <3>1. Len(q.connections) = Len(n.connections) /\ Len(n.connections) \in Nat
      BY <1>1, <1>4
    <3>2. \A f \in Fd : q.fd_to_conn[f] \in {0, n.fd_to_conn[f]}
      BY <1>3
    <3>3. \A f \in Fd : n.fd_to_conn[f] \in 0 .. Len(n.connections)
      BY <1>13
    <3> QED BY <3>1, <3>2, <3>3
  <2>2. \A x \in Peers : q.peer_connections[x] \in 0 .. Len(q.connections)
    BY <1>1, <1>4, <1>13, <1>15
  <2>3. q.dialed <= MaxDials
    BY <1>3 DEF NodeOk, Typed, SameDials
  <2> QED BY <1>2, <1>3, <1>4, <1>15, <2>1, <2>2, <2>3 DEF Typed
<1>17. DialsOk(q)
  BY <1>3 DEF NodeOk, DialsOk, SameTransport, SameDials
<1>18. SocketsOk(q, {})
  <2>1. \A e \in ConnIds(n) : q.connections[e].open => e # c /\ q.connections[e] = n.connections[e]
    BY <1>6, <1>7
  <2>2. \A e \in ConnIds(n), f \in Fd : Owns(q, e, f) <=> Owns(n, e, f)
    BY <1>6, <1>7, <1>12 DEF Owns
  <2>3. /\ q.sock = n.sock /\ q.listeners = n.listeners /\ q.pending_dials = n.pending_dials
    BY <1>3 DEF SameTransport
  <2> QED BY <1>5, <2>1, <2>2, <2>3 DEF NodeOk, SocketsOk
<1>19. WatchOk(q, {})
  BY <1>3 DEF NodeOk, WatchOk, SameTransport, Typed, NodeRec
<1>20. RoutesOk(q)
  <2> SUFFICES ASSUME NEW x \in Peers, q.peer_connections[x] # 0
               PROVE  LET e == q.peer_connections[x] IN
                      /\ q.connections[e].state \in {"Ready", "Closed"}
                      /\ q.connections[e].peer = x /\ q.connection_peers[e] = x
    BY DEF RoutesOk
  <2> DEFINE e == n.peer_connections[x]
  <2>1. q.peer_connections[x] = e /\ e # 0 /\ e \in ConnIds(n)
    BY <1>5, <1>13, <1>15
  <2>2. /\ n.connections[e].state \in {"Ready", "Closed"}
        /\ n.connections[e].peer = x /\ n.connection_peers[e] = x
    BY <2>1 DEF NodeOk, RoutesOk
  <2>3. e # c
    <3>1. e = c => p = x
      BY <2>2
    <3> QED BY <1>15, <2>1, <3>1
  <2> HIDE DEF e
  <2> QED BY <1>6, <1>15, <2>1, <2>2, <2>3
<1>21. StoryOk(q, T)
  <2>1. q.story = n.story /\ q.stops = n.stops
    BY <1>3 DEF SameDials
  <2> DEFINE Good(e) ==
       LET x == q.connections[e] IN
       /\ x.state = "Absent" => x = NoSession
       /\ \A i \in DOMAIN x.events :
             /\ x.events[i] = "Closed" => i = Len(x.events) /\ x.state = "Closed"
             /\ x.events[i] = "Secured" => x.state # "Securing"
       /\ \A i \in DOMAIN q.story[e] : q.story[e][i] = "ConnectionClosed" =>
             /\ i = Len(q.story[e]) /\ x.events = <<>>
             /\ x.state = "Absent" \/ (x.state = "Closed" /\ e \in T)
       /\ x.state = "Closed" =>
             Ends(x.events, "Closed") \/ Ends(q.story[e], "ConnectionClosed")
       /\ (x.state = "Absent" /\ q.stops = 0) => Ends(q.story[e], "ConnectionClosed")
       /\ e \in T => Ends(q.story[e], "ConnectionClosed")
  <2>2. Good(c)
    <3>1. q.connections[c] = NoSession
      BY <1>6
    <3>2. \A i \in DOMAIN n.story[c] : n.story[c][i] = "ConnectionClosed" => i = Len(n.story[c])
      BY DEF NodeOk, StoryOk
    <3>3. \A i \in DOMAIN NoSession.events : FALSE
      BY <1>7
    <3> QED BY <1>7, <1>8, <2>1, <3>1, <3>2, <3>3
  <2>3. ASSUME NEW e \in ConnIds(n), e # c PROVE Good(e)
    <3>1. q.connections[e] = n.connections[e]
      BY <1>6, <2>3
    <3> QED BY <2>1, <2>3, <3>1 DEF NodeOk, StoryOk
  <2> HIDE DEF Good
  <2>4. \A e \in ConnIds(q) : Good(e)
    BY <1>5, <2>2, <2>3
  <2> QED BY <2>4 DEF StoryOk, Good
<1> QED BY <1>5, <1>16, <1>17, <1>18, <1>19, <1>20, <1>21 DEF NodeOk, q

\* A socket that accept() or connect() made, before a session owns it.
LEMMA NewConnectionStep ==
    ASSUME NEW n, NEW S, NEW f \in Fd, NodeOk(n, {f}, S)
    PROVE  LET q == NewConnection(n, f) IN
           /\ q \in NodeRec
           /\ q.connections = Append(n.connections, NewSession(f))
           /\ q.story = Append(n.story, <<>>)
           /\ q.connection_peers = Append(n.connection_peers, NoPeer)
           /\ q.peer_connections = n.peer_connections
           /\ Len(q.conn_fds) = Len(n.conn_fds) + 1
           /\ q.fd_to_conn = [n.fd_to_conn EXCEPT ![f] = Len(n.connections) + 1]
           /\ q.sock = n.sock /\ ~q.threw /\ q.watched = n.watched \cup {f}
           /\ q.listeners = n.listeners /\ q.pending_dials = n.pending_dials
           /\ q.listener_fds = n.listener_fds /\ q.dialing_fds = n.dialing_fds \ {f}
           /\ SameDials(q, n)
<1> DEFINE c == Len(n.connections) + 1
           nil == <<>>
           cs == Append(n.connections, NewSession(f))
           fs == Append(n.conn_fds, 0)
           ps == Append(n.connection_peers, NoPeer)
           st == Append(n.story, nil)
           m == [n EXCEPT !.connections = cs, !.conn_fds = fs,
                          !.connection_peers = ps, !.story = st]
           u == UnregisterFds(m, {f})
           a == IF f \in m.dialing_fds
                THEN [u EXCEPT !.dialing_fds = @ \ {f}] ELSE m
           fs2 == [fs EXCEPT ![c] = f]
           ftc == [n.fd_to_conn EXCEPT ![f] = c]
           b == [a EXCEPT !.conn_fds = fs2, !.fd_to_conn = ftc]
           q == RegisterFds(b, {f}, "conn")
<1>1. n \in NodeRec
  BY NodeTyped
<1>2. /\ n.connections \in Seq(SessionRec) /\ n.conn_fds \in Seq(0 .. MaxFd)
      /\ n.connection_peers \in Seq(PeerOpt) /\ n.story \in Seq(Seq(Report))
      /\ n.fd_to_conn \in [Fd -> Nat]
  BY <1>1 DEF NodeRec
<1>3. /\ Len(n.conn_fds) = Len(n.connections) /\ Len(n.connections) \in Nat
      /\ Len(n.connection_peers) = Len(n.connections)
      /\ Len(n.story) = Len(n.connections)
  BY <1>2 DEF NodeOk, Typed
<1>4. /\ NewSession(f) \in SessionRec /\ 0 \in 0 .. MaxFd /\ NoPeer \in PeerOpt
      /\ nil \in Seq(Report) /\ f \in 0 .. MaxFd
  BY NewSessionTyped, EmptySeq, SwarmAssumption DEF PeerOpt, Fd
<1>5. NewConnection(n, f) = RegisterConnection(m, c, f)
  BY <1>1 DEF NewConnection, next_conn_id, NodeRec
<1> HIDE DEF nil
<1>6. /\ cs \in Seq(SessionRec) /\ ps \in Seq(PeerOpt) /\ st \in Seq(Seq(Report))
      /\ fs \in Seq(0 .. MaxFd) /\ Len(fs) = c /\ c \in Nat
  BY <1>2, <1>3, <1>4, AppendProperties
<1>7. fs2 \in Seq(0 .. MaxFd) /\ Len(fs2) = c
  <2>1. c \in 1 .. Len(fs)
    BY <1>3, <1>6
  <2> HIDE DEF fs, c
  <2> QED BY <1>4, <1>6, <2>1, ExceptSeq
<1>8. ftc \in [Fd -> Nat]
  BY <1>2, <1>6
<1> HIDE DEF cs, ps, st, fs, c
<1>9. /\ m \in NodeRec /\ m.connections = cs /\ m.conn_fds = fs
      /\ m.connection_peers = ps /\ m.story = st /\ m.fd_to_conn = n.fd_to_conn
      /\ m.peer_connections = n.peer_connections
      /\ SameSockets(m, n) /\ SameTransport(m, n) /\ SameDials(m, n)
  BY <1>1, <1>6 DEF NodeRec, SameSockets, SameTransport, SameDials
<1> HIDE DEF m
<1>10. /\ u \in NodeRec /\ u.sock = m.sock /\ u.watched = m.watched \ {f}
       /\ u.threw = m.threw
       /\ SameTransport(u, m) /\ SameDials(u, m)
       /\ SameConnections(u, m) /\ SameRoutes(u, m)
  <2>1. {f} \in SUBSET Fd
    OBVIOUS
  <2> QED BY <1>9, <2>1, UnregisterFdsStep
<1> HIDE DEF u
<1>11. f \in n.watched => f \in n.dialing_fds
  BY DEF NodeOk, WatchOk
<1>12. /\ a \in NodeRec /\ a.sock = n.sock /\ a.threw = n.threw
       /\ f \notin a.watched /\ a.watched \cup {f} = n.watched \cup {f}
       /\ a.listeners = n.listeners /\ a.pending_dials = n.pending_dials
       /\ a.listener_fds = n.listener_fds /\ a.dialing_fds = n.dialing_fds \ {f}
       /\ SameDials(a, n) /\ a.fd_to_conn = n.fd_to_conn
       /\ a.connections = cs /\ a.story = st /\ a.conn_fds = fs
       /\ a.connection_peers = ps /\ a.peer_connections = n.peer_connections
  <2>0. n.dialing_fds \subseteq Fd /\ n.watched \subseteq Fd
    BY <1>1 DEF NodeRec
  <2>1. CASE f \in m.dialing_fds
    <3>1. a = [u EXCEPT !.dialing_fds = @ \ {f}] /\ u.dialing_fds \ {f} \in SUBSET Fd
      BY <1>9, <1>10, <2>0, <2>1 DEF SameTransport
    <3>2. /\ a \in NodeRec /\ a.dialing_fds = u.dialing_fds \ {f}
          /\ a.sock = u.sock /\ a.watched = u.watched /\ a.threw = u.threw
          /\ a.listeners = u.listeners /\ a.pending_dials = u.pending_dials
          /\ a.listener_fds = u.listener_fds /\ SameDials(a, u)
          /\ SameConnections(a, u) /\ SameRoutes(a, u)
      <4> HIDE DEF a
      <4> QED BY <1>10, <3>1 DEF NodeRec, SameDials, SameConnections, SameRoutes
    <3> HIDE DEF a
    <3> QED BY <1>9, <1>10, <3>2
            DEF SameSockets, SameTransport, SameDials, SameConnections, SameRoutes
  <2>2. CASE f \notin m.dialing_fds
    <3>1. a = m
      BY <2>2
    <3> QED BY <1>9, <1>11, <2>0, <2>2, <3>1 DEF SameSockets, SameTransport, SameDials
  <2> QED BY <2>1, <2>2
<1>13. NewConnection(n, f) = q
  <2>1. [a EXCEPT !.conn_fds[c] = f, !.fd_to_conn[f] = c] = b
    <3> HIDE DEF a
    <3> QED BY <1>12 DEF NodeRec
  <2> QED BY <1>5, <2>1 DEF RegisterConnection, a, u
<1> HIDE DEF a, fs2, ftc
<1>14. /\ b \in NodeRec /\ b.sock = a.sock /\ b.threw = a.threw /\ b.watched = a.watched
       /\ SameTransport(b, a) /\ SameDials(b, a)
       /\ b.connections = a.connections /\ b.story = a.story
       /\ b.conn_fds = fs2 /\ b.fd_to_conn = ftc /\ SameRoutes(b, a)
  BY <1>7, <1>8, <1>12 DEF NodeRec, SameTransport, SameDials, SameRoutes
<1> HIDE DEF b
<1>15. /\ q \in NodeRec /\ q.sock = b.sock /\ q.watched = b.watched \cup {f}
       /\ ~b.threw => ~q.threw
       /\ SameTransport(q, b) /\ SameDials(q, b)
       /\ SameConnections(q, b) /\ SameRoutes(q, b)
  <2>1. {f} \in SUBSET Fd /\ {f} \cap b.watched = {}
    BY <1>12, <1>14
  <2> QED BY <1>14, <2>1, RegisterFdsStep
<1> HIDE DEF q
<1>16. ~b.threw
  BY <1>12, <1>14 DEF NodeOk, WatchOk
<1>17. Len(q.conn_fds) = Len(n.conn_fds) + 1 /\ q.fd_to_conn = ftc
  <2>1. q.conn_fds = fs2 /\ q.fd_to_conn = ftc
    BY <1>14, <1>15 DEF SameConnections
  <2> QED BY <1>3, <1>7, <2>1 DEF c
<1>18. /\ q.connections = cs /\ q.story = st /\ q.connection_peers = ps
       /\ q.peer_connections = n.peer_connections
  BY <1>12, <1>14, <1>15 DEF SameConnections, SameRoutes
<1>19. /\ q.sock = n.sock /\ q.watched = n.watched \cup {f}
       /\ q.listeners = n.listeners /\ q.pending_dials = n.pending_dials
       /\ q.listener_fds = n.listener_fds /\ q.dialing_fds = n.dialing_fds \ {f}
       /\ SameDials(q, n)
  BY <1>12, <1>14, <1>15 DEF SameTransport, SameDials
<1> QED BY <1>13, <1>15, <1>16, <1>17, <1>18, <1>19 DEF cs, st, ps, nil, ftc, c

LEMMA NewConnectionKeeps ==
    ASSUME NEW n, NEW f \in Fd, NodeOk(n, {f}, {})
    PROVE  LET q == NewConnection(n, f)
               c == next_conn_id(n)
           IN /\ NodeOk(q, {}, {}) /\ c \in ConnIds(q)
              /\ q.connections[c].state = "Securing" /\ q.connections[c].events = <<>>
              /\ q.story[c] = <<>>
<1> DEFINE q == NewConnection(n, f)
           c == Len(n.connections) + 1
           new == NewSession(f)
           nil == <<>>
<1>1. /\ n \in NodeRec /\ n.connections \in Seq(SessionRec)
      /\ n.connection_peers \in Seq(PeerOpt) /\ n.story \in Seq(Seq(Report))
      /\ n.fd_to_conn \in [Fd -> Nat]
  <2>1. n \in NodeRec
    BY NodeTyped
  <2> QED BY <2>1 DEF NodeRec
<1>2. /\ Len(n.conn_fds) = Len(n.connections) /\ Len(n.story) = Len(n.connections)
      /\ Len(n.connection_peers) = Len(n.connections)
      /\ n.dialed <= MaxDials
      /\ \A g \in Fd : n.fd_to_conn[g] \in 0 .. Len(n.connections)
      /\ \A p \in Peers : n.peer_connections[p] \in 0 .. Len(n.connections)
  BY DEF NodeOk, Typed
<1>3. /\ q \in NodeRec
      /\ q.connections = Append(n.connections, new)
      /\ q.story = Append(n.story, nil)
      /\ q.connection_peers = Append(n.connection_peers, NoPeer)
      /\ q.peer_connections = n.peer_connections
      /\ Len(q.conn_fds) = Len(n.conn_fds) + 1
      /\ q.fd_to_conn = [n.fd_to_conn EXCEPT ![f] = c]
      /\ q.sock = n.sock /\ ~q.threw /\ q.watched = n.watched \cup {f}
      /\ q.listeners = n.listeners /\ q.pending_dials = n.pending_dials
      /\ q.listener_fds = n.listener_fds /\ q.dialing_fds = n.dialing_fds \ {f}
      /\ SameDials(q, n)
  BY NewConnectionStep
<1>4. /\ new \in SessionRec /\ new.state = "Securing"
      /\ new.open /\ new.fd = f /\ new.events = nil
  BY NewSessionTyped
<1>5. nil \in Seq(Report) /\ nil \in Seq(Event) /\ NoPeer \in PeerOpt
  BY EmptySeq DEF PeerOpt
<1>5a. /\ \A i \in DOMAIN nil : FALSE
       /\ nil = <<>>
  OBVIOUS
<1> HIDE DEF q, new, nil
<1>6. /\ Len(q.connections) = c /\ ConnIds(q) = 1 .. c /\ ConnIds(n) = 1 .. Len(n.connections)
      /\ c \in Nat /\ c \in ConnIds(q) /\ c \notin ConnIds(n)
      /\ \A e \in ConnIds(n) : q.connections[e] = n.connections[e]
      /\ q.connections[c] = new
  BY <1>1, <1>3, <1>4, AppendEnds DEF ConnIds
<1>7. /\ Len(q.story) = c /\ q.story[c] = nil
      /\ \A e \in ConnIds(n) : q.story[e] = n.story[e]
  BY <1>1, <1>2, <1>3, <1>5, <1>6, AppendEnds
<1>8. /\ Len(q.connection_peers) = c
      /\ \A e \in ConnIds(n) : q.connection_peers[e] = n.connection_peers[e]
  BY <1>1, <1>2, <1>3, <1>5, <1>6, AppendEnds
<1>9. ConnIds(q) = ConnIds(n) \cup {c}
  BY <1>1, <1>6
<1>10. n.sock[f].kind = "conn" /\ f \notin n.listeners /\ n.pending_dials[f] = 0
       /\ \A e \in ConnIds(n) : n.connections[e].open => n.connections[e].fd # f
  BY DEF NodeOk, SocketsOk
<1>11. Typed(q)
  <2>1. \A g \in Fd : q.fd_to_conn[g] \in 0 .. c
    BY <1>1, <1>2, <1>3, <1>6
  <2>2. \A p \in Peers : q.peer_connections[p] \in 0 .. c
    BY <1>1, <1>2, <1>3, <1>6
  <2> QED BY <1>2, <1>3, <1>6, <1>7, <1>8, <2>1, <2>2 DEF Typed, SameDials
<1>12. DialsOk(q)
  BY <1>3 DEF NodeOk, DialsOk, SameDials
<1>13. SocketsOk(q, {})
  <2>1. \A g \in Fd : /\ (q.sock[g].kind = "listener") <=> (g \in q.listeners)
                      /\ (q.sock[g].kind = "dial") <=> (q.pending_dials[g] # 0)
    BY <1>3 DEF NodeOk, SocketsOk
  <2>2. ASSUME NEW g \in Fd
        PROVE  (q.sock[g].kind = "conn") <=> (g \in {} \/ \E e \in ConnIds(q) : Owns(q, e, g))
    <3>1. (n.sock[g].kind = "conn") <=> (g = f \/ \E e \in ConnIds(n) : Owns(n, e, g))
      BY DEF NodeOk, SocketsOk
    <3>2. \A e \in ConnIds(n) : Owns(q, e, g) <=> Owns(n, e, g)
      BY <1>6 DEF Owns
    <3>3. Owns(q, c, g) <=> g = f
      BY <1>4, <1>6 DEF Owns
    <3> QED BY <1>3, <1>9, <3>1, <3>2, <3>3
  <2>3. \A e \in ConnIds(q) : q.connections[e].open =>
          /\ q.connections[e].state \in {"Securing", "Ready"}
          /\ q.connections[e].fd \in Fd \ {}
    <3>1. \A e \in ConnIds(n) : n.connections[e].open =>
            /\ n.connections[e].state \in {"Securing", "Ready"}
            /\ n.connections[e].fd \in Fd
      BY DEF NodeOk, SocketsOk
    <3> QED BY <1>4, <1>6, <1>9, <3>1
  <2>4. ASSUME NEW d \in ConnIds(q), NEW e \in ConnIds(q),
               q.connections[d].open, Owns(q, e, q.connections[d].fd)
        PROVE  d = e
    <3>1. CASE d \in ConnIds(n) /\ e \in ConnIds(n)
      BY <1>6, <2>4, <3>1 DEF NodeOk, SocketsOk, Owns
    <3>2. CASE d = c
      BY <1>4, <1>6, <1>9, <1>10, <2>4, <3>2 DEF Owns
    <3>3. CASE e = c
      BY <1>4, <1>6, <1>9, <1>10, <2>4, <3>3 DEF Owns
    <3> QED BY <1>9, <3>1, <3>2, <3>3
  <2> QED BY <2>1, <2>2, <2>3, <2>4 DEF SocketsOk
<1>14. WatchOk(q, {})
  BY <1>3, <1>10 DEF NodeOk, WatchOk
<1>15. RoutesOk(q)
  <2> SUFFICES ASSUME NEW x \in Peers, q.peer_connections[x] # 0
               PROVE  LET e == q.peer_connections[x] IN
                      /\ q.connections[e].state \in {"Ready", "Closed"}
                      /\ q.connections[e].peer = x /\ q.connection_peers[e] = x
    BY DEF RoutesOk
  <2> DEFINE e == n.peer_connections[x]
  <2>1. q.peer_connections[x] = e /\ e # 0 /\ e \in ConnIds(n)
    BY <1>1, <1>2, <1>3, <1>6
  <2>2. /\ n.connections[e].state \in {"Ready", "Closed"}
        /\ n.connections[e].peer = x /\ n.connection_peers[e] = x
    BY <2>1 DEF NodeOk, RoutesOk
  <2> HIDE DEF e
  <2> QED BY <1>6, <1>8, <2>1, <2>2
<1>16. StoryOk(q, {})
  <2>1. q.stops = n.stops
    BY <1>3 DEF SameDials
  <2> DEFINE Good(e) ==
       LET x == q.connections[e] IN
       /\ x.state = "Absent" => x = NoSession
       /\ \A i \in DOMAIN x.events :
             /\ x.events[i] = "Closed" => i = Len(x.events) /\ x.state = "Closed"
             /\ x.events[i] = "Secured" => x.state # "Securing"
       /\ \A i \in DOMAIN q.story[e] : q.story[e][i] = "ConnectionClosed" =>
             /\ i = Len(q.story[e]) /\ x.events = <<>>
             /\ x.state = "Absent" \/ (x.state = "Closed" /\ e \in {})
       /\ x.state = "Closed" =>
             Ends(x.events, "Closed") \/ Ends(q.story[e], "ConnectionClosed")
       /\ (x.state = "Absent" /\ q.stops = 0) => Ends(q.story[e], "ConnectionClosed")
       /\ e \in {} => Ends(q.story[e], "ConnectionClosed")
  <2>2. Good(c)
    BY <1>4, <1>5a, <1>6, <1>7
  <2>3. ASSUME NEW e \in ConnIds(n) PROVE Good(e)
    BY SMTT(30), <1>6, <1>7, <2>1, <2>3 DEF NodeOk, StoryOk
  <2> HIDE DEF Good
  <2>4. \A e \in ConnIds(q) : Good(e)
    BY <1>9, <2>2, <2>3
  <2> QED BY <2>4 DEF StoryOk, Good
<1>17. NodeOk(q, {}, {})
  BY <1>11, <1>12, <1>13, <1>14, <1>15, <1>16 DEF NodeOk
<1> QED BY <1>4, <1>6, <1>7, <1>17 DEF q, nil, next_conn_id

\* A report of a connection that is not closed.
LEMMA TellKeeps ==
    ASSUME NEW n, NodeOk(n, {}, {}), NEW c \in ConnIds(n), NEW ev \in Report,
           ev # "ConnectionClosed", n.connections[c].state \in {"Securing", "Ready"}
    PROVE  /\ NodeOk(Tell(n, c, ev), {}, {}) /\ ConnIds(Tell(n, c, ev)) = ConnIds(n)
           /\ Tell(n, c, ev).connections = n.connections
<1> DEFINE q == Tell(n, c, ev)
           one == Append(n.story[c], ev)
<1>1. n \in NodeRec /\ n.connections \in Seq(SessionRec) /\ c \in 1 .. Len(n.connections)
  BY NodeTyped, SessionTyped
<1>2. /\ Len(n.story) = Len(n.connections) /\ n.story \in Seq(Seq(Report))
      /\ c \in DOMAIN n.story /\ c \in 1 .. Len(n.story)
  <2>1. Len(n.story) = Len(n.connections)
    BY DEF NodeOk, Typed
  <2>2. n.story \in Seq(Seq(Report))
    BY <1>1 DEF NodeRec
  <2> QED BY <1>1, <2>1, <2>2
<1>3. n.story[c] \in Seq(Report)
  BY <1>2
<1>4. /\ q \in NodeRec
      /\ q.story = [n.story EXCEPT ![c] = one]
      /\ q.connections = n.connections /\ q.conn_fds = n.conn_fds
      /\ q.fd_to_conn = n.fd_to_conn
      /\ SameSockets(q, n) /\ SameTransport(q, n) /\ SameDials(q, n)
      /\ SameRoutes(q, n)
  BY <1>1, <1>2, TellStep
<1>5. /\ one \in Seq(Report)
      /\ DOMAIN one = 1 .. Len(n.story[c]) + 1 /\ DOMAIN n.story[c] = 1 .. Len(n.story[c])
      /\ Len(n.story[c]) \in Nat
      /\ \A i \in DOMAIN n.story[c] : one[i] = n.story[c][i]
      /\ one[Len(n.story[c]) + 1] = ev
  BY <1>3, AppendEnds
<1>6. \A i \in DOMAIN n.story[c] : n.story[c][i] # "ConnectionClosed"
  BY DEF NodeOk, StoryOk
<1>7. \A i \in DOMAIN one : one[i] # "ConnectionClosed"
  BY <1>5, <1>6
<1> HIDE DEF one, q
<1>8. /\ Len(q.story) = Len(n.story)
      /\ \A e \in 1 .. Len(n.story) : q.story[e] = IF e = c THEN one ELSE n.story[e]
  BY <1>2, <1>4, <1>5, ExceptSeq
<1>9. ConnIds(q) = ConnIds(n) /\ ConnIds(n) = 1 .. Len(n.story)
  BY <1>1, <1>2, <1>4 DEF ConnIds
<1>10. Typed(q)
  BY <1>4, <1>8 DEF NodeOk, Typed, SameDials, SameRoutes
<1>11. DialsOk(q)
  BY <1>4 DEF NodeOk, DialsOk, SameDials, SameTransport
<1>12. SocketsOk(q, {})
  BY <1>4, <1>9 DEF NodeOk, SocketsOk, Owns, SameSockets, SameTransport
<1>13. WatchOk(q, {})
  BY <1>4 DEF NodeOk, WatchOk, SameSockets, SameTransport, Typed, NodeRec
<1>14. RoutesOk(q)
  BY <1>4 DEF NodeOk, RoutesOk, SameRoutes
<1>15. StoryOk(q, {})
  <2>1. \A e \in ConnIds(n) : q.connections[e] = n.connections[e] /\ q.stops = n.stops
           /\ (e # c => q.story[e] = n.story[e]) /\ q.story[c] = one
    BY <1>1, <1>4, <1>8, <1>9 DEF SameDials
  <2>2. ~Ends(n.story[c], "ConnectionClosed")
    BY <1>3, <1>6 DEF Ends
  <2> QED BY <1>7, <1>9, <2>1, <2>2 DEF NodeOk, StoryOk
<1> QED BY <1>4, <1>9, <1>10, <1>11, <1>12, <1>13, <1>14, <1>15 DEF NodeOk, q

LEMMA OnAcceptedKeeps ==
    ASSUME NEW n, NEW f \in Fd, NodeOk(n, {f}, {})
    PROVE  NodeOk(OnAccepted(n, f), {}, {})
<1> DEFINE m == NewConnection(n, f)
           c == next_conn_id(n)
<1>1. /\ NodeOk(m, {}, {}) /\ c \in ConnIds(m) /\ m.connections[c].state = "Securing"
  BY NewConnectionKeeps
<1>2. "IncomingConnection" \in Report
  BY DEF Report
<1>3. OnAccepted(n, f) = Tell(m, c, "IncomingConnection")
  BY DEF OnAccepted
<1> HIDE DEF m, c
<1> QED BY <1>1, <1>2, <1>3, TellKeeps

LEMMA BeginUpgradeKeeps ==
    ASSUME NEW n, NodeOk(n, {}, {}), NEW c \in ConnIds(n), NEW fails \in BOOLEAN,
           n.connections[c].state = "Securing", n.connections[c].events = <<>>
    PROVE  NodeOk(BeginUpgrade(n, c, fails), {}, {})
<1>1. CASE ~fails
  BY <1>1 DEF BeginUpgrade
<1>2. CASE fails
  <2> DEFINE t == Tell(n, c, "ProtocolError")
             a == CloseSession(t, c)
             b == DrainEvent(a, c)
             end == <<"Closed">>
  <2>1. "ProtocolError" \in Report
    BY DEF Report
  <2>2. NodeOk(t, {}, {}) /\ ConnIds(t) = ConnIds(n) /\ t.connections = n.connections
    BY <2>1, TellKeeps
  <2>3. BeginUpgrade(n, c, fails)
          = IF NextEvent(a, c) = "Closed" THEN RemoveConnection(b, c) ELSE b
    BY <1>2 DEF BeginUpgrade
  <2> HIDE DEF t
  <2>4. /\ NodeOk(a, {}, {}) /\ ConnIds(a) = ConnIds(t)
        /\ a.connections[c].events = <<>> \o end
    BY SMTT(30), <2>2, CloseSessionCloses
  <2> HIDE DEF a
  <2>5. a.connections[c].events = end /\ Len(end) > 0 /\ Head(end) = "Closed"
    BY <2>4
  <2>6. NextEvent(a, c) = "Closed" /\ Len(a.connections[c].events) > 0
    BY <2>5 DEF NextEvent
  <2>7. NodeOk(b, {}, {} \cup {c}) /\ ConnIds(b) = ConnIds(a)
    BY <2>2, <2>4, <2>6, DrainEventKeeps
  <2> HIDE DEF b
  <2>8. NodeOk(RemoveConnection(b, c), {}, {})
    BY <2>2, <2>4, <2>7, RemoveConnectionKeeps
  <2> QED BY <2>3, <2>6, <2>8
<1> QED BY <1>1, <1>2

LEMMA OnConnectedKeeps ==
    ASSUME NEW n, NEW f \in Fd, NodeOk(n, {f}, {}), NEW fails \in BOOLEAN
    PROVE  NodeOk(OnConnected(n, f, fails), {}, {})
<1> DEFINE m == NewConnection(n, f)
           c == next_conn_id(n)
<1>1. /\ NodeOk(m, {}, {}) /\ c \in ConnIds(m) /\ m.connections[c].state = "Securing"
      /\ m.connections[c].events = <<>>
  BY NewConnectionKeeps
<1>2. OnConnected(n, f, fails) = BeginUpgrade(m, c, fails)
  BY DEF OnConnected
<1> HIDE DEF m, c
<1> QED BY <1>1, <1>2, BeginUpgradeKeeps

----------------------------------------------------------------------------
(* Sockets of listeners and dials.                                         *)

\* A free descriptor f of n, or that of a pending dial, has another use in q.
Turned(n, q, f, O) ==
    /\ n.sock[f].kind \in {"free", "dial"} /\ q \in NodeRec
    /\ \A g \in Fd : g # f => /\ q.sock[g].kind = n.sock[g].kind
                              /\ q.pending_dials[g] = n.pending_dials[g]
    /\ q.watched \subseteq n.watched /\ q.threw = n.threw
    /\ q.sock[f].kind = "free" => f \notin q.watched
    /\ q.sock[f].kind = "listener" => n.sock[f].kind = "free"
    /\ q.listeners = n.listeners \cup (IF q.sock[f].kind = "listener" THEN {f} ELSE {})
    /\ (q.pending_dials[f] # 0) <=> (q.sock[f].kind = "dial")
    /\ O = IF q.sock[f].kind = "conn" THEN {f} ELSE {}
    /\ q.listener_fds = n.listener_fds /\ q.dialing_fds = n.dialing_fds
    /\ SameConnections(q, n) /\ SameRoutes(q, n)
    /\ DialsOk(q) /\ q.dialed <= MaxDials /\ q.stops = n.stops

LEMMA SocketTurns ==
    ASSUME NEW n, NEW S, NodeOk(n, {}, S), NEW f \in Fd, NEW q, NEW O, Turned(n, q, f, O)
    PROVE  NodeOk(q, O, S)
<1> USE DEF SameConnections, SameRoutes, Turned
<1>0. n \in NodeRec
  BY NodeTyped
<1>1. ConnIds(q) = ConnIds(n) /\ Typed(q)
  BY DEF NodeOk, Typed, ConnIds
<1>2. n.sock[f].kind # "conn" /\ f \notin n.listeners
      /\ ~(\E c \in ConnIds(n) : Owns(n, c, f))
  BY DEF NodeOk, SocketsOk
<1>3. q.sock[f].kind \in {"free", "listener", "dial", "conn"}
  <2>1. q.sock[f] \in SockRec
    BY DEF NodeRec
  <2> QED BY <2>1 DEF SockRec
<1>4. SocketsOk(q, O)
  <2>1. \A g \in Fd : (q.sock[g].kind = "listener") <=> (g \in q.listeners)
    <3>1. \A g \in Fd : (n.sock[g].kind = "listener") <=> (g \in n.listeners)
      BY DEF NodeOk, SocketsOk
    <3> QED BY <1>2, <3>1
  <2>2. \A g \in Fd : (q.sock[g].kind = "dial") <=> (q.pending_dials[g] # 0)
    <3>1. \A g \in Fd : (n.sock[g].kind = "dial") <=> (n.pending_dials[g] # 0)
      BY DEF NodeOk, SocketsOk
    <3> QED BY <3>1
  <2>3. ASSUME NEW g \in Fd
        PROVE  (q.sock[g].kind = "conn") <=> (g \in O \/ \E c \in ConnIds(q) : Owns(q, c, g))
    <3>1. (n.sock[g].kind = "conn") <=> \E c \in ConnIds(n) : Owns(n, c, g)
      BY DEF NodeOk, SocketsOk
    <3>2. \A c \in ConnIds(n) : Owns(q, c, g) <=> Owns(n, c, g)
      BY DEF Owns
    <3>3. CASE g = f
      BY <1>1, <1>2, <3>2, <3>3
    <3>4. CASE g # f
      BY <1>1, <3>1, <3>2, <3>4
    <3> QED BY <3>3, <3>4
  <2>4. \A c \in ConnIds(q) : q.connections[c].open =>
          /\ q.connections[c].state \in {"Securing", "Ready"}
          /\ q.connections[c].fd \in Fd \ O
    <3>1. \A c \in ConnIds(n) : n.connections[c].open =>
             /\ n.connections[c].state \in {"Securing", "Ready"}
             /\ n.connections[c].fd \in Fd
      BY DEF NodeOk, SocketsOk
    <3>2. \A c \in ConnIds(n) : n.connections[c].open => n.connections[c].fd # f
      BY <1>2 DEF Owns
    <3> QED BY <1>1, <3>1, <3>2
  <2>5. \A d, e \in ConnIds(q) :
          (q.connections[d].open /\ Owns(q, e, q.connections[d].fd)) => d = e
    BY <1>1 DEF NodeOk, SocketsOk, Owns
  <2> QED BY <2>1, <2>2, <2>3, <2>4, <2>5 DEF SocketsOk
<1>5. WatchOk(q, O)
  <2>1. ~q.threw /\ n.watched \subseteq Fd
    BY <1>0 DEF NodeOk, WatchOk, NodeRec
  <2>2. ASSUME NEW g \in q.watched, g # f
        PROVE  /\ q.sock[g].kind # "free"
               /\ g \in q.listeners => g \in q.listener_fds
               /\ (g \in O \/ q.pending_dials[g] # 0) => g \in q.dialing_fds
    <3>1. g \in n.watched /\ g \in Fd
      BY <2>1
    <3>2. /\ n.sock[g].kind # "free"
          /\ g \in n.listeners => g \in n.listener_fds
          /\ n.pending_dials[g] # 0 => g \in n.dialing_fds
      BY <3>1 DEF NodeOk, WatchOk
    <3> QED BY <2>2, <3>1, <3>2
  <2>3. ASSUME f \in q.watched
        PROVE  /\ q.sock[f].kind # "free"
               /\ f \in q.listeners => f \in q.listener_fds
               /\ (f \in O \/ q.pending_dials[f] # 0) => f \in q.dialing_fds
    <3>1. n.sock[f].kind # "free"
      BY <2>3 DEF NodeOk, WatchOk
    <3>2. n.pending_dials[f] # 0
      BY <3>1 DEF NodeOk, SocketsOk
    <3>3. f \in n.dialing_fds
      BY <2>3, <3>2 DEF NodeOk, WatchOk
    <3>4. f \notin q.listeners
      BY <1>2, <3>1
    <3> QED BY <2>3, <3>3, <3>4
  <2> QED BY <2>1, <2>2, <2>3 DEF WatchOk
<1>6. StoryOk(q, S)
  BY <1>1 DEF NodeOk, StoryOk
<1>7. RoutesOk(q)
  BY <1>1 DEF NodeOk, RoutesOk
<1> QED BY <1>1, <1>4, <1>5, <1>6, <1>7 DEF NodeOk

\* The answer of dial d, which had none.
LEMMA SettleKeeps ==
    ASSUME NEW n, NEW O, NEW S, NodeOk(n, O, S), NEW d \in Dial,
           NEW how \in {"connected", "failed"}, d <= n.dialed, n.outcomes[d] = <<>>,
           \A f \in Fd : n.pending_dials[f] # d
    PROVE  NodeOk(Settle(n, d, how), O, S)
<1> DEFINE q == Settle(n, d, how)
           nil == <<>>
           one == Append(nil, how)
           outs == [n.outcomes EXCEPT ![d] = one]
<1>1. n \in NodeRec /\ n.outcomes \in [Dial -> Seq({"connected", "failed"})]
      /\ n.dialed \in Nat
  <2>1. n \in NodeRec
    BY NodeTyped
  <2> QED BY <2>1 DEF NodeRec
<1>2. one \in Seq({"connected", "failed"}) /\ Len(one) = 1
  <2>1. nil \in Seq({"connected", "failed"}) /\ Len(nil) = 0
    BY EmptySeq
  <2> HIDE DEF nil
  <2> QED BY <2>1, AppendProperties
<1>3. q = [n EXCEPT !.outcomes = outs]
  BY <1>1 DEF Settle, NodeRec
<1> HIDE DEF one
<1>4. outs \in [Dial -> Seq({"connected", "failed"})]
      /\ \A e \in Dial : outs[e] = IF e = d THEN one ELSE n.outcomes[e]
  BY <1>1, <1>2
<1> HIDE DEF outs
<1>5. /\ q \in NodeRec /\ q.outcomes = outs /\ q.dialed = n.dialed /\ q.stops = n.stops
      /\ SameSockets(q, n) /\ SameTransport(q, n)
      /\ SameConnections(q, n) /\ SameRoutes(q, n)
  BY <1>1, <1>3, <1>4
  DEF NodeRec, SameSockets, SameTransport, SameConnections, SameRoutes
<1> HIDE DEF q
<1>6. ConnIds(q) = ConnIds(n)
  BY <1>5 DEF ConnIds, SameConnections
<1>7. Typed(q)
  BY <1>5 DEF NodeOk, Typed, SameConnections, SameRoutes
<1>8. DialsOk(q)
  <2>1. \A f \in Fd : q.pending_dials[f] = n.pending_dials[f]
    BY <1>5 DEF SameTransport
  <2>2. \A f \in Fd : q.pending_dials[f] # 0 =>
          q.pending_dials[f] <= q.dialed /\ q.outcomes[q.pending_dials[f]] = <<>>
    <3> SUFFICES ASSUME NEW f \in Fd, n.pending_dials[f] # 0
                 PROVE  n.pending_dials[f] <= n.dialed /\ outs[n.pending_dials[f]] = <<>>
      BY <1>5, <2>1
    <3>1. n.pending_dials[f] <= n.dialed /\ n.outcomes[n.pending_dials[f]] = <<>>
      BY DEF NodeOk, DialsOk
    <3>2. n.pending_dials[f] \in Nat /\ n.dialed <= MaxDials
      BY <1>1 DEF NodeOk, Typed, NodeRec
    <3>3. n.pending_dials[f] \in Dial
      BY <1>1, <3>1, <3>2, SwarmAssumption DEF Dial
    <3> QED BY <1>4, <3>1, <3>3
  <2>3. \A f, g \in Fd : (q.pending_dials[f] # 0 /\ q.pending_dials[f] = q.pending_dials[g])
                           => f = g
    BY <2>1 DEF NodeOk, DialsOk
  <2>4. \A e \in Dial : e > q.dialed => q.outcomes[e] = <<>>
    <3>1. \A e \in Dial : e > n.dialed => e # d
      BY <1>1, SwarmAssumption DEF Dial
    <3> QED BY <1>4, <1>5, <3>1 DEF NodeOk, DialsOk
  <2>5. \A e \in Dial : Len(q.outcomes[e]) <= 1
    <3>1. \A e \in Dial : Len(n.outcomes[e]) <= 1
      BY DEF NodeOk, DialsOk
    <3>2. \A e \in Dial : outs[e] = one \/ outs[e] = n.outcomes[e]
      BY <1>4
    <3>3. Len(one) <= 1
      BY <1>2
    <3> QED BY <1>5, <3>1, <3>2, <3>3
  <2> QED BY <2>2, <2>3, <2>4, <2>5 DEF DialsOk
<1>9. SocketsOk(q, O)
  BY <1>5, <1>6 DEF NodeOk, SocketsOk, Owns, SameSockets, SameTransport, SameConnections
<1>10. WatchOk(q, O)
  BY <1>5 DEF NodeOk, WatchOk, SameSockets, SameTransport, Typed, NodeRec
<1>11. StoryOk(q, S)
  BY <1>5, <1>6 DEF NodeOk, StoryOk, SameConnections
<1>12. RoutesOk(q)
  BY <1>5, <1>6 DEF NodeOk, RoutesOk, SameConnections, SameRoutes
<1> QED BY <1>7, <1>8, <1>9, <1>10, <1>11, <1>12 DEF NodeOk, q

----------------------------------------------------------------------------
(* Descriptors, and the sync of those the transport holds.                 *)

\* A nonempty set of numbers has a least one.
LEMMA LeastOne ==
    ASSUME NEW T, T \subseteq Nat, T # {}
    PROVE  \E x \in T : \A y \in T : x <= y
<1> DEFINE Less == OpToRel(<, Nat)
<1>1. IsWellFoundedOn(Less, Nat)
  BY NatLessThanWellFounded, Zenon
<1>2. \A x, y \in Nat : y < x => <<y, x>> \in Less
  <2> SUFFICES ASSUME NEW x \in Nat, NEW y \in Nat, y < x
               PROVE  <<y, x>> \in {ss \in Nat \X Nat : ss[1] < ss[2]}
    BY Zenon DEF OpToRel
  <2> QED OBVIOUS
<1> HIDE DEF Less
<1>3. PICK x \in T : \A y \in T : <<y, x>> \notin Less
  BY <1>1, WFMin
<1>4. \A y \in T : x <= y
  <2> TAKE y \in T
  <2>1. x \in Nat /\ y \in Nat
    OBVIOUS
  <2>2. ~(y < x)
    BY <1>2, <1>3, <2>1
  <2> QED BY <2>1, <2>2
<1> QED BY <1>4

LEMMA LowestIsFree ==
    ASSUME NEW n, FreeFds(n) # {}
    PROVE  LowestFree(n) \in Fd /\ n.sock[LowestFree(n)].kind = "free"
<1>1. FreeFds(n) \subseteq Nat
  BY SwarmAssumption DEF FreeFds, Fd
<1>2. \E f \in FreeFds(n) : \A g \in FreeFds(n) : f <= g
  BY <1>1, LeastOne
<1>3. LowestFree(n) \in FreeFds(n)
  BY <1>2 DEF LowestFree
<1> QED BY <1>3 DEF FreeFds

LEMMA RaiseKeeps ==
    ASSUME NEW n, NEW O, NEW S, NodeOk(n, O, S), NEW f \in Fd, NEW evs \in SUBSET Edge
    PROVE  NodeOk(Raise(n, f, evs), O, S) /\ ConnIds(Raise(n, f, evs)) = ConnIds(n)
<1> DEFINE es == [n.edges EXCEPT ![f] = @ \cup evs]
           q == [n EXCEPT !.edges = es]
<1>1. n \in NodeRec
  BY NodeTyped
<1>2. es \in [Fd -> SUBSET Edge]
  BY <1>1 DEF NodeRec
<1>3. Raise(n, f, evs) = n \/ Raise(n, f, evs) = q
  BY <1>1 DEF Raise, NodeRec
<1> HIDE DEF es
<1>4. q \in NodeRec /\ SameSockets(q, n) /\ SameTransport(q, n) /\ SameDials(q, n)
      /\ SameConnections(q, n) /\ SameRoutes(q, n)
  BY <1>1, <1>2
  DEF NodeRec, SameSockets, SameTransport, SameDials, SameConnections, SameRoutes
<1> HIDE DEF q
<1>5. /\ \A g \in Fd : q.sock[g].kind = n.sock[g].kind
      /\ q.watched = n.watched /\ q.threw = n.threw
  BY <1>4 DEF SameSockets
<1>6. NodeOk(q, O, S) /\ ConnIds(q) = ConnIds(n)
  BY <1>4, <1>5, SameKinds
<1> QED BY <1>3, <1>6

LEMMA SetListenerFds ==
    ASSUME NEW n \in NodeRec, NEW F \in SUBSET Fd
    PROVE  LET q == [n EXCEPT !.listener_fds = F] IN
           /\ q \in NodeRec /\ q.listener_fds = F
           /\ q.listeners = n.listeners /\ q.pending_dials = n.pending_dials
           /\ q.dialing_fds = n.dialing_fds
           /\ SameSockets(q, n) /\ SameDials(q, n)
           /\ SameConnections(q, n) /\ SameRoutes(q, n)
BY DEF NodeRec, SameSockets, SameDials, SameConnections, SameRoutes

LEMMA SetDialingFds ==
    ASSUME NEW n \in NodeRec, NEW F \in SUBSET Fd
    PROVE  LET q == [n EXCEPT !.dialing_fds = F] IN
           /\ q \in NodeRec /\ q.dialing_fds = F
           /\ q.listeners = n.listeners /\ q.pending_dials = n.pending_dials
           /\ q.listener_fds = n.listener_fds
           /\ SameSockets(q, n) /\ SameDials(q, n)
           /\ SameConnections(q, n) /\ SameRoutes(q, n)
BY DEF NodeRec, SameSockets, SameDials, SameConnections, SameRoutes

\* What sync_transport_fds changes.  No descriptor it registers is watched.
LEMMA SyncTransportFdsStep ==
    ASSUME NEW n, NEW S, NodeOk(n, {}, S)
    PROVE  LET q == SyncTransportFds(n)
               new == {f \in Dials(n) \ n.dialing_fds : n.fd_to_conn[f] = 0}
           IN /\ q \in NodeRec
              /\ q.watched = (((n.watched \cup (n.listeners \ n.listener_fds))
                                 \ (n.listener_fds \ n.listeners)) \cup new)
                                 \ (n.dialing_fds \ Dials(n))
              /\ q.listener_fds = n.listeners
              /\ q.dialing_fds = (n.dialing_fds \cap Dials(n)) \cup new
              /\ q.sock = n.sock /\ ~q.threw
              /\ q.listeners = n.listeners /\ q.pending_dials = n.pending_dials
              /\ SameDials(q, n) /\ SameConnections(q, n) /\ SameRoutes(q, n)
<1> DEFINE more == n.listeners \ n.listener_fds
           less == n.listener_fds \ n.listeners
           new == {f \in Dials(n) \ n.dialing_fds : n.fd_to_conn[f] = 0}
           done == n.dialing_fds \ Dials(n)
           left == (n.dialing_fds \cap Dials(n)) \cup new
           r == RegisterFds(n, more, "accept")
           a == [r EXCEPT !.listener_fds = n.listeners]
           b == UnregisterFds(a, less)
           d == RegisterFds(b, new, "connect")
           e == UnregisterFds(d, done)
<1>1. n \in NodeRec
  BY NodeTyped
<1>2. /\ more \in SUBSET Fd /\ less \in SUBSET Fd /\ new \in SUBSET Fd
      /\ done \in SUBSET Fd /\ left \in SUBSET Fd /\ n.listeners \in SUBSET Fd
      /\ n.watched \in SUBSET Fd
  BY <1>1 DEF NodeRec, Dials
<1>3. more \cap n.watched = {} /\ ~n.threw
  BY DEF NodeOk, WatchOk
<1>4. new \cap (n.watched \cup more) = {}
  <2> SUFFICES ASSUME NEW f \in new PROVE f \notin n.watched /\ f \notin more
    OBVIOUS
  <2>1. f \in Fd /\ n.pending_dials[f] # 0 /\ f \notin n.dialing_fds
    BY DEF Dials
  <2>2. f \notin n.watched
    BY <2>1 DEF NodeOk, WatchOk
  <2>3. n.sock[f].kind = "dial" /\ f \notin n.listeners
    BY <2>1 DEF NodeOk, SocketsOk
  <2> QED BY <2>2, <2>3
<1>5. SyncTransportFds(n) = [e EXCEPT !.dialing_fds = left]
  BY DEF SyncTransportFds
<1> HIDE DEF more, less, new, done, left
<1>6. /\ r \in NodeRec /\ r.sock = n.sock /\ r.watched = n.watched \cup more /\ ~r.threw
      /\ SameTransport(r, n) /\ SameDials(r, n) /\ SameConnections(r, n)
      /\ SameRoutes(r, n)
  BY <1>1, <1>2, <1>3, RegisterFdsStep
<1> HIDE DEF r
<1>7. /\ a \in NodeRec /\ a.listener_fds = n.listeners
      /\ a.listeners = r.listeners /\ a.pending_dials = r.pending_dials
      /\ a.dialing_fds = r.dialing_fds
      /\ SameSockets(a, r) /\ SameDials(a, r) /\ SameConnections(a, r) /\ SameRoutes(a, r)
  BY <1>2, <1>6, SetListenerFds
<1> HIDE DEF a
<1>8. /\ b \in NodeRec /\ b.sock = a.sock /\ b.watched = a.watched \ less
      /\ b.threw = a.threw
      /\ SameTransport(b, a) /\ SameDials(b, a) /\ SameConnections(b, a)
      /\ SameRoutes(b, a)
  BY <1>2, <1>7, UnregisterFdsStep
<1> HIDE DEF b
<1>9. new \cap b.watched = {} /\ ~b.threw
  BY <1>4, <1>6, <1>7, <1>8 DEF SameSockets
<1>10. /\ d \in NodeRec /\ d.sock = b.sock /\ d.watched = b.watched \cup new /\ ~d.threw
       /\ SameTransport(d, b) /\ SameDials(d, b) /\ SameConnections(d, b)
       /\ SameRoutes(d, b)
  BY <1>2, <1>8, <1>9, RegisterFdsStep
<1> HIDE DEF d
<1>11. /\ e \in NodeRec /\ e.sock = d.sock /\ e.watched = d.watched \ done
       /\ e.threw = d.threw
       /\ SameTransport(e, d) /\ SameDials(e, d) /\ SameConnections(e, d)
       /\ SameRoutes(e, d)
  BY <1>2, <1>10, UnregisterFdsStep
<1> HIDE DEF e
<1> DEFINE q == [e EXCEPT !.dialing_fds = left]
<1>12. /\ q \in NodeRec /\ q.dialing_fds = left
       /\ q.listeners = e.listeners /\ q.pending_dials = e.pending_dials
       /\ q.listener_fds = e.listener_fds
       /\ SameSockets(q, e) /\ SameDials(q, e) /\ SameConnections(q, e) /\ SameRoutes(q, e)
  BY <1>2, <1>11, SetDialingFds
<1> HIDE DEF q
<1>13. /\ q \in NodeRec
       /\ q.watched = (((n.watched \cup more) \ less) \cup new) \ done
       /\ q.listener_fds = n.listeners /\ q.dialing_fds = left
       /\ q.sock = n.sock /\ ~q.threw
       /\ q.listeners = n.listeners /\ q.pending_dials = n.pending_dials
  BY <1>6, <1>7, <1>8, <1>10, <1>11, <1>12 DEF SameSockets, SameTransport
<1>14. SameDials(q, n) /\ SameConnections(q, n) /\ SameRoutes(q, n)
  BY <1>6, <1>7, <1>8, <1>10, <1>11, <1>12 DEF SameDials, SameConnections, SameRoutes
<1> USE DEF more, less, new, done, left
<1> QED BY <1>5, <1>13, <1>14 DEF q

LEMMA SyncTransportFdsKeeps ==
    ASSUME NEW n, NEW S, NodeOk(n, {}, S)
    PROVE  NodeOk(SyncTransportFds(n), {}, S) /\ ConnIds(SyncTransportFds(n)) = ConnIds(n)
<1> DEFINE q == SyncTransportFds(n)
           more == n.listeners \ n.listener_fds
           less == n.listener_fds \ n.listeners
           new == {f \in Dials(n) \ n.dialing_fds : n.fd_to_conn[f] = 0}
           done == n.dialing_fds \ Dials(n)
           left == (n.dialing_fds \cap Dials(n)) \cup new
<1>1. n \in NodeRec /\ n.listeners \in SUBSET Fd /\ n.watched \in SUBSET Fd
  <2>1. n \in NodeRec
    BY NodeTyped
  <2> QED BY <2>1 DEF NodeRec
<1>2. /\ q \in NodeRec
      /\ q.watched = (((n.watched \cup more) \ less) \cup new) \ done
      /\ q.listener_fds = n.listeners /\ q.dialing_fds = left
      /\ q.sock = n.sock /\ ~q.threw
      /\ q.listeners = n.listeners /\ q.pending_dials = n.pending_dials
      /\ SameDials(q, n) /\ SameConnections(q, n) /\ SameRoutes(q, n)
  BY SyncTransportFdsStep
<1> HIDE DEF q
<1> USE DEF SameDials, SameConnections, SameRoutes
<1>3. ConnIds(q) = ConnIds(n) /\ Typed(q)
  BY <1>2 DEF NodeOk, Typed, ConnIds
<1>4. DialsOk(q)
  BY <1>2 DEF NodeOk, DialsOk
<1>5. SocketsOk(q, {})
  BY <1>2, <1>3 DEF NodeOk, SocketsOk, Owns
<1>6. WatchOk(q, {})
  <2> SUFFICES ASSUME NEW f \in q.watched
               PROVE  /\ n.sock[f].kind # "free"
                      /\ f \in n.listeners => f \in n.listeners
                      /\ n.pending_dials[f] # 0 => f \in left
    BY <1>2 DEF WatchOk
  <2>1. f \in n.watched \/ f \in n.listeners \/ f \in new
    BY <1>2
  <2>2. f \in Fd
    BY <1>1, <2>1 DEF Dials
  <2>3. CASE f \in n.watched
    <3>1. /\ n.sock[f].kind # "free"
          /\ n.pending_dials[f] # 0 => f \in n.dialing_fds
      BY <2>3 DEF NodeOk, WatchOk
    <3> QED BY <2>2, <3>1 DEF Dials
  <2>4. CASE f \in n.listeners
    <3>1. n.sock[f].kind = "listener"
      BY <2>2, <2>4 DEF NodeOk, SocketsOk
    <3>2. n.pending_dials[f] = 0
      BY <2>2, <3>1 DEF NodeOk, SocketsOk
    <3> QED BY <3>1, <3>2
  <2>5. CASE f \in new
    <3>1. n.pending_dials[f] # 0
      BY <2>5 DEF Dials
    <3>2. n.sock[f].kind = "dial"
      BY <2>2, <3>1 DEF NodeOk, SocketsOk
    <3> QED BY <2>5, <3>2
  <2> QED BY <2>1, <2>3, <2>4, <2>5
<1>7. StoryOk(q, S)
  BY <1>2, <1>3 DEF NodeOk, StoryOk
<1>8. RoutesOk(q)
  BY <1>2, <1>3 DEF NodeOk, RoutesOk
<1> QED BY <1>3, <1>4, <1>5, <1>6, <1>7, <1>8 DEF NodeOk, q

----------------------------------------------------------------------------
(* Dials.                                                                  *)

LEMMA SetPending ==
    ASSUME NEW n \in NodeRec, NEW pd \in [Fd -> Nat]
    PROVE  LET q == [n EXCEPT !.pending_dials = pd] IN
           /\ q \in NodeRec /\ q.pending_dials = pd /\ q.listeners = n.listeners
           /\ q.listener_fds = n.listener_fds /\ q.dialing_fds = n.dialing_fds
           /\ SameSockets(q, n) /\ SameDials(q, n)
           /\ SameConnections(q, n) /\ SameRoutes(q, n)
BY DEF NodeRec, SameSockets, SameDials, SameConnections, SameRoutes

\* A dial is taken off pending_dials_, and its socket is closed or becomes
\* that of a connection.
TakeDial(n, f) == [n EXCEPT !.pending_dials[f] = 0]

LEMMA DialTaken ==
    ASSUME NEW n, NEW S, NodeOk(n, {}, S), NEW f \in Fd, n.pending_dials[f] # 0,
           NEW m, m = TakeDial(n, f),
           NEW d, d = n.pending_dials[f]
    PROVE  /\ NodeOk(CloseFd(m, f), {}, S) /\ NodeOk(OpenSocket(m, f, "conn"), {f}, S)
           /\ d \in Dial /\ d <= n.dialed /\ n.outcomes[d] = <<>>
           /\ \A g \in Fd : CloseFd(m, f).pending_dials[g] # d
           /\ \A g \in Fd : OpenSocket(m, f, "conn").pending_dials[g] # d
           /\ SameDials(CloseFd(m, f), n) /\ SameDials(OpenSocket(m, f, "conn"), n)
           /\ ConnIds(CloseFd(m, f)) = ConnIds(n)
           /\ ConnIds(OpenSocket(m, f, "conn")) = ConnIds(n)
<1> DEFINE pd == [n.pending_dials EXCEPT ![f] = 0]
<1>1. n \in NodeRec /\ n.pending_dials \in [Fd -> Nat] /\ n.dialed \in Nat
      /\ n.sock \in [Fd -> SockRec] /\ n.watched \in SUBSET Fd /\ n.listeners \in SUBSET Fd
  <2>1. n \in NodeRec
    BY NodeTyped
  <2> QED BY <2>1 DEF NodeRec
<1>2. m = [n EXCEPT !.pending_dials = pd]
  BY <1>1 DEF NodeRec, TakeDial
<1>3. pd \in [Fd -> Nat] /\ pd[f] = 0 /\ \A g \in Fd : g # f => pd[g] = n.pending_dials[g]
  BY <1>1
<1>4. d <= n.dialed /\ n.dialed <= MaxDials /\ n.outcomes[d] = <<>>
      /\ \A g \in Fd : g # f => n.pending_dials[g] # d
  BY DEF NodeOk, Typed, DialsOk
<1>5. d \in Dial
  <2>1. d \in Nat
    BY <1>1
  <2> QED BY <1>1, <1>4, <2>1, SwarmAssumption DEF Dial
<1>6. d # 0
  OBVIOUS
<1> HIDE DEF pd
<1>7. /\ m \in NodeRec /\ m.pending_dials = pd /\ m.listeners = n.listeners
      /\ m.listener_fds = n.listener_fds /\ m.dialing_fds = n.dialing_fds
      /\ SameSockets(m, n) /\ SameDials(m, n) /\ SameConnections(m, n) /\ SameRoutes(m, n)
  BY <1>1, <1>2, <1>3, SetPending
<1>8. n.sock[f].kind = "dial"
  BY DEF NodeOk, SocketsOk
<1>9. ~n.threw /\ n.stops = n.stops
  BY DEF NodeOk, WatchOk
<1>10. ASSUME NEW q \in NodeRec, q.pending_dials = pd, SameDials(q, n) PROVE DialsOk(q)
  BY <1>3, <1>10 DEF NodeOk, DialsOk, SameDials
<1> DEFINE k == CloseFd(m, f)
           o == OpenSocket(m, f, "conn")
<1>11. /\ k \in NodeRec /\ k.sock = [n.sock EXCEPT ![f] = Free]
       /\ k.watched = n.watched \ {f} /\ k.threw = n.threw
       /\ k.pending_dials = pd /\ k.listeners = n.listeners
       /\ k.listener_fds = n.listener_fds /\ k.dialing_fds = n.dialing_fds
       /\ SameDials(k, n) /\ SameConnections(k, n) /\ SameRoutes(k, n)
  <2>1. /\ k \in NodeRec /\ k.sock = [m.sock EXCEPT ![f] = Free]
        /\ k.watched = m.watched \ {f} /\ k.threw = m.threw
        /\ SameTransport(k, m) /\ SameDials(k, m) /\ SameConnections(k, m)
        /\ SameRoutes(k, m)
    BY <1>7, CloseFdStep
  <2> HIDE DEF k
  <2> QED
    BY <1>7, <2>1
    DEF SameSockets, SameTransport, SameDials, SameConnections, SameRoutes
<1>12. /\ o \in NodeRec /\ o.sock = [n.sock EXCEPT ![f] = [Free EXCEPT !.kind = "conn"]]
       /\ o.watched = n.watched /\ o.threw = n.threw
       /\ o.pending_dials = pd /\ o.listeners = n.listeners
       /\ o.listener_fds = n.listener_fds /\ o.dialing_fds = n.dialing_fds
       /\ SameDials(o, n) /\ SameConnections(o, n) /\ SameRoutes(o, n)
  <2>1. /\ o \in NodeRec /\ o.sock = [m.sock EXCEPT ![f] = [Free EXCEPT !.kind = "conn"]]
        /\ o.watched = m.watched /\ o.threw = m.threw
        /\ SameTransport(o, m) /\ SameDials(o, m) /\ SameConnections(o, m)
        /\ SameRoutes(o, m)
    BY <1>7, OpenSocketStep
  <2> HIDE DEF o
  <2> QED
    BY <1>7, <2>1
    DEF SameSockets, SameTransport, SameDials, SameConnections, SameRoutes
<1> HIDE DEF k, o
<1>13. NodeOk(k, {}, S)
  <2>1. k.sock[f].kind = "free"
        /\ \A g \in Fd : g # f => k.sock[g].kind = n.sock[g].kind
    BY <1>1, <1>11 DEF Free
  <2>2. \A g \in Fd : g # f => k.pending_dials[g] = n.pending_dials[g]
    BY <1>3, <1>11
  <2>3. DialsOk(k)
    BY <1>10, <1>11
  <2>4. k.watched \subseteq n.watched /\ f \notin k.watched /\ k.threw = n.threw
    BY <1>11
  <2>5. k.listeners = n.listeners \cup (IF k.sock[f].kind = "listener" THEN {f} ELSE {})
    BY <1>11, <2>1
  <2>6. (k.pending_dials[f] # 0) <=> (k.sock[f].kind = "dial")
    BY <1>3, <1>11, <2>1
  <2>7. {} = IF k.sock[f].kind = "conn" THEN {f} ELSE {}
    BY <2>1
  <2>8. k.dialed <= MaxDials /\ k.stops = n.stops
    BY <1>4, <1>11 DEF SameDials
  <2>9. Turned(n, k, f, {})
    BY <1>8, <1>11, <2>1, <2>2, <2>3, <2>4, <2>5, <2>6, <2>7, <2>8
    DEF Turned
  <2> QED BY <2>9, SocketTurns
<1>14. NodeOk(o, {f}, S)
  <2>1. o.sock[f].kind = "conn"
        /\ \A g \in Fd : g # f => o.sock[g].kind = n.sock[g].kind
    BY <1>1, <1>12 DEF Free
  <2>2. \A g \in Fd : g # f => o.pending_dials[g] = n.pending_dials[g]
    BY <1>3, <1>12
  <2>3. DialsOk(o)
    BY <1>10, <1>12
  <2>4. o.watched \subseteq n.watched /\ o.threw = n.threw
    BY <1>12
  <2>5. o.listeners = n.listeners \cup (IF o.sock[f].kind = "listener" THEN {f} ELSE {})
    BY <1>12, <2>1
  <2>6. (o.pending_dials[f] # 0) <=> (o.sock[f].kind = "dial")
    BY <1>3, <1>12, <2>1
  <2>7. {f} = IF o.sock[f].kind = "conn" THEN {f} ELSE {}
    BY <2>1
  <2>8. o.dialed <= MaxDials /\ o.stops = n.stops
    BY <1>4, <1>12 DEF SameDials
  <2>9. Turned(n, o, f, {f})
    BY <1>8, <1>12, <2>1, <2>2, <2>3, <2>4, <2>5, <2>6, <2>7, <2>8
    DEF Turned
  <2> QED BY <2>9, SocketTurns
<1>15. \A g \in Fd : pd[g] # d
  BY <1>3, <1>4, <1>6
<1>16. ConnIds(k) = ConnIds(n) /\ ConnIds(o) = ConnIds(n)
  BY <1>11, <1>12 DEF ConnIds, SameConnections
<1> QED BY <1>4, <1>5, <1>11, <1>12, <1>13, <1>14, <1>15, <1>16 DEF k, o

LEMMA OnConnectReadyKeeps ==
    ASSUME NEW n, NodeOk(n, {}, {}), NEW f \in Fd, NEW fails \in BOOLEAN
    PROVE  NodeOk(OnConnectReady(n, f, fails), {}, {})
<1> DEFINE d == n.pending_dials[f]
           m == TakeDial(n, f)
           k == CloseFd(m, f)
           o == OpenSocket(m, f, "conn")
           a == Settle(o, d, "connected")
<1>1. CASE d = 0
  BY <1>1 DEF OnConnectReady, TakeDial
<1>2. CASE d # 0
  <2>1. /\ NodeOk(k, {}, {}) /\ NodeOk(o, {f}, {})
        /\ d \in Dial /\ d <= n.dialed /\ n.outcomes[d] = <<>>
        /\ (\A g \in Fd : k.pending_dials[g] # d) /\ SameDials(k, n)
        /\ (\A g \in Fd : o.pending_dials[g] # d) /\ SameDials(o, n)
    BY SMTT(30), <1>2, DialTaken
  <2>2. n \in NodeRec
    BY NodeTyped
  <2>3. CloseFd(Settle(m, d, "failed"), f) = Settle(k, d, "failed")
    BY ZenonT(30), <2>2 DEF Settle, CloseFd, NodeRec, TakeDial
  <2>4. CASE n.sock[f].gone
    <3>1. OnConnectReady(n, f, fails) = Settle(k, d, "failed")
      BY <1>2, <2>3, <2>4 DEF OnConnectReady, TakeDial
    <3> HIDE DEF k, d
    <3>2. d <= k.dialed /\ k.outcomes[d] = <<>> /\ \A g \in Fd : k.pending_dials[g] # d
      BY <2>1 DEF SameDials
    <3>3. NodeOk(Settle(k, d, "failed"), {}, {})
      BY <2>1, <3>2, SettleKeeps
    <3> QED BY <3>1, <3>3
  <2>5. CASE ~n.sock[f].gone
    <3>1. OnConnectReady(n, f, fails) = OnConnected(a, f, fails)
      BY <1>2, <2>5 DEF OnConnectReady, TakeDial
    <3> HIDE DEF o, d
    <3>2. d <= o.dialed /\ o.outcomes[d] = <<>> /\ \A g \in Fd : o.pending_dials[g] # d
      BY <2>1 DEF SameDials
    <3>3. NodeOk(a, {f}, {})
      BY <2>1, <3>2, SettleKeeps
    <3> HIDE DEF a
    <3>4. NodeOk(OnConnected(a, f, fails), {}, {})
      BY <3>3, OnConnectedKeeps
    <3> QED BY <3>1, <3>4
  <2> QED BY <2>4, <2>5
<1> QED BY <1>1, <1>2

----------------------------------------------------------------------------
(* New sockets.                                                            *)

\* A free descriptor becomes a connection's socket, with no session yet.
LEMMA ConnSocket ==
    ASSUME NEW n, NEW S, NodeOk(n, {}, S), NEW f \in Fd, n.sock[f].kind = "free"
    PROVE  LET q == OpenSocket(n, f, "conn") IN
           /\ NodeOk(q, {f}, S) /\ ConnIds(q) = ConnIds(n) /\ SameDials(q, n)
           /\ q.pending_dials = n.pending_dials
<1> DEFINE q == OpenSocket(n, f, "conn")
<1>1. n \in NodeRec /\ n.sock \in [Fd -> SockRec]
  <2>1. n \in NodeRec
    BY NodeTyped
  <2> QED BY <2>1 DEF NodeRec
<1>2. /\ q \in NodeRec /\ q.sock = [n.sock EXCEPT ![f] = [Free EXCEPT !.kind = "conn"]]
      /\ q.watched = n.watched /\ q.threw = n.threw
      /\ SameTransport(q, n) /\ SameDials(q, n) /\ SameConnections(q, n)
      /\ SameRoutes(q, n)
  BY <1>1, OpenSocketStep
<1> HIDE DEF q
<1>3. q.sock[f].kind = "conn" /\ \A g \in Fd : g # f => q.sock[g].kind = n.sock[g].kind
  BY <1>1, <1>2 DEF Free
<1>4. n.pending_dials[f] = 0
  BY DEF NodeOk, SocketsOk
<1>5. DialsOk(q) /\ q.dialed <= MaxDials /\ q.stops = n.stops
  BY <1>2 DEF NodeOk, Typed, DialsOk, SameTransport, SameDials
<1>6. Turned(n, q, f, {f})
  BY <1>2, <1>3, <1>4, <1>5 DEF Turned, SameTransport
<1>7. NodeOk(q, {f}, S)
  BY <1>6, SocketTurns
<1> QED BY <1>2, <1>7 DEF ConnIds, SameConnections, SameTransport, q

LEMMA SetListeners ==
    ASSUME NEW n \in NodeRec, NEW F \in SUBSET Fd
    PROVE  LET q == [n EXCEPT !.listeners = F] IN
           /\ q \in NodeRec /\ q.listeners = F
           /\ q.listener_fds = n.listener_fds /\ q.pending_dials = n.pending_dials
           /\ q.dialing_fds = n.dialing_fds
           /\ SameSockets(q, n) /\ SameDials(q, n)
           /\ SameConnections(q, n) /\ SameRoutes(q, n)
BY DEF NodeRec, SameSockets, SameDials, SameConnections, SameRoutes

\* A free descriptor becomes a listener.
LEMMA ListenerSocket ==
    ASSUME NEW n, NEW S, NodeOk(n, {}, S), NEW f \in Fd, n.sock[f].kind = "free"
    PROVE  LET q == OpenSocket([n EXCEPT !.listeners = @ \cup {f}], f, "listener") IN
           NodeOk(q, {}, S) /\ ConnIds(q) = ConnIds(n)
<1> DEFINE F == n.listeners \cup {f}
           m == [n EXCEPT !.listeners = F]
           q == OpenSocket(m, f, "listener")
<1>1. n \in NodeRec /\ n.sock \in [Fd -> SockRec] /\ F \in SUBSET Fd
  <2>1. n \in NodeRec
    BY NodeTyped
  <2> QED BY <2>1 DEF NodeRec
<1>2. [n EXCEPT !.listeners = @ \cup {f}] = m
  BY <1>1 DEF NodeRec
<1> HIDE DEF F
<1>3. /\ m \in NodeRec /\ m.listeners = F
      /\ m.listener_fds = n.listener_fds /\ m.pending_dials = n.pending_dials
      /\ m.dialing_fds = n.dialing_fds
      /\ SameSockets(m, n) /\ SameDials(m, n)
      /\ SameConnections(m, n) /\ SameRoutes(m, n)
  BY <1>1, SetListeners
<1> HIDE DEF m
<1>4. /\ q \in NodeRec
      /\ q.sock = [m.sock EXCEPT ![f] = [Free EXCEPT !.kind = "listener"]]
      /\ q.watched = m.watched /\ q.threw = m.threw
      /\ SameTransport(q, m) /\ SameDials(q, m) /\ SameConnections(q, m)
      /\ SameRoutes(q, m)
  BY <1>3, OpenSocketStep
<1> HIDE DEF q
<1>5. q.sock[f].kind = "listener"
      /\ \A g \in Fd : g # f => q.sock[g].kind = n.sock[g].kind
  BY <1>1, <1>3, <1>4 DEF Free, SameSockets
<1>6. n.pending_dials[f] = 0
  BY DEF NodeOk, SocketsOk
<1>7. DialsOk(q) /\ q.dialed <= MaxDials /\ q.stops = n.stops
  BY <1>3, <1>4 DEF NodeOk, Typed, DialsOk, SameTransport, SameDials
<1>8. q.listeners = n.listeners \cup {f}
  BY <1>3, <1>4 DEF SameTransport, F
<1>9. SameConnections(q, n) /\ SameRoutes(q, n)
  BY <1>3, <1>4 DEF SameConnections, SameRoutes
<1>10. /\ q.watched = n.watched /\ q.threw = n.threw
       /\ q.pending_dials = n.pending_dials
       /\ q.listener_fds = n.listener_fds /\ q.dialing_fds = n.dialing_fds
  BY <1>3, <1>4 DEF SameTransport, SameSockets
<1>11. Turned(n, q, f, {})
  BY <1>4, <1>5, <1>6, <1>7, <1>8, <1>9, <1>10 DEF Turned
<1>12. NodeOk(q, {}, S)
  BY <1>11, SocketTurns
<1> QED BY <1>2, <1>9, <1>12 DEF ConnIds, SameConnections, q

----------------------------------------------------------------------------
(* dial_addr.                                                              *)

BeginDial(n) == [n EXCEPT !.dialed = n.dialed + 1]

LEMMA BeginDialKeeps ==
    ASSUME NEW n, NEW S, NodeOk(n, {}, S), n.dialed < MaxDials,
           FreeFds(n) # {}, NEW d, d = n.dialed + 1
    PROVE  LET m == BeginDial(n) IN
           /\ NodeOk(m, {}, S) /\ ConnIds(m) = ConnIds(n) /\ m.sock = n.sock
           /\ d \in Dial /\ m.dialed = d /\ m.outcomes[d] = <<>>
           /\ \A g \in Fd : m.pending_dials[g] # d /\ m.pending_dials[g] <= d
<1> DEFINE m == BeginDial(n)
           f == LowestFree(n)
<1>1. n \in NodeRec /\ n.dialed \in Nat /\ n.pending_dials \in [Fd -> Nat]
  <2>1. n \in NodeRec
    BY NodeTyped
  <2> QED BY <2>1 DEF NodeRec
<1>2. d \in Dial /\ d \in Nat /\ d <= MaxDials
  BY <1>1, SwarmAssumption DEF Dial
<1>3. m = [n EXCEPT !.dialed = d]
  BY DEF BeginDial
<1>4. /\ m \in NodeRec /\ m.dialed = d /\ m.outcomes = n.outcomes /\ m.stops = n.stops
      /\ SameSockets(m, n) /\ SameTransport(m, n)
      /\ SameConnections(m, n) /\ SameRoutes(m, n)
  BY <1>1, <1>2, <1>3
  DEF NodeRec, SameSockets, SameTransport, SameConnections, SameRoutes
<1>5. f \in Fd /\ n.sock[f].kind = "free"
  BY LowestIsFree
<1> HIDE DEF m, f
<1>6. \A g \in Fd : n.pending_dials[g] # d /\ n.pending_dials[g] <= d
  <2> SUFFICES ASSUME NEW g \in Fd
               PROVE  n.pending_dials[g] # d /\ n.pending_dials[g] <= d
    OBVIOUS
  <2>1. n.pending_dials[g] \in Nat
    BY <1>1
  <2>2. n.pending_dials[g] = 0 \/ n.pending_dials[g] <= n.dialed
    BY DEF NodeOk, DialsOk
  <2> QED BY <1>1, <2>1, <2>2
<1>7. n.outcomes[d] = <<>>
  <2>1. d > n.dialed
    BY <1>1
  <2> QED BY <1>2, <2>1 DEF NodeOk, DialsOk
<1>8. DialsOk(m)
  <2>1. \A e \in Dial : e > m.dialed => e > n.dialed
    BY <1>1, <1>4, SwarmAssumption DEF Dial
  <2>2. \A g \in Fd : m.pending_dials[g] <= m.dialed
    BY <1>4, <1>6 DEF SameTransport
  <2> QED BY <1>4, <2>1, <2>2 DEF NodeOk, DialsOk, SameTransport
<1>9. n.pending_dials[f] = 0 /\ f \notin n.watched /\ f \notin n.listeners
  BY <1>5 DEF NodeOk, SocketsOk, WatchOk
<1>10. Turned(n, m, f, {})
  <2>1. m.sock[f].kind = "free"
    BY <1>4, <1>5 DEF SameSockets
  <2>2. m.pending_dials[f] = 0 /\ f \notin m.watched /\ m.dialed <= MaxDials
    BY <1>2, <1>4, <1>9 DEF SameTransport, SameSockets
  <2> QED BY <1>4, <1>5, <1>8, <2>1, <2>2 DEF Turned, SameSockets, SameTransport
<1>11. NodeOk(m, {}, S)
  BY <1>5, <1>10, SocketTurns
<1> QED BY <1>2, <1>4, <1>6, <1>7, <1>11
        DEF ConnIds, SameConnections, SameTransport, SameSockets, m

\* connect() is in progress.
LEMMA DialSocket ==
    ASSUME NEW n, NEW S, NodeOk(n, {}, S), NEW f \in Fd, n.sock[f].kind = "free",
           NEW d \in Dial, n.dialed = d, n.outcomes[d] = <<>>,
           \A g \in Fd : n.pending_dials[g] # d
    PROVE  LET q == OpenSocket([n EXCEPT !.pending_dials[f] = d], f, "dial") IN
           NodeOk(q, {}, S) /\ ConnIds(q) = ConnIds(n)
<1> DEFINE pd == [n.pending_dials EXCEPT ![f] = d]
           m == [n EXCEPT !.pending_dials = pd]
           q == OpenSocket(m, f, "dial")
<1>1. n \in NodeRec /\ n.sock \in [Fd -> SockRec] /\ n.pending_dials \in [Fd -> Nat]
  <2>1. n \in NodeRec
    BY NodeTyped
  <2> QED BY <2>1 DEF NodeRec
<1>2. d \in Nat /\ d # 0 /\ d <= d
  BY SwarmAssumption DEF Dial
<1>3. /\ pd \in [Fd -> Nat] /\ pd[f] = d
      /\ \A g \in Fd : g # f => pd[g] = n.pending_dials[g]
  BY <1>1, <1>2
<1>4. [n EXCEPT !.pending_dials[f] = d] = m
  BY <1>1 DEF NodeRec
<1> HIDE DEF pd
<1>5. /\ m \in NodeRec /\ m.pending_dials = pd /\ m.listeners = n.listeners
      /\ m.listener_fds = n.listener_fds /\ m.dialing_fds = n.dialing_fds
      /\ SameSockets(m, n) /\ SameDials(m, n)
      /\ SameConnections(m, n) /\ SameRoutes(m, n)
  BY <1>1, <1>3, SetPending
<1> HIDE DEF m
<1>6. /\ q \in NodeRec
      /\ q.sock = [m.sock EXCEPT ![f] = [Free EXCEPT !.kind = "dial"]]
      /\ q.watched = m.watched /\ q.threw = m.threw
      /\ SameTransport(q, m) /\ SameDials(q, m) /\ SameConnections(q, m)
      /\ SameRoutes(q, m)
  BY <1>5, OpenSocketStep
<1> HIDE DEF q
<1>7. q.sock[f].kind = "dial"
      /\ \A g \in Fd : g # f => q.sock[g].kind = n.sock[g].kind
  BY <1>1, <1>5, <1>6 DEF Free, SameSockets
<1>8. q.pending_dials = pd /\ q.dialed = d /\ q.outcomes = n.outcomes /\ q.stops = n.stops
  BY <1>5, <1>6 DEF SameTransport, SameDials
<1>9. DialsOk(q)
  <2>1. \A g \in Fd : q.pending_dials[g] # 0 =>
          q.pending_dials[g] <= q.dialed /\ q.outcomes[q.pending_dials[g]] = <<>>
    BY <1>2, <1>3, <1>8 DEF NodeOk, DialsOk
  <2>2. \A g, h \in Fd : (q.pending_dials[g] # 0 /\ q.pending_dials[g] = q.pending_dials[h])
                           => g = h
    BY <1>3, <1>8 DEF NodeOk, DialsOk
  <2>3. (\A e \in Dial : e > q.dialed => q.outcomes[e] = <<>>)
        /\ \A e \in Dial : Len(q.outcomes[e]) <= 1
    BY <1>8 DEF NodeOk, DialsOk
  <2> QED BY <2>1, <2>2, <2>3 DEF DialsOk
<1>10. q.dialed <= MaxDials
  BY <1>8 DEF NodeOk, Typed
<1>11. SameConnections(q, n) /\ SameRoutes(q, n)
  BY <1>5, <1>6 DEF SameConnections, SameRoutes
<1>12. /\ q.watched = n.watched /\ q.threw = n.threw
       /\ q.listeners = n.listeners
       /\ q.listener_fds = n.listener_fds /\ q.dialing_fds = n.dialing_fds
  BY <1>5, <1>6 DEF SameTransport, SameSockets
<1>13. Turned(n, q, f, {})
  BY <1>2, <1>3, <1>6, <1>7, <1>8, <1>9, <1>10, <1>11, <1>12 DEF Turned
<1>14. NodeOk(q, {}, S)
  BY <1>13, SocketTurns
<1> QED BY <1>4, <1>11, <1>14 DEF ConnIds, SameConnections, q

----------------------------------------------------------------------------
(* reset and stop.                                                         *)

\* A direct stream's reset closes the socket under its session.
LEMMA StreamResetKeeps ==
    ASSUME NEW n, NEW S, NodeOk(n, {}, S), NEW c \in ConnIds(n),
           n.connections[c].state = "Ready", n.connections[c].open
    PROVE  LET q == [CloseFd(n, n.connections[c].fd) EXCEPT !.connections[c].open = FALSE]
           IN NodeOk(q, {}, S) /\ ConnIds(q) = ConnIds(n)
<1> DEFINE s == n.connections[c]
           a == CloseFd(n, s.fd)
           r == [s EXCEPT !.open = FALSE]
           cs == [n.connections EXCEPT ![c] = r]
           q == [a EXCEPT !.connections = cs]
<1>1. /\ s \in SessionRec
      /\ \A i \in DOMAIN s.events : s.events[i] # "Closed"
  BY ActiveEvents
<1>2. n \in NodeRec /\ n.connections \in Seq(SessionRec) /\ c \in 1 .. Len(n.connections)
  BY NodeTyped, SessionTyped
<1>3. s.fd \in Fd
  BY DEF NodeOk, SocketsOk
<1>4. /\ a \in NodeRec
      /\ a.sock = [n.sock EXCEPT ![s.fd] = Free]
      /\ a.watched = n.watched \ {s.fd} /\ a.threw = n.threw
      /\ SameTransport(a, n) /\ SameDials(a, n) /\ SameConnections(a, n) /\ SameRoutes(a, n)
  BY <1>2, <1>3, CloseFdStep
<1>5. /\ r \in SessionRec /\ r.state = s.state /\ r.fd = s.fd /\ ~r.open
      /\ r.peer = s.peer /\ r.events = s.events
  BY <1>1 DEF SessionRec
<1>6. cs \in Seq(SessionRec)
  BY <1>2, <1>5, ExceptSeq
<1>7. [a EXCEPT !.connections[c].open = FALSE] = q
  <2>1. a.connections = n.connections
    BY <1>4 DEF SameConnections
  <2> HIDE DEF a
  <2> QED BY <1>4, <2>1 DEF NodeRec
<1> HIDE DEF a, r
<1>8. /\ q \in NodeRec /\ q.connections = cs /\ q.story = a.story
      /\ q.conn_fds = a.conn_fds /\ q.fd_to_conn = a.fd_to_conn
      /\ SameSockets(q, a) /\ SameTransport(q, a) /\ SameDials(q, a)
      /\ SameRoutes(q, a)
  <2> HIDE DEF cs
  <2> QED BY <1>4, <1>6, SetConnections
<1>9. s.state = "Ready" /\ s.open
  OBVIOUS
<1> HIDE DEF q
<1>10. Moves(s, r)
  BY <1>1, <1>5, <1>9 DEF Moves
<1>11. Moved(n, q, c, r)
  <2>1. n.sock \in [Fd -> SockRec]
    BY <1>2 DEF NodeRec
  <2>2. q.sock = [f \in Fd |-> IF f \in {s.fd} THEN Free ELSE n.sock[f]]
    BY <1>4, <1>8, <2>1 DEF SameSockets
  <2>3. (IF s.open /\ ~r.open THEN {s.fd} ELSE {}) = {s.fd}
    BY <1>5, <1>9
  <2>4. SameTransport(q, n) /\ SameDials(q, n) /\ SameRoutes(q, n)
    BY <1>4, <1>8 DEF SameTransport, SameDials, SameRoutes
  <2>5. q.watched = n.watched \ {s.fd} /\ q.threw = n.threw
    BY <1>4, <1>8 DEF SameSockets
  <2>6. /\ q \in NodeRec /\ q.connections = [n.connections EXCEPT ![c] = r]
        /\ q.story = n.story /\ q.conn_fds = n.conn_fds /\ q.fd_to_conn = n.fd_to_conn
    BY <1>4, <1>8 DEF SameConnections
  <2> DEFINE shut == IF s.open /\ ~r.open THEN {s.fd} ELSE {}
  <2>7. /\ q.sock = [f \in Fd |-> IF f \in shut THEN Free ELSE n.sock[f]]
        /\ q.watched = n.watched \ shut
    BY <2>2, <2>3, <2>5
  <2> QED BY <2>4, <2>5, <2>6, <2>7 DEF Moved
<1>12. NodeOk(q, {}, S) /\ ConnIds(q) = ConnIds(n)
  BY <1>10, <1>11, SessionMoves
<1> QED BY <1>7, <1>12 DEF a

\* The same entry for each of k connections.
Blank(k, x) == [c \in 1 .. k |-> x]

LEMMA BlankBooks ==
    ASSUME NEW T, NEW x \in T, NEW k \in Nat
    PROVE  Blank(k, x) \in Seq(T) /\ Len(Blank(k, x)) = k /\ DOMAIN Blank(k, x) = 1 .. k
           /\ \A c \in 1 .. k : Blank(k, x)[c] = x
<1> DEFINE s == Blank(k, x)
<1>1. s \in [1 .. k -> T] /\ DOMAIN s = 1 .. k /\ \A c \in 1 .. k : s[c] = x
  BY DEF Blank
<1> HIDE DEF s
<1>2. s \in Seq(T)
  BY <1>1, SeqDef
<1>3. Len(s) = k
  BY <1>1, <1>2
<1> QED BY <1>1, <1>2, <1>3 DEF s

\* The node that stop() leaves, but for what it clears.
Books(n, sk, cs, cf, cp, st, outs, d, m) ==
    [n EXCEPT !.sock = sk, !.connections = cs, !.conn_fds = cf, !.connection_peers = cp,
              !.story = st, !.outcomes = outs, !.dialed = d, !.stops = m]

LEMMA StartTyped ==
    /\ Start \in NodeRec /\ Start.watched = {} /\ Start.listeners = {} /\ ~Start.threw
    /\ \A f \in Fd : Start.pending_dials[f] = 0 /\ Start.fd_to_conn[f] = 0
    /\ \A p \in Peers : Start.peer_connections[p] = 0
<1> DEFINE none == {}
           no == FALSE
           nil == <<>>
           fr == [f \in Fd |-> Free]
           es == [f \in Fd |-> {}]
           hs == [f \in Fd |-> nil]
           zs == [f \in Fd |-> 0]
           ps == [p \in Peers |-> 0]
           ds == [e \in Dial |-> nil]
<1>1. Start = [sock |-> fr, watched |-> none, edges |-> es, fd_handlers |-> hs,
               threw |-> no, listeners |-> none, pending_dials |-> zs,
               listener_fds |-> none, dialing_fds |-> none,
               connections |-> nil, conn_fds |-> nil,
               fd_to_conn |-> zs, peer_connections |-> ps,
               connection_peers |-> nil, story |-> nil,
               outcomes |-> ds, dialed |-> 0, stops |-> 0]
  BY DEF Start
<1>2. none \in SUBSET Fd /\ no \in BOOLEAN /\ es \in [Fd -> SUBSET Edge]
      /\ zs \in [Fd -> Nat] /\ ps \in [Peers -> Nat] /\ fr \in [Fd -> SockRec]
  <2>1. 0 \in Nat
    OBVIOUS
  <2> QED BY <2>1, FreeType
<1>3. none = {} /\ ~no
      /\ (\A f \in Fd : zs[f] = 0) /\ (\A p \in Peers : ps[p] = 0)
  OBVIOUS
<1>4. \A T : nil \in Seq(T)
  BY EmptySeq
<1> HIDE DEF nil
<1>5. /\ hs \in [Fd -> Seq({"accept", "connect", "conn"})]
      /\ ds \in [Dial -> Seq({"connected", "failed"})]
  BY <1>4
<1> HIDE DEF none, no, es, hs, zs, ps, fr, ds
<1>6. /\ Start \in NodeRec /\ Start.watched = none /\ Start.listeners = none
      /\ Start.pending_dials = zs /\ Start.threw = no
      /\ Start.fd_to_conn = zs /\ Start.peer_connections = ps
  BY <1>1, <1>2, <1>4, <1>5 DEF NodeRec
<1> QED BY <1>3, <1>6

\* What StoryOk says of the stories of k connections that are forgotten.
ClosedLast(st, k) ==
    \A c \in 1 .. k : \A i \in DOMAIN st[c] :
       st[c][i] = "ConnectionClosed" => i = Len(st[c])

\* q has k connections that are forgotten, and no socket.
Emptied(q, k, sk, st, outs, d, m) ==
    /\ q = Books(Start, sk, Blank(k, NoSession), Blank(k, 0), Blank(k, NoPeer),
                 st, outs, d, m)
    /\ k \in Nat /\ m \in Nat /\ (k = 0 \/ m # 0)
    /\ sk \in [Fd -> SockRec] /\ \A f \in Fd : sk[f].kind = "free"
    /\ st \in Seq(Seq(Report)) /\ Len(st) = k /\ ClosedLast(st, k)
    /\ outs \in [Dial -> Seq({"connected", "failed"})] /\ d \in Nat /\ d <= MaxDials
    /\ \A e \in Dial : e > d => outs[e] = <<>>
    /\ \A e \in Dial : Len(outs[e]) <= 1

LEMMA EmptyNode ==
    ASSUME NEW q, NEW k, NEW sk, NEW st, NEW outs, NEW d, NEW m,
           Emptied(q, k, sk, st, outs, d, m)
    PROVE  NodeOk(q, {}, {}) /\ ConnIds(q) = 1 .. k
<1>0. /\ q = Books(Start, sk, Blank(k, NoSession), Blank(k, 0), Blank(k, NoPeer),
                   st, outs, d, m)
      /\ k \in Nat /\ m \in Nat /\ (k = 0 \/ m # 0)
      /\ sk \in [Fd -> SockRec] /\ \A f \in Fd : sk[f].kind = "free"
      /\ st \in Seq(Seq(Report)) /\ Len(st) = k /\ ClosedLast(st, k)
      /\ outs \in [Dial -> Seq({"connected", "failed"})] /\ d \in Nat /\ d <= MaxDials
      /\ \A e \in Dial : e > d => outs[e] = <<>>
      /\ \A e \in Dial : Len(outs[e]) <= 1
  BY DEF Emptied
<1> DEFINE cs == Blank(k, NoSession)
           cf == Blank(k, 0)
           cp == Blank(k, NoPeer)
<1>1. q = Books(Start, sk, cs, cf, cp, st, outs, d, m)
  BY <1>0
<1>2. cs \in Seq(SessionRec) /\ Len(cs) = k /\ DOMAIN cs = 1 .. k
      /\ \A c \in 1 .. k : cs[c] = NoSession
  <2>1. NoSession \in SessionRec
    BY NoSessionTyped
  <2> QED BY <1>0, <2>1, BlankBooks
<1>3. cf \in Seq(0 .. MaxFd) /\ Len(cf) = k
  <2>1. 0 \in 0 .. MaxFd
    BY SwarmAssumption
  <2> QED BY <1>0, <2>1, BlankBooks
<1>4. cp \in Seq(PeerOpt) /\ Len(cp) = k
  <2>1. NoPeer \in PeerOpt
    BY DEF PeerOpt
  <2> QED BY <1>0, <2>1, BlankBooks
<1> HIDE DEF cs, cf, cp
<1>5. Start \in NodeRec
  BY StartTyped
<1>6. /\ q \in NodeRec /\ q.sock = sk /\ q.connections = cs /\ q.story = st
      /\ q.conn_fds = cf /\ q.connection_peers = cp
      /\ q.outcomes = outs /\ q.dialed = d /\ q.stops = m
      /\ q.fd_to_conn = Start.fd_to_conn /\ q.peer_connections = Start.peer_connections
      /\ q.watched = Start.watched /\ q.threw = Start.threw
      /\ q.listeners = Start.listeners /\ q.pending_dials = Start.pending_dials
  <2> DEFINE v == Books(Start, sk, cs, cf, cp, st, outs, d, m)
  <2>1. /\ v \in NodeRec /\ v.sock = sk /\ v.connections = cs /\ v.story = st
        /\ v.conn_fds = cf /\ v.connection_peers = cp
        /\ v.outcomes = outs /\ v.dialed = d /\ v.stops = m
        /\ v.fd_to_conn = Start.fd_to_conn
        /\ v.peer_connections = Start.peer_connections
        /\ v.watched = Start.watched /\ v.threw = Start.threw
        /\ v.listeners = Start.listeners /\ v.pending_dials = Start.pending_dials
    BY <1>0, <1>2, <1>3, <1>4, <1>5 DEF Books, NodeRec
  <2> HIDE DEF v
  <2>2. q = v
    BY <1>1 DEF v
  <2> QED BY <2>1, <2>2
<1>7. /\ q.watched = {} /\ q.listeners = {} /\ ~q.threw
      /\ \A f \in Fd : q.pending_dials[f] = 0 /\ q.fd_to_conn[f] = 0
      /\ \A p \in Peers : q.peer_connections[p] = 0
  BY <1>6, StartTyped
<1>8. ConnIds(q) = 1 .. k
  BY <1>2, <1>6 DEF ConnIds
<1>9. Typed(q)
  BY <1>0, <1>2, <1>3, <1>4, <1>6, <1>7 DEF Typed
<1>10. DialsOk(q)
  BY <1>0, <1>6, <1>7 DEF DialsOk
<1>11. NoSession.state = "Absent" /\ NoSession.open = FALSE /\ NoSession.events = <<>>
  BY NoSessionTyped DEF NoSession
<1>12. SocketsOk(q, {})
  <2>1. \A c \in ConnIds(q) : ~q.connections[c].open
    BY <1>2, <1>6, <1>8, <1>11
  <2> QED BY <1>0, <1>6, <1>7, <2>1 DEF SocketsOk, Owns
<1>13. WatchOk(q, {})
  BY <1>6, <1>7 DEF WatchOk
<1>14. StoryOk(q, {})
  <2> SUFFICES ASSUME NEW c \in ConnIds(q)
               PROVE  /\ \A i \in DOMAIN q.story[c] :
                            q.story[c][i] = "ConnectionClosed" => i = Len(q.story[c])
                      /\ q.stops # 0 /\ q.connections[c] = NoSession
                      /\ ~(\E i \in DOMAIN NoSession.events : TRUE)
    BY <1>11 DEF StoryOk
  <2> QED BY <1>0, <1>2, <1>6, <1>8, <1>11 DEF ClosedLast
<1>15. RoutesOk(q)
  BY <1>6, <1>7 DEF RoutesOk
<1> QED BY <1>8, <1>9, <1>10, <1>12, <1>13, <1>14, <1>15 DEF NodeOk

----------------------------------------------------------------------------
(* Every step keeps the invariant.                                         *)

LEMMA Calm ==
    ASSUME SwarmInv, pc # "drain"
    PROVE  NodeOk(node, {}, {}) /\ node \in NodeRec /\ closed = <<>> /\ todo = {}
<1>1. closed = <<>> /\ todo = {}
  BY DEF SwarmInv, PhaseOk
<1>2. Range(closed) = {}
  BY <1>1 DEF Range
<1>3. NodeOk(node, {}, {})
  BY <1>2 DEF SwarmInv
<1> QED BY <1>1, <1>3, NodeTyped

\* A step outside of drain_connection_events.
LEMMA CalmStep ==
    ASSUME SwarmInv, pc # "drain", pc' \in {"idle", "dispatch"},
           UNCHANGED <<todo, closed>>, NodeOk(node', {}, {})
    PROVE  SwarmInv'
<1>1. closed = <<>> /\ todo = {} /\ closed' = <<>> /\ todo' = {}
  BY Calm
<1>2. Range(closed') = {}
  BY <1>1 DEF Range
<1>3. closed' \in Seq(ConnIds(node'))
  BY <1>1, EmptySeq
<1> QED BY <1>1, <1>2, <1>3 DEF SwarmInv, PhaseOk

\* A step that starts drain_connection_events.
LEMMA DrainStarts ==
    ASSUME SwarmInv, pc # "drain", pc' = "drain", UNCHANGED closed,
           NodeOk(node', {}, {}), ConnIds(node') = ConnIds(node), todo' = Present(node)
    PROVE  SwarmInv'
<1>1. closed' = <<>>
  BY Calm
<1>2. Range(closed') = {}
  BY <1>1 DEF Range
<1>3. closed' \in Seq(ConnIds(node'))
  BY <1>1, EmptySeq
<1>4. todo' \subseteq ConnIds(node')
  BY DEF Present
<1> QED BY <1>2, <1>3, <1>4 DEF SwarmInv, PhaseOk

\* A step of the network, at any time.
LEMMA NetworkStep ==
    ASSUME SwarmInv, UNCHANGED <<pc, todo, closed>>,
           NodeOk(node', {}, Range(closed)), ConnIds(node') = ConnIds(node)
    PROVE  SwarmInv'
BY DEF SwarmInv, PhaseOk

LEMMA InitInv == Init => SwarmInv
<1> SUFFICES ASSUME Init PROVE SwarmInv
  OBVIOUS
<1> DEFINE sk == [f \in Fd |-> Free]
           nil == <<>>
           os == [d \in Dial |-> nil]
<1>1. node = Start /\ pc = "idle" /\ todo = {} /\ closed = <<>>
  BY DEF Init
<1>2. Start.sock = sk /\ Start.outcomes = os /\ Start.connections = nil
      /\ Start.conn_fds = nil /\ Start.connection_peers = nil /\ Start.story = nil
      /\ Start.dialed = 0 /\ Start.stops = 0
  BY DEF Start
<1>3. /\ sk \in [Fd -> SockRec] /\ \A f \in Fd : sk[f].kind = "free"
  BY FreeType DEF Free
<1>4. nil = <<>> /\ Len(nil) = 0 /\ \A T : nil \in Seq(T)
  BY EmptySeq
<1> HIDE DEF nil
<1>5. os \in [Dial -> Seq({"connected", "failed"})] /\ \A d \in Dial : os[d] = nil
  BY <1>4
<1>6. \A T, x : x \in T => Blank(0, x) = nil
  <2> SUFFICES ASSUME NEW T, NEW x \in T PROVE Blank(0, x) = nil
    OBVIOUS
  <2>1. 0 \in Nat
    OBVIOUS
  <2>2. Blank(0, x) \in Seq(T) /\ Len(Blank(0, x)) = 0
    BY <2>1, BlankBooks
  <2> QED BY <1>4, <2>2, EmptySeq
<1>7. Blank(0, NoSession) = nil /\ Blank(0, 0) = nil /\ Blank(0, NoPeer) = nil
  <2>1. NoSession \in {NoSession} /\ 0 \in {0} /\ NoPeer \in {NoPeer}
    OBVIOUS
  <2> QED BY <1>6, <2>1
<1> DEFINE q == Books(Start, sk, Blank(0, NoSession), Blank(0, 0), Blank(0, NoPeer),
                      nil, os, 0, 0)
<1> HIDE DEF sk, os
<1>8. q = Start
  <2>1. q = Books(Start, Start.sock, Start.connections, Start.conn_fds,
                  Start.connection_peers, Start.story, Start.outcomes,
                  Start.dialed, Start.stops)
    BY <1>2, <1>7
  <2>2. Start \in NodeRec
    BY StartTyped
  <2> HIDE DEF q
  <2> QED BY <2>1, <2>2 DEF Books, NodeRec
<1>9. NodeOk(q, {}, {}) /\ ConnIds(q) = 1 .. 0
  <2>1. (\A d \in Dial : d > 0 => os[d] = <<>>) /\ (\A d \in Dial : Len(os[d]) <= 1)
    BY <1>4, <1>5
  <2>2. 0 \in Nat /\ 0 <= MaxDials
    BY SwarmAssumption
  <2>3. nil \in Seq(Seq(Report))
    BY <1>4
  <2>4. ClosedLast(nil, 0)
    BY DEF ClosedLast
  <2>5. q = Books(Start, sk, Blank(0, NoSession), Blank(0, 0), Blank(0, NoPeer),
                  nil, os, 0, 0)
    OBVIOUS
  <2> HIDE DEF q
  <2>6. Emptied(q, 0, sk, nil, os, 0, 0)
    BY <1>3, <1>4, <1>5, <2>1, <2>2, <2>3, <2>4, <2>5 DEF Emptied
  <2> QED BY <2>6, EmptyNode
<1>10. NodeOk(node, {}, Range(closed))
  <2>1. Range(closed) = {}
    BY <1>1 DEF Range
  <2> HIDE DEF q
  <2> QED BY <1>1, <1>8, <1>9, <2>1
<1>11. closed \in Seq(ConnIds(node))
  BY <1>1, EmptySeq
<1> QED BY <1>1, <1>10, <1>11 DEF SwarmInv, PhaseOk

LEMMA ListenOnInv == SwarmInv /\ ListenOn => SwarmInv'
<1> SUFFICES ASSUME SwarmInv, ListenOn PROVE SwarmInv'
  OBVIOUS
<1> DEFINE f == LowestFree(node)
           q == OpenSocket([node EXCEPT !.listeners = @ \cup {f}], f, "listener")
<1>1. pc = "idle" /\ FreeFds(node) # {}
  BY DEF ListenOn, Idle
<1>2. NodeOk(node, {}, {})
  BY <1>1, Calm
<1>3. f \in Fd /\ node.sock[f].kind = "free"
  BY <1>1, LowestIsFree
<1>4. node' = SyncTransportFds(q) /\ UNCHANGED <<pc, todo, closed>>
  BY DEF ListenOn, Call
<1> HIDE DEF f
<1>5. NodeOk(q, {}, {})
  BY <1>2, <1>3, ListenerSocket
<1> HIDE DEF q
<1>6. NodeOk(SyncTransportFds(q), {}, {})
  BY <1>5, SyncTransportFdsKeeps
<1> QED BY <1>1, <1>4, <1>6, CalmStep

LEMMA DialAddrInv == SwarmInv /\ DialAddr => SwarmInv'
<1> SUFFICES ASSUME SwarmInv, DialAddr PROVE SwarmInv'
  OBVIOUS
<1> DEFINE d == node.dialed + 1
           f == LowestFree(node)
           n == [node EXCEPT !.dialed = d]
           q1 == OpenSocket([n EXCEPT !.pending_dials[f] = d], f, "dial")
           o == OpenSocket(n, f, "conn")
           a == Settle(o, d, "connected")
           q3 == Settle(n, d, "failed")
<1>1. pc = "idle" /\ FreeFds(node) # {} /\ node.dialed < MaxDials
  BY DEF DialAddr, Idle
<1>2. NodeOk(node, {}, {})
  BY <1>1, Calm
<1>3. f \in Fd /\ node.sock[f].kind = "free"
  BY <1>1, LowestIsFree
<1>4. /\ \/ node' = SyncTransportFds(q1)
         \/ \E fails \in BOOLEAN : node' = SyncTransportFds(OnConnected(a, f, fails))
         \/ node' = SyncTransportFds(q3)
      /\ UNCHANGED <<pc, todo, closed>>
  BY DEF DialAddr, Call
<1>5. n = BeginDial(node)
  BY DEF BeginDial
<1>6. /\ NodeOk(n, {}, {}) /\ n.sock = node.sock
      /\ d \in Dial /\ n.dialed = d /\ n.outcomes[d] = <<>>
      /\ \A g \in Fd : n.pending_dials[g] # d
  <2>1. d = node.dialed + 1
    OBVIOUS
  <2> HIDE DEF d, n
  <2> QED BY <1>1, <1>2, <1>5, <2>1, BeginDialKeeps
<1> HIDE DEF d, n, f
<1>7. d <= n.dialed /\ n.sock[f].kind = "free"
  <2>1. d \in Nat
    BY <1>6, SwarmAssumption DEF Dial
  <2> QED BY <1>3, <1>6, <2>1
<1>8. NodeOk(q1, {}, {})
  BY <1>3, <1>6, <1>7, DialSocket
<1>9. NodeOk(q3, {}, {})
  BY <1>6, <1>7, SettleKeeps
<1>10. ASSUME NEW fails \in BOOLEAN PROVE NodeOk(OnConnected(a, f, fails), {}, {})
  <2>1. NodeOk(o, {f}, {}) /\ SameDials(o, n) /\ o.pending_dials = n.pending_dials
    BY <1>3, <1>6, <1>7, ConnSocket
  <2> HIDE DEF o
  <2>2. d <= o.dialed /\ o.outcomes[d] = <<>> /\ \A g \in Fd : o.pending_dials[g] # d
    BY <1>6, <1>7, <2>1 DEF SameDials
  <2>3. NodeOk(a, {f}, {})
    BY <1>6, <2>1, <2>2, SettleKeeps
  <2> HIDE DEF a
  <2> QED BY <1>3, <2>3, OnConnectedKeeps
<1> HIDE DEF q1, q3, a
<1>11. NodeOk(node', {}, {})
  BY <1>4, <1>8, <1>9, <1>10, SyncTransportFdsKeeps
<1> QED BY <1>1, <1>4, <1>11, CalmStep

LEMMA CloseConnectionInv ==
    ASSUME SwarmInv, NEW c \in Present(node), CloseConnection(c)
    PROVE  SwarmInv'
<1>1. pc = "idle" /\ c \in ConnIds(node) /\ node.connections[c].state # "Absent"
  BY DEF CloseConnection, Idle, Present
<1>2. NodeOk(node, {}, {})
  BY <1>1, Calm
<1>3. NodeOk(CloseSession(node, c), {}, {}) /\ ConnIds(CloseSession(node, c)) = ConnIds(node)
  BY <1>1, <1>2, CloseSessionKeeps DEF Handled
<1>4. node' = CloseSession(node, c) /\ pc' = "drain" /\ todo' = Present(node)
      /\ UNCHANGED closed
  BY DEF CloseConnection
<1> QED BY <1>1, <1>3, <1>4, DrainStarts

LEMMA StreamResetInv ==
    ASSUME SwarmInv, NEW c \in Present(node), StreamReset(c)
    PROVE  SwarmInv'
<1> DEFINE q == [CloseFd(node, node.connections[c].fd) EXCEPT !.connections[c].open = FALSE]
<1>1. pc = "idle" /\ c \in ConnIds(node)
      /\ node.connections[c].state = "Ready" /\ node.connections[c].open
  BY DEF StreamReset, Idle, Present
<1>2. NodeOk(node, {}, {})
  BY <1>1, Calm
<1>3. NodeOk(q, {}, {})
  BY <1>1, <1>2, StreamResetKeeps
<1>4. node' = q /\ UNCHANGED <<pc, todo, closed>>
  BY DEF StreamReset, Call
<1> HIDE DEF q
<1> QED BY <1>1, <1>3, <1>4, CalmStep

LEMMA StopInv == SwarmInv /\ Stop => SwarmInv'
<1> SUFFICES ASSUME SwarmInv, Stop PROVE SwarmInv'
  OBVIOUS
<1> DEFINE active == {c \in Present(node) : IsActive(node.connections[c])}
           hungUp == {node.connections[c].fd : c \in active}
           gone == hungUp \cup node.listeners \cup Dials(node)
           sk == [f \in Fd |-> IF f \in gone THEN Free ELSE node.sock[f]]
           k == Len(node.connections)
           m == node.stops + 1
           q == Books(Start, sk, Blank(k, NoSession), Blank(k, 0), Blank(k, NoPeer),
                      node.story, node.outcomes, node.dialed, m)
<1>1. pc = "idle"
  BY DEF Stop, Idle
<1>2. NodeOk(node, {}, {}) /\ node \in NodeRec
  BY <1>1, Calm
<1>3. /\ node.story \in Seq(Seq(Report)) /\ node.connections \in Seq(SessionRec)
      /\ node.outcomes \in [Dial -> Seq({"connected", "failed"})]
      /\ node.dialed \in Nat /\ node.stops \in Nat /\ node.sock \in [Fd -> SockRec]
      /\ node.listeners \in SUBSET Fd /\ node.pending_dials \in [Fd -> Nat]
  BY <1>2 DEF NodeRec
<1>4. k \in Nat /\ ConnIds(node) = 1 .. k /\ m \in Nat /\ m # 0
  BY <1>3 DEF ConnIds
<1>5. Len(node.story) = k /\ node.dialed <= MaxDials
  BY <1>2 DEF NodeOk, Typed
<1>6. sk \in [Fd -> SockRec] /\ \A f \in Fd : sk[f].kind = "free"
  <2>1. sk \in [Fd -> SockRec]
    BY <1>3, FreeType
  <2>2. ASSUME NEW f \in Fd PROVE sk[f].kind = "free"
    <3>1. CASE f \in gone
      BY <3>1 DEF Free
    <3>2. CASE f \notin gone
      <4>1. node.sock[f].kind # "listener" /\ node.sock[f].kind # "dial"
        BY <1>2, <3>2 DEF NodeOk, SocketsOk, Dials
      <4>2. node.sock[f].kind # "conn"
        <5>1. SUFFICES ASSUME node.sock[f].kind = "conn" PROVE FALSE
          OBVIOUS
        <5>2. PICK c \in ConnIds(node) : Owns(node, c, f)
          BY <1>2, <5>1 DEF NodeOk, SocketsOk
        <5>3. node.connections[c].open /\ node.connections[c].fd = f
              /\ node.connections[c].state \in {"Securing", "Ready"}
          BY <1>2, <5>2 DEF NodeOk, SocketsOk, Owns
        <5>4. c \in active
          BY <5>3 DEF Present, IsActive
        <5> QED BY <3>2, <5>3, <5>4
      <4>3. node.sock[f].kind \in {"free", "listener", "dial", "conn"}
        BY <1>3 DEF SockRec
      <4>4. sk[f] = node.sock[f]
        BY <3>2
      <4> QED BY <4>1, <4>2, <4>3, <4>4
    <3> QED BY <3>1, <3>2
  <2> QED BY <2>1, <2>2
<1>7. node' = q
  BY <1>4 DEF Stop, Call, Books, Blank
<1>8. UNCHANGED <<pc, todo, closed>>
  BY DEF Stop, Call
<1> HIDE DEF sk, k, m
<1>9. /\ \A e \in Dial : e > node.dialed => node.outcomes[e] = <<>>
      /\ \A e \in Dial : Len(node.outcomes[e]) <= 1
  BY <1>2 DEF NodeOk, DialsOk
<1>10. \A c \in 1 .. k : \A i \in DOMAIN node.story[c] :
          node.story[c][i] = "ConnectionClosed" => i = Len(node.story[c])
  BY <1>2, <1>4 DEF NodeOk, StoryOk
<1>11. NodeOk(q, {}, {})
  <2>1. q = Books(Start, sk, Blank(k, NoSession), Blank(k, 0), Blank(k, NoPeer),
                  node.story, node.outcomes, node.dialed, m)
    OBVIOUS
  <2> HIDE DEF q
  <2>2. /\ k \in Nat /\ sk \in [Fd -> SockRec] /\ m \in Nat /\ node.dialed \in Nat
        /\ node.story \in Seq(Seq(Report)) /\ Len(node.story) = k
        /\ node.outcomes \in [Dial -> Seq({"connected", "failed"})]
        /\ node.dialed <= MaxDials
    BY <1>3, <1>4, <1>5, <1>6
  <2>3. k = 0 \/ m # 0
    BY <1>4
  <2>4. \A f \in Fd : sk[f].kind = "free"
    BY <1>6
  <2> DEFINE st == node.story
             outs == node.outcomes
             d == node.dialed
  <2> HIDE DEF st, outs, d
  <2>5. /\ st \in Seq(Seq(Report)) /\ Len(st) = k
        /\ outs \in [Dial -> Seq({"connected", "failed"})]
        /\ d \in Nat /\ d <= MaxDials
    BY <2>2 DEF st, outs, d
  <2>6. q = Books(Start, sk, Blank(k, NoSession), Blank(k, 0), Blank(k, NoPeer),
                  st, outs, d, m)
    BY <2>1 DEF st, outs, d
  <2>7. \A e \in Dial : e > d => outs[e] = <<>>
    BY <1>9 DEF outs, d
  <2>8. \A e \in Dial : Len(outs[e]) <= 1
    BY <1>9 DEF outs
  <2>9. ClosedLast(st, k)
    BY <1>10 DEF ClosedLast, st
  <2>10. Emptied(q, k, sk, st, outs, d, m)
    BY <2>2, <2>3, <2>4, <2>5, <2>6, <2>7, <2>8, <2>9 DEF Emptied
  <2> QED BY <2>10, EmptyNode
<1> HIDE DEF q
<1> QED BY <1>1, <1>7, <1>8, <1>11, CalmStep

LEMMA PollBeginInv == SwarmInv /\ PollBegin => SwarmInv'
<1> SUFFICES ASSUME SwarmInv, PollBegin PROVE SwarmInv'
  OBVIOUS
<1> DEFINE n == SyncTransportFds(node)
           es == [f \in Fd |-> {}]
           q == [n EXCEPT !.edges = es]
<1>1. pc = "idle" /\ pc' = "dispatch" /\ node' = q /\ UNCHANGED <<todo, closed>>
  BY DEF PollBegin, Idle
<1>2. NodeOk(n, {}, {})
  BY <1>1, Calm, SyncTransportFdsKeeps
<1> HIDE DEF n
<1>3. n \in NodeRec
  BY <1>2, NodeTyped
<1>4. es \in [Fd -> SUBSET Edge]
  OBVIOUS
<1> HIDE DEF es
<1>5. q \in NodeRec /\ SameSockets(q, n) /\ SameTransport(q, n) /\ SameDials(q, n)
      /\ SameConnections(q, n) /\ SameRoutes(q, n)
  BY <1>3, <1>4
  DEF NodeRec, SameSockets, SameTransport, SameDials, SameConnections, SameRoutes
<1> HIDE DEF q
<1>6. /\ \A f \in Fd : q.sock[f].kind = n.sock[f].kind
      /\ q.watched = n.watched /\ q.threw = n.threw
  BY <1>5 DEF SameSockets
<1>7. NodeOk(q, {}, {})
  BY <1>2, <1>5, <1>6, SameKinds
<1> QED BY <1>1, <1>7, CalmStep

LEMMA DispatchConnectionInv ==
    ASSUME SwarmInv, NEW f \in Fd, DispatchConnection(f)
    PROVE  SwarmInv'
<1>1. pc = "dispatch" /\ node' \in OnConnectionEvents(node, f, batch[f])
      /\ UNCHANGED <<pc, todo, closed>>
  BY DEF DispatchConnection, MayDispatch
<1>2. NodeOk(node, {}, {})
  BY <1>1, Calm
<1>3. NodeOk(node', {}, {})
  BY <1>1, <1>2, OnConnectionEventsKeeps
<1> QED BY <1>1, <1>3, CalmStep

LEMMA DispatchConnectInv ==
    ASSUME SwarmInv, NEW f \in Fd, DispatchConnect(f)
    PROVE  SwarmInv'
<1>1. pc = "dispatch" /\ UNCHANGED <<pc, todo, closed>>
  BY DEF DispatchConnect, MayDispatch
<1>2. PICK fails \in BOOLEAN :
        LET n == OnConnectReady(node, f, fails) IN
        node' = n \/ node' = OnConnectReady(n, f, fails)
  BY DEF DispatchConnect
<1>3. NodeOk(node, {}, {})
  BY <1>1, Calm
<1> DEFINE n == OnConnectReady(node, f, fails)
<1>4. NodeOk(n, {}, {})
  BY <1>3, OnConnectReadyKeeps
<1>5. node' = n \/ node' = OnConnectReady(n, f, fails)
  BY <1>2
<1> HIDE DEF n
<1>6. NodeOk(OnConnectReady(n, f, fails), {}, {})
  BY <1>4, OnConnectReadyKeeps
<1> QED BY <1>1, <1>4, <1>5, <1>6, CalmStep

LEMMA DispatchAcceptInv ==
    ASSUME SwarmInv, NEW f \in Fd, DispatchAccept(f)
    PROVE  SwarmInv'
<1> DEFINE g == LowestFree(node)
           k == [node.sock[f] EXCEPT !.waiting = @ - 1]
           m == [node EXCEPT !.sock = [@ EXCEPT ![f] = k]]
           o == OpenSocket(m, g, "conn")
<1>1. pc = "dispatch" /\ UNCHANGED <<pc, todo, closed>>
  BY DEF DispatchAccept, MayDispatch
<1>2. NodeOk(node, {}, {}) /\ node \in NodeRec
  BY <1>1, Calm
<1>3. CASE UNCHANGED node
  BY <1>1, <1>2, <1>3, CalmStep
<1>4. CASE node.sock[f].waiting > 0 /\ FreeFds(node) # {}
  <2>1. \/ node' = [node EXCEPT !.sock[f].waiting = @ - 1]
        \/ node' = OnAccepted(OpenSocket([node EXCEPT !.sock[f].waiting = @ - 1], g, "conn"), g)
    BY <1>4 DEF DispatchAccept
  <2>2. [node EXCEPT !.sock[f].waiting = @ - 1] = m
    BY <1>2 DEF NodeRec
  <2>3. node.sock \in [Fd -> SockRec] /\ node.sock[f] \in SockRec
    BY <1>2 DEF NodeRec
  <2>4. k \in SockRec /\ k.kind = node.sock[f].kind
    <3>1. node.sock[f].waiting \in Nat /\ node.sock[f].waiting - 1 \in Nat
      BY <1>4, <2>3 DEF SockRec
    <3> QED BY <2>3, <3>1 DEF SockRec
  <2>5. g \in Fd /\ node.sock[g].kind = "free"
    BY <1>4, LowestIsFree
  <2>6. \A h \in Fd : m.sock[h].kind = node.sock[h].kind
    <3>1. m.sock = [node.sock EXCEPT ![f] = k]
      BY <1>2 DEF NodeRec
    <3> HIDE DEF k, m
    <3> QED BY <2>3, <2>4, <3>1
  <2> HIDE DEF k, g
  <2>7. NodeOk(m, {}, {})
    BY <1>2, <2>4, SetSocket
  <2> HIDE DEF m
  <2>8. NodeOk(o, {g}, {})
    BY <2>5, <2>6, <2>7, ConnSocket
  <2>9. node' = m \/ node' = OnAccepted(o, g)
    BY <2>1, <2>2
  <2> HIDE DEF o
  <2>10. NodeOk(OnAccepted(o, g), {}, {})
    BY <2>5, <2>8, OnAcceptedKeeps
  <2> QED BY <1>1, <2>7, <2>9, <2>10, CalmStep
<1> QED BY <1>3, <1>4 DEF DispatchAccept

LEMMA DispatchDoneInv == SwarmInv /\ DispatchDone => SwarmInv'
<1> SUFFICES ASSUME SwarmInv, DispatchDone PROVE SwarmInv'
  OBVIOUS
<1>1. pc = "dispatch" /\ pc' = "drain" /\ node' = SyncTransportFds(node)
      /\ todo' = Present(node) /\ UNCHANGED closed
  BY DEF DispatchDone
<1>2. NodeOk(node, {}, {})
  BY <1>1, Calm
<1>3. NodeOk(node', {}, {}) /\ ConnIds(node') = ConnIds(node)
  BY <1>1, <1>2, SyncTransportFdsKeeps
<1> QED BY <1>1, <1>3, DrainStarts

LEMMA DrainInv ==
    ASSUME SwarmInv, NEW c \in todo, Drain(c)
    PROVE  SwarmInv'
<1>1. pc = "drain" /\ UNCHANGED pc
  BY DEF Drain
<1>2. /\ NodeOk(node, {}, Range(closed)) /\ node \in NodeRec
      /\ closed \in Seq(ConnIds(node)) /\ todo \subseteq ConnIds(node)
  <2>1. NodeOk(node, {}, Range(closed))
    BY DEF SwarmInv
  <2> QED BY <2>1, NodeTyped DEF SwarmInv, PhaseOk
<1>3. c \in ConnIds(node)
  BY <1>2
<1>4. CASE node.connections[c].events = <<>>
  BY <1>1, <1>2, <1>4 DEF Drain, SwarmInv, PhaseOk
<1>5. CASE node.connections[c].events # <<>>
  <2> DEFINE T == IF NextEvent(node, c) = "Closed" THEN Range(closed) \cup {c}
                  ELSE Range(closed)
             q == DrainEvent(node, c)
  <2>1. node' = q /\ UNCHANGED todo
        /\ closed' = IF NextEvent(node, c) = "Closed" THEN Append(closed, c) ELSE closed
    BY <1>5 DEF Drain
  <2>2. Len(node.connections[c].events) > 0
    <3>1. node.connections[c].events \in Seq(Event)
      BY <1>2, <1>3, SessionTyped DEF SessionRec
    <3> QED BY <1>5, <3>1, EmptySeq
  <2>3. NodeOk(q, {}, T) /\ ConnIds(q) = ConnIds(node)
    BY <1>2, <1>3, <2>2, DrainEventKeeps
  <2>4. Range(closed') = T /\ closed' \in Seq(ConnIds(node))
    <3>1. CASE NextEvent(node, c) = "Closed"
      <4>1. /\ Append(closed, c) \in Seq(ConnIds(node))
            /\ DOMAIN Append(closed, c) = 1 .. Len(closed) + 1
            /\ DOMAIN closed = 1 .. Len(closed) /\ Len(closed) \in Nat
            /\ \A i \in DOMAIN closed : Append(closed, c)[i] = closed[i]
            /\ Append(closed, c)[Len(closed) + 1] = c
        BY <1>2, <1>3, AppendEnds
      <4> DEFINE both == Append(closed, c)
      <4> HIDE DEF both
      <4>2. Range(both) = Range(closed) \cup {c}
        BY <4>1 DEF Range, both
      <4> QED BY <2>1, <3>1, <4>1, <4>2 DEF both
    <3>2. CASE NextEvent(node, c) # "Closed"
      BY <1>2, <2>1, <3>2
    <3> QED BY <3>1, <3>2
  <2> HIDE DEF q, T
  <2> QED BY <1>1, <1>2, <2>1, <2>3, <2>4 DEF SwarmInv, PhaseOk
<1> QED BY <1>4, <1>5

LEMMA RemoveClosedInv == SwarmInv /\ RemoveClosed => SwarmInv'
<1> SUFFICES ASSUME SwarmInv, RemoveClosed PROVE SwarmInv'
  OBVIOUS
<1>1. pc = "drain" /\ todo = {} /\ UNCHANGED todo
  BY DEF RemoveClosed
<1>2. /\ NodeOk(node, {}, Range(closed))
      /\ closed \in Seq(ConnIds(node)) /\ todo \subseteq ConnIds(node)
  BY DEF SwarmInv, PhaseOk
<1>3. CASE closed = <<>>
  BY <1>1, <1>2, <1>3 DEF RemoveClosed, SwarmInv, PhaseOk
<1>4. CASE closed # <<>>
  <2> DEFINE c == Head(closed)
             rest == Tail(closed)
             q == RemoveConnection(node, c)
  <2>1. node' = q /\ closed' = rest /\ UNCHANGED pc
    BY <1>4 DEF RemoveClosed
  <2>2. /\ Len(closed) > 0 /\ c = closed[1] /\ c \in ConnIds(node)
        /\ rest \in Seq(ConnIds(node)) /\ Len(rest) = Len(closed) - 1
        /\ \A i \in 1 .. Len(rest) : rest[i] = closed[i + 1]
        /\ DOMAIN closed = 1 .. Len(closed) /\ Len(closed) \in Nat
    BY <1>2, <1>4, HeadTailProperties, EmptySeq
  <2>3. DOMAIN rest = 1 .. Len(closed) - 1
    BY <2>2
  <2> HIDE DEF rest
  <2>4. Range(closed) = Range(rest) \cup {c}
    <3>1. \A i \in DOMAIN closed : i = 1 \/ (i - 1 \in DOMAIN rest /\ closed[i] = rest[i - 1])
      BY <2>2, <2>3
    <3>2. \A i \in DOMAIN rest : i + 1 \in DOMAIN closed /\ rest[i] = closed[i + 1]
      BY <2>2, <2>3
    <3>3. 1 \in DOMAIN closed
      BY <2>2
    <3> HIDE DEF c
    <3> QED BY <2>2, <3>1, <3>2, <3>3 DEF Range
  <2> HIDE DEF c
  <2>5. NodeOk(node, {}, Range(rest) \cup {c})
    BY <1>2, <2>4
  <2>6. NodeOk(q, {}, Range(rest)) /\ ConnIds(q) = ConnIds(node)
    BY <2>2, <2>5, RemoveConnectionKeeps
  <2> HIDE DEF q
  <2> QED BY <1>1, <1>2, <2>1, <2>2, <2>6 DEF SwarmInv, PhaseOk
<1> QED BY <1>3, <1>4

\* The network changes a socket, and raises what epoll is to report of it.
LEMMA SocketChanges ==
    ASSUME SwarmInv, NEW f \in Fd, NEW k \in SockRec, k.kind = node.sock[f].kind,
           NEW m, m = [node EXCEPT !.sock = [@ EXCEPT ![f] = k]],
           NEW evs \in SUBSET Edge, Network(Raise(m, f, evs))
    PROVE  SwarmInv'
<1> DEFINE S == Range(closed)
<1>1. NodeOk(node, {}, S)
  BY DEF SwarmInv
<1> HIDE DEF S
<1>2. NodeOk(m, {}, S) /\ ConnIds(m) = ConnIds(node)
  BY <1>1, SetSocket
<1>3. NodeOk(Raise(m, f, evs), {}, S) /\ ConnIds(Raise(m, f, evs)) = ConnIds(m)
  BY <1>2, RaiseKeeps
<1>4. node' = Raise(m, f, evs) /\ UNCHANGED <<pc, todo, closed>>
  BY DEF Network
<1> QED BY <1>2, <1>3, <1>4, NetworkStep DEF S

LEMMA NodeSockets ==
    ASSUME SwarmInv
    PROVE  node \in NodeRec /\ node.sock \in [Fd -> SockRec]
           /\ \A f \in Fd : node.sock[f] \in SockRec /\ node.sock[f].waiting \in Nat
<1>1. node \in NodeRec
  BY NodeTyped DEF SwarmInv
<1>2. node.sock \in [Fd -> SockRec]
  BY <1>1 DEF NodeRec
<1> QED BY <1>1, <1>2 DEF SockRec

LEMMA PeerConnectsInv ==
    ASSUME SwarmInv, NEW f \in Fd, PeerConnects(f)
    PROVE  SwarmInv'
<1> DEFINE s == node.sock[f]
           k == [s EXCEPT !.waiting = @ + 1]
           m == [node EXCEPT !.sock = [@ EXCEPT ![f] = k]]
<1>1. node \in NodeRec /\ s \in SockRec /\ s.waiting \in Nat
  BY NodeSockets
<1>2. k \in SockRec /\ k.kind = s.kind
  BY <1>1 DEF SockRec
<1>3. [node EXCEPT !.sock[f].waiting = @ + 1] = m
  BY <1>1 DEF NodeRec
<1>4. Network(Raise(m, f, {"in"}))
  BY <1>3 DEF PeerConnects
<1>5. {"in"} \in SUBSET Edge
  BY DEF Edge
<1>6. m = [node EXCEPT !.sock = [@ EXCEPT ![f] = k]]
  OBVIOUS
<1> HIDE DEF m, k
<1> QED BY <1>2, <1>4, <1>5, <1>6, SocketChanges

LEMMA ConnectEndsInv ==
    ASSUME SwarmInv, NEW f \in Fd, NEW refused \in BOOLEAN, ConnectEnds(f, refused)
    PROVE  SwarmInv'
<1> DEFINE k == [node.sock[f] EXCEPT !.waiting = 1, !.gone = refused]
           m == [node EXCEPT !.sock = [@ EXCEPT ![f] = k]]
<1>1. node \in NodeRec /\ node.sock[f] \in SockRec
  BY NodeSockets
<1>2. k \in SockRec /\ k.kind = node.sock[f].kind
  BY <1>1 DEF SockRec
<1>3. [node EXCEPT !.sock[f] = k] = m
  BY <1>1 DEF NodeRec
<1>4. Network(Raise(m, f, Level(k)))
  BY <1>3 DEF ConnectEnds
<1>5. Level(k) \in SUBSET Edge
  BY DEF Edge, Level
<1>6. m = [node EXCEPT !.sock = [@ EXCEPT ![f] = k]]
  OBVIOUS
<1> HIDE DEF m, k
<1> QED BY <1>2, <1>4, <1>5, <1>6, SocketChanges

LEMMA PeerSendsInv ==
    ASSUME SwarmInv, NEW f \in Fd, PeerSends(f)
    PROVE  SwarmInv'
<1> DEFINE k == [node.sock[f] EXCEPT !.waiting = 1]
           m == [node EXCEPT !.sock = [@ EXCEPT ![f] = k]]
<1>1. node \in NodeRec /\ node.sock[f] \in SockRec
  BY NodeSockets
<1>2. k \in SockRec /\ k.kind = node.sock[f].kind
  BY <1>1 DEF SockRec
<1>3. [node EXCEPT !.sock[f].waiting = 1] = m
  BY <1>1 DEF NodeRec
<1>4. Network(Raise(m, f, {"in"}))
  BY <1>3 DEF PeerSends
<1>5. {"in"} \in SUBSET Edge
  BY DEF Edge
<1>6. m = [node EXCEPT !.sock = [@ EXCEPT ![f] = k]]
  OBVIOUS
<1> HIDE DEF m, k
<1> QED BY <1>2, <1>4, <1>5, <1>6, SocketChanges

LEMMA PeerClosesInv ==
    ASSUME SwarmInv, NEW f \in Fd, NEW aborts \in BOOLEAN, PeerCloses(f, aborts)
    PROVE  SwarmInv'
<1> DEFINE yes == TRUE
           k == [node.sock[f] EXCEPT !.gone = yes]
           m == [node EXCEPT !.sock = [@ EXCEPT ![f] = k]]
           evs == IF aborts THEN {"in", "out", "err"} ELSE {"in"}
<1>1. node \in NodeRec /\ node.sock[f] \in SockRec /\ yes \in BOOLEAN
  BY NodeSockets
<1>2. [node EXCEPT !.sock[f].gone = yes] = m
  BY <1>1 DEF NodeRec
<1>3. Network(Raise(m, f, evs))
  BY <1>2 DEF PeerCloses
<1> HIDE DEF yes
<1>4. k \in SockRec /\ k.kind = node.sock[f].kind
  BY <1>1 DEF SockRec
<1>5. evs \in SUBSET Edge
  BY DEF Edge
<1>6. m = [node EXCEPT !.sock = [@ EXCEPT ![f] = k]]
  OBVIOUS
<1> HIDE DEF m, k, evs
<1> QED BY <1>3, <1>4, <1>5, <1>6, SocketChanges

LEMMA NextInv == SwarmInv /\ [Next]_vars => SwarmInv'
<1> SUFFICES ASSUME SwarmInv, [Next]_vars PROVE SwarmInv'
  OBVIOUS
<1>1. CASE PollOnce
  <2>1. CASE PollBegin
    BY <2>1, PollBeginInv
  <2>2. CASE \E f \in Fd : DispatchConnection(f) \/ DispatchConnect(f) \/ DispatchAccept(f)
    BY <2>2, DispatchConnectionInv, DispatchConnectInv, DispatchAcceptInv
  <2>3. CASE DispatchDone
    BY <2>3, DispatchDoneInv
  <2>4. CASE \E c \in todo : Drain(c)
    BY <2>4, DrainInv
  <2>5. CASE RemoveClosed
    BY <2>5, RemoveClosedInv
  <2> QED BY <1>1, <2>1, <2>2, <2>3, <2>4, <2>5 DEF PollOnce
<1>2. CASE Owner
  BY <1>2, ListenOnInv, DialAddrInv, StopInv, CloseConnectionInv, StreamResetInv DEF Owner
<1>3. CASE Kernel
  BY <1>3, PeerConnectsInv, PeerSendsInv, ConnectEndsInv, PeerClosesInv DEF Kernel
<1>4. CASE UNCHANGED vars
  BY <1>4 DEF vars, SwarmInv, PhaseOk
<1> QED BY <1>1, <1>2, <1>3, <1>4 DEF Next

----------------------------------------------------------------------------
(* The theorems.                                                           *)

\* The inductive invariant: sockets have owners, epoll watches what is open,
\* stories end with Closed, and routes name connections of their peer, at
\* every point of poll_once (swarm.cpp, tcp_transport.cpp, event_loop.cpp).
THEOREM SwarmInvariant == Spec => []SwarmInv
<1> QED BY InitInv, NextInv, PTL DEF Spec

\* register_fd never throws out of poll_once: whatever sync_transport_fds and
\* register_connection pass to it is not watched (event_loop.cpp:51).
THEOREM RegisterNeverThrows == Spec => []NoRegisterThrow
<1>1. SwarmInv => NoRegisterThrow
  BY DEF SwarmInv, NodeOk, WatchOk, NoRegisterThrow
<1> QED BY <1>1, SwarmInvariant, PTL

\* on_connect_ready and dial_addr report one result of a dial at most.
THEOREM DialsAnsweredOnce == Spec => []DialAnsweredOnce
<1>1. SwarmInv => DialAnsweredOnce
  BY DEF SwarmInv, NodeOk, DialsOk, DialAnsweredOnce
<1> QED BY <1>1, SwarmInvariant, PTL

\* Between polls Closed was reported exactly of the connections that are gone
\* (handle_connection_event and remove_connection in swarm.cpp).
THEOREM ClosedIsReportedOnce == Spec => []ClosedReportedOnce
<1>1. SwarmInv => ClosedReportedOnce
  <2> SUFFICES ASSUME SwarmInv, Idle, NEW c \in ConnIds(node)
               PROVE  LET closes == {i \in DOMAIN node.story[c] :
                                       node.story[c][i] = "ConnectionClosed"}
                      IN /\ closes \subseteq {Len(node.story[c])}
                         /\ closes # {} => c \notin Present(node)
                         /\ (c \notin Present(node) /\ node.stops = 0) => closes # {}
    BY DEF ClosedReportedOnce
  <2> DEFINE s == node.connections[c]
             st == node.story[c]
             closes == {i \in DOMAIN st : st[i] = "ConnectionClosed"}
  <2>1. NodeOk(node, {}, {}) /\ node \in NodeRec
    BY Calm DEF Idle
  <2>2. /\ \A i \in DOMAIN st : st[i] = "ConnectionClosed" =>
              i = Len(st) /\ s.state = "Absent"
        /\ (s.state = "Absent" /\ node.stops = 0) => Ends(st, "ConnectionClosed")
    BY <2>1 DEF NodeOk, StoryOk
  <2>3. st \in Seq(Report)
    <3>1. node.story \in Seq(Seq(Report)) /\ Len(node.story) = Len(node.connections)
          /\ node.connections \in Seq(SessionRec)
      BY <2>1 DEF NodeOk, Typed, NodeRec
    <3>2. c \in DOMAIN node.story
      BY <3>1 DEF ConnIds
    <3> QED BY <3>1, <3>2
  <2>4. Ends(st, "ConnectionClosed") => closes # {}
    <3>1. Len(st) > 0 => Len(st) \in DOMAIN st
      BY <2>3
    <3> QED BY <3>1 DEF Ends
  <2>5. c \in Present(node) <=> s.state # "Absent"
    BY DEF Present
  <2> HIDE DEF st, s
  <2> QED BY <2>2, <2>4, <2>5 DEF st
<1> QED BY <1>1, SwarmInvariant, PTL

\* Between polls a peer's entry names a connection that exists and is of that
\* peer (peer_connections_ in handle_connection_event and remove_connection).
THEOREM PeerRoutesLive == Spec => []PeerRouteLive
<1>1. SwarmInv => PeerRouteLive
  <2> SUFFICES ASSUME SwarmInv, NEW p \in Peers, node.peer_connections[p] # 0
               PROVE  LET c == node.peer_connections[p]
                      IN c \in Present(node) /\ node.connections[c].peer = p
    BY DEF PeerRouteLive
  <2> DEFINE c == node.peer_connections[p]
  <2>1. /\ node \in NodeRec /\ c \in 0 .. Len(node.connections)
        /\ node.connections[c].state \in {"Ready", "Closed"}
        /\ node.connections[c].peer = p
    BY DEF SwarmInv, NodeOk, Typed, RoutesOk
  <2>2. c \in ConnIds(node)
    <3>1. node.connections \in Seq(SessionRec)
      BY <2>1 DEF NodeRec
    <3> QED BY <2>1, <3>1 DEF ConnIds
  <2> HIDE DEF c
  <2>3. c \in Present(node)
    BY <2>1, <2>2 DEF Present
  <2> QED BY <2>1, <2>3 DEF c
<1> QED BY <1>1, SwarmInvariant, PTL

\* Between polls a socket has an owner exactly when it is open, and one only.
THEOREM SocketsAreOwned == Spec => []SocketsOwned
<1>1. SwarmInv => SocketsOwned
  <2> SUFFICES ASSUME SwarmInv, Idle, NEW f \in Fd
               PROVE  LET owners == {<<"session", c>> : c \in {c \in Present(node) :
                                         node.connections[c].open /\ node.connections[c].fd = f}}
                                    \cup {<<"listener", l>> : l \in node.listeners \cap {f}}
                                    \cup {<<"dial", d>> : d \in {node.pending_dials[f]} \ {0}}
                      IN Cardinality(owners) = IF node.sock[f].kind = "free" THEN 0 ELSE 1
    BY DEF SocketsOwned
  <2> DEFINE mine == {c \in Present(node) :
                        node.connections[c].open /\ node.connections[c].fd = f}
             sessions == {<<"session", c>> : c \in mine}
             listening == {<<"listener", l>> : l \in node.listeners \cap {f}}
             dialing == {<<"dial", d>> : d \in {node.pending_dials[f]} \ {0}}
             kind == node.sock[f].kind
  <2>1. NodeOk(node, {}, {}) /\ node \in NodeRec
    BY Calm DEF Idle
  <2>2. mine = {c \in ConnIds(node) : Owns(node, c, f)}
    BY <2>1 DEF NodeOk, SocketsOk, Owns, Present
  <2>3. /\ (kind = "listener") <=> (f \in node.listeners)
        /\ (kind = "dial") <=> (node.pending_dials[f] # 0)
        /\ (kind = "conn") <=> (mine # {})
    BY <2>1, <2>2 DEF NodeOk, SocketsOk
  <2>4. \A c, e \in mine : c = e
    BY <2>1, <2>2 DEF NodeOk, SocketsOk, Owns
  <2>5. kind \in {"free", "listener", "dial", "conn"}
    <3>1. node.sock[f] \in SockRec
      BY NodeSockets
    <3> QED BY <3>1 DEF SockRec
  <2>6. Cardinality({}) = 0 /\ \A x : Cardinality({x}) = 1
    BY FS_EmptySet, FS_Singleton
  <2>7. /\ sessions = {} <=> mine = {}
        /\ listening = {} <=> f \notin node.listeners
        /\ dialing = {} <=> node.pending_dials[f] = 0
    OBVIOUS
  <2>8. CASE kind = "free"
    <3>1. sessions \cup listening \cup dialing = {}
      BY <2>3, <2>7, <2>8
    <3> QED BY <2>6, <2>8, <3>1
  <2>9. CASE kind = "conn"
    <3>1. PICK c : c \in mine
      BY <2>3, <2>9
    <3>2. mine = {c}
      BY <2>4, <3>1
    <3>3. sessions = {<<"session", c>>}
      BY <3>2
    <3>4. sessions \cup listening \cup dialing = {<<"session", c>>}
      BY <2>3, <2>7, <2>9, <3>3
    <3> QED BY <2>6, <2>9, <3>4
  <2>10. CASE kind = "listener"
    <3>1. listening = {<<"listener", f>>}
      BY <2>3, <2>10
    <3>2. sessions \cup listening \cup dialing = {<<"listener", f>>}
      BY <2>3, <2>7, <2>10, <3>1
    <3> QED BY <2>6, <2>10, <3>2
  <2>11. CASE kind = "dial"
    <3>1. dialing = {<<"dial", node.pending_dials[f]>>}
      BY <2>3, <2>11
    <3>2. sessions \cup listening \cup dialing = {<<"dial", node.pending_dials[f]>>}
      BY <2>3, <2>7, <2>11, <3>1
    <3> QED BY <2>6, <2>11, <3>2
  <2> QED BY <2>5, <2>8, <2>9, <2>10, <2>11
<1> QED BY <1>1, SwarmInvariant, PTL

----------------------------------------------------------------------------
(* A Swarm that only dials: its books, and the sockets that are driven.    *)

SameBooks(q, n) ==
    /\ SameTransport(q, n) /\ q.fd_handlers = n.fd_handlers
    /\ q.fd_to_conn = n.fd_to_conn /\ q.conn_fds = n.conn_fds

Live(s) == s.state \in {"Securing", "Ready"}

\* Between n and q only connection c moved on, and may have lost its socket.
Follows(n, q, c) ==
    LET s == n.connections[c]
        r == q.connections[c]
    IN /\ SameBooks(q, n) /\ ConnIds(q) = ConnIds(n)
       /\ \A e \in ConnIds(n) \ {c} : q.connections[e] = n.connections[e]
       /\ r.fd = s.fd /\ (r.state = "Absent" <=> s.state = "Absent")
       /\ (Live(s) => s.open) => (Live(r) => r.open)
       /\ r.open => s.open
       /\ q.watched = n.watched \/ (s.open /\ ~r.open /\ q.watched = n.watched \ {s.fd})

LEMMA FollowsItself ==
    ASSUME NEW n, NEW c
    PROVE  Follows(n, n, c)
BY DEF Follows, SameBooks, SameTransport

LEMMA FollowsAgain ==
    ASSUME NEW n, NEW m, NEW q, NEW c, Follows(n, m, c), Follows(m, q, c)
    PROVE  Follows(n, q, c)
BY DEF Follows, SameBooks, SameTransport

LEMMA FollowsDriven ==
    ASSUME NEW n, n \in NodeRec, NEW q, NEW c \in ConnIds(n), Follows(n, q, c),
           BooksOk(n), DrivenOk(n)
    PROVE  BooksOk(q) /\ DrivenOk(q)
<1> DEFINE s == n.connections[c]
           r == q.connections[c]
<1>1. /\ SameBooks(q, n) /\ ConnIds(q) = ConnIds(n)
      /\ \A e \in ConnIds(n) \ {c} : q.connections[e] = n.connections[e]
      /\ r.fd = s.fd /\ (r.state = "Absent" <=> s.state = "Absent")
      /\ (Live(s) => s.open) => (Live(r) => r.open)
      /\ r.open => s.open
      /\ q.watched = n.watched \/ (s.open /\ ~r.open /\ q.watched = n.watched \ {s.fd})
  BY DEF Follows
<1>2. BooksOk(q)
  <2>1. \A f \in Fd : HandlersOf(q, f) = HandlersOf(n, f)
    BY <1>1 DEF HandlersOf, SameBooks, SameTransport
  <2>2. \A e \in ConnIds(n) : q.connections[e].fd = n.connections[e].fd
           /\ (q.connections[e].state = "Absent" <=> n.connections[e].state = "Absent")
    BY <1>1
  <2> QED BY <1>1, <2>1, <2>2 DEF BooksOk, SameBooks, SameTransport
<1>3. DrivenOk(q)
  <2> SUFFICES ASSUME NEW e \in ConnIds(n)
               PROVE  /\ Live(q.connections[e]) => q.connections[e].open
                      /\ q.connections[e].open =>
                            /\ q.conn_fds[e] = q.connections[e].fd
                            /\ q.connections[e].fd \in q.watched
    BY <1>1 DEF DrivenOk, Live
  <2>1. /\ Live(n.connections[e]) => n.connections[e].open
        /\ n.connections[e].open => n.conn_fds[e] = n.connections[e].fd
                                    /\ n.connections[e].fd \in n.watched
    BY DEF DrivenOk, Live
  <2>2. CASE e = c
    BY <1>1, <2>1, <2>2 DEF SameBooks
  <2>3. CASE e # c
    <3>1. q.connections[e] = n.connections[e] /\ q.conn_fds = n.conn_fds
      BY <1>1, <2>3 DEF SameBooks
    <3>2. ASSUME n.connections[e].open, s.open PROVE n.connections[e].fd # s.fd
      <4>1. s.fd = n.conn_fds[c] /\ n.connections[e].fd = n.conn_fds[e]
        BY <3>2 DEF DrivenOk
      <4>2. s.fd \in n.watched /\ 0 \notin n.watched
        BY <3>2 DEF DrivenOk, NodeRec, Fd
      <4>3. \A d \in ConnIds(n) : n.conn_fds[d] # 0 => n.fd_to_conn[n.conn_fds[d]] = d
        BY DEF BooksOk
      <4> QED BY <2>3, <4>1, <4>2, <4>3
    <3> QED BY <1>1, <2>1, <3>1, <3>2
  <2> QED BY <2>2, <2>3
<1> QED BY <1>2, <1>3

\* The operations of ConnectionSession.
LEMMA EmitEventsFollows ==
    ASSUME NEW n \in NodeRec, NEW c \in ConnIds(n), NEW evs
    PROVE  Follows(n, EmitEvents(n, c, evs), c)
<1> DEFINE s == n.connections[c]
           both == s.events \o evs
           r == [s EXCEPT !.events = both]
           cs == [n.connections EXCEPT ![c] = r]
           q == [n EXCEPT !.connections = cs]
<1>1. n.connections \in Seq(SessionRec) /\ s \in SessionRec /\ c \in DOMAIN n.connections
  BY SessionTyped DEF ConnIds
<1>2. EmitEvents(n, c, evs) = q
  BY DEF EmitEvents, NodeRec
<1> HIDE DEF both
<1>3. r.state = s.state /\ r.fd = s.fd /\ r.open = s.open
  BY <1>1 DEF SessionRec
<1> HIDE DEF r, s
<1>4. /\ DOMAIN cs = DOMAIN n.connections /\ cs[c] = r
      /\ \A e \in DOMAIN n.connections : e # c => cs[e] = n.connections[e]
  BY <1>1
<1> HIDE DEF cs
<1>5. q.connections = cs /\ SameBooks(q, n) /\ q.watched = n.watched
  BY DEF NodeRec, SameBooks, SameTransport
<1> HIDE DEF q
<1>6. ConnIds(q) = ConnIds(n) /\ ConnIds(n) = DOMAIN n.connections
  BY <1>4, <1>5 DEF ConnIds
<1> QED BY <1>2, <1>3, <1>4, <1>5, <1>6 DEF Follows, Live, s

LEMMA CloseSessionFollows ==
    ASSUME NEW n \in NodeRec, NEW c \in ConnIds(n), n.connections[c].state # "Absent",
           n.connections[c].open => n.connections[c].fd \in Fd
    PROVE  Follows(n, CloseSession(n, c), c)
<1> DEFINE s == n.connections[c]
           no == FALSE
           end == <<"Closed">>
           a == IF s.open THEN CloseFd(n, s.fd) ELSE n
           t == [s EXCEPT !.state = "Closed", !.open = no]
           cs == [n.connections EXCEPT ![c] = t]
           b == [a EXCEPT !.connections = cs]
<1>1. n.connections \in Seq(SessionRec) /\ s \in SessionRec /\ c \in DOMAIN n.connections
  BY SessionTyped DEF ConnIds
<1>2. CASE s.state = "Closed"
  BY <1>2, FollowsItself DEF CloseSession
<1>3. CASE s.state # "Closed"
  <2>1. /\ a \in NodeRec /\ a.connections = n.connections /\ SameBooks(a, n)
        /\ a.watched = IF s.open THEN n.watched \ {s.fd} ELSE n.watched
    <3>1. CASE s.open
      <4> DEFINE g == s.fd
      <4>1. g \in Fd /\ a = CloseFd(n, g)
        BY <3>1
      <4> HIDE DEF g
      <4>2. CloseFd(n, g).fd_handlers = n.fd_handlers
        BY DEF CloseFd, NodeRec
      <4> QED BY <3>1, <4>1, <4>2, CloseFdStep
              DEF SameBooks, SameTransport, SameConnections, g
    <3>2. CASE ~s.open
      BY <3>2 DEF SameBooks, SameTransport
    <3> QED BY <3>1, <3>2
  <2>2. CloseSession(n, c) = EmitEvents(b, c, end)
    BY <1>3, <2>1 DEF CloseSession
  <2> HIDE DEF no, a, end
  <2>3. t \in SessionRec /\ t.state = "Closed" /\ t.fd = s.fd /\ t.open = no /\ ~no
    BY <1>1 DEF SessionRec, no
  <2> HIDE DEF t
  <2>4. cs \in Seq(SessionRec)
    BY <1>1, <2>3, ExceptSeq
  <2>5. /\ DOMAIN cs = DOMAIN n.connections /\ cs[c] = t
        /\ \A e \in DOMAIN n.connections : e # c => cs[e] = n.connections[e]
    BY <1>1
  <2> HIDE DEF cs
  <2>6. b \in NodeRec /\ b.connections = cs /\ SameBooks(b, a) /\ b.watched = a.watched
    BY <2>1, <2>4 DEF NodeRec, SameBooks, SameTransport
  <2> HIDE DEF b
  <2>7. ConnIds(b) = ConnIds(n) /\ ConnIds(n) = DOMAIN n.connections
    BY <2>5, <2>6 DEF ConnIds
  <2>8. Follows(n, b, c)
    <3>1. SameBooks(b, n)
      BY <2>1, <2>6 DEF SameBooks, SameTransport
    <3>2. b.watched = IF s.open THEN n.watched \ {s.fd} ELSE n.watched
      BY <2>1, <2>6
    <3> HIDE DEF s
    <3> QED BY <2>3, <2>5, <2>6, <2>7, <3>1, <3>2 DEF Follows, Live, s
  <2>9. Follows(b, EmitEvents(b, c, end), c)
    BY <2>6, <2>7, EmitEventsFollows
  <2> QED BY <2>2, <2>8, <2>9, FollowsAgain
<1> QED BY <1>2, <1>3

LEMMA OpenFd ==
    ASSUME NEW n, NEW S, NodeOk(n, {}, S), NEW c \in ConnIds(n)
    PROVE  n.connections[c].open => n.connections[c].fd \in Fd
BY DEF NodeOk, SocketsOk

LEMMA ClosingFollows ==
    ASSUME NEW n, NEW S, NodeOk(n, {}, S), NEW c \in ConnIds(n),
           n.connections[c].state # "Absent"
    PROVE  Follows(n, CloseSession(n, c), c)
<1>1. n \in NodeRec
  BY NodeTyped
<1>2. n.connections[c].open => n.connections[c].fd \in Fd
  BY OpenFd
<1> QED BY <1>1, <1>2, CloseSessionFollows

LEMMA FailSessionFollows ==
    ASSUME NEW n, NEW S, NodeOk(n, {}, S), NEW c \in ConnIds(n),
           n.connections[c].state \in {"Securing", "Ready"}
    PROVE  Follows(n, FailSession(n, c), c)
<1> DEFINE err == <<"Error">>
           a == EmitEvents(n, c, err)
<1>1. err \in Seq(Event) /\ \A i \in DOMAIN err : err[i] # "Closed" /\ err[i] # "Secured"
  BY DEF Event
<1>2. FailSession(n, c) = CloseSession(a, c)
  BY DEF FailSession
<1> HIDE DEF err
<1>3. /\ NodeOk(a, {}, S) /\ ConnIds(a) = ConnIds(n) /\ a.story = n.story
      /\ a.connections[c] = [n.connections[c] EXCEPT !.events = @ \o err]
  BY <1>1, EmitEventsKeeps
<1>4. Follows(n, a, c)
  BY NodeTyped, EmitEventsFollows
<1> HIDE DEF a
<1>5. a.connections[c].state # "Absent"
  BY <1>4 DEF Follows
<1>6. Follows(a, CloseSession(a, c), c)
  BY <1>3, <1>5, ClosingFollows
<1> QED BY <1>2, <1>4, <1>6, FollowsAgain

LEMMA CompleteReadyFollows ==
    ASSUME NEW n \in NodeRec, NEW c \in ConnIds(n), NEW p \in PeerOpt,
           n.connections[c].state = "Securing"
    PROVE  Follows(n, CompleteReadyState(n, c, p), c)
<1> DEFINE s == n.connections[c]
           r == [s EXCEPT !.state = "Ready", !.peer = p]
           cs == [n.connections EXCEPT ![c] = r]
           a == [n EXCEPT !.connections = cs]
           evs == <<"Secured", "MultiplexerReady">>
<1>1. n.connections \in Seq(SessionRec) /\ s \in SessionRec /\ c \in DOMAIN n.connections
      /\ s.state = "Securing"
  BY SessionTyped DEF ConnIds
<1>2. CompleteReadyState(n, c, p) = EmitEvents(a, c, evs)
  BY DEF CompleteReadyState, NodeRec
<1> HIDE DEF evs
<1>3. r \in SessionRec /\ r.state = "Ready" /\ r.fd = s.fd /\ r.open = s.open
  BY <1>1 DEF SessionRec
<1> HIDE DEF r
<1>4. /\ cs \in Seq(SessionRec) /\ DOMAIN cs = DOMAIN n.connections /\ cs[c] = r
      /\ \A e \in DOMAIN n.connections : e # c => cs[e] = n.connections[e]
  BY <1>1, <1>3, ExceptSeq
<1> HIDE DEF cs
<1>5. a \in NodeRec /\ a.connections = cs /\ SameBooks(a, n) /\ a.watched = n.watched
  BY <1>4 DEF NodeRec, SameBooks, SameTransport
<1> HIDE DEF a, s
<1>6. ConnIds(a) = ConnIds(n) /\ ConnIds(n) = DOMAIN n.connections
  BY <1>4, <1>5 DEF ConnIds
<1>7. Follows(n, a, c)
  BY <1>1, <1>3, <1>4, <1>5, <1>6 DEF Follows, Live, s
<1>8. Follows(a, EmitEvents(a, c, evs), c)
  BY <1>5, <1>6, EmitEventsFollows
<1> QED BY <1>2, <1>7, <1>8, FollowsAgain

LEMMA OnSocketReadableFollows ==
    ASSUME NEW n, NEW S, NodeOk(n, {}, S), NEW c \in ConnIds(n),
           n.connections[c].state # "Absent", NEW q \in OnSocketReadable(n, c)
    PROVE  Follows(n, q, c)
<1> DEFINE s == n.connections[c]
           k == [n.sock[s.fd] EXCEPT !.waiting = 0]
           ks == [n.sock EXCEPT ![s.fd] = k]
           m == [n EXCEPT !.sock = ks]
<1>1. CASE ~IsActive(s)
  BY <1>1, FollowsItself DEF OnSocketReadable
<1>2. CASE IsActive(s)
  <2>1. s \in SessionRec /\ s.state \in {"Securing", "Ready"} /\ s.fd \in Fd
    <3>1. s \in SessionRec
      BY NodeTyped, SessionTyped
    <3>2. s.open
      BY <1>2 DEF IsActive
    <3> QED BY <3>1, <3>2 DEF NodeOk, SocketsOk
  <2>2. n \in NodeRec /\ n.sock[s.fd] \in SockRec
    <3>1. n \in NodeRec
      BY NodeTyped
    <3> QED BY <2>1, <3>1 DEF NodeRec
  <2>3. k \in SockRec /\ k.kind = n.sock[s.fd].kind
    BY <2>2 DEF SockRec
  <2>4. [n EXCEPT !.sock[s.fd].waiting = 0] = m
    BY <2>1, <2>2 DEF NodeRec
  <2>5. NodeOk(m, {}, S) /\ ConnIds(m) = ConnIds(n) /\ m.connections = n.connections
    <3>1. [n EXCEPT !.sock = [@ EXCEPT ![s.fd] = k]] = m
      BY <2>2 DEF NodeRec
    <3> HIDE DEF k, ks, m
    <3> QED BY <2>1, <2>3, <3>1, SetSocket
  <2>6. \/ q = CloseSession(n, c) \/ q = n \/ q = m \/ q = FailSession(m, c)
        \/ s.state = "Securing" /\ \E p \in PeerOpt :
              \/ q = CompleteReadyState(m, c, p)
              \/ q = FailSession(CompleteReadyState(m, c, p), c)
    <3> DEFINE up == {CompleteReadyState(m, c, p) : p \in PeerOpt}
    <3> HIDE DEF m
    <3>1. q \in {n} \cup {CloseSession(n, c)} \cup {m, FailSession(m, c)} \cup
                (IF s.state # "Securing" THEN {}
                 ELSE up \cup {FailSession(u, c) : u \in up})
      BY <2>4 DEF OnSocketReadable, PeerOpt
    <3> QED BY <3>1
  <2>7. Follows(n, m, c)
    <3> HIDE DEF ks
    <3>1. SameBooks(m, n) /\ m.watched = n.watched
      BY <2>2 DEF NodeRec, SameBooks, SameTransport
    <3> HIDE DEF m
    <3> QED BY <2>5, <3>1 DEF Follows
  <2> HIDE DEF m
  <2>8. m.connections[c].state = s.state /\ c \in ConnIds(m) /\ m \in NodeRec
    BY <2>5, NodeTyped
  <2>9. CASE q = CloseSession(n, c)
    BY <2>9, ClosingFollows
  <2>10. CASE q = n
    BY <2>10, FollowsItself
  <2>11. CASE q = m
    BY <2>7, <2>11
  <2>12. CASE q = FailSession(m, c)
    <3>1. Follows(m, FailSession(m, c), c)
      BY <2>1, <2>5, <2>8, FailSessionFollows
    <3> QED BY <2>7, <2>12, <3>1, FollowsAgain
  <2>13. ASSUME s.state = "Securing", NEW p \in PeerOpt,
                \/ q = CompleteReadyState(m, c, p)
                \/ q = FailSession(CompleteReadyState(m, c, p), c)
         PROVE  Follows(n, q, c)
    <3> DEFINE u == CompleteReadyState(m, c, p)
    <3>1. /\ NodeOk(u, {}, S) /\ ConnIds(u) = ConnIds(m)
          /\ u.connections[c].state = "Ready"
      BY <2>5, <2>8, <2>13, CompleteReadyKeeps
    <3>2. Follows(m, u, c)
      BY <2>8, <2>13, CompleteReadyFollows
    <3>3. q = u \/ q = FailSession(u, c)
      BY <2>13
    <3> HIDE DEF u
    <3>4. Follows(n, u, c)
      BY <2>7, <3>2, FollowsAgain
    <3>5. c \in ConnIds(u)
      BY <2>8, <3>1
    <3>6. Follows(u, FailSession(u, c), c)
      BY <3>1, <3>5, FailSessionFollows
    <3> QED BY <3>3, <3>4, <3>6, FollowsAgain
  <2> QED BY <2>6, <2>9, <2>10, <2>11, <2>12, <2>13
<1> QED BY <1>1, <1>2

LEMMA OnSocketWritableFollows ==
    ASSUME NEW n, NEW S, NodeOk(n, {}, S), NEW c \in ConnIds(n), NEW q \in OnSocketWritable(n, c)
    PROVE  Follows(n, q, c)
<1>1. q = n \/ (IsActive(n.connections[c]) /\ q = FailSession(n, c))
  BY DEF OnSocketWritable
<1>2. CASE q = n
  BY <1>2, FollowsItself
<1>3. CASE IsActive(n.connections[c]) /\ q = FailSession(n, c)
  <2>1. n.connections[c].state \in {"Securing", "Ready"}
    BY <1>3 DEF IsActive, NodeOk, SocketsOk
  <2> QED BY <1>3, <2>1, FailSessionFollows
<1> QED BY <1>1, <1>2, <1>3

\* A handler of a connection keeps the node driven.
LEMMA OnConnectionEventsDriven ==
    ASSUME NEW n, NEW S, NodeOk(n, {}, S), NEW f \in Fd, NEW evs,
           NEW q \in OnConnectionEvents(n, f, evs), BooksOk(n), DrivenOk(n)
    PROVE  BooksOk(q) /\ DrivenOk(q)
<1> DEFINE c == n.fd_to_conn[f]
           read == IF "in" \in evs THEN OnSocketReadable(n, c) ELSE {n}
           written == IF "out" \in evs THEN UNION {OnSocketWritable(m, c) : m \in read}
                      ELSE read
           Good(m) == Handled(n, m, c, S) /\ Follows(n, m, c)
<1>1. CASE c = 0 \/ n.connections[c].state = "Absent"
  BY <1>1 DEF OnConnectionEvents
<1>2. CASE ~(c = 0 \/ n.connections[c].state = "Absent")
  <2>1. n \in NodeRec /\ c \in 0 .. Len(n.connections)
    BY DEF NodeOk, Typed
  <2>2. n.connections \in Seq(SessionRec)
    BY <2>1 DEF NodeRec
  <2>3. c \in ConnIds(n) /\ n.connections[c].state # "Absent"
    BY <1>2, <2>1, <2>2 DEF ConnIds
  <2>4. q \in written \/ \E m \in written : q = CloseSession(m, c)
    BY <1>2 DEF OnConnectionEvents
  <2> HIDE DEF c
  <2>5. Good(n)
    BY <2>3, FollowsItself DEF Handled
  <2>6. \A m \in read : Good(m)
    BY <2>3, <2>5, OnSocketReadableKeeps, OnSocketReadableFollows
  <2> HIDE DEF read
  <2>7. ASSUME NEW m, Good(m)
        PROVE  /\ \A w \in OnSocketWritable(m, c) : Good(w)
               /\ Good(CloseSession(m, c))
    <3>1. /\ NodeOk(m, {}, S) /\ ConnIds(m) = ConnIds(n) /\ m.story = n.story
          /\ m.connections[c].state # "Absent" /\ c \in ConnIds(m) /\ Follows(n, m, c)
      BY <2>3, <2>7 DEF Handled
    <3>2. ASSUME NEW w, Handled(m, w, c, S), Follows(m, w, c)
          PROVE  Good(w)
      BY <3>1, <3>2, FollowsAgain DEF Handled
    <3>3. ASSUME NEW w \in OnSocketWritable(m, c)
          PROVE  Handled(m, w, c, S) /\ Follows(m, w, c)
      BY <3>1, OnSocketWritableKeeps, OnSocketWritableFollows
    <3>4. Handled(m, CloseSession(m, c), c, S) /\ Follows(m, CloseSession(m, c), c)
      BY <3>1, CloseSessionKeeps, ClosingFollows
    <3> HIDE DEF Good
    <3> QED BY <3>2, <3>3, <3>4
  <2>8. \A m \in written : Good(m)
    <3> HIDE DEF Good
    <3> QED BY <2>6, <2>7
  <2>9. Good(q)
    <3> HIDE DEF Good, written
    <3> QED BY <2>4, <2>7, <2>8
  <2> QED BY <2>1, <2>3, <2>9, FollowsDriven
<1> QED BY <1>1, <1>2

\* One turn of the loop that drains connection c.
LEMMA DrainEventFollows ==
    ASSUME NEW n, NEW S, NodeOk(n, {}, S), NEW c \in ConnIds(n),
           Len(n.connections[c].events) > 0
    PROVE  /\ Follows(n, DrainEvent(n, c), c)
           /\ DrainEvent(n, c).connections[c].events = Tail(n.connections[c].events)
<1> DEFINE s == n.connections[c]
           r == [s EXCEPT !.events = Tail(@)]
           ev == NextEvent(n, c)
           cs == [n.connections EXCEPT ![c] = r]
           m == [n EXCEPT !.connections = cs]
           q == HandleConnectionEvent(m, c, ev)
<1>1. n \in NodeRec /\ s \in SessionRec /\ n.connections \in Seq(SessionRec)
      /\ c \in DOMAIN n.connections
  BY NodeTyped, SessionTyped DEF ConnIds
<1>2. /\ r \in SessionRec /\ r.events = Tail(s.events)
      /\ r.state = s.state /\ r.fd = s.fd /\ r.open = s.open
  BY <1>1, TakeEvent
<1>3. ev \in Event
  <2>1. s.events \in Seq(Event) /\ Len(s.events) > 0
    BY <1>1 DEF SessionRec
  <2> HIDE DEF s
  <2> QED BY <2>1, TailEvents DEF NextEvent, s
<1>4. DrainEvent(n, c) = q
  <2>1. [n EXCEPT !.connections[c].events = Tail(@)] = m
    BY <1>1 DEF NodeRec
  <2> QED BY <2>1 DEF DrainEvent
<1> HIDE DEF r, ev
<1>5. /\ cs \in Seq(SessionRec) /\ DOMAIN cs = DOMAIN n.connections /\ cs[c] = r
      /\ Len(cs) = Len(n.connections)
      /\ \A e \in DOMAIN n.connections : e # c => cs[e] = n.connections[e]
  BY <1>1, <1>2, ExceptSeq
<1> HIDE DEF cs, s
<1>6. /\ m \in NodeRec /\ m.connections = cs /\ SameBooks(m, n) /\ m.watched = n.watched
      /\ m.story = n.story /\ m.connection_peers = n.connection_peers
  BY <1>1, <1>5 DEF NodeRec, SameBooks, SameTransport
<1> HIDE DEF m
<1>7. c \in ConnIds(m) /\ Len(m.story) = Len(m.connections)
      /\ Len(m.connection_peers) = Len(m.connections)
  BY <1>1, <1>5, <1>6 DEF NodeOk, Typed, ConnIds
<1>8. Noted(m, q, c, ev, m.connections[c].peer)
  BY <1>3, <1>6, <1>7, HandleConnectionEventStep
<1>9. q.fd_handlers = m.fd_handlers
  BY <1>3, <1>6 DEF HandleConnectionEvent, Tell, NodeRec, Event
<1> HIDE DEF q
<1>10. q.connections = cs /\ SameBooks(q, n) /\ q.watched = n.watched
  BY <1>6, <1>8, <1>9 DEF Noted, SameBooks, SameTransport, SameSockets
<1>11. ConnIds(q) = ConnIds(n) /\ ConnIds(n) = DOMAIN n.connections
  BY <1>5, <1>10 DEF ConnIds
<1> QED BY <1>2, <1>4, <1>5, <1>10, <1>11 DEF Follows, Live, s

\* What the books and the driven sockets do not depend on.
LEMMA SameDriven ==
    ASSUME NEW n, NEW q, SameBooks(q, n), q.connections = n.connections,
           q.watched = n.watched, BooksOk(n), DrivenOk(n)
    PROVE  BooksOk(q) /\ DrivenOk(q)
<1>1. ConnIds(q) = ConnIds(n) /\ \A f \in Fd : HandlersOf(q, f) = HandlersOf(n, f)
  BY DEF ConnIds, HandlersOf, SameBooks, SameTransport
<1>2. BooksOk(q)
  BY <1>1 DEF BooksOk, SameBooks, SameTransport
<1>3. DrivenOk(q)
  BY <1>1 DEF DrivenOk, SameBooks
<1> QED BY <1>2, <1>3

LEMMA RegisterHandlers ==
    ASSUME NEW n \in NodeRec, NEW F \in SUBSET Fd, NEW h, F \cap n.watched = {}
    PROVE  RegisterFds(n, F, h).fd_handlers
             = [f \in Fd |-> IF f \in F THEN Append(n.fd_handlers[f], h)
                             ELSE n.fd_handlers[f]]
<1>1. F \ n.watched = F
  OBVIOUS
<1> QED BY <1>1 DEF RegisterFds, NodeRec

LEMMA UnregisterHandlers ==
    ASSUME NEW n \in NodeRec, NEW F \in SUBSET Fd
    PROVE  UnregisterFds(n, F).fd_handlers
             = [f \in Fd |-> IF f \in F THEN <<>> ELSE n.fd_handlers[f]]
BY DEF UnregisterFds, NodeRec

LEMMA ConnFds ==
    ASSUME NEW n, NEW O, NEW S, NodeOk(n, O, S), NEW e \in ConnIds(n)
    PROVE  n.conn_fds[e] \in Fd \cup {0} /\ e # 0
<1>1. /\ n.connections \in Seq(SessionRec) /\ n.conn_fds \in Seq(0 .. MaxFd)
      /\ Len(n.conn_fds) = Len(n.connections)
  <2>1. n \in NodeRec
    BY NodeTyped
  <2> QED BY <2>1 DEF NodeRec, NodeOk, Typed
<1>2. e \in 1 .. Len(n.conn_fds)
  BY <1>1 DEF ConnIds
<1>3. n.conn_fds[e] \in 0 .. MaxFd
  <2>1. \A T, t, i : t \in Seq(T) /\ i \in 1 .. Len(t) => t[i] \in T
    OBVIOUS
  <2> QED BY <1>1, <1>2, <2>1
<1>4. \A i \in 0 .. MaxFd : i \in Fd \cup {0}
  BY SwarmAssumption DEF Fd
<1> QED BY <1>2, <1>3, <1>4

\* remove_connection takes the connection's entries off the books.
LEMMA RemoveConnectionBooks ==
    ASSUME NEW n \in NodeRec, NEW c \in ConnIds(n), NEW f, f = n.conn_fds[c], f \in Fd \cup {0}
    PROVE  LET q == RemoveConnection(n, c) IN
           /\ f = 0 => SameBooks(q, n) /\ q.watched = n.watched
           /\ f # 0 =>
                /\ SameTransport(q, n) /\ q.watched = n.watched \ {f}
                /\ q.fd_handlers = [g \in Fd |-> IF g = f THEN <<>> ELSE n.fd_handlers[g]]
                /\ q.fd_to_conn = [n.fd_to_conn EXCEPT ![f] = 0]
                /\ q.conn_fds = [n.conn_fds EXCEPT ![c] = 0]
<1> DEFINE p == n.connection_peers[c]
           a == IF p = NoPeer THEN n
                ELSE [n EXCEPT !.peer_connections[p] = 0, !.connection_peers[c] = NoPeer]
           u == UnregisterFds(a, {f})
           ftc == [u.fd_to_conn EXCEPT ![f] = 0]
           cfs == [u.conn_fds EXCEPT ![c] = 0]
           hs == [g \in Fd |-> IF g = f THEN <<>> ELSE n.fd_handlers[g]]
           b == IF f = 0 THEN a ELSE [u EXCEPT !.fd_to_conn = ftc, !.conn_fds = cfs]
           q == [b EXCEPT !.connections[c] = NoSession]
<1>1. /\ SameBooks(a, n) /\ a.watched = n.watched /\ DOMAIN a = DOMAIN n
  BY DEF NodeRec, SameBooks, SameTransport
<1>2. RemoveConnection(n, c) = q
  BY DEF RemoveConnection
<1> HIDE DEF a
<1>3. /\ SameTransport(u, a) /\ u.watched = a.watched \ {f} /\ DOMAIN u = DOMAIN a
      /\ u.fd_to_conn = a.fd_to_conn /\ u.conn_fds = a.conn_fds
      /\ u.fd_handlers = [g \in Fd |-> IF g = f THEN <<>> ELSE a.fd_handlers[g]]
  BY <1>1 DEF UnregisterFds, NodeRec, SameTransport
<1> HIDE DEF u
<1>4. /\ f = 0 => b = a
      /\ f # 0 => /\ SameTransport(b, u) /\ b.watched = u.watched
                  /\ b.fd_to_conn = ftc /\ b.conn_fds = cfs
                  /\ b.fd_handlers = u.fd_handlers
      /\ DOMAIN b = DOMAIN n
  <2> HIDE DEF ftc, cfs
  <2> QED BY <1>1, <1>3 DEF NodeRec, SameTransport
<1> HIDE DEF b
<1>5. SameBooks(q, b) /\ q.watched = b.watched
  BY <1>4 DEF NodeRec, SameBooks, SameTransport
<1> HIDE DEF q
<1>6. CASE f = 0
  BY <1>1, <1>2, <1>4, <1>5, <1>6 DEF SameBooks, SameTransport
<1>7. CASE f # 0
  <2>1. ftc = [n.fd_to_conn EXCEPT ![f] = 0] /\ cfs = [n.conn_fds EXCEPT ![c] = 0]
    BY <1>1, <1>3 DEF SameBooks
  <2>2. u.fd_handlers = hs
    BY <1>1, <1>3 DEF SameBooks
  <2>3. SameTransport(q, n) /\ q.watched = n.watched \ {f}
    BY <1>1, <1>3, <1>4, <1>5, <1>7 DEF SameBooks, SameTransport
  <2>4. q.fd_handlers = hs /\ q.fd_to_conn = ftc /\ q.conn_fds = cfs
    BY <1>4, <1>5, <1>7, <2>2 DEF SameBooks
  <2> QED BY <1>2, <1>7, <2>1, <2>3, <2>4
<1> QED BY <1>6, <1>7

LEMMA RemoveConnectionDriven ==
    ASSUME NEW n, NEW S, NodeOk(n, {}, S), NEW c \in ConnIds(n), ~n.connections[c].open,
           BooksOk(n), DrivenOk(n)
    PROVE  LET q == RemoveConnection(n, c) IN
           /\ BooksOk(q) /\ DrivenOk(q) /\ ConnIds(q) = ConnIds(n)
           /\ \A e \in ConnIds(n) \ {c} : q.connections[e] = n.connections[e]
           /\ q.connections[c] = NoSession
<1> DEFINE q == RemoveConnection(n, c)
           f == n.conn_fds[c]
<1>1. /\ n \in NodeRec /\ Len(n.conn_fds) = Len(n.connections)
      /\ Len(n.connection_peers) = Len(n.connections)
  BY DEF NodeOk, Typed
<1>2. /\ n.connections \in Seq(SessionRec) /\ n.conn_fds \in Seq(0 .. MaxFd)
      /\ n.fd_to_conn \in [Fd -> Nat] /\ n.watched \subseteq Fd
      /\ c \in DOMAIN n.connections /\ ConnIds(n) = 1 .. Len(n.connections)
  BY <1>1 DEF NodeRec, ConnIds
<1>3. \A e \in ConnIds(n) : n.conn_fds[e] \in Fd \cup {0} /\ e # 0
  BY ConnFds
<1>4. q.connections = [n.connections EXCEPT ![c] = NoSession]
  BY <1>1, RemoveConnectionStep
<1>5. /\ ConnIds(q) = ConnIds(n) /\ q.connections[c] = NoSession
      /\ \A e \in ConnIds(n) \ {c} : q.connections[e] = n.connections[e]
  BY <1>2, <1>4 DEF ConnIds
<1>6. /\ f = 0 => SameBooks(q, n) /\ q.watched = n.watched
      /\ f # 0 =>
           /\ SameTransport(q, n) /\ q.watched = n.watched \ {f}
           /\ q.fd_handlers = [g \in Fd |-> IF g = f THEN <<>> ELSE n.fd_handlers[g]]
           /\ q.fd_to_conn = [n.fd_to_conn EXCEPT ![f] = 0]
           /\ q.conn_fds = [n.conn_fds EXCEPT ![c] = 0]
  BY SMTT(40), <1>1, <1>3, RemoveConnectionBooks
<1>7. f \in Fd \cup {0} /\ f = n.conn_fds[c] /\ 0 \notin Fd
  BY <1>3 DEF Fd
<1> HIDE DEF q, f
<1>8. /\ NoSession.state = "Absent" /\ ~NoSession.open
  BY NoSessionTyped
<1>9. f # 0 => n.fd_to_conn[f] = c /\ f \notin n.dialing_fds
  BY <1>2, <1>3, <1>7 DEF BooksOk
\* What the books say of the others.
<1>10. /\ SameTransport(q, n)
       /\ \A e \in ConnIds(n) \ {c} : q.conn_fds[e] = n.conn_fds[e]
       /\ q.conn_fds[c] = 0
       /\ \A g \in Fd : g # f => /\ q.fd_to_conn[g] = n.fd_to_conn[g]
                                 /\ q.fd_handlers[g] = n.fd_handlers[g]
       /\ f # 0 => q.fd_to_conn[f] = 0 /\ q.fd_handlers[f] = <<>>
       /\ q.watched = n.watched \ {f}
  <2>1. CASE f = 0
    BY <1>2, <1>6, <1>7, <2>1 DEF SameBooks
  <2>2. CASE f # 0
    <3>1. f \in Fd /\ DOMAIN n.conn_fds = ConnIds(n)
      BY <1>1, <1>2, <1>7, <2>2
    <3> QED BY <1>2, <1>6, <2>2, <3>1
  <2> QED BY <2>1, <2>2
<1>11. BooksOk(q)
  <2>1. q.listeners = {} /\ q.listener_fds = {}
    BY <1>10 DEF BooksOk, SameTransport
  <2>2. \A g \in Fd : q.fd_handlers[g] = HandlersOf(q, g)
    <3> TAKE g \in Fd
    <3>1. n.fd_handlers[g] = HandlersOf(n, g) /\ q.dialing_fds = n.dialing_fds
      BY <1>10 DEF BooksOk, SameTransport
    <3>2. CASE g = f
      BY <1>7, <1>9, <1>10, <3>1, <3>2 DEF HandlersOf
    <3>3. CASE g # f
      BY <1>10, <3>1, <3>3 DEF HandlersOf
    <3> QED BY <3>2, <3>3
  <2>3. ASSUME NEW g \in Fd, q.fd_to_conn[g] # 0
        PROVE  /\ g \notin q.dialing_fds /\ q.pending_dials[g] = 0
               /\ q.conn_fds[q.fd_to_conn[g]] = g
    <3>1. g # f /\ q.fd_to_conn[g] = n.fd_to_conn[g]
      BY <1>7, <1>10, <2>3
    <3>2. /\ g \notin n.dialing_fds /\ n.pending_dials[g] = 0
          /\ n.conn_fds[n.fd_to_conn[g]] = g
      BY <2>3, <3>1 DEF BooksOk
    <3>3. n.fd_to_conn[g] \in ConnIds(n) \ {c}
      <4>1. n.fd_to_conn[g] \in 0 .. Len(n.connections)
        BY DEF NodeOk, Typed
      <4> QED BY <1>2, <1>7, <2>3, <3>1, <3>2, <4>1
    <3> QED BY <1>10, <3>1, <3>2, <3>3 DEF SameTransport
  <2>4. ASSUME NEW e \in ConnIds(n), q.conn_fds[e] # 0
        PROVE  /\ q.fd_to_conn[q.conn_fds[e]] = e
               /\ q.connections[e].state # "Absent"
               /\ q.connections[e].fd = q.conn_fds[e]
    <3>1. e # c /\ q.conn_fds[e] = n.conn_fds[e]
      BY <1>10, <2>4
    <3>2. /\ n.fd_to_conn[n.conn_fds[e]] = e
          /\ n.connections[e].state # "Absent"
          /\ n.connections[e].fd = n.conn_fds[e]
      BY <2>4, <3>1 DEF BooksOk
    <3>3. n.conn_fds[e] # f /\ n.conn_fds[e] \in Fd
      BY <1>3, <1>9, <2>4, <3>1, <3>2
    <3> QED BY <1>5, <1>10, <3>1, <3>2, <3>3
  <2> QED BY <1>5, <2>1, <2>2, <2>3, <2>4 DEF BooksOk
<1>12. DrivenOk(q)
  <2> SUFFICES ASSUME NEW e \in ConnIds(n)
               PROVE  /\ q.connections[e].state \in {"Securing", "Ready"}
                           => q.connections[e].open
                      /\ q.connections[e].open =>
                            /\ q.conn_fds[e] = q.connections[e].fd
                            /\ q.connections[e].fd \in q.watched
    BY <1>5 DEF DrivenOk
  <2>1. CASE e = c
    BY <1>5, <1>8, <2>1
  <2>2. CASE e # c
    <3>1. q.connections[e] = n.connections[e] /\ q.conn_fds[e] = n.conn_fds[e]
      BY <1>5, <1>10, <2>2
    <3>2. n.connections[e].open =>
            n.conn_fds[e] = n.connections[e].fd /\ n.connections[e].fd \in n.watched
      BY DEF DrivenOk
    <3>3. n.connections[e].open => n.connections[e].fd # f
      <4>1. \A d \in ConnIds(n) : n.conn_fds[d] # 0 => n.fd_to_conn[n.conn_fds[d]] = d
        BY DEF BooksOk
      <4> QED BY <1>2, <1>7, <1>9, <2>2, <3>2, <4>1
    <3> QED BY <1>10, <3>1, <3>2, <3>3 DEF DrivenOk
  <2> QED BY <2>1, <2>2
<1> QED BY <1>5, <1>11, <1>12 DEF q

\* register_connection enters the new connection in the books.
LEMMA NewConnectionBooks ==
    ASSUME NEW n, NEW S, NEW f \in Fd, NodeOk(n, {f}, S)
    PROVE  LET q == NewConnection(n, f)
               c == Len(n.connections) + 1
           IN
           /\ q.fd_handlers = [g \in Fd |->
                 IF g # f THEN n.fd_handlers[g]
                 ELSE IF f \in n.dialing_fds THEN <<"conn">>
                 ELSE Append(n.fd_handlers[f], "conn")]
           /\ \A e \in ConnIds(n) : q.conn_fds[e] = n.conn_fds[e]
           /\ q.conn_fds[c] = f
<1> DEFINE c == Len(n.connections) + 1
           cs == Append(n.connections, NewSession(f))
           fs == Append(n.conn_fds, 0)
           ps == Append(n.connection_peers, NoPeer)
           st == Append(n.story, <<>>)
           m == [n EXCEPT !.connections = cs, !.conn_fds = fs,
                          !.connection_peers = ps, !.story = st]
           u == UnregisterFds(m, {f})
           a == IF f \in m.dialing_fds
                THEN [u EXCEPT !.dialing_fds = @ \ {f}] ELSE m
           fs2 == [fs EXCEPT ![c] = f]
           ftc == [n.fd_to_conn EXCEPT ![f] = c]
           b == [a EXCEPT !.conn_fds = fs2, !.fd_to_conn = ftc]
           q == RegisterFds(b, {f}, "conn")
           old == IF f \in n.dialing_fds THEN [n.fd_handlers EXCEPT ![f] = <<>>]
                  ELSE n.fd_handlers
<1>1. n \in NodeRec
  BY NodeTyped
<1>2. /\ n.conn_fds \in Seq(0 .. MaxFd) /\ n.connections \in Seq(SessionRec)
      /\ n.fd_handlers \in [Fd -> Seq({"accept", "connect", "conn"})]
      /\ Len(n.conn_fds) = Len(n.connections)
  BY <1>1 DEF NodeRec, NodeOk, Typed
<1>3. NewConnection(n, f) = RegisterConnection(m, c, f)
  BY <1>1 DEF NewConnection, next_conn_id, NodeRec
<1> HIDE DEF cs, ps, st
<1>4. /\ fs \in Seq(0 .. MaxFd) /\ Len(fs) = c /\ c \in Nat /\ c \notin ConnIds(n)
      /\ ConnIds(n) \subseteq DOMAIN fs /\ c \in DOMAIN fs
      /\ \A e \in ConnIds(n) : fs[e] = n.conn_fds[e]
  <2>1. 0 \in 0 .. MaxFd
    BY SwarmAssumption
  <2>2. /\ fs \in Seq(0 .. MaxFd) /\ Len(fs) = Len(n.conn_fds) + 1
        /\ DOMAIN fs = 1 .. Len(n.conn_fds) + 1 /\ DOMAIN n.conn_fds = 1 .. Len(n.conn_fds)
        /\ Len(n.conn_fds) \in Nat
        /\ \A i \in DOMAIN n.conn_fds : fs[i] = n.conn_fds[i]
    BY <1>2, <2>1, AppendEnds
  <2>3. ConnIds(n) = DOMAIN n.conn_fds
    BY <1>2 DEF ConnIds
  <2> HIDE DEF fs
  <2> QED BY <1>2, <2>2, <2>3
<1> HIDE DEF c, fs
<1>5. fs2[c] = f /\ \A e \in ConnIds(n) : fs2[e] = n.conn_fds[e]
  BY <1>4
<1> HIDE DEF fs2, ftc
<1>6. /\ DOMAIN m = DOMAIN n /\ m.fd_handlers = n.fd_handlers
      /\ m.watched = n.watched /\ m.dialing_fds = n.dialing_fds
      /\ m.fd_to_conn = n.fd_to_conn /\ m.conn_fds = fs
  BY <1>1 DEF NodeRec
<1> HIDE DEF m
<1>7. /\ DOMAIN u = DOMAIN n /\ u.watched = n.watched \ {f}
      /\ u.dialing_fds = n.dialing_fds
      /\ u.fd_handlers = [g \in Fd |-> IF g \in {f} THEN <<>> ELSE n.fd_handlers[g]]
  BY <1>1, <1>6 DEF UnregisterFds, NodeRec
<1> HIDE DEF u
<1>8. f \in n.watched => f \in n.dialing_fds
  BY DEF NodeOk, WatchOk
<1>9. DOMAIN a = DOMAIN n /\ f \notin a.watched /\ a.fd_handlers = old
  <2>1. CASE f \in n.dialing_fds
    <3>1. a = [u EXCEPT !.dialing_fds = @ \ {f}]
      BY <1>6, <2>1
    <3>2. DOMAIN a = DOMAIN n /\ a.watched = u.watched /\ a.fd_handlers = u.fd_handlers
      <4> HIDE DEF a
      <4> QED BY <1>1, <1>7, <3>1 DEF NodeRec
    <3>3. old = [g \in Fd |-> IF g \in {f} THEN <<>> ELSE n.fd_handlers[g]]
      BY <1>2, <2>1
    <3> HIDE DEF a, old
    <3> QED BY <1>7, <3>2, <3>3
  <2>2. CASE f \notin n.dialing_fds
    BY <1>6, <1>8, <2>2
  <2> QED BY <2>1, <2>2
<1>10. NewConnection(n, f) = q
  <2>1. [a EXCEPT !.conn_fds[c] = f, !.fd_to_conn[f] = c] = b
    <3>1. a.conn_fds = fs /\ a.fd_to_conn = n.fd_to_conn
      <4>1. u.conn_fds = m.conn_fds /\ u.fd_to_conn = m.fd_to_conn
        BY <1>1, <1>6 DEF UnregisterFds, NodeRec, u
      <4>2. CASE f \in m.dialing_fds
        BY <1>1, <1>6, <1>7, <4>1, <4>2 DEF NodeRec
      <4>3. CASE f \notin m.dialing_fds
        BY <1>6, <4>3
      <4> QED BY <4>2, <4>3
    <3> HIDE DEF a
    <3> QED BY <1>1, <1>9, <3>1 DEF NodeRec, fs2, ftc
  <2> QED BY <1>3, <2>1 DEF RegisterConnection, u
<1> HIDE DEF a
<1>11. /\ DOMAIN b = DOMAIN n /\ b.fd_handlers = old /\ b.watched = a.watched
       /\ b.conn_fds = fs2
  BY <1>1, <1>9 DEF NodeRec
<1> HIDE DEF b, old
<1>12. {f} \ b.watched = {f}
  BY <1>9, <1>11
<1>13. /\ q.conn_fds = fs2
       /\ q.fd_handlers = [g \in Fd |-> IF g \in {f} THEN Append(old[g], "conn") ELSE old[g]]
  BY <1>1, <1>11, <1>12 DEF RegisterFds, NodeRec
<1> HIDE DEF q
<1>14. q.fd_handlers = [g \in Fd |->
                 IF g # f THEN n.fd_handlers[g]
                 ELSE IF f \in n.dialing_fds THEN <<"conn">>
                 ELSE Append(n.fd_handlers[f], "conn")]
  <2>1. \A g \in Fd : g # f => old[g] = n.fd_handlers[g]
    BY <1>2 DEF old
  <2>2. old[f] = IF f \in n.dialing_fds THEN <<>> ELSE n.fd_handlers[f]
    BY <1>2 DEF old
  <2>3. Append(<<>>, "conn") = <<"conn">>
    OBVIOUS
  <2> QED BY <1>13, <2>1, <2>2, <2>3
<1> QED BY <1>5, <1>10, <1>13, <1>14 DEF c

LEMMA NewConnectionDriven ==
    ASSUME NEW n, NEW f \in Fd, NodeOk(n, {f}, {}), BooksOk(n), DrivenOk(n),
           n.fd_to_conn[f] = 0, n.pending_dials[f] = 0
    PROVE  LET q == NewConnection(n, f) IN
           /\ BooksOk(q) /\ DrivenOk(q)
           /\ q.connections = Append(n.connections, NewSession(f))
<1> DEFINE q == NewConnection(n, f)
           c == Len(n.connections) + 1
           new == NewSession(f)
<1>1. /\ n \in NodeRec /\ n.connections \in Seq(SessionRec) /\ n.watched \subseteq Fd
      /\ n.fd_to_conn \in [Fd -> Nat]
      /\ \A g \in Fd : n.fd_to_conn[g] \in 0 .. Len(n.connections)
  <2>1. n \in NodeRec
    BY NodeTyped
  <2> QED BY <2>1 DEF NodeRec, NodeOk, Typed
<1>2. /\ q \in NodeRec
      /\ q.connections = Append(n.connections, new)
      /\ q.story = Append(n.story, <<>>)
      /\ q.connection_peers = Append(n.connection_peers, NoPeer)
      /\ q.peer_connections = n.peer_connections
      /\ Len(q.conn_fds) = Len(n.conn_fds) + 1
      /\ q.fd_to_conn = [n.fd_to_conn EXCEPT ![f] = c]
      /\ q.sock = n.sock /\ ~q.threw /\ q.watched = n.watched \cup {f}
      /\ q.listeners = n.listeners /\ q.pending_dials = n.pending_dials
      /\ q.listener_fds = n.listener_fds /\ q.dialing_fds = n.dialing_fds \ {f}
      /\ SameDials(q, n)
  BY NewConnectionStep
<1>3. /\ q.fd_handlers = [g \in Fd |->
                 IF g # f THEN n.fd_handlers[g]
                 ELSE IF f \in n.dialing_fds THEN <<"conn">>
                 ELSE Append(n.fd_handlers[f], "conn")]
      /\ \A e \in ConnIds(n) : q.conn_fds[e] = n.conn_fds[e]
      /\ q.conn_fds[c] = f
  BY NewConnectionBooks
<1>4. new \in SessionRec /\ new.state = "Securing" /\ new.open /\ new.fd = f
  BY NewSessionTyped
<1> HIDE DEF q, new
<1>5. /\ ConnIds(n) = 1 .. Len(n.connections) /\ Len(n.connections) \in Nat
      /\ ConnIds(q) = 1 .. c /\ c \in Nat /\ c # 0
      /\ \A e \in ConnIds(n) : q.connections[e] = n.connections[e]
      /\ q.connections[c] = new
  <2>1. ConnIds(n) = 1 .. Len(n.connections) /\ Len(n.connections) \in Nat
    BY <1>1 DEF ConnIds
  <2>2. /\ DOMAIN q.connections = 1 .. c
        /\ \A e \in DOMAIN n.connections : q.connections[e] = n.connections[e]
        /\ q.connections[c] = new
    BY <1>1, <1>2, <1>4, AppendEnds
  <2> QED BY <2>1, <2>2 DEF ConnIds
<1>6. ConnIds(q) = ConnIds(n) \cup {c} /\ c \notin ConnIds(n) /\ 0 \notin ConnIds(n)
  BY <1>5
<1>7. \A g \in Fd : n.fd_to_conn[g] \in ConnIds(n) \cup {0}
  BY <1>1, <1>5
<1>8. f # 0 /\ q.fd_to_conn[f] = c /\ \A g \in Fd : g # f => q.fd_to_conn[g] = n.fd_to_conn[g]
  <2>1. f # 0
    BY DEF Fd
  <2> HIDE DEF c
  <2> QED BY <1>1, <1>2, <2>1
<1>9. c # 0
  BY <1>5
<1> HIDE DEF c
<1>10. \A e \in ConnIds(n) : n.conn_fds[e] # 0 => n.conn_fds[e] # f
  BY <1>6 DEF BooksOk
<1>11. BooksOk(q)
  <2>1. q.listeners = {} /\ q.listener_fds = {}
    BY <1>2 DEF BooksOk
  <2>2. ASSUME NEW g \in Fd
        PROVE  q.fd_handlers[g] = HandlersOf(q, g)
    <3>1. n.fd_handlers[g] = HandlersOf(n, g)
      BY DEF BooksOk
    <3>2. CASE g = f
      <4>1. Append(<<>>, "conn") = <<"conn">>
        OBVIOUS
      <4> QED BY ZenonT(40), <1>3, <1>8, <1>9, <3>1, <3>2, <4>1 DEF HandlersOf
    <3>3. CASE g # f
      BY <1>2, <1>3, <1>8, <3>1, <3>3 DEF HandlersOf
    <3> QED BY <3>2, <3>3
  <2>3. ASSUME NEW g \in Fd, q.fd_to_conn[g] # 0
        PROVE  /\ g \notin q.dialing_fds /\ q.pending_dials[g] = 0
               /\ q.conn_fds[q.fd_to_conn[g]] = g
    <3>1. CASE g = f
      BY <1>2, <1>3, <1>8, <3>1
    <3>2. CASE g # f
      <4>1. /\ g \notin n.dialing_fds /\ n.pending_dials[g] = 0
            /\ n.conn_fds[n.fd_to_conn[g]] = g
        BY <1>8, <2>3, <3>2 DEF BooksOk
      <4> QED BY <1>2, <1>3, <1>7, <1>8, <2>3, <3>2, <4>1
    <3> QED BY <3>1, <3>2
  <2>4. ASSUME NEW e \in ConnIds(q), q.conn_fds[e] # 0
        PROVE  /\ q.fd_to_conn[q.conn_fds[e]] = e
               /\ q.connections[e].state # "Absent"
               /\ q.connections[e].fd = q.conn_fds[e]
    <3>1. CASE e = c
      BY <1>3, <1>4, <1>5, <1>8, <3>1
    <3>2. CASE e \in ConnIds(n)
      <4>1. q.conn_fds[e] = n.conn_fds[e] /\ q.connections[e] = n.connections[e]
        BY <1>3, <1>5, <3>2
      <4>2. /\ n.fd_to_conn[n.conn_fds[e]] = e
            /\ n.connections[e].state # "Absent"
            /\ n.connections[e].fd = n.conn_fds[e]
        BY <2>4, <3>2, <4>1 DEF BooksOk
      <4>3. n.conn_fds[e] \in Fd
        <5>1. n.conn_fds[e] \in Fd \cup {0}
          BY <3>2, ConnFds
        <5> QED BY <2>4, <4>1, <5>1
      <4> QED BY <1>8, <1>10, <2>4, <3>2, <4>1, <4>2, <4>3
    <3> QED BY <1>6, <3>1, <3>2
  <2> QED BY <2>1, <2>2, <2>3, <2>4 DEF BooksOk
<1>12. DrivenOk(q)
  <2> SUFFICES ASSUME NEW e \in ConnIds(q)
               PROVE  /\ q.connections[e].state \in {"Securing", "Ready"}
                           => q.connections[e].open
                      /\ q.connections[e].open =>
                            /\ q.conn_fds[e] = q.connections[e].fd
                            /\ q.connections[e].fd \in q.watched
    BY DEF DrivenOk
  <2>1. CASE e = c
    BY <1>2, <1>3, <1>4, <1>5, <2>1
  <2>2. CASE e \in ConnIds(n)
    BY <1>2, <1>3, <1>5, <2>2 DEF DrivenOk
  <2> QED BY <1>6, <2>1, <2>2
<1> QED BY <1>2, <1>11, <1>12 DEF q, new

LEMMA BeginUpgradeDriven ==
    ASSUME NEW n, NodeOk(n, {}, {}), NEW c \in ConnIds(n), NEW fails \in BOOLEAN,
           n.connections[c].state = "Securing", n.connections[c].events = <<>>,
           BooksOk(n), DrivenOk(n)
    PROVE  LET q == BeginUpgrade(n, c, fails) IN
           /\ BooksOk(q) /\ DrivenOk(q) /\ ConnIds(q) = ConnIds(n)
           /\ \A e \in ConnIds(n) \ {c} : q.connections[e] = n.connections[e]
           /\ q.connections[c].events = <<>>
<1>1. CASE ~fails
  BY <1>1 DEF BeginUpgrade
<1>2. CASE fails
  <2> DEFINE t == Tell(n, c, "ProtocolError")
             a == CloseSession(t, c)
             b == DrainEvent(a, c)
             end == <<"Closed">>
  <2>1. "ProtocolError" \in Report
    BY DEF Report
  <2>2. NodeOk(t, {}, {}) /\ ConnIds(t) = ConnIds(n) /\ t.connections = n.connections
    BY <2>1, TellKeeps
  <2>3. SameBooks(t, n) /\ t.watched = n.watched
    <3>1. n \in NodeRec
      BY NodeTyped
    <3> QED BY <3>1 DEF Tell, NodeRec, SameBooks, SameTransport
  <2>4. BeginUpgrade(n, c, fails)
          = IF NextEvent(a, c) = "Closed" THEN RemoveConnection(b, c) ELSE b
    BY <1>2 DEF BeginUpgrade
  <2> HIDE DEF t
  <2>5. BooksOk(t) /\ DrivenOk(t)
    BY <2>2, <2>3, SameDriven
  <2>6. /\ NodeOk(a, {}, {}) /\ ConnIds(a) = ConnIds(t)
        /\ a.connections[c].state = "Closed"
        /\ a.connections[c].events = <<>> \o end
    BY SMTT(30), <2>2, CloseSessionCloses
  <2>7. Follows(t, a, c)
    BY <2>2, ClosingFollows
  <2> HIDE DEF a
  <2>8. a.connections[c].events = end /\ Len(end) > 0 /\ Head(end) = "Closed"
    BY <2>6
  <2>9. NextEvent(a, c) = "Closed" /\ Len(a.connections[c].events) > 0 /\ c \in ConnIds(a)
    BY <2>2, <2>6, <2>8 DEF NextEvent
  <2>10. NodeOk(b, {}, {} \cup {c}) /\ ConnIds(b) = ConnIds(a)
    BY <2>6, <2>9, DrainEventKeeps
  <2>11. Follows(a, b, c)
    BY <2>6, <2>9, DrainEventFollows
  <2>12. Follows(t, b, c)
    BY <2>7, <2>11, FollowsAgain
  <2> HIDE DEF b
  <2>13. BooksOk(b) /\ DrivenOk(b)
    <3>1. t \in NodeRec /\ c \in ConnIds(t)
      BY <2>2, NodeTyped
    <3> QED BY <2>5, <2>12, <3>1, FollowsDriven
  <2>14. ~b.connections[c].open
    <3>1. ~a.connections[c].open
      BY <2>6, <2>9 DEF NodeOk, SocketsOk
    <3> QED BY <2>11, <3>1 DEF Follows
  <2>15. c \in ConnIds(b) /\ NodeOk(b, {}, {} \cup {c})
    BY <2>9, <2>10
  <2>16. LET q == RemoveConnection(b, c) IN
         /\ BooksOk(q) /\ DrivenOk(q) /\ ConnIds(q) = ConnIds(b)
         /\ \A e \in ConnIds(b) \ {c} : q.connections[e] = b.connections[e]
         /\ q.connections[c] = NoSession
    BY <2>13, <2>14, <2>15, RemoveConnectionDriven
  <2>17. NoSession.events = <<>>
    BY DEF NoSession
  <2> QED BY <2>2, <2>4, <2>6, <2>9, <2>10, <2>12, <2>16, <2>17 DEF Follows
<1> QED BY <1>1, <1>2

\* on_connected: the new connection is driven, or gone.
LEMMA OnConnectedDriven ==
    ASSUME NEW n, NEW f \in Fd, NodeOk(n, {f}, {}), NEW fails \in BOOLEAN,
           BooksOk(n), DrivenOk(n), n.fd_to_conn[f] = 0, n.pending_dials[f] = 0
    PROVE  LET q == OnConnected(n, f, fails) IN
           /\ BooksOk(q) /\ DrivenOk(q)
           /\ (\A e \in ConnIds(n) : n.connections[e].events = <<>>)
                 => \A e \in ConnIds(q) : q.connections[e].events = <<>>
<1> DEFINE m == NewConnection(n, f)
           c == next_conn_id(n)
           q == OnConnected(n, f, fails)
<1>1. /\ NodeOk(m, {}, {}) /\ c \in ConnIds(m) /\ m.connections[c].state = "Securing"
      /\ m.connections[c].events = <<>>
  BY NewConnectionKeeps
<1>2. OnConnected(n, f, fails) = BeginUpgrade(m, c, fails)
  BY DEF OnConnected
<1>3. /\ BooksOk(m) /\ DrivenOk(m) /\ m.connections = Append(n.connections, NewSession(f))
  BY NewConnectionDriven
<1> HIDE DEF m
<1>4. \A e \in ConnIds(m) : e # c => e \in ConnIds(n) /\ m.connections[e] = n.connections[e]
  <2>1. n.connections \in Seq(SessionRec)
    <3>1. n \in NodeRec
      BY NodeTyped
    <3> QED BY <3>1 DEF NodeRec
  <2>2. NewSession(f) \in SessionRec
    BY NewSessionTyped
  <2>3. /\ DOMAIN m.connections = 1 .. Len(n.connections) + 1
        /\ DOMAIN n.connections = 1 .. Len(n.connections) /\ Len(n.connections) \in Nat
        /\ \A i \in DOMAIN n.connections : m.connections[i] = n.connections[i]
    BY <1>3, <2>1, <2>2, AppendEnds
  <2> QED BY <2>3 DEF ConnIds, next_conn_id
<1> HIDE DEF c
<1>5. LET b == BeginUpgrade(m, c, fails) IN
      /\ BooksOk(b) /\ DrivenOk(b) /\ ConnIds(b) = ConnIds(m)
      /\ \A e \in ConnIds(m) \ {c} : b.connections[e] = m.connections[e]
      /\ b.connections[c].events = <<>>
  BY <1>1, <1>3, BeginUpgradeDriven
<1> QED BY <1>2, <1>4, <1>5

\* sync_transport_fds of a Swarm with no listener.
LEMMA SyncBooks ==
    ASSUME NEW n, NEW S, NodeOk(n, {}, S), n.listeners = {}, n.listener_fds = {}
    PROVE  LET new == {f \in Dials(n) \ n.dialing_fds : n.fd_to_conn[f] = 0}
               done == n.dialing_fds \ Dials(n)
           IN SyncTransportFds(n).fd_handlers
                = [f \in Fd |-> IF f \in done THEN <<>>
                                ELSE IF f \in new THEN Append(n.fd_handlers[f], "connect")
                                ELSE n.fd_handlers[f]]
<1> DEFINE new == {f \in Dials(n) \ n.dialing_fds : n.fd_to_conn[f] = 0}
           done == n.dialing_fds \ Dials(n)
           left == (n.dialing_fds \cap Dials(n)) \cup new
           none == {}
           r == RegisterFds(n, none, "accept")
           a == [r EXCEPT !.listener_fds = n.listeners]
           b == UnregisterFds(a, none)
           d == RegisterFds(b, new, "connect")
           e == UnregisterFds(d, done)
           q == [e EXCEPT !.dialing_fds = left]
<1>1. n \in NodeRec
  BY NodeTyped
<1>2. /\ new \in SUBSET Fd /\ done \in SUBSET Fd /\ n.listeners \in SUBSET Fd
      /\ none \in SUBSET Fd /\ left \in SUBSET Fd
  BY <1>1 DEF NodeRec, Dials
<1>3. new \cap n.watched = {}
  BY DEF NodeOk, WatchOk, Dials
<1>4. SyncTransportFds(n) = q
  <2>1. n.listeners \ n.listener_fds = none /\ n.listener_fds \ n.listeners = none
    OBVIOUS
  <2> QED BY <2>1 DEF SyncTransportFds
<1> HIDE DEF new, done, left
<1>5. none \cap n.watched = {} /\ none = {}
  OBVIOUS
<1> HIDE DEF none
<1>6. /\ r \in NodeRec /\ r.watched = n.watched \cup none
      /\ r.fd_handlers = [f \in Fd |-> IF f \in none THEN Append(n.fd_handlers[f], "accept")
                                       ELSE n.fd_handlers[f]]
  <2>1. r \in NodeRec /\ r.watched = n.watched \cup none
    BY <1>1, <1>2, RegisterFdsStep
  <2>2. none \cap n.watched = {} /\ none \in SUBSET Fd
    BY <1>2, <1>5
  <2> QED BY <1>1, <2>1, <2>2, RegisterHandlers
<1> HIDE DEF r
<1>7. a \in NodeRec /\ a.watched = r.watched /\ a.fd_handlers = r.fd_handlers
  BY <1>2, <1>6 DEF NodeRec
<1> HIDE DEF a
<1>8. /\ b \in NodeRec /\ b.watched = a.watched \ none
      /\ b.fd_handlers = [f \in Fd |-> IF f \in none THEN <<>> ELSE a.fd_handlers[f]]
  BY <1>2, <1>7, UnregisterFdsStep, UnregisterHandlers
<1> HIDE DEF b
<1>9. new \cap b.watched = {}
  BY <1>3, <1>5, <1>6, <1>7, <1>8
<1>10. /\ d \in NodeRec
       /\ d.fd_handlers = [f \in Fd |-> IF f \in new THEN Append(b.fd_handlers[f], "connect")
                                        ELSE b.fd_handlers[f]]
  BY <1>2, <1>8, <1>9, RegisterFdsStep, RegisterHandlers
<1> HIDE DEF d
<1>11. /\ e \in NodeRec
       /\ e.fd_handlers = [f \in Fd |-> IF f \in done THEN <<>> ELSE d.fd_handlers[f]]
  BY <1>2, <1>10, UnregisterFdsStep, UnregisterHandlers
<1> HIDE DEF e
<1>12. q.fd_handlers = e.fd_handlers
  BY <1>11 DEF NodeRec
<1> HIDE DEF q
<1>13. \A f \in Fd : b.fd_handlers[f] = n.fd_handlers[f]
  BY <1>5, <1>6, <1>7, <1>8
<1>14. q.fd_handlers = [f \in Fd |-> IF f \in done THEN <<>>
                                ELSE IF f \in new THEN Append(n.fd_handlers[f], "connect")
                                ELSE n.fd_handlers[f]]
  BY <1>10, <1>11, <1>12, <1>13
<1> QED BY <1>4, <1>14 DEF new, done

LEMMA SyncDriven ==
    ASSUME NEW n, NEW S, NodeOk(n, {}, S), BooksOk(n), DrivenOk(n)
    PROVE  LET q == SyncTransportFds(n) IN
           BooksOk(q) /\ DrivenOk(q) /\ q.connections = n.connections
<1> DEFINE q == SyncTransportFds(n)
           new == {f \in Dials(n) \ n.dialing_fds : n.fd_to_conn[f] = 0}
           done == n.dialing_fds \ Dials(n)
<1>1. n.listeners = {} /\ n.listener_fds = {}
  BY DEF BooksOk
<1>2. /\ q \in NodeRec
      /\ q.watched = (((n.watched \cup (n.listeners \ n.listener_fds))
                         \ (n.listener_fds \ n.listeners)) \cup new) \ done
      /\ q.listener_fds = n.listeners
      /\ q.dialing_fds = (n.dialing_fds \cap Dials(n)) \cup new
      /\ q.sock = n.sock /\ ~q.threw
      /\ q.listeners = n.listeners /\ q.pending_dials = n.pending_dials
      /\ SameDials(q, n) /\ SameConnections(q, n) /\ SameRoutes(q, n)
  BY SyncTransportFdsStep
<1>3. q.fd_handlers = [f \in Fd |-> IF f \in done THEN <<>>
                                ELSE IF f \in new THEN Append(n.fd_handlers[f], "connect")
                                ELSE n.fd_handlers[f]]
  BY <1>1, SyncBooks
<1> HIDE DEF q
<1>4. /\ ConnIds(q) = ConnIds(n) /\ q.connections = n.connections
      /\ q.conn_fds = n.conn_fds /\ q.fd_to_conn = n.fd_to_conn
      /\ q.watched = (n.watched \cup new) \ done
  BY <1>1, <1>2 DEF SameConnections, ConnIds
<1>5. \A f \in Fd : f \in new <=> (n.pending_dials[f] # 0 /\ f \notin n.dialing_fds
                                     /\ n.fd_to_conn[f] = 0)
  BY DEF Dials
<1>6. \A f \in Fd : f \in done <=> (f \in n.dialing_fds /\ n.pending_dials[f] = 0)
  BY DEF Dials
<1>7. \A f \in Fd : f \in q.dialing_fds <=>
          \/ f \in n.dialing_fds /\ n.pending_dials[f] # 0
          \/ f \in new
  BY <1>2 DEF Dials
<1> HIDE DEF new, done
<1>8. BooksOk(q)
  <2>1. q.listeners = {} /\ q.listener_fds = {}
    BY <1>1, <1>2
  <2>2. ASSUME NEW f \in Fd
        PROVE  q.fd_handlers[f] = HandlersOf(q, f)
    <3>1. n.fd_handlers[f] = HandlersOf(n, f)
          /\ (n.fd_to_conn[f] # 0 => f \notin n.dialing_fds)
      BY DEF BooksOk
    <3>2. CASE f \in done
      BY <1>3, <1>4, <1>5, <1>6, <1>7, <3>1, <3>2 DEF HandlersOf
    <3>3. CASE f \in new
      <4>1. Append(<<>>, "connect") = <<"connect">>
        OBVIOUS
      <4>2. n.fd_handlers[f] = <<>> /\ f \notin done /\ f \in q.dialing_fds
        BY <1>5, <1>6, <1>7, <3>1, <3>3 DEF HandlersOf
      <4> QED BY <1>3, <1>4, <1>5, <3>3, <4>1, <4>2 DEF HandlersOf
    <3>4. CASE f \notin done /\ f \notin new
      BY <1>3, <1>4, <1>6, <1>7, <3>1, <3>4 DEF HandlersOf
    <3> QED BY <3>2, <3>3, <3>4
  <2>3. \A f \in Fd : q.fd_to_conn[f] # 0 =>
          /\ f \notin q.dialing_fds /\ q.pending_dials[f] = 0
          /\ q.conn_fds[q.fd_to_conn[f]] = f
    BY <1>2, <1>4, <1>5, <1>7 DEF BooksOk
  <2>4. \A c \in ConnIds(q) : q.conn_fds[c] # 0 =>
          /\ q.fd_to_conn[q.conn_fds[c]] = c
          /\ q.connections[c].state # "Absent"
          /\ q.connections[c].fd = q.conn_fds[c]
    BY <1>4 DEF BooksOk
  <2> QED BY <2>1, <2>2, <2>3, <2>4 DEF BooksOk
<1>9. DrivenOk(q)
  <2> SUFFICES ASSUME NEW c \in ConnIds(n), n.connections[c].open
               PROVE  n.connections[c].fd \notin done
    BY <1>4 DEF DrivenOk
  <2> DEFINE f == n.connections[c].fd
  <2>1. f = n.conn_fds[c] /\ f \in Fd
    BY DEF DrivenOk, NodeOk, SocketsOk
  <2>2. c # 0 /\ f # 0
    BY <2>1, ConnFds DEF Fd
  <2> HIDE DEF f
  <2>3. n.fd_to_conn[f] = c
    BY <2>1, <2>2 DEF BooksOk
  <2>4. f \notin n.dialing_fds
    BY <2>1, <2>2, <2>3 DEF BooksOk
  <2> QED BY <1>6, <2>1, <2>4 DEF f
<1> QED BY <1>4, <1>8, <1>9 DEF q

\* A dial's descriptor, before it is of a connection or after it was closed.
LEMMA PendingDriven ==
    ASSUME NEW n, n \in NodeRec, BooksOk(n), DrivenOk(n), NEW f \in Fd,
           n.fd_to_conn[f] = 0, \A e \in ConnIds(n) : e # 0,
           NEW q, NEW x, q.pending_dials = [n.pending_dials EXCEPT ![f] = x],
           q.listeners = n.listeners, q.listener_fds = n.listener_fds,
           q.dialing_fds = n.dialing_fds, q.fd_handlers = n.fd_handlers,
           q.fd_to_conn = n.fd_to_conn, q.conn_fds = n.conn_fds,
           q.connections = n.connections, q.watched \in {n.watched, n.watched \ {f}}
    PROVE  BooksOk(q) /\ DrivenOk(q) /\ ConnIds(q) = ConnIds(n)
<1>1. ConnIds(q) = ConnIds(n)
      /\ \A g \in Fd : HandlersOf(q, g) = HandlersOf(n, g)
  BY DEF ConnIds, HandlersOf
<1>2. \A g \in Fd : g # f => q.pending_dials[g] = n.pending_dials[g]
  BY DEF NodeRec
<1>3. BooksOk(q)
  <2>1. \A g \in Fd : q.fd_to_conn[g] # 0 => q.pending_dials[g] = 0
    BY <1>2 DEF BooksOk
  <2> QED BY <1>1, <2>1 DEF BooksOk
<1>4. ASSUME NEW e \in ConnIds(n), n.connections[e].open
      PROVE  n.connections[e].fd \in q.watched
  <2>1. n.conn_fds[e] = n.connections[e].fd /\ n.connections[e].fd \in n.watched
    BY <1>4 DEF DrivenOk
  <2>2. n.conn_fds[e] # 0
    BY <2>1 DEF NodeRec, Fd
  <2>3. n.fd_to_conn[n.conn_fds[e]] = e /\ e # 0
    BY <2>2 DEF BooksOk
  <2> QED BY <2>1, <2>3
<1>5. DrivenOk(q)
  BY <1>1, <1>4 DEF DrivenOk
<1> QED BY <1>1, <1>3, <1>5

LEMMA SettleDriven ==
    ASSUME NEW n \in NodeRec, NEW d, NEW how, BooksOk(n), DrivenOk(n)
    PROVE  LET q == Settle(n, d, how) IN
           /\ BooksOk(q) /\ DrivenOk(q) /\ q.connections = n.connections
           /\ q.fd_to_conn = n.fd_to_conn /\ q.pending_dials = n.pending_dials
<1> DEFINE os == [n.outcomes EXCEPT ![d] = Append(@, how)]
           q == [n EXCEPT !.outcomes = os]
<1>1. Settle(n, d, how) = q
  BY DEF Settle, NodeRec
<1> HIDE DEF os
<1>2. SameBooks(q, n) /\ q.connections = n.connections /\ q.watched = n.watched
  BY DEF NodeRec, SameBooks, SameTransport
<1> HIDE DEF q
<1>3. BooksOk(q) /\ DrivenOk(q)
  BY <1>2, SameDriven
<1> QED BY <1>1, <1>2, <1>3 DEF SameBooks, SameTransport

\* on_connect_ready: the dial fails, or its socket becomes a connection's.
LEMMA OnConnectReadyDriven ==
    ASSUME NEW n, NodeOk(n, {}, {}), NEW f \in Fd, NEW fails \in BOOLEAN,
           BooksOk(n), DrivenOk(n)
    PROVE  BooksOk(OnConnectReady(n, f, fails)) /\ DrivenOk(OnConnectReady(n, f, fails))
<1> DEFINE d == n.pending_dials[f]
           pd == [n.pending_dials EXCEPT ![f] = 0]
           t == [n EXCEPT !.pending_dials = pd]
           m == TakeDial(n, f)
           k == CloseFd(m, f)
           o == OpenSocket(m, f, "conn")
           a == Settle(o, d, "connected")
<1>1. CASE d = 0
  BY <1>1 DEF OnConnectReady
<1>2. CASE d # 0
  <2>1. n \in NodeRec /\ n.fd_to_conn[f] = 0 /\ \A e \in ConnIds(n) : e # 0
    BY <1>2, NodeTyped, ConnFds DEF BooksOk
  <2>2. m = t
    BY <2>1 DEF TakeDial, NodeRec
  <2>3. pd \in [Fd -> Nat] /\ pd[f] = 0
    BY <2>1 DEF NodeRec
  <2>4. /\ NodeOk(k, {}, {}) /\ NodeOk(o, {f}, {})
        /\ d \in Dial /\ d <= n.dialed /\ n.outcomes[d] = <<>>
        /\ SameDials(k, n) /\ SameDials(o, n)
    BY ZenonT(40), <1>2, DialTaken
  <2>5. /\ m \in NodeRec /\ m.pending_dials = pd /\ m.listeners = n.listeners
        /\ m.listener_fds = n.listener_fds /\ m.dialing_fds = n.dialing_fds
        /\ m.fd_handlers = n.fd_handlers /\ m.fd_to_conn = n.fd_to_conn
        /\ m.conn_fds = n.conn_fds /\ m.connections = n.connections
        /\ m.watched = n.watched
    <3>1. /\ t \in NodeRec /\ t.pending_dials = pd /\ t.listeners = n.listeners
          /\ t.listener_fds = n.listener_fds /\ t.dialing_fds = n.dialing_fds
          /\ t.fd_handlers = n.fd_handlers /\ t.fd_to_conn = n.fd_to_conn
          /\ t.conn_fds = n.conn_fds /\ t.connections = n.connections
          /\ t.watched = n.watched
      <4> HIDE DEF pd
      <4> QED BY <2>1, <2>3 DEF NodeRec
    <3> HIDE DEF t, m
    <3> QED BY <2>2, <3>1
  <2>6. /\ OnConnectReady(n, f, fails)
             = IF n.sock[f].gone THEN Settle(k, d, "failed") ELSE OnConnected(a, f, fails)
    <3>1. CloseFd(Settle(m, d, "failed"), f) = Settle(k, d, "failed")
      <4> HIDE DEF m, d
      <4> QED BY ZenonT(40), <2>5 DEF Settle, CloseFd, NodeRec, k
    <3>2. [n EXCEPT !.pending_dials[f] = 0] = m
      BY DEF TakeDial
    <3> QED BY <1>2, <3>1, <3>2 DEF OnConnectReady
  <2>7. /\ SameBooks(k, m) /\ k.connections = m.connections
        /\ k.watched = m.watched \ {f}
    <3> HIDE DEF m
    <3> QED BY <2>5 DEF CloseFd, NodeRec, SameBooks, SameTransport
  <2>8. /\ SameBooks(o, m) /\ o.connections = m.connections /\ o.watched = m.watched
    <3> HIDE DEF m
    <3> QED BY <2>5 DEF OpenSocket, NodeRec, SameBooks, SameTransport
  <2> HIDE DEF m
  <2>9. ASSUME NEW y, SameBooks(y, m), y.connections = m.connections,
               y.watched \in {n.watched, n.watched \ {f}}
        PROVE  /\ BooksOk(y) /\ DrivenOk(y)
               /\ y.fd_to_conn[f] = 0 /\ y.pending_dials[f] = 0
    <3>1. /\ y.pending_dials = [n.pending_dials EXCEPT ![f] = 0]
          /\ y.listeners = n.listeners /\ y.listener_fds = n.listener_fds
          /\ y.dialing_fds = n.dialing_fds /\ y.fd_handlers = n.fd_handlers
          /\ y.fd_to_conn = n.fd_to_conn /\ y.conn_fds = n.conn_fds
          /\ y.connections = n.connections
      BY <2>5, <2>9 DEF SameBooks, SameTransport
    <3>2. BooksOk(y) /\ DrivenOk(y)
      BY <2>1, <2>9, <3>1, PendingDriven
    <3> QED BY <2>1, <2>3, <3>1, <3>2
  <2>10. \A g \in Fd : o.pending_dials[g] # d
    <3>1. \A g \in Fd : g # f => pd[g] = n.pending_dials[g]
      BY <2>1 DEF NodeRec
    <3>2. \A g \in Fd : g # f => n.pending_dials[g] # d
      BY <1>2 DEF NodeOk, DialsOk
    <3>3. o.pending_dials = pd
      BY <2>5, <2>8 DEF SameBooks, SameTransport
    <3> HIDE DEF pd, o
    <3> QED BY <1>2, <2>3, <3>1, <3>2, <3>3
  <2> HIDE DEF pd
  <2>11. CASE n.sock[f].gone
    <3>1. BooksOk(k) /\ DrivenOk(k)
      BY <2>5, <2>7, <2>9
    <3> HIDE DEF k, d
    <3>2. k \in NodeRec
      BY <2>4, NodeTyped
    <3>3. BooksOk(Settle(k, d, "failed")) /\ DrivenOk(Settle(k, d, "failed"))
      BY <3>1, <3>2, SettleDriven
    <3> QED BY <2>6, <2>11, <3>3
  <2>12. CASE ~n.sock[f].gone
    <3>1. /\ BooksOk(o) /\ DrivenOk(o) /\ o.fd_to_conn[f] = 0 /\ o.pending_dials[f] = 0
      BY <2>5, <2>8, <2>9
    <3> HIDE DEF o, d
    <3>2. d <= o.dialed /\ o.outcomes[d] = <<>> /\ \A g \in Fd : o.pending_dials[g] # d
      BY <2>4, <2>10 DEF SameDials
    <3>3. NodeOk(a, {f}, {})
      BY <2>4, <3>2, SettleKeeps
    <3>4. /\ BooksOk(a) /\ DrivenOk(a) /\ a.fd_to_conn[f] = 0 /\ a.pending_dials[f] = 0
      <4>1. o \in NodeRec
        BY <2>4, NodeTyped
      <4>2. /\ BooksOk(a) /\ DrivenOk(a) /\ a.connections = o.connections
            /\ a.fd_to_conn = o.fd_to_conn /\ a.pending_dials = o.pending_dials
        BY <3>1, <4>1, SettleDriven
      <4> HIDE DEF a
      <4> QED BY <3>1, <4>2
    <3> HIDE DEF a
    <3>5. BooksOk(OnConnected(a, f, fails)) /\ DrivenOk(OnConnected(a, f, fails))
      BY <3>3, <3>4, OnConnectedDriven
    <3> QED BY <2>6, <2>12, <3>5
  <2> QED BY <2>11, <2>12
<1> QED BY <1>1, <1>2

----------------------------------------------------------------------------
(* Every step of a Swarm that only dials keeps its connections driven.     *)

\* DrivenInv but for SwarmInv.
Driven == BooksOk(node) /\ DrivenOk(node) /\ EventsTaken

LEMMA IdleEvents ==
    ASSUME DrivenInv, pc = "idle"
    PROVE  \A e \in ConnIds(node) : node.connections[e].events = <<>>
<1>1. todo = {}
  BY Calm DEF DrivenInv
<1> QED BY <1>1 DEF DrivenInv, EventsTaken

\* A free descriptor is no connection's.
LEMMA IdleFree ==
    ASSUME DrivenInv, pc = "idle", NEW f \in Fd, node.sock[f].kind = "free"
    PROVE  node.fd_to_conn[f] = 0 /\ node.pending_dials[f] = 0
<1> DEFINE c == node.fd_to_conn[f]
<1>1. NodeOk(node, {}, {}) /\ node \in NodeRec
  BY Calm DEF DrivenInv
<1>2. node.pending_dials[f] = 0
  BY <1>1 DEF NodeOk, SocketsOk
<1>3. ASSUME c # 0 PROVE FALSE
  <2>1. node.connections \in Seq(SessionRec) /\ c \in 0 .. Len(node.connections)
    BY <1>1 DEF NodeOk, Typed, NodeRec
  <2>2. c \in ConnIds(node)
    BY <1>3, <2>1 DEF ConnIds
  <2> DEFINE s == node.connections[c]
  <2>3. node.conn_fds[c] = f
    BY <1>3 DEF DrivenInv, BooksOk
  <2> HIDE DEF c
  <2>4. f # 0
    BY DEF Fd
  <2>5. s.state # "Absent" /\ s.fd = f
    BY <2>2, <2>3, <2>4 DEF DrivenInv, BooksOk
  <2>6. s \in SessionRec /\ s.events = <<>>
    BY <1>1, <2>2, SessionTyped, IdleEvents
  <2>7. s.state # "Closed"
    <3>1. ~Ends(s.events, "Closed")
      BY <2>6 DEF Ends
    <3>2. Len(node.story[c]) > 0 /\ Ends(node.story[c], "ConnectionClosed") =>
            Len(node.story[c]) \in DOMAIN node.story[c]
      <4>1. node.story \in Seq(Seq(Report)) /\ Len(node.story) = Len(node.connections)
        BY <1>1 DEF NodeOk, Typed, NodeRec
      <4>2. c \in DOMAIN node.story
        BY <2>1, <2>2, <4>1 DEF ConnIds
      <4>3. node.story[c] \in Seq(Report)
        BY <4>1, <4>2
      <4> QED BY <4>3
    <3>3. ~Ends(node.story[c], "ConnectionClosed")
      BY <1>1, <2>2, <2>5, <3>2 DEF NodeOk, StoryOk, Ends
    <3> QED BY <1>1, <2>2, <3>1, <3>3 DEF NodeOk, StoryOk
  <2>8. s.open
    <3>1. s.state \in {"Securing", "Ready"}
      BY <2>5, <2>6, <2>7 DEF SessionRec
    <3> QED BY <2>2, <3>1 DEF DrivenInv, DrivenOk
  <2>9. Owns(node, c, f)
    BY <2>5, <2>8 DEF Owns
  <2> QED BY <1>1, <2>2, <2>9 DEF NodeOk, SocketsOk
<1> QED BY <1>2, <1>3

\* Between polls, and when a poll begins to drain.
LEMMA IdleDriven ==
    ASSUME pc' = "idle", BooksOk(node'), DrivenOk(node'),
           \A e \in ConnIds(node') : node'.connections[e].events = <<>>
    PROVE  Driven'
BY DEF Driven, EventsTaken

LEMMA DispatchDriven ==
    ASSUME pc' = "dispatch", BooksOk(node'), DrivenOk(node')
    PROVE  Driven'
BY DEF Driven, EventsTaken

LEMMA DrainDriven ==
    ASSUME NEW q, NodeOk(q, {}, {}), BooksOk(node'), DrivenOk(node'),
           todo' = Present(q), ConnIds(node') = ConnIds(q),
           \A e \in ConnIds(q) : q.connections[e].state = "Absent" =>
              node'.connections[e] = q.connections[e]
    PROVE  Driven'
<1>1. ASSUME NEW e \in ConnIds(node'), e \notin todo'
      PROVE  node'.connections[e].events = <<>>
  <2>1. q.connections[e].state = "Absent"
    BY <1>1 DEF Present
  <2>2. q.connections[e] = NoSession
    BY <1>1, <2>1 DEF NodeOk, StoryOk
  <2> QED BY <1>1, <2>1, <2>2 DEF NoSession
<1> QED BY <1>1 DEF Driven, EventsTaken

\* A step of the network: no book depends on what is in a socket.
LEMMA NetworkDriven ==
    ASSUME DrivenInv, NEW f, NEW sk, NEW m, m = [node EXCEPT !.sock = sk], NEW evs,
           Network(Raise(m, f, evs))
    PROVE  Driven'
<1> DEFINE es == [node.edges EXCEPT ![f] = @ \cup evs]
<1>1. node \in NodeRec /\ BooksOk(node) /\ DrivenOk(node)
  BY NodeSockets DEF DrivenInv
<1>2. /\ SameBooks(m, node) /\ m.connections = node.connections
      /\ m.watched = node.watched /\ DOMAIN m = DOMAIN node /\ m.edges = node.edges
  BY <1>1 DEF NodeRec, SameBooks, SameTransport
<1>3. node' = Raise(m, f, evs) /\ UNCHANGED <<pc, todo>>
  BY DEF Network
<1>4. node' = m \/ node' = [m EXCEPT !.edges = es]
  BY <1>2, <1>3 DEF Raise
<1> HIDE DEF es
<1>5. /\ SameBooks(node', node) /\ node'.connections = node.connections
      /\ node'.watched = node.watched
  BY ZenonT(40), <1>1, <1>2, <1>4 DEF NodeRec, SameBooks, SameTransport
<1>6. BooksOk(node') /\ DrivenOk(node')
  BY <1>1, <1>5, SameDriven
<1> QED BY <1>3, <1>5, <1>6 DEF DrivenInv, Driven, EventsTaken, ConnIds

LEMMA KernelDriven ==
    ASSUME DrivenInv, Kernel
    PROVE  Driven'
<1>1. SwarmInv /\ node \in NodeRec
  BY NodeSockets DEF DrivenInv
<1>2. PICK f \in Fd : \/ PeerConnects(f) \/ PeerSends(f)
                      \/ \E b \in BOOLEAN : ConnectEnds(f, b) \/ PeerCloses(f, b)
  BY DEF Kernel
<1>3. ~PeerConnects(f)
  BY <1>1 DEF PeerConnects, DrivenInv, BooksOk, SwarmInv, NodeOk, SocketsOk
<1>4. CASE PeerSends(f)
  <2> DEFINE sk == [node.sock EXCEPT ![f] = [@ EXCEPT !.waiting = 1]]
  <2>1. [node EXCEPT !.sock[f].waiting = 1] = [node EXCEPT !.sock = sk]
    BY <1>1 DEF NodeRec
  <2>2. Network(Raise([node EXCEPT !.sock = sk], f, {"in"}))
    BY <1>4, <2>1 DEF PeerSends
  <2> HIDE DEF sk
  <2> QED BY <2>2, NetworkDriven
<1>5. ASSUME NEW b \in BOOLEAN, ConnectEnds(f, b) PROVE Driven'
  <2> DEFINE s == [node.sock[f] EXCEPT !.waiting = 1, !.gone = b]
             sk == [node.sock EXCEPT ![f] = s]
  <2>1. [node EXCEPT !.sock[f] = s] = [node EXCEPT !.sock = sk]
    BY <1>1 DEF NodeRec
  <2>2. Network(Raise([node EXCEPT !.sock = sk], f, Level(s)))
    BY <1>5, <2>1 DEF ConnectEnds
  <2> HIDE DEF sk
  <2> QED BY <2>2, NetworkDriven
<1>6. ASSUME NEW b \in BOOLEAN, PeerCloses(f, b) PROVE Driven'
  <2> DEFINE yes == TRUE
             sk == [node.sock EXCEPT ![f] = [@ EXCEPT !.gone = yes]]
             evs == IF b THEN {"in", "out", "err"} ELSE {"in"}
  <2>1. [node EXCEPT !.sock[f].gone = yes] = [node EXCEPT !.sock = sk]
    <3> HIDE DEF yes
    <3> QED BY <1>1 DEF NodeRec
  <2>2. Network(Raise([node EXCEPT !.sock = sk], f, evs))
    BY <1>6, <2>1 DEF PeerCloses
  <2> HIDE DEF sk, evs
  <2> QED BY <2>2, NetworkDriven
<1> QED BY <1>2, <1>3, <1>4, <1>5, <1>6

\* dial_addr leaves the new dial, or its connection, in the books.
LEMMA DialAddrDriven == DrivenInv /\ DialAddr => Driven'
<1> SUFFICES ASSUME DrivenInv, DialAddr PROVE Driven'
  OBVIOUS
<1> DEFINE d == node.dialed + 1
           f == LowestFree(node)
           n == [node EXCEPT !.dialed = d]
           q1 == OpenSocket([n EXCEPT !.pending_dials[f] = d], f, "dial")
           o == OpenSocket(n, f, "conn")
           a == Settle(o, d, "connected")
           q3 == Settle(n, d, "failed")
<1>1. pc = "idle" /\ FreeFds(node) # {} /\ node.dialed < MaxDials
  BY DEF DialAddr, Idle
<1>2. NodeOk(node, {}, {}) /\ node \in NodeRec /\ BooksOk(node) /\ DrivenOk(node)
  BY <1>1, Calm DEF DrivenInv
<1>3. f \in Fd /\ node.sock[f].kind = "free"
  BY <1>1, LowestIsFree
<1>4. /\ \/ node' = SyncTransportFds(q1)
         \/ \E fails \in BOOLEAN : node' = SyncTransportFds(OnConnected(a, f, fails))
         \/ node' = SyncTransportFds(q3)
      /\ UNCHANGED <<pc, todo, closed>>
  BY DEF DialAddr, Call
<1>5. n = BeginDial(node)
  BY DEF BeginDial
<1>6. /\ NodeOk(n, {}, {}) /\ n.sock = node.sock
      /\ d \in Dial /\ n.dialed = d /\ n.outcomes[d] = <<>>
      /\ \A g \in Fd : n.pending_dials[g] # d
  <2>1. d = node.dialed + 1
    OBVIOUS
  <2> HIDE DEF d, n
  <2> QED BY <1>1, <1>2, <1>5, <2>1, BeginDialKeeps
<1>7. /\ n \in NodeRec /\ SameBooks(n, node) /\ n.connections = node.connections
      /\ n.watched = node.watched
  <2>1. n \in NodeRec
    BY <1>6, NodeTyped
  <2> HIDE DEF d, f
  <2> QED BY <1>2, <2>1 DEF NodeRec, SameBooks, SameTransport
<1> HIDE DEF d, n, f
<1>8. d <= n.dialed /\ n.sock[f].kind = "free"
  <2>1. d \in Nat
    BY <1>6, SwarmAssumption DEF Dial
  <2> QED BY <1>3, <1>6, <2>1
<1>9. node.fd_to_conn[f] = 0 /\ node.pending_dials[f] = 0
  BY <1>1, <1>3, IdleFree
<1>10. BooksOk(n) /\ DrivenOk(n)
  BY <1>2, <1>7, SameDriven
<1>11. n.fd_to_conn[f] = 0 /\ n.pending_dials[f] = 0
       /\ \A e \in ConnIds(n) : n.connections[e].events = <<>>
  BY <1>1, <1>7, <1>9, IdleEvents DEF SameBooks, SameTransport, ConnIds
<1>12. ASSUME NEW q, NodeOk(q, {}, {}), BooksOk(q), DrivenOk(q),
              node' = SyncTransportFds(q),
              \A e \in ConnIds(q) : q.connections[e].events = <<>>
       PROVE  Driven'
  <2>1. BooksOk(node') /\ DrivenOk(node') /\ node'.connections = q.connections
    BY <1>12, SyncDriven
  <2> QED BY <1>1, <1>4, <1>12, <2>1, IdleDriven DEF ConnIds
<1>13. CASE node' = SyncTransportFds(q1)
  <2> DEFINE pd == [n.pending_dials EXCEPT ![f] = d]
             t == [n EXCEPT !.pending_dials = pd]
  <2>1. NodeOk(q1, {}, {})
    BY <1>3, <1>6, <1>8, DialSocket
  <2>2. [n EXCEPT !.pending_dials[f] = d] = t
    BY <1>7 DEF NodeRec
  <2>3. \A e \in ConnIds(n) : e # 0
    BY <1>6, ConnFds
  <2>4. pd \in [Fd -> Nat]
    BY <1>6, <1>7, SwarmAssumption DEF NodeRec, Dial
  <2>5. /\ t \in NodeRec /\ t.pending_dials = pd /\ t.listeners = n.listeners
        /\ t.listener_fds = n.listener_fds /\ t.dialing_fds = n.dialing_fds
        /\ t.fd_handlers = n.fd_handlers /\ t.fd_to_conn = n.fd_to_conn
        /\ t.conn_fds = n.conn_fds /\ t.connections = n.connections
        /\ t.watched = n.watched
    <3> HIDE DEF pd
    <3> QED BY <1>7, <2>4 DEF NodeRec
  <2> HIDE DEF t
  <2>6. /\ q1.pending_dials = pd /\ q1.listeners = n.listeners
        /\ q1.listener_fds = n.listener_fds /\ q1.dialing_fds = n.dialing_fds
        /\ q1.fd_handlers = n.fd_handlers /\ q1.fd_to_conn = n.fd_to_conn
        /\ q1.conn_fds = n.conn_fds /\ q1.connections = n.connections
        /\ q1.watched = n.watched
    <3> HIDE DEF pd
    <3> QED BY <2>2, <2>5 DEF OpenSocket, NodeRec
  <2> HIDE DEF q1
  <2>7. BooksOk(q1) /\ DrivenOk(q1) /\ ConnIds(q1) = ConnIds(n)
    <3>1. /\ n \in NodeRec /\ f \in Fd /\ n.fd_to_conn[f] = 0
          /\ q1.watched \in {n.watched, n.watched \ {f}}
          /\ q1.pending_dials = [n.pending_dials EXCEPT ![f] = d]
      BY <1>3, <1>7, <1>11, <2>6
    <3> HIDE DEF pd
    <3> QED BY <1>10, <2>3, <2>6, <3>1, PendingDriven
  <2> QED BY <1>11, <1>12, <1>13, <2>1, <2>6, <2>7
<1>14. CASE node' = SyncTransportFds(q3)
  <2>1. NodeOk(q3, {}, {})
    BY <1>6, <1>8, SettleKeeps
  <2>2. BooksOk(q3) /\ DrivenOk(q3) /\ q3.connections = n.connections
        /\ q3.fd_to_conn = n.fd_to_conn /\ q3.pending_dials = n.pending_dials
    BY <1>7, <1>10, SettleDriven
  <2> HIDE DEF q3
  <2> QED BY <1>11, <1>12, <1>14, <2>1, <2>2 DEF ConnIds
<1>15. ASSUME NEW fails \in BOOLEAN, node' = SyncTransportFds(OnConnected(a, f, fails))
       PROVE  Driven'
  <2>1. NodeOk(o, {f}, {}) /\ SameDials(o, n) /\ o.pending_dials = n.pending_dials
    BY <1>3, <1>6, <1>8, ConnSocket
  <2>2. o \in NodeRec
    BY <2>1, NodeTyped
  <2>3. SameBooks(o, n) /\ o.connections = n.connections /\ o.watched = n.watched
    BY <1>7 DEF OpenSocket, NodeRec, SameBooks, SameTransport
  <2> HIDE DEF o
  <2>4. BooksOk(o) /\ DrivenOk(o)
    BY <1>10, <2>3, SameDriven
  <2>5. d <= o.dialed /\ o.outcomes[d] = <<>> /\ \A g \in Fd : o.pending_dials[g] # d
    BY <1>6, <1>8, <2>1 DEF SameDials
  <2>6. NodeOk(a, {f}, {})
    BY <1>6, <2>1, <2>5, SettleKeeps
  <2>7. BooksOk(a) /\ DrivenOk(a) /\ a.connections = o.connections
        /\ a.fd_to_conn = o.fd_to_conn /\ a.pending_dials = o.pending_dials
    BY <2>2, <2>4, SettleDriven
  <2> HIDE DEF a
  <2>8. a.fd_to_conn[f] = 0 /\ a.pending_dials[f] = 0
        /\ \A e \in ConnIds(a) : a.connections[e].events = <<>>
    BY <1>11, <2>3, <2>7 DEF SameBooks, SameTransport, ConnIds
  <2> DEFINE q == OnConnected(a, f, fails)
  <2>9. NodeOk(q, {}, {})
    BY <1>3, <2>6, OnConnectedKeeps
  <2>10. /\ BooksOk(q) /\ DrivenOk(q)
         /\ (\A e \in ConnIds(a) : a.connections[e].events = <<>>)
               => \A e \in ConnIds(q) : q.connections[e].events = <<>>
    BY <1>3, <2>6, <2>7, <2>8, OnConnectedDriven
  <2>11. node' = SyncTransportFds(q)
    BY <1>15
  <2> HIDE DEF q
  <2> QED BY <1>12, <2>8, <2>9, <2>10, <2>11
<1> QED BY <1>4, <1>13, <1>14, <1>15

\* sync_transport_fds before epoll_wait, and after the batch.
LEMMA PollBeginDriven == DrivenInv /\ PollBegin => Driven'
<1> SUFFICES ASSUME DrivenInv, PollBegin PROVE Driven'
  OBVIOUS
<1> DEFINE n == SyncTransportFds(node)
           es == [f \in Fd |-> {}]
           q == [n EXCEPT !.edges = es]
<1>1. pc = "idle" /\ pc' = "dispatch" /\ node' = q
  BY DEF PollBegin, Idle
<1>2. NodeOk(node, {}, {}) /\ BooksOk(node) /\ DrivenOk(node)
  BY <1>1, Calm DEF DrivenInv
<1>3. NodeOk(n, {}, {})
  BY <1>2, SyncTransportFdsKeeps
<1>4. BooksOk(n) /\ DrivenOk(n) /\ n.connections = node.connections
  BY <1>2, SyncDriven
<1> HIDE DEF n
<1>5. n \in NodeRec
  BY <1>3, NodeTyped
<1> HIDE DEF es
<1>6. SameBooks(q, n) /\ q.connections = n.connections /\ q.watched = n.watched
  BY <1>5 DEF NodeRec, SameBooks, SameTransport
<1> HIDE DEF q
<1>7. BooksOk(q) /\ DrivenOk(q)
  BY <1>4, <1>6, SameDriven
<1> QED BY <1>1, <1>7, DispatchDriven

LEMMA DispatchConnectionDriven ==
    ASSUME DrivenInv, NEW f \in Fd, DispatchConnection(f)
    PROVE  Driven'
<1>1. pc = "dispatch" /\ pc' = "dispatch" /\ node' \in OnConnectionEvents(node, f, batch[f])
  BY DEF DispatchConnection, MayDispatch
<1>2. NodeOk(node, {}, {}) /\ BooksOk(node) /\ DrivenOk(node)
  BY <1>1, Calm DEF DrivenInv
<1>3. BooksOk(node') /\ DrivenOk(node')
  BY <1>1, <1>2, OnConnectionEventsDriven
<1> QED BY <1>1, <1>3, DispatchDriven

LEMMA DispatchConnectDriven ==
    ASSUME DrivenInv, NEW f \in Fd, DispatchConnect(f)
    PROVE  Driven'
<1>1. pc = "dispatch" /\ pc' = "dispatch"
  BY DEF DispatchConnect, MayDispatch
<1>2. PICK fails \in BOOLEAN :
        LET n == OnConnectReady(node, f, fails) IN
        node' = n \/ node' = OnConnectReady(n, f, fails)
  BY DEF DispatchConnect
<1>3. NodeOk(node, {}, {}) /\ BooksOk(node) /\ DrivenOk(node)
  BY <1>1, Calm DEF DrivenInv
<1> DEFINE n == OnConnectReady(node, f, fails)
<1>4. NodeOk(n, {}, {}) /\ BooksOk(n) /\ DrivenOk(n)
  BY <1>3, OnConnectReadyKeeps, OnConnectReadyDriven
<1>5. node' = n \/ node' = OnConnectReady(n, f, fails)
  BY <1>2
<1> HIDE DEF n
<1>6. BooksOk(OnConnectReady(n, f, fails)) /\ DrivenOk(OnConnectReady(n, f, fails))
  BY <1>4, OnConnectReadyDriven
<1> QED BY <1>1, <1>4, <1>5, <1>6, DispatchDriven

LEMMA DispatchDoneDriven == DrivenInv /\ DispatchDone => Driven'
<1> SUFFICES ASSUME DrivenInv, DispatchDone PROVE Driven'
  OBVIOUS
<1>1. pc = "dispatch" /\ node' = SyncTransportFds(node) /\ todo' = Present(node)
  BY DEF DispatchDone
<1>2. NodeOk(node, {}, {}) /\ BooksOk(node) /\ DrivenOk(node)
  BY <1>1, Calm DEF DrivenInv
<1>3. BooksOk(node') /\ DrivenOk(node') /\ node'.connections = node.connections
  BY <1>1, <1>2, SyncDriven
<1>4. ConnIds(node') = ConnIds(node)
  BY <1>3 DEF ConnIds
<1> QED BY <1>1, <1>2, <1>3, <1>4, DrainDriven

LEMMA CloseConnectionDriven ==
    ASSUME DrivenInv, NEW c \in Present(node), CloseConnection(c)
    PROVE  Driven'
<1>1. pc = "idle" /\ c \in ConnIds(node) /\ node.connections[c].state # "Absent"
      /\ node' = CloseSession(node, c) /\ todo' = Present(node)
  BY DEF CloseConnection, Idle, Present
<1>2. NodeOk(node, {}, {}) /\ node \in NodeRec /\ BooksOk(node) /\ DrivenOk(node)
  BY <1>1, Calm DEF DrivenInv
<1>3. Follows(node, node', c)
  BY <1>1, <1>2, ClosingFollows
<1>4. BooksOk(node') /\ DrivenOk(node')
  BY <1>1, <1>2, <1>3, FollowsDriven
<1>5. ConnIds(node') = ConnIds(node)
      /\ \A e \in ConnIds(node) \ {c} : node'.connections[e] = node.connections[e]
  BY <1>3 DEF Follows
<1>6. \A e \in ConnIds(node) : node.connections[e].state = "Absent" =>
         node'.connections[e] = node.connections[e]
  BY <1>1, <1>5
<1> QED BY <1>1, <1>2, <1>4, <1>5, <1>6, DrainDriven

LEMMA DrainStepDriven ==
    ASSUME DrivenInv, NEW c \in todo, Drain(c)
    PROVE  Driven'
<1>1. pc = "drain" /\ UNCHANGED pc
  BY DEF Drain
<1>2. /\ NodeOk(node, {}, Range(closed)) /\ node \in NodeRec /\ c \in ConnIds(node)
      /\ BooksOk(node) /\ DrivenOk(node)
  <2>1. NodeOk(node, {}, Range(closed)) /\ todo \subseteq ConnIds(node)
    BY DEF DrivenInv, SwarmInv, PhaseOk
  <2> QED BY <2>1, NodeTyped DEF DrivenInv
<1>3. CASE node.connections[c].events = <<>>
  <2>1. node' = node /\ todo' = todo \ {c}
    BY <1>3 DEF Drain
  <2> QED BY <1>1, <1>2, <1>3, <2>1 DEF DrivenInv, Driven, EventsTaken
<1>4. CASE node.connections[c].events # <<>>
  <2>1. node' = DrainEvent(node, c) /\ UNCHANGED todo
    BY <1>4 DEF Drain
  <2>2. Len(node.connections[c].events) > 0
    <3>1. node.connections[c].events \in Seq(Event)
      BY <1>2, SessionTyped DEF SessionRec
    <3> QED BY <1>4, <3>1, EmptySeq
  <2>3. Follows(node, DrainEvent(node, c), c)
    BY <1>2, <2>2, DrainEventFollows
  <2>4. Follows(node, node', c)
    BY <2>1, <2>3
  <2>5. BooksOk(node') /\ DrivenOk(node')
    BY <1>2, <2>4, FollowsDriven
  <2>6. ConnIds(node') = ConnIds(node)
        /\ \A e \in ConnIds(node) \ {c} : node'.connections[e] = node.connections[e]
    BY <2>4 DEF Follows
  <2> QED BY <1>1, <2>1, <2>5, <2>6 DEF DrivenInv, Driven, EventsTaken
<1> QED BY <1>3, <1>4

\* remove_connection, of a connection that was reported closed.
LEMMA RemoveClosedDriven == DrivenInv /\ RemoveClosed => Driven'
<1> SUFFICES ASSUME DrivenInv, RemoveClosed PROVE Driven'
  OBVIOUS
<1>1. pc = "drain" /\ todo = {} /\ UNCHANGED todo
  BY DEF RemoveClosed
<1>2. /\ NodeOk(node, {}, Range(closed)) /\ closed \in Seq(ConnIds(node))
      /\ BooksOk(node) /\ DrivenOk(node)
  BY DEF DrivenInv, SwarmInv, PhaseOk
<1>3. CASE closed = <<>>
  <2>1. UNCHANGED node
    BY <1>3 DEF RemoveClosed
  <2> QED BY <1>1, <1>2, <2>1 DEF DrivenInv, Driven, EventsTaken
<1>4. CASE closed # <<>>
  <2> DEFINE c == Head(closed)
             q == RemoveConnection(node, c)
  <2>1. node' = q /\ UNCHANGED pc
    BY <1>4 DEF RemoveClosed
  <2>2. /\ c = closed[1] /\ 1 \in DOMAIN closed /\ c \in ConnIds(node)
    BY <1>2, <1>4, HeadTailProperties, EmptySeq
  <2>3. c \in Range(closed)
    BY <2>2 DEF Range
  <2> HIDE DEF c
  <2>4. ~node.connections[c].open
    <3>1. Ends(node.story[c], "ConnectionClosed")
      BY <1>2, <2>2, <2>3 DEF NodeOk, StoryOk
    <3>2. Len(node.story[c]) \in DOMAIN node.story[c]
      <4>1. /\ node.story \in Seq(Seq(Report)) /\ Len(node.story) = Len(node.connections)
            /\ node.connections \in Seq(SessionRec)
        BY <1>2, NodeTyped DEF NodeOk, Typed, NodeRec
      <4>2. c \in DOMAIN node.story
        BY <2>2, <4>1 DEF ConnIds
      <4>3. node.story[c] \in Seq(Report)
        BY <4>1, <4>2
      <4> QED BY <3>1, <4>3 DEF Ends
    <3>3. node.connections[c].state \in {"Absent", "Closed"}
      BY <1>2, <2>2, <3>1, <3>2 DEF NodeOk, StoryOk, Ends
    <3> QED BY <1>2, <2>2, <3>3 DEF NodeOk, SocketsOk
  <2>5. /\ BooksOk(q) /\ DrivenOk(q) /\ ConnIds(q) = ConnIds(node)
        /\ \A e \in ConnIds(node) \ {c} : q.connections[e] = node.connections[e]
        /\ q.connections[c] = NoSession
    BY <1>2, <2>2, <2>4, RemoveConnectionDriven
  <2> HIDE DEF q
  <2>6. \A e \in ConnIds(node) : node.connections[e].events = <<>>
    BY <1>1 DEF DrivenInv, EventsTaken
  <2>7. \A e \in ConnIds(q) : q.connections[e].events = <<>>
    BY <2>5, <2>6 DEF NoSession
  <2> QED BY <2>1, <2>5, <2>7 DEF Driven, EventsTaken
<1> QED BY <1>3, <1>4

\* stop() leaves no connection and no book.
LEMMA StopDriven == DrivenInv /\ Stop => Driven'
<1> SUFFICES ASSUME DrivenInv, Stop PROVE Driven'
  OBVIOUS
<1> DEFINE k == Len(node.connections)
           nil == <<>>
           none == {}
           no == FALSE
           hs == [f \in Fd |-> nil]
           zs == [f \in Fd |-> 0]
           gone == [state |-> "Absent", fd |-> 0, open |-> no, peer |-> NoPeer,
                    events |-> nil]
           cs == Blank(k, gone)
           cf == Blank(k, 0)
<1>1. pc = "idle" /\ UNCHANGED pc
  BY DEF Stop, Idle, Call
<1>2. NodeOk(node, {}, {}) /\ node.connections \in Seq(SessionRec)
  <2>1. NodeOk(node, {}, {}) /\ node \in NodeRec
    BY <1>1, Calm DEF DrivenInv
  <2> QED BY <2>1 DEF NodeRec
<1>3. k \in Nat /\ ConnIds(node) = 1 .. k
  BY <1>2 DEF ConnIds
<1>4. NoSession = gone
  BY DEF NoSession
<1>5. /\ gone.state = "Absent" /\ gone.open = no /\ gone.events = nil
  OBVIOUS
<1>6. none = {} /\ ~no /\ nil = <<>>
  OBVIOUS
<1> HIDE DEF nil, none, no, gone
<1>7. /\ \A f \in Fd : hs[f] = nil /\ zs[f] = 0
      /\ DOMAIN cs = 1 .. k /\ \A c \in 1 .. k : cs[c] = gone /\ cf[c] = 0
  BY DEF Blank
<1>8. /\ node'.listeners = none /\ node'.listener_fds = none /\ node'.dialing_fds = none
      /\ node'.fd_handlers = hs /\ node'.fd_to_conn = zs
      /\ node'.connections = cs /\ node'.conn_fds = cf
  BY <1>3, <1>4 DEF Stop, Call, Start, Blank, nil, none
<1> HIDE DEF hs, zs, cs, cf
<1>9. ConnIds(node') = 1 .. k
  BY <1>7, <1>8 DEF ConnIds
<1>10. BooksOk(node')
  BY <1>6, <1>7, <1>8, <1>9 DEF BooksOk, HandlersOf
<1>11. DrivenOk(node')
  BY <1>5, <1>6, <1>7, <1>8, <1>9 DEF DrivenOk
<1> QED BY <1>1, <1>5, <1>6, <1>7, <1>8, <1>9, <1>10, <1>11, IdleDriven

LEMMA InitDriven == Init => Driven
<1> SUFFICES ASSUME Init PROVE Driven
  OBVIOUS
<1> DEFINE nil == <<>>
           none == {}
           hs == [f \in Fd |-> nil]
           zs == [f \in Fd |-> 0]
<1>1. none = {} /\ nil = <<>> /\ DOMAIN nil = {}
  OBVIOUS
<1> HIDE DEF nil, none
<1>2. \A f \in Fd : hs[f] = nil /\ zs[f] = 0
  OBVIOUS
<1>3. /\ node.listeners = none /\ node.listener_fds = none /\ node.dialing_fds = none
      /\ node.fd_handlers = hs /\ node.fd_to_conn = zs /\ node.connections = nil
  BY DEF Init, Start, nil, none
<1> HIDE DEF hs, zs
<1>4. ConnIds(node) = {}
  BY <1>1, <1>3 DEF ConnIds
<1> QED BY <1>1, <1>2, <1>3, <1>4 DEF Driven, BooksOk, HandlersOf, DrivenOk, EventsTaken

LEMMA NextDriven ==
    ASSUME MaxListeners = 0, ResetStreams = FALSE, DrivenInv, [Next]_vars
    PROVE  Driven'
<1>1. CASE PollOnce
  <2>1. CASE PollBegin
    BY <2>1, PollBeginDriven
  <2>2. ASSUME NEW f \in Fd, DispatchAccept(f) PROVE FALSE
    <3>1. node.fd_handlers[f] = HandlersOf(node, f)
      BY DEF DrivenInv, BooksOk
    <3>2. HandlerOf(node, f) = "accept"
      BY <2>2 DEF DispatchAccept
    <3> QED BY <3>1, <3>2 DEF HandlerOf, HandlersOf
  <2>3. CASE \E f \in Fd : DispatchConnection(f) \/ DispatchConnect(f) \/ DispatchAccept(f)
    BY <2>2, <2>3, DispatchConnectionDriven, DispatchConnectDriven
  <2>4. CASE DispatchDone
    BY <2>4, DispatchDoneDriven
  <2>5. CASE \E c \in todo : Drain(c)
    BY <2>5, DrainStepDriven
  <2>6. CASE RemoveClosed
    BY <2>6, RemoveClosedDriven
  <2> QED BY <1>1, <2>1, <2>3, <2>4, <2>5, <2>6 DEF PollOnce
<1>2. CASE Owner
  <2>1. ~ListenOn
    <3>1. node.listeners = {} /\ Cardinality({}) = 0
      BY FS_EmptySet DEF DrivenInv, BooksOk
    <3> QED BY <3>1 DEF ListenOn
  <2>2. \A c \in Present(node) : ~StreamReset(c)
    BY DEF StreamReset
  <2> QED BY <1>2, <2>1, <2>2, DialAddrDriven, StopDriven, CloseConnectionDriven DEF Owner
<1>3. CASE Kernel
  BY <1>3, KernelDriven
<1>4. CASE UNCHANGED vars
  BY <1>4 DEF vars, DrivenInv, Driven, EventsTaken
<1> QED BY <1>1, <1>2, <1>3, <1>4 DEF Next

\* "poll_once(): drives the state machines of all connections" (doc/swarm.md:62),
\* of a Swarm that only dials and whose application resets no direct stream:
\* between polls the loop watches every open socket of a session, the first
\* handler in its list is the connection's, and fd_to_conn_ leads to it.
THEOREM DialerDrivesConnections ==
    ASSUME MaxListeners = 0, ResetStreams = FALSE
    PROVE  Spec => []ConnectionsDriven
<1>1. Init => DrivenInv
  BY InitInv, InitDriven DEF DrivenInv, Driven
<1>2. DrivenInv /\ [Next]_vars => DrivenInv'
  <2> SUFFICES ASSUME DrivenInv, [Next]_vars PROVE DrivenInv'
    OBVIOUS
  <2>1. SwarmInv'
    BY NextInv DEF DrivenInv
  <2>2. Driven'
    BY NextDriven
  <2> QED BY <2>1, <2>2 DEF DrivenInv, Driven, EventsTaken
<1>3. DrivenInv => ConnectionsDriven
  <2> SUFFICES ASSUME DrivenInv, Idle, NEW c \in Present(node), node.connections[c].open
               PROVE  LET f == node.connections[c].fd
                      IN f \in node.watched /\ HandlerOf(node, f) = "conn"
                         /\ node.fd_to_conn[f] = c
    BY DEF ConnectionsDriven
  <2> DEFINE f == node.connections[c].fd
  <2>1. NodeOk(node, {}, {}) /\ c \in ConnIds(node)
    BY Calm DEF DrivenInv, Idle, Present
  <2>2. f \in Fd /\ f # 0
    BY <2>1 DEF NodeOk, SocketsOk, Fd
  <2>3. node.conn_fds[c] = f /\ f \in node.watched
    BY <2>1 DEF DrivenInv, DrivenOk
  <2>4. c # 0
    BY <2>1, ConnFds
  <2> HIDE DEF f
  <2>5. node.fd_to_conn[f] = c
    BY <2>1, <2>2, <2>3 DEF DrivenInv, BooksOk
  <2>6. node.fd_handlers[f] = <<"conn">>
    BY <2>2, <2>4, <2>5 DEF DrivenInv, BooksOk, HandlersOf
  <2> QED BY <2>3, <2>5, <2>6 DEF HandlerOf, f
<1> QED BY <1>1, <1>2, <1>3, PTL DEF Spec
=============================================================================
