--------------------------- MODULE YamuxIdProofs ---------------------------
(* Proofs about Yamux, for every window size, id range and bound: the types *)
(* of its variables, and its stream ids from the invariant of YamuxIds.     *)
EXTENDS YamuxIds, TLAPS

----------------------------------------------------------------------------
(* Types.                                                                  *)

\* The peer is the other side.
LEMMA PeerType == \A p \in Side : Peer(p) \in Side /\ Peer(p) # p /\ Peer(Peer(p)) = p
  BY DEF Side, Peer

\* What the code writes are frames.
LEMMA FrameTypes ==
    /\ \A s \in Sid, fl \in SUBSET Flag, off \in Nat, len \in Nat :
          DataFrame(s, fl, off, len) \in Frame
    /\ \A s \in Sid, off \in Nat, len \in Nat : WindowUpdateFrame(s, off, len) \in Frame
    /\ \A fl \in SUBSET Flag, n \in Nat : PingFrame(fl, n) \in Frame
    /\ \A n \in Nat : GoAwayFrame(n) \in Frame
  BY BoundsAssumption DEF DataFrame, WindowUpdateFrame, PingFrame, GoAwayFrame, Frame, Sid

\* A payload is a sequence of byte positions.
LEMMA PayloadType == \A f \in Frame : Payload(f) \in Seq(Nat)
  BY DEF Payload, Frame

\* The first frame of a non-empty wire is a frame, and the rest are frames.
LEMMA IncomingType ==
    ASSUME TypeOK, NEW p \in Side, wire[Peer(p)] # <<>>
    PROVE  Incoming(p) \in Frame /\ Tail(wire[Peer(p)]) \in Seq(Frame)
  BY PeerType DEF TypeOK, Incoming

\* Every initial state is well typed.
LEMMA TypeInit == Init => TypeOK
  BY WindowAssumption, MaxU32Assumption DEF Init, TypeOK, Side

\* Application calls keep the types.
LEMMA TypeApplication ==
    ASSUME TypeOK, NEW p \in Side, Application(p)
    PROVE  TypeOK'
  <1>1. CASE OpenStream(p)
    BY SMTT(30), <1>1, FrameTypes, WindowAssumption, MaxU32Assumption
    DEF OpenStream, TypeOK, Send, Flag, history, IdAfter
  <1>2. ASSUME NEW s \in Sid, NEW n \in 1 .. MaxIo, TryWrite(p, s, n)
        PROVE  TypeOK'
    <2> DEFINE k == Lesser(n, sendWindow[p][s])
    <2>1. sendWindow[p][s] \in 0 .. MaxU32 /\ written[p][s] \in Nat
      BY DEF TypeOK
    <2>2. k \in Nat /\ sendWindow[p][s] - k \in 0 .. MaxU32
      BY <2>1, MaxU32Assumption, BoundsAssumption DEF Lesser
    <2>3. DataFrame(s, {}, written[p][s], k) \in Frame
      BY <2>1, <2>2, FrameTypes
    <2> HIDE DEF k
    <2>4. wire' \in [Side -> Seq(Frame)]
      BY <1>2, <2>3 DEF TryWrite, TypeOK, Send, k
    <2>5. sendWindow' \in [Side -> [Sid -> 0 .. MaxU32]]
      BY <1>2, <2>2 DEF TryWrite, TypeOK, k
    <2>6. written' \in [Side -> [Sid -> Nat]]
      BY <1>2, <2>1, <2>2 DEF TryWrite, TypeOK, k
    <2> QED BY <1>2, <2>4, <2>5, <2>6 DEF TryWrite, TypeOK
  <1>3. ASSUME NEW s \in Sid, NEW n \in 1 .. MaxIo, TryRead(p, s, n)
        PROVE  TypeOK'
    <2> DEFINE k == Lesser(n, Len(recvBuf[p][s]))
    <2>1. recvBuf[p][s] \in Seq(Nat) /\ taken[p][s] \in Nat
      BY DEF TypeOK
    <2>2. k \in 1 .. Len(recvBuf[p][s])
      BY <1>3, <2>1, BoundsAssumption DEF Lesser, TryRead
    <2>3. /\ WindowUpdateFrame(s, taken[p][s], k) \in Frame
          /\ SubSeq(recvBuf[p][s], k + 1, Len(recvBuf[p][s])) \in Seq(Nat)
      <3>1. k \in Nat
        BY <2>1, <2>2
      <3>2. WindowUpdateFrame(s, taken[p][s], k) \in Frame
        BY <2>1, <3>1, FrameTypes
      <3> HIDE DEF k
      <3>3. \A b \in Seq(Nat) : \A i \in 1 .. Len(b) :
               SubSeq(b, i + 1, Len(b)) \in Seq(Nat)
        OBVIOUS
      <3> QED BY <2>1, <2>2, <3>2, <3>3
    <2> HIDE DEF k
    <2>4. wire' \in [Side -> Seq(Frame)]
      BY <1>3, <2>3 DEF TryRead, TypeOK, Send, k
    <2>5. recvBuf' \in [Side -> [Sid -> Seq(Nat)]]
      BY <1>3, <2>3 DEF TryRead, TypeOK, k
    <2>6. taken' \in [Side -> [Sid -> Nat]]
      BY SMTT(30), <1>3, <2>1, <2>2 DEF TryRead, TypeOK, k
    <2> QED BY <1>3, <2>4, <2>5, <2>6 DEF TryRead, TypeOK
  <1>4. ASSUME NEW s \in Sid, CloseWrite(p, s)
        PROVE  TypeOK'
    BY <1>4, FrameTypes DEF CloseWrite, TypeOK, Send, Flag, history
  <1>5. ASSUME NEW s \in Sid, Reset(p, s)
        PROVE  TypeOK'
    BY <1>5, FrameTypes DEF Reset, TypeOK, Send, Flag, history
  <1> QED BY <1>1, <1>2, <1>3, <1>4, <1>5 DEF Application

\* handle_frame keeps the types.
LEMMA TypeReceive ==
    ASSUME TypeOK, NEW p \in Side, Receive(p)
    PROVE  TypeOK'
  <1> DEFINE f == Incoming(p)
             s == f.sid
  <1>1. f \in Frame /\ Tail(wire[Peer(p)]) \in Seq(Frame) /\ wire[p] \in Seq(Frame)
    BY IncomingType DEF Receive, TypeOK
  <1>2. Take(p) => wire' \in [Side -> Seq(Frame)]
    BY <1>1, PeerType DEF Take, TypeOK
  <1>3. ASSUME NEW g \in Frame, TakeAndSend(p, g)
        PROVE  wire' \in [Side -> Seq(Frame)]
    <2>1. Append(wire[p], g) \in Seq(Frame)
      BY <1>1
    <2>2. wire' = [[wire EXCEPT ![Peer(p)] = Tail(wire[Peer(p)])]
                       EXCEPT ![p] = Append(wire[p], g)]
      BY <1>3, PeerType DEF TakeAndSend, TypeOK
    <2> QED BY <1>1, <2>1, <2>2, PeerType DEF TypeOK
  <1>4. CASE RecvPing(p)
    <2>1. PingFrame({"ACK"}, f.len) \in Frame
      BY <1>1, FrameTypes DEF Frame, Flag
    <2> QED BY <1>2, <1>3, <1>4, <2>1 DEF RecvPing, TypeOK, streamVars, history
  <1>5. CASE RecvGoAway(p)
    BY <1>2, <1>5 DEF RecvGoAway, TypeOK, streamVars, history
  <1>6. CASE RecvBadSyn(p)
    <2>1. GoAwayFrame(ProtocolError) \in Frame
      BY FrameTypes DEF ProtocolError
    <2> QED BY <1>3, <1>6, <2>1 DEF RecvBadSyn, TypeOK, streamVars, history
  <1>7. CASE RecvUnknown(p)
    BY <1>2, <1>7 DEF RecvUnknown, TypeOK, streamVars, history
  <1>8. CASE RecvStream(p)
    <2>1. s \in Sid /\ f.len \in Nat
      BY <1>1, <1>8, BoundsAssumption DEF RecvStream, IsStreamFrame, Frame, Sid
    <2>2. DataFrame(s, {"ACK"}, 0, 0) \in Frame
      BY <2>1, FrameTypes DEF Flag
    <2>3. wire' \in [Side -> Seq(Frame)]
      BY <1>2, <1>3, <1>8, <2>2 DEF RecvStream
    <2>4. BufferAfter(p, f) \in Seq(Nat) /\ <<>> \in Seq(Nat)
      <3>1. recvBuf[p][s] \in Seq(Nat) /\ Payload(f) \in Seq(Nat)
        BY <1>1, <2>1, PayloadType DEF TypeOK
      <3> QED BY <3>1 DEF BufferAfter
    <2>5. WindowAfter(p, f) \in 0 .. MaxU32
      <3>1. sendWindow[p][s] \in 0 .. MaxU32 /\ Window \in 0 .. MaxU32
        BY <2>1, WindowAssumption, MaxU32Assumption DEF TypeOK
      <3>2. \A w \in 0 .. MaxU32 : Lesser(w + f.len, MaxU32) \in 0 .. MaxU32
        BY <2>1, MaxU32Assumption DEF Lesser
      <3> QED BY <3>1, <3>2 DEF WindowAfter
    <2>6. CloseCalls(p, f) \in Seq(Sid)
      <3>1. <<s>> \in Seq(Sid) /\ <<>> \in Seq(Sid)
        BY <2>1
      <3>2. \A a, b \in Seq(Sid) : a \o b \in Seq(Sid)
        OBVIOUS
      <3> HIDE DEF s
      <3> QED BY <3>1, <3>2, Zenon DEF CloseCalls, s
    <2>7. accepted' \in [Side -> Seq(Sid)]
      BY <1>8, <2>1 DEF RecvStream, TypeOK
    <2>8. closeCb' \in [Side -> Seq(Sid)]
      BY <1>8, <2>6 DEF RecvStream, TypeOK
    <2>9. sendWindow' \in [Side -> [Sid -> 0 .. MaxU32]]
      BY <1>8, <2>1, <2>5 DEF RecvStream, TypeOK
    <2>10. recvBuf' \in [Side -> [Sid -> Seq(Nat)]]
      BY <1>8, <2>1, <2>4 DEF RecvStream, TypeOK
    <2>11. /\ handles' \in [Side -> SUBSET Sid]
           /\ streams' \in [Side -> SUBSET Sid]
           /\ readClosed' \in [Side -> SUBSET Sid]
           /\ writeClosed' \in [Side -> SUBSET Sid]
           /\ reset' \in [Side -> SUBSET Sid]
      BY SMTT(30), SMTT(30), <1>8, <2>1 DEF RecvStream, TypeOK
    <2> QED BY <1>8, <2>3, <2>7, <2>8, <2>9, <2>10, <2>11 DEF RecvStream, TypeOK
  <1> QED BY <1>4, <1>5, <1>6, <1>7, <1>8 DEF Receive

\* Frames of another implementation keep the types.
LEMMA TypeForeign ==
    ASSUME TypeOK, NEW p \in Side, ForeignSend(p)
    PROVE  TypeOK'
  <1>1. ForeignFrames(p) \subseteq Frame
    BY FrameTypes DEF ForeignFrames, Flag
  <1> QED BY <1>1 DEF ForeignSend, TypeOK, Send, streamVars, history

\* A step of the two sessions, or a stuttering step, keeps the types.
LEMMA TypeNext == TypeOK /\ [Next]_vars => TypeOK'
  <1> SUFFICES ASSUME TypeOK, [Next]_vars PROVE TypeOK'
    OBVIOUS
  <1>1. CASE UNCHANGED vars
    BY <1>1 DEF TypeOK, vars
  <1>2. CASE Next
    BY <1>2, TypeApplication, TypeReceive, TypeForeign DEF Next
  <1> QED BY <1>1, <1>2

\* Every variable always has its type: in particular a send window never
\* leaves 0 .. UINT32_MAX, whatever is written, read or credited
\* (write_stream_data, handle_frame).
THEOREM TypeCorrect == Spec => []TypeOK
  BY TypeInit, TypeNext, PTL DEF Spec

----------------------------------------------------------------------------
(* Stream ids.                                                             *)

\* The two sides allocate ids of different parity.
LEMMA Parity ==
    ASSUME NEW p \in Side, NEW s \in Nat
    PROVE  /\ LocalStreamId(p, s) <=> ~LocalStreamId(Peer(p), s)
           /\ IsRemoteStreamId(p, s) <=> s # 0 /\ LocalStreamId(Peer(p), s)
           /\ LocalStreamId(p, s) => LocalStreamId(p, s + 2)
  <1>1. s % 2 = 0 \/ s % 2 = 1
    OBVIOUS
  <1>2. (s + 2) % 2 = s % 2
    OBVIOUS
  <1> QED BY <1>1, <1>2 DEF Side, Peer, LocalStreamId, IsRemoteStreamId

\* The first frame leaves the wire; if it was a SYN, the peer may now have
\* its stream.
LEMMA WireTail ==
    ASSUME NEW p \in Side, NEW w \in Seq(Frame), w # <<>>, NEW n \in Nat, NEW H, NEW own,
           WireOk(p, w, n, H, own)
    PROVE  /\ WireOk(p, Tail(w), n, H, own)
           /\ IsSyn(p, Head(w)) => WireOk(p, Tail(w), n, H \cup {Head(w).sid}, own)
  <1>1. /\ Tail(w) \in Seq(Frame) /\ Len(w) >= 1
        /\ DOMAIN Tail(w) = 1 .. (Len(w) - 1) /\ DOMAIN w = 1 .. Len(w)
        /\ Head(w) = w[1] /\ 1 \in DOMAIN w
    OBVIOUS
  <1>2. \A i \in DOMAIN Tail(w) : i + 1 \in DOMAIN w /\ i + 1 # 1 /\ Tail(w)[i] = w[i + 1]
    BY <1>1
  <1>3. \A i, j \in DOMAIN Tail(w) : i + 1 = j + 1 => i = j
    BY <1>1
  <1> QED BY <1>1, <1>2, <1>3 DEF WireOk

\* A frame that is no SYN joins the wire.
LEMMA WireAppend ==
    ASSUME NEW p \in Side, NEW w \in Seq(Frame), NEW g \in Frame, NEW n \in Nat,
           NEW H, NEW own, WireOk(p, w, n, H, own),
           "SYN" \notin g.flags, own => g.type # "GoAway"
    PROVE  WireOk(p, Append(w, g), n, H, own)
  <1>1. /\ DOMAIN Append(w, g) = DOMAIN w \cup {Len(w) + 1}
        /\ \A i \in DOMAIN w : Append(w, g)[i] = w[i]
        /\ Append(w, g)[Len(w) + 1] = g
    OBVIOUS
  <1> QED BY <1>1 DEF WireOk, IsSyn

\* The SYN of a new stream joins the wire.
LEMMA WireSyn ==
    ASSUME NEW p \in Side, NEW w \in Seq(Frame), NEW n \in Nat, NEW g \in Frame,
           NEW H, NEW own, WireOk(p, w, n, H, own), n \notin H,
           g.sid = n, g.type = "Data", LocalStreamId(p, n)
    PROVE  WireOk(p, Append(w, g), n + 2, H, own)
  <1>1. /\ DOMAIN Append(w, g) = DOMAIN w \cup {Len(w) + 1}
        /\ \A i \in DOMAIN w : Append(w, g)[i] = w[i]
        /\ Append(w, g)[Len(w) + 1] = g
    OBVIOUS
  <1>2. \A i \in DOMAIN w : w[i].sid \in Nat
    <2>1. \A h \in Frame : h.sid \in Nat
      BY BoundsAssumption DEF Frame
    <2>2. \A i \in DOMAIN w : w[i] \in Frame
      OBVIOUS
    <2> QED BY <2>1, <2>2
  <1>3. \A i \in DOMAIN w : IsSyn(p, w[i]) =>
            w[i].sid < n /\ w[i].sid < n + 2 /\ w[i].sid # n
    BY <1>2 DEF WireOk
  <1>4. n < n + 2
    OBVIOUS
  <1> QED BY <1>1, <1>3, <1>4 DEF WireOk, IsSyn

\* A foreign frame joins the wire: it is no SYN with an id of its sender.
LEMMA WireForeign ==
    ASSUME NEW p \in Side, NEW w \in Seq(Frame), NEW g \in Frame, NEW n \in Nat,
           NEW H, NEW own, WireOk(p, w, n, H, own), ~IsSyn(p, g)
    PROVE  WireOk(p, Append(w, g), n, H, FALSE)
  <1>1. /\ DOMAIN Append(w, g) = DOMAIN w \cup {Len(w) + 1}
        /\ \A i \in DOMAIN w : Append(w, g)[i] = w[i]
        /\ Append(w, g)[Len(w) + 1] = g
    OBVIOUS
  <1> QED BY <1>1 DEF WireOk

\* The fields of the frames the code writes.
LEMMA FrameFields ==
    ASSUME NEW s, NEW fl, NEW off, NEW len
    PROVE  /\ DataFrame(s, fl, off, len).flags = fl
           /\ DataFrame(s, fl, off, len).type = "Data"
           /\ DataFrame(s, fl, off, len).sid = s
           /\ "SYN" \notin WindowUpdateFrame(s, off, len).flags
           /\ WindowUpdateFrame(s, off, len).type = "WindowUpdate"
           /\ PingFrame(fl, len).flags = fl
           /\ PingFrame(fl, len).type = "Ping"
           /\ "SYN" \notin GoAwayFrame(len).flags
  BY DEF DataFrame, WindowUpdateFrame, PingFrame, GoAwayFrame

\* The invariant holds at the start.
LEMMA IdInit == Init => IdInv
  <1> SUFFICES ASSUME Init PROVE IdInv
    OBVIOUS
  <1>1. LocalStreamId("client", 1) /\ LocalStreamId("server", 2)
    BY DEF LocalStreamId
  <1>2. NextIdsLocal
    BY <1>1 DEF Init, NextIdsLocal, Side
  <1>3. StreamsHandled /\ HandlesAllocated /\ AcceptedOnce /\ NoGoAway
    BY PeerType DEF Init, StreamsHandled, HandlesAllocated, AcceptedOnce, NoGoAway
  <1>4. WiresOk
    BY PeerType DEF Init, WiresOk, WireOk
  <1> QED BY <1>2, <1>3, <1>4 DEF IdInv

\* A step that only appends to p's wire a frame that is no SYN and no go-away.
LEMMA IdSend ==
    ASSUME TypeOK, IdInv, NEW p \in Side, NEW g \in Frame, Send(p, g),
           "SYN" \notin g.flags, g.type # "GoAway",
           \A q \in Side : streams'[q] \subseteq streams[q],
           UNCHANGED <<nextStreamId, handles, accepted, remoteGoAway, foreign>>
    PROVE  IdInv'
  <1>1. WiresOk'
    <2> SUFFICES ASSUME NEW q \in Side
                 PROVE  WireOk(q, wire'[q], nextStreamId[q], handles[Peer(q)], foreign = 0)
      BY DEF WiresOk
    <2>1. WireOk(q, wire[q], nextStreamId[q], handles[Peer(q)], foreign = 0)
      BY DEF IdInv, WiresOk
    <2>2. wire[q] \in Seq(Frame) /\ nextStreamId[q] \in Nat
      BY DEF TypeOK
    <2>3. wire'[q] = IF q = p THEN Append(wire[q], g) ELSE wire[q]
      BY DEF Send, TypeOK
    <2> QED BY <2>1, <2>2, <2>3, WireAppend
  <1>2. StreamsHandled'
    BY DEF IdInv, StreamsHandled
  <1>3. NextIdsLocal' /\ HandlesAllocated' /\ AcceptedOnce' /\ NoGoAway'
    BY DEF IdInv, NextIdsLocal, HandlesAllocated, AcceptedOnce, NoGoAway
  <1> QED BY <1>1, <1>2, <1>3 DEF IdInv

\* open_stream allocates an id that nobody has had.
LEMMA IdOpenStream ==
    ASSUME TypeOK, IdInv, NEW p \in Side, OpenStream(p)
    PROVE  IdInv'
  <1> DEFINE s == nextStreamId[p]
             g == DataFrame(s, {"SYN"}, 0, 0)
  <1>1. /\ s \in Sid /\ s \in Nat /\ LocalStreamId(p, s)
        /\ LocalStreamId(p, s + 2) /\ ~LocalStreamId(Peer(p), s)
    BY Parity DEF OpenStream, TypeOK, IdInv, NextIdsLocal
  <1>2. g \in Frame /\ g.sid = s /\ g.type = "Data"
    BY <1>1, FrameTypes, FrameFields DEF Flag
  <1>3. s \notin handles[Peer(p)]
    BY <1>1, PeerType DEF IdInv, HandlesAllocated
  <1>4. \A q \in Side : nextStreamId'[q] = IF q = p THEN s + 2 ELSE nextStreamId[q]
    BY DEF OpenStream, TypeOK, IdAfter
  <1>5. \A q \in Side : /\ handles'[q] = IF q = p THEN handles[q] \cup {s} ELSE handles[q]
                        /\ streams'[q] = IF q = p THEN streams[q] \cup {s} ELSE streams[q]
    BY DEF OpenStream, TypeOK
  <1>6. accepted' = accepted /\ remoteGoAway' = remoteGoAway /\ foreign' = foreign
    BY DEF OpenStream, history
  <1> HIDE DEF g
  <1>7. \A q \in Side : wire'[q] = IF q = p THEN Append(wire[q], g) ELSE wire[q]
    BY DEF OpenStream, Send, TypeOK, g
  <1> HIDE DEF s
  <1>8. NextIdsLocal'
    BY <1>1, <1>4 DEF IdInv, NextIdsLocal
  <1>9. StreamsHandled'
    BY <1>5 DEF IdInv, StreamsHandled
  <1>10. HandlesAllocated'
    <2> SUFFICES ASSUME NEW q \in Side, NEW t \in handles'[q]
                 PROVE  /\ LocalStreamId(q, t) => t < nextStreamId'[q]
                        /\ ~LocalStreamId(q, t) => t < nextStreamId'[Peer(q)]
      BY DEF HandlesAllocated
    <2>1. nextStreamId[p] = s /\ s < s + 2
      BY <1>1 DEF s
    <2>2. \A r \in Side, u \in Nat : u < nextStreamId[r] => u < nextStreamId'[r]
      <3> SUFFICES ASSUME NEW r \in Side, NEW u \in Nat, u < nextStreamId[r]
                   PROVE  u < nextStreamId'[r]
        OBVIOUS
      <3>1. CASE r = p
        BY <1>1, <1>4, <2>1, <3>1
      <3>2. CASE r # p
        BY <1>4, <3>2
      <3> QED BY <3>1, <3>2
    <2>3. CASE t \in handles[q]
      <3>1. t \in Nat
        BY <2>3, BoundsAssumption DEF TypeOK, Sid
      <3> QED BY <2>2, <2>3, <3>1, PeerType DEF IdInv, HandlesAllocated
    <2>4. CASE t \notin handles[q]
      <3>1. q = p /\ t = s
        BY <1>5, <2>4
      <3> QED BY <3>1, <1>1, <1>4, <2>1
    <2> QED BY <2>3, <2>4
  <1>11. WiresOk'
    <2> SUFFICES ASSUME NEW q \in Side
                 PROVE  WireOk(q, wire'[q], nextStreamId'[q], handles'[Peer(q)], foreign = 0)
      BY <1>6 DEF WiresOk
    <2>1. /\ WireOk(q, wire[q], nextStreamId[q], handles[Peer(q)], foreign = 0)
          /\ wire[q] \in Seq(Frame) /\ nextStreamId[q] \in Nat
      BY DEF IdInv, WiresOk, TypeOK
    <2>2. CASE q = p
      <3>1. WireOk(p, Append(wire[p], g), s + 2, handles[Peer(p)], foreign = 0)
        BY <1>1, <1>2, <1>3, <2>1, <2>2, WireSyn DEF s
      <3>2. handles'[Peer(p)] = handles[Peer(p)]
        BY <1>5, PeerType
      <3> QED BY <1>4, <1>7, <2>2, <3>1, <3>2
    <2>3. CASE q # p
      <3>1. Peer(q) = p /\ wire'[q] = wire[q] /\ nextStreamId'[q] = nextStreamId[q]
        BY <1>4, <1>7, <2>3 DEF Side, Peer
      <3>2. handles'[Peer(q)] = handles[Peer(q)] \cup {s}
        BY <1>5, <3>1
      <3>3. ~LocalStreamId(q, s)
        BY <1>1, <3>1, PeerType, Parity
      <3> QED BY <2>1, <3>1, <3>2, <3>3 DEF WireOk, IsSyn
    <2> QED BY <2>2, <2>3
  <1>12. AcceptedOnce'
    BY <1>5, <1>6 DEF IdInv, AcceptedOnce
  <1>13. NoGoAway'
    BY <1>6 DEF IdInv, NoGoAway
  <1> QED BY <1>8, <1>9, <1>10, <1>11, <1>12, <1>13 DEF IdInv

\* Calls of the application preserve the invariant.
LEMMA IdApplication ==
    ASSUME TypeOK, IdInv, NEW p \in Side, Application(p)
    PROVE  IdInv'
  <1>1. CASE OpenStream(p)
    BY <1>1, IdOpenStream
  <1>2. ASSUME NEW s \in Sid, NEW n \in 1 .. MaxIo, TryWrite(p, s, n)
        PROVE  IdInv'
    <2> DEFINE k == Lesser(n, sendWindow[p][s])
               g == DataFrame(s, {}, written[p][s], k)
    <2>1. k \in Nat /\ written[p][s] \in Nat
      BY MaxU32Assumption, BoundsAssumption DEF TypeOK, Lesser
    <2>2. g \in Frame /\ "SYN" \notin g.flags /\ g.type # "GoAway"
      BY <2>1, FrameTypes, FrameFields
    <2> HIDE DEF g
    <2>3. Send(p, g) /\ UNCHANGED <<nextStreamId, streams, handles, accepted,
                                    remoteGoAway, foreign>>
      BY <1>2 DEF TryWrite, g
    <2> QED BY <2>2, <2>3, IdSend
  <1>3. ASSUME NEW s \in Sid, NEW n \in 1 .. MaxIo, TryRead(p, s, n)
        PROVE  IdInv'
    <2> DEFINE k == Lesser(n, Len(recvBuf[p][s]))
               g == WindowUpdateFrame(s, taken[p][s], k)
    <2>1. k \in Nat /\ taken[p][s] \in Nat
      BY BoundsAssumption DEF TypeOK, Lesser
    <2>2. g \in Frame /\ "SYN" \notin g.flags /\ g.type # "GoAway"
      BY <2>1, FrameTypes, FrameFields
    <2> HIDE DEF g
    <2>3. Send(p, g) /\ UNCHANGED <<nextStreamId, streams, handles, accepted,
                                    remoteGoAway, foreign>>
      BY <1>3 DEF TryRead, g
    <2> QED BY <2>2, <2>3, IdSend
  <1>4. ASSUME NEW s \in Sid, CloseWrite(p, s)
        PROVE  IdInv'
    <2> DEFINE g == DataFrame(s, {"FIN"}, written[p][s], 0)
    <2>1. written[p][s] \in Nat
      BY DEF TypeOK
    <2>2. g \in Frame /\ "SYN" \notin g.flags /\ g.type # "GoAway"
      BY <2>1, FrameTypes, FrameFields DEF Flag
    <2> HIDE DEF g
    <2>3. Send(p, g) /\ UNCHANGED <<nextStreamId, streams, handles, accepted,
                                    remoteGoAway, foreign>>
      BY <1>4 DEF CloseWrite, history, g
    <2> QED BY <2>2, <2>3, IdSend
  <1>5. ASSUME NEW s \in Sid, Reset(p, s)
        PROVE  IdInv'
    <2> DEFINE g == DataFrame(s, {"RST"}, written[p][s], 0)
    <2>1. written[p][s] \in Nat
      BY DEF TypeOK
    <2>2. g \in Frame /\ "SYN" \notin g.flags /\ g.type # "GoAway"
      BY <2>1, FrameTypes, FrameFields DEF Flag
    <2> HIDE DEF g
    <2>3. Send(p, g) /\ UNCHANGED <<nextStreamId, handles, accepted,
                                    remoteGoAway, foreign>>
      BY <1>5 DEF Reset, history, g
    <2>4. \A q \in Side : streams'[q] \subseteq streams[q]
      BY <1>5 DEF Reset, TypeOK
    <2> QED BY <2>2, <2>3, <2>4, IdSend
  <1> QED BY <1>1, <1>2, <1>3, <1>4, <1>5 DEF Application

\* Taking a frame off the wire, with or without an answer.
LEMMA WireAfterTake ==
    ASSUME TypeOK, NEW p \in Side, wire[Peer(p)] # <<>>
    PROVE  /\ Take(p) => /\ wire'[p] = wire[p]
                         /\ wire'[Peer(p)] = Tail(wire[Peer(p)])
           /\ \A g : TakeAndSend(p, g) => /\ wire'[p] = Append(wire[p], g)
                                          /\ wire'[Peer(p)] = Tail(wire[Peer(p)])
  BY PeerType DEF Take, TakeAndSend, TypeOK

\* The wires after p handles a frame without creating a stream.
LEMMA IdTaken ==
    ASSUME TypeOK, IdInv, NEW p \in Side, wire[Peer(p)] # <<>>,
           \/ Take(p)
           \/ \E g \in Frame : /\ TakeAndSend(p, g)
                               /\ "SYN" \notin g.flags
                               /\ foreign = 0 => g.type # "GoAway",
           UNCHANGED <<nextStreamId, handles, foreign>>
    PROVE  WiresOk'
  <1>1. /\ WireOk(p, wire[p], nextStreamId[p], handles[Peer(p)], foreign = 0)
        /\ WireOk(Peer(p), wire[Peer(p)], nextStreamId[Peer(p)], handles[p], foreign = 0)
    BY PeerType DEF IdInv, WiresOk
  <1>2. /\ wire[p] \in Seq(Frame) /\ nextStreamId[p] \in Nat
        /\ wire[Peer(p)] \in Seq(Frame) /\ nextStreamId[Peer(p)] \in Nat
        /\ Peer(p) \in Side
    BY PeerType DEF TypeOK
  <1>3. WireOk(Peer(p), Tail(wire[Peer(p)]), nextStreamId[Peer(p)], handles[p], foreign = 0)
    BY <1>1, <1>2, WireTail
  <1>4. WireOk(p, wire'[p], nextStreamId[p], handles[Peer(p)], foreign = 0)
    <2>1. CASE Take(p)
      BY <1>1, <2>1, WireAfterTake
    <2>2. ASSUME NEW g \in Frame, TakeAndSend(p, g), "SYN" \notin g.flags,
                 foreign = 0 => g.type # "GoAway"
          PROVE  WireOk(p, wire'[p], nextStreamId[p], handles[Peer(p)], foreign = 0)
      <3>1. wire'[p] = Append(wire[p], g)
        BY <2>2, WireAfterTake
      <3>2. WireOk(p, Append(wire[p], g), nextStreamId[p], handles[Peer(p)], foreign = 0)
        BY <1>1, <1>2, <2>2, WireAppend
      <3> QED BY <3>1, <3>2
    <2> QED BY <2>1, <2>2
  <1>5. wire'[Peer(p)] = Tail(wire[Peer(p)])
    BY WireAfterTake
  <1>6. \A q \in Side : q = p \/ q = Peer(p)
    BY DEF Side, Peer
  <1> QED BY <1>3, <1>4, <1>5, <1>6, PeerType DEF WiresOk

\* A SYN that creates a stream is the first the receiver sees of its id.
LEMMA IdAccept ==
    ASSUME TypeOK, IdInv, NEW p \in Side, wire[Peer(p)] # <<>>,
           RecvStream(p), Opens(p, Incoming(p))
    PROVE  IdInv'
  <1> DEFINE f == Incoming(p)
             s == f.sid
             q == Peer(p)
             g == DataFrame(s, {"ACK"}, 0, 0)
  <1>1. /\ f \in Frame /\ s \in Sid /\ s \in Nat /\ s # 0
        /\ q \in Side /\ q # p /\ Peer(q) = p
    BY SMTT(30), IncomingType, BoundsAssumption, PeerType
    DEF RecvStream, IsStreamFrame, Frame, Sid
  <1>2. LocalStreamId(q, s) /\ ~LocalStreamId(p, s) /\ IsSyn(q, f)
    BY <1>1, Parity DEF RecvStream, Opens, IsSyn
  <1>3. g \in Frame /\ "SYN" \notin g.flags /\ g.type # "GoAway"
    BY <1>1, FrameTypes, FrameFields DEF Flag
  <1>4. /\ wire[p] \in Seq(Frame) /\ wire[q] \in Seq(Frame)
        /\ nextStreamId[p] \in Nat /\ nextStreamId[q] \in Nat
        /\ f = wire[q][1] /\ 1 \in DOMAIN wire[q] /\ f = Head(wire[q])
    BY <1>1 DEF TypeOK, Incoming
  <1>5. /\ WireOk(p, wire[p], nextStreamId[p], handles[q], foreign = 0)
        /\ WireOk(q, wire[q], nextStreamId[q], handles[p], foreign = 0)
    BY <1>1 DEF IdInv, WiresOk
  <1>6. s < nextStreamId[q] /\ s \notin handles[p]
    BY <1>2, <1>4, <1>5 DEF WireOk
  <1>7. TakeAndSend(p, g)
    BY DEF RecvStream
  <1>8. /\ handles' = [handles EXCEPT ![p] = @ \cup {s}]
        /\ accepted' = [accepted EXCEPT ![p] = Append(@, s)]
        /\ \/ streams' = [streams EXCEPT ![p] = @ \ {s}]
           \/ streams' = [streams EXCEPT ![p] = @ \cup {s}]
        /\ UNCHANGED <<nextStreamId, remoteGoAway, foreign>>
    BY DEF RecvStream
  <1> HIDE DEF g, s, f
  <1>9. /\ wire'[p] = Append(wire[p], g) /\ wire'[q] = Tail(wire[q])
    BY <1>7, WireAfterTake
  <1>10. /\ handles'[p] = handles[p] \cup {s} /\ handles'[q] = handles[q]
         /\ accepted'[p] = Append(accepted[p], s) /\ accepted'[q] = accepted[q]
         /\ accepted[p] \in Seq(Sid)
         /\ streams'[p] \subseteq streams[p] \cup {s} /\ streams'[q] = streams[q]
    BY SMTT(30), <1>1, <1>8 DEF TypeOK
  <1>11. WireOk(p, wire'[p], nextStreamId[p], handles'[q], foreign = 0)
    BY <1>3, <1>4, <1>5, <1>9, <1>10, WireAppend
  <1>12. WireOk(q, wire'[q], nextStreamId[q], handles'[p], foreign = 0)
    <2>1. wire[q] # <<>> /\ IsSyn(q, Head(wire[q])) /\ Head(wire[q]).sid = s
      BY <1>2, <1>4 DEF s
    <2>2. WireOk(q, Tail(wire[q]), nextStreamId[q], handles[p] \cup {s}, foreign = 0)
      BY <1>1, <1>4, <1>5, <2>1, WireTail
    <2> QED BY <1>9, <1>10, <2>2
  <1>13. \A r \in Side : r = p \/ r = q
    BY DEF Side, Peer
  <1> HIDE DEF q
  <1>14. WiresOk'
    BY <1>8, <1>11, <1>12, <1>13, <1>1 DEF WiresOk, q
  <1>15. NextIdsLocal' /\ NoGoAway'
    BY <1>8 DEF IdInv, NextIdsLocal, NoGoAway
  <1>16. StreamsHandled'
    BY <1>10, <1>13 DEF IdInv, StreamsHandled
  <1>17. HandlesAllocated'
    <2>1. /\ \A t \in handles[p] : /\ LocalStreamId(p, t) => t < nextStreamId[p]
                                   /\ ~LocalStreamId(p, t) => t < nextStreamId[q]
          /\ \A t \in handles[q] : /\ LocalStreamId(q, t) => t < nextStreamId[q]
                                   /\ ~LocalStreamId(q, t) => t < nextStreamId[p]
      BY <1>1 DEF IdInv, HandlesAllocated, q
    <2>2. Peer(p) = q /\ Peer(q) = p
      BY <1>1 DEF q
    <2> QED BY <2>1, <2>2, <1>2, <1>6, <1>8, <1>10, <1>13 DEF HandlesAllocated
  <1>18. AcceptedOnce'
    <2>1. /\ DOMAIN accepted'[p] = DOMAIN accepted[p] \cup {Len(accepted[p]) + 1}
          /\ \A i \in DOMAIN accepted[p] : accepted'[p][i] = accepted[p][i]
          /\ accepted'[p][Len(accepted[p]) + 1] = s
      BY <1>1, <1>10
    <2>2. /\ \A i \in DOMAIN accepted[p] :
                accepted[p][i] \in handles[p] /\ LocalStreamId(q, accepted[p][i])
          /\ \A i, j \in DOMAIN accepted[p] : accepted[p][i] = accepted[p][j] => i = j
          /\ \A i \in DOMAIN accepted[q] :
                accepted[q][i] \in handles[q] /\ LocalStreamId(p, accepted[q][i])
          /\ \A i, j \in DOMAIN accepted[q] : accepted[q][i] = accepted[q][j] => i = j
      BY <1>1 DEF IdInv, AcceptedOnce, q
    <2>3. \A i \in DOMAIN accepted'[p] :
             accepted'[p][i] \in handles'[p] /\ LocalStreamId(q, accepted'[p][i])
      BY <1>2, <1>10, <2>1, <2>2
    <2>4. \A i, j \in DOMAIN accepted'[p] : accepted'[p][i] = accepted'[p][j] => i = j
      BY <1>6, <2>1, <2>2
    <2>5. Peer(p) = q /\ Peer(q) = p
      BY <1>1 DEF q
    <2>6. \A i \in DOMAIN accepted'[q] :
             accepted'[q][i] \in handles'[q] /\ LocalStreamId(p, accepted'[q][i])
      BY <1>10, <2>2
    <2>7. \A i, j \in DOMAIN accepted'[q] : accepted'[q][i] = accepted'[q][j] => i = j
      BY <1>10, <2>2
    <2> SUFFICES ASSUME NEW r \in Side
                 PROVE  /\ \A i \in DOMAIN accepted'[r] :
                              /\ accepted'[r][i] \in handles'[r]
                              /\ LocalStreamId(Peer(r), accepted'[r][i])
                        /\ \A i, j \in DOMAIN accepted'[r] :
                              accepted'[r][i] = accepted'[r][j] => i = j
      BY DEF AcceptedOnce
    <2>8. CASE r = p
      BY <2>3, <2>4, <2>5, <2>8, Zenon
    <2>9. CASE r = q
      BY <2>5, <2>6, <2>7, <2>9, Zenon
    <2> QED BY <1>13, <2>8, <2>9
  <1> QED BY <1>14, <1>15, <1>16, <1>17, <1>18 DEF IdInv

\* handle_frame preserves the invariant.
LEMMA IdReceive ==
    ASSUME TypeOK, IdInv, NEW p \in Side, Receive(p)
    PROVE  IdInv'
  <1> DEFINE f == Incoming(p)
  <1>1. /\ wire[Peer(p)] # <<>> /\ f \in Frame /\ Peer(p) \in Side
        /\ wire[Peer(p)] \in Seq(Frame)
        /\ f = wire[Peer(p)][1] /\ 1 \in DOMAIN wire[Peer(p)]
    BY IncomingType, PeerType DEF Receive, TypeOK, Incoming
  <1>2. foreign = 0 => f.type # "GoAway" /\ ("SYN" \in f.flags => IsSyn(Peer(p), f))
    BY <1>1 DEF IdInv, WiresOk, WireOk
  <1>3. CASE RecvPing(p)
    <2>1. /\ PingFrame({"ACK"}, f.len) \in Frame
          /\ "SYN" \notin PingFrame({"ACK"}, f.len).flags
          /\ PingFrame({"ACK"}, f.len).type # "GoAway"
      <3>1. f.len \in Nat /\ {"ACK"} \in SUBSET Flag
        BY <1>1 DEF Frame, Flag
      <3>2. PingFrame({"ACK"}, f.len) \in Frame
        BY <3>1, FrameTypes
      <3>3. /\ PingFrame({"ACK"}, f.len).flags = {"ACK"}
            /\ PingFrame({"ACK"}, f.len).type = "Ping"
        BY DEF PingFrame
      <3> QED BY <3>2, <3>3
    <2>2. WiresOk'
      BY <1>1, <1>3, <2>1, IdTaken DEF RecvPing, streamVars
    <2> QED BY <1>3, <2>2 DEF RecvPing, streamVars, history, IdInv, NextIdsLocal,
                              StreamsHandled, HandlesAllocated, AcceptedOnce, NoGoAway
  <1>4. CASE RecvGoAway(p)
    <2>1. WiresOk'
      BY <1>1, <1>4, IdTaken DEF RecvGoAway, streamVars
    <2>2. foreign # 0
      BY <1>2, <1>4 DEF RecvGoAway
    <2> QED BY <1>4, <2>1, <2>2
            DEF RecvGoAway, streamVars, history, IdInv, NextIdsLocal,
                StreamsHandled, HandlesAllocated, AcceptedOnce, NoGoAway
  <1>5. CASE RecvBadSyn(p)
    <2>1. GoAwayFrame(ProtocolError) \in Frame /\ "SYN" \notin GoAwayFrame(ProtocolError).flags
      BY FrameTypes, FrameFields DEF ProtocolError
    <2>2. foreign # 0
      <3>1. f.sid \in Nat /\ f.sid # 0
        BY <1>1, <1>5, BoundsAssumption DEF RecvBadSyn, IsStreamFrame, Frame
      <3>2. ~IsSyn(Peer(p), f) /\ "SYN" \in f.flags
        BY <1>5, <3>1, Parity DEF RecvBadSyn, IsSyn
      <3> QED BY <1>2, <3>2
    <2>3. WiresOk'
      BY <1>1, <1>5, <2>1, <2>2, IdTaken DEF RecvBadSyn, streamVars
    <2> QED BY <1>5, <2>3 DEF RecvBadSyn, streamVars, history, IdInv, NextIdsLocal,
                              StreamsHandled, HandlesAllocated, AcceptedOnce, NoGoAway
  <1>6. CASE RecvUnknown(p)
    <2>1. WiresOk'
      BY <1>1, <1>6, IdTaken DEF RecvUnknown, streamVars
    <2> QED BY <1>6, <2>1 DEF RecvUnknown, streamVars, history, IdInv, NextIdsLocal,
                              StreamsHandled, HandlesAllocated, AcceptedOnce, NoGoAway
  <1>7. CASE RecvStream(p) /\ Opens(p, f)
    BY <1>1, <1>7, IdAccept
  <1>8. CASE RecvStream(p) /\ ~Opens(p, f)
    <2>1. /\ f.sid \in streams[p] /\ Take(p)
          /\ UNCHANGED <<nextStreamId, remoteGoAway, foreign>>
      BY <1>8 DEF RecvStream
    <2>2. f.sid \in handles[p]
      BY <2>1 DEF IdInv, StreamsHandled
    <2>3. handles' = handles
      BY <1>8, <2>2 DEF RecvStream, TypeOK
    <2>4. accepted' = accepted
      BY <1>8 DEF RecvStream, TypeOK
    <2>5. \A q \in Side : streams'[q] \subseteq streams[q]
      BY <1>8, <2>1 DEF RecvStream, TypeOK
    <2>6. WiresOk'
      BY <1>1, <2>1, <2>3, IdTaken
    <2>7. StreamsHandled'
      BY <2>3, <2>5 DEF IdInv, StreamsHandled
    <2> QED BY <2>1, <2>3, <2>4, <2>6, <2>7
            DEF IdInv, NextIdsLocal, HandlesAllocated, AcceptedOnce, NoGoAway
  <1> QED BY <1>3, <1>4, <1>5, <1>6, <1>7, <1>8 DEF Receive

\* Frames of another implementation preserve the invariant.
LEMMA IdForeign ==
    ASSUME TypeOK, IdInv, NEW p \in Side, ForeignSend(p)
    PROVE  IdInv'
  <1>1. PICK g \in ForeignFrames(p) : Send(p, g)
    BY DEF ForeignSend
  <1>2. ForeignFrames(p) \subseteq Frame
    BY FrameTypes DEF ForeignFrames, Flag
  <1>3. ~IsSyn(p, g)
    <2>1. CASE "SYN" \notin g.flags
      BY <2>1 DEF IsSyn
    <2>2. CASE "SYN" \in g.flags
      <3>1. PICK i \in Sid : ~LocalStreamId(p, i) /\ g = DataFrame(i, {"SYN"}, 0, 0)
        BY <2>2 DEF ForeignFrames, PingFrame, GoAwayFrame
      <3> QED BY <3>1, FrameFields DEF IsSyn
    <2> QED BY <2>1, <2>2
  <1>4. foreign' # 0 /\ ~(foreign' = 0)
    BY DEF ForeignSend, TypeOK
  <1>5. UNCHANGED <<nextStreamId, streams, handles, accepted, remoteGoAway>>
    BY DEF ForeignSend, streamVars, history
  <1>6. WiresOk'
    <2> SUFFICES ASSUME NEW q \in Side
                 PROVE  WireOk(q, wire'[q], nextStreamId[q], handles[Peer(q)], foreign' = 0)
      BY <1>5 DEF WiresOk
    <2>1. WireOk(q, wire[q], nextStreamId[q], handles[Peer(q)], foreign = 0)
      BY DEF IdInv, WiresOk
    <2>2. wire[q] \in Seq(Frame) /\ nextStreamId[q] \in Nat
      BY DEF TypeOK
    <2>3. CASE q = p
      <3>1. wire'[q] = Append(wire[q], g)
        BY <1>1, <2>3 DEF Send, TypeOK
      <3>2. WireOk(q, wire'[q], nextStreamId[q], handles[Peer(q)], FALSE)
        BY <1>1, <1>2, <1>3, <2>1, <2>2, <2>3, <3>1, WireForeign
      <3> QED BY <1>4, <3>2 DEF WireOk
    <2>4. CASE q # p
      <3>1. wire'[q] = wire[q]
        BY <1>1, <2>4 DEF Send, TypeOK
      <3> QED BY <1>4, <2>1, <3>1 DEF WireOk
    <2> QED BY <2>3, <2>4
  <1> QED BY <1>4, <1>5, <1>6 DEF IdInv, NextIdsLocal, StreamsHandled,
                                 HandlesAllocated, AcceptedOnce, NoGoAway

\* Every step preserves the invariant.
LEMMA IdNext == TypeOK /\ IdInv /\ [Next]_vars => IdInv'
  <1> SUFFICES ASSUME TypeOK, IdInv, [Next]_vars PROVE IdInv'
    OBVIOUS
  <1>1. CASE UNCHANGED vars
    BY <1>1 DEF vars, IdInv, NextIdsLocal, StreamsHandled, HandlesAllocated,
                WiresOk, AcceptedOnce, NoGoAway
  <1>2. CASE Next
    BY <1>2, IdApplication, IdReceive, IdForeign DEF Next
  <1> QED BY <1>1, <1>2

\* The id invariant is inductive: ids in flight are allocated, unknown to
\* the receiver and unique (open_stream, get_or_create_stream).
THEOREM IdsInvariant == Spec => []IdInv
  BY IdInit, IdNext, TypeCorrect, PTL DEF Spec

\* No stream is handed to accept_cb_ twice, and none the peer did not open,
\* however resets and late frames interleave (get_or_create_stream).
THEOREM AcceptedAtMostOnce == Spec => []AcceptOnce
  <1>1. TypeOK /\ IdInv => AcceptOnce
    <2> SUFFICES ASSUME TypeOK, IdInv, NEW p \in Side
                 PROVE  /\ \A i, j \in DOMAIN accepted[p] :
                              accepted[p][i] = accepted[p][j] => i = j
                        /\ \A i \in DOMAIN accepted[p] :
                              /\ LocalStreamId(Peer(p), accepted[p][i])
                              /\ accepted[p][i] < nextStreamId[Peer(p)]
      BY DEF AcceptOnce
    <2>1. \A i \in DOMAIN accepted[p] : accepted[p][i] \in Nat
      <3>1. accepted[p] \in Seq(Sid) /\ Sid \subseteq Nat
        BY BoundsAssumption DEF TypeOK, Sid
      <3>2. \A a \in Seq(Sid) : \A i \in DOMAIN a : a[i] \in Sid
        OBVIOUS
      <3> QED BY <3>1, <3>2
    <2>2. \A i \in DOMAIN accepted[p] : ~LocalStreamId(p, accepted[p][i])
      BY <2>1, PeerType, Parity DEF IdInv, AcceptedOnce
    <2> QED BY <2>2 DEF IdInv, AcceptedOnce, HandlesAllocated
  <1> QED BY <1>1, TypeCorrect, IdsInvariant, PTL

\* Two ends of this implementation never send each other a go-away, so
\* open_stream is never refused between them (is_remote_stream_id).
THEOREM NoProtocolErrors == Spec => []NoProtocolError
  <1>1. IdInv => NoProtocolError
    BY DEF IdInv, NoGoAway, WiresOk, WireOk, NoProtocolError
  <1> QED BY <1>1, IdsInvariant, PTL
=============================================================================
