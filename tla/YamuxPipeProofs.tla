-------------------------- MODULE YamuxPipeProofs --------------------------
(***************************************************************************)
(* Proof that each direction of each muxed stream implements StreamPipe.   *)
(* The first lemmas say, in the terms of Yamux, what each step of the pipe *)
(* is; then each action of the sessions is such a step, or changes nothing *)
(* that the pipe shows.                                                    *)
(***************************************************************************)
EXTENDS YamuxDataProofs

\* The reader of the direction of stream t from r is told end of stream.
AtEof(r, t) == t \in readClosed[Peer(r)] /\ recvBuf[Peer(r)][t] = <<>>
IsBroken(r, t) == t \in reset[r] \cup reset[Peer(r)]

SameCounts(r, t) == written'[r][t] = written[r][t] /\ taken'[Peer(r)][t] = taken[Peer(r)][t]
SameEnded(r, t)  == t \in writeClosed'[r] <=> t \in writeClosed[r]
SameEof(r, t)    == AtEof(r, t)' <=> AtEof(r, t)
SameBroken(r, t) == IsBroken(r, t)' <=> IsBroken(r, t)

PipeStep(r, t) == [Pipe(r, t)!PipeNext]_(Pipe(r, t)!pipeVars)

\* Nothing the pipe shows has changed.
LEMMA PipeStutters ==
    ASSUME NEW r \in Side, NEW t \in Sid,
           SameCounts(r, t), SameEnded(r, t), SameEof(r, t), SameBroken(r, t)
    PROVE  PipeStep(r, t)
  BY DEF PipeStep, Pipe!pipeVars, SameCounts, SameEnded, SameEof, SameBroken, AtEof, IsBroken

\* More bytes are written, within the capacity.
LEMMA PipeWrites ==
    ASSUME NEW r \in Side, NEW t \in Sid, t \notin writeClosed[r],
           written'[r][t] \in written[r][t] + 1 .. taken[Peer(r)][t] + Window,
           taken'[Peer(r)][t] = taken[Peer(r)][t],
           SameEnded(r, t), SameEof(r, t), SameBroken(r, t)
    PROVE  PipeStep(r, t)
  BY DEF PipeStep, Pipe!PipeNext, Pipe!Write, SameEnded, SameEof, SameBroken, AtEof, IsBroken

\* Bytes are read; end of stream shows only when it is due.
LEMMA PipeReads ==
    ASSUME NEW r \in Side, NEW t \in Sid,
           taken'[Peer(r)][t] \in taken[Peer(r)][t] + 1 .. written[r][t],
           \/ SameEof(r, t)
           \/ AtEof(r, t)' /\ t \in writeClosed[r] /\ taken'[Peer(r)][t] = written[r][t],
           written'[r][t] = written[r][t], SameEnded(r, t), SameBroken(r, t)
    PROVE  PipeStep(r, t)
  <1>1. CASE SameEof(r, t)
    BY <1>1 DEF PipeStep, Pipe!PipeNext, Pipe!Read, SameEnded, SameEof, SameBroken, AtEof,
                IsBroken
  <1>2. CASE AtEof(r, t)' /\ t \in writeClosed[r] /\ taken'[Peer(r)][t] = written[r][t]
    BY <1>2 DEF PipeStep, Pipe!PipeNext, Pipe!Read, SameEnded, SameBroken, AtEof, IsBroken
  <1> QED BY <1>1, <1>2

\* The writer closes.
LEMMA PipeCloses ==
    ASSUME NEW r \in Side, NEW t \in Sid, t \notin writeClosed[r], t \in writeClosed'[r],
           SameCounts(r, t), SameEof(r, t), SameBroken(r, t)
    PROVE  PipeStep(r, t)
  BY DEF PipeStep, Pipe!PipeNext, Pipe!Close, SameCounts, SameEof, SameBroken, AtEof, IsBroken

\* End of stream shows.
LEMMA PipeEnds ==
    ASSUME NEW r \in Side, NEW t \in Sid, t \in writeClosed[r],
           taken[Peer(r)][t] = written[r][t], AtEof(r, t)',
           SameCounts(r, t), SameEnded(r, t), SameBroken(r, t)
    PROVE  PipeStep(r, t)
  BY DEF PipeStep, Pipe!PipeNext, Pipe!End, SameCounts, SameEnded, SameBroken, AtEof, IsBroken

\* A side has reset the stream, and either side may notice.
LEMMA PipeBreaks ==
    ASSUME NEW r \in Side, NEW t \in Sid, IsBroken(r, t)', SameCounts(r, t),
           SameEnded(r, t) \/ t \in writeClosed'[r],
           SameEof(r, t) \/ AtEof(r, t)'
    PROVE  PipeStep(r, t)
  <1> DEFINE ended  == t \in writeClosed[r]
             eof    == AtEof(r, t)
             broken == IsBroken(r, t)
  <1>1. ended' \in {ended, TRUE}
    <2>1. CASE SameEnded(r, t)
      <3>1. ended' = ended
        BY <2>1 DEF SameEnded
      <3> QED BY <3>1
    <2>2. CASE t \in writeClosed'[r]
      <3>1. ended' = TRUE
        BY <2>2
      <3> QED BY <3>1
    <2> QED BY <2>1, <2>2
  <1>2. eof' \in {eof, TRUE}
    BY DEF SameEof, AtEof
  <1>3. broken' = TRUE
    BY DEF IsBroken
  <1>4. Pipe(r, t)!Break
    BY <1>1, <1>2, <1>3 DEF Pipe!Break, SameCounts, AtEof, IsBroken
  <1> QED BY <1>4 DEF PipeStep, Pipe!PipeNext

----------------------------------------------------------------------------
(* The actions as steps of the pipe.                                       *)

\* Nothing changes in direction (r, t).
LEMMA PipeQuiet ==
    ASSUME NEW r \in Side, NEW t \in Sid,
           written'[r][t] = written[r][t], taken'[Peer(r)][t] = taken[Peer(r)][t],
           t \in writeClosed'[r] <=> t \in writeClosed[r],
           t \in readClosed'[Peer(r)] <=> t \in readClosed[Peer(r)],
           recvBuf'[Peer(r)][t] = recvBuf[Peer(r)][t],
           t \in reset'[r] <=> t \in reset[r],
           t \in reset'[Peer(r)] <=> t \in reset[Peer(r)]
    PROVE  PipeStep(r, t)
  <1>1. SameCounts(r, t) /\ SameEnded(r, t)
    BY DEF SameCounts, SameEnded
  <1>2. SameEof(r, t)
    BY DEF SameEof, AtEof
  <1>3. SameBroken(r, t)
    BY DEF SameBroken, IsBroken
  <1> QED BY <1>1, <1>2, <1>3, PipeStutters

\* try_write is Write: the window never admits more than the reader's place
\* plus kInitialStreamWindow.
LEMMA PipeTryWrite ==
    ASSUME TypeOK, DataInv, NEW p \in Side, NEW s \in Sid, NEW n \in 1 .. MaxIo,
           TryWrite(p, s, n), NEW r \in Side, NEW t \in Sid
    PROVE  PipeStep(r, t)
  <1> DEFINE k == Lesser(n, sendWindow[p][s])
             q == Peer(p)
  <1>1. q \in Side
    BY PeerType
  <1>2. /\ Writable(p, s) /\ k > 0
        /\ written' = [written EXCEPT ![p][s] = @ + k]
        /\ UNCHANGED <<recvBuf, readClosed, writeClosed, reset, taken>>
    BY DEF TryWrite
  <1>3. /\ sendWindow[p][s] \in Nat /\ written[p][s] \in Nat
    BY Counters
  <1>4. taken[q][s] \in Nat
    BY <1>1, Counters
  <1>5. k \in Nat /\ k <= sendWindow[p][s]
    BY <1>3, BoundsAssumption DEF Lesser
  <1> HIDE DEF k
  <1>6. written'[p][s] = written[p][s] + k
    BY <1>2 DEF TypeOK
  <1>7. CASE r = p /\ t = s
    <2>1. sendWindow[p][s] + written[p][s] - Window <= taken[q][s]
      <3>1. s \in handles[p] /\ s \notin reset[p]
        BY <1>2 DEF Writable
      <3>2. Carries(wire[q], "WindowUpdate", s, Credited(p, s), taken[q][s])
        BY <3>1 DEF DataInv, CreditCarried
      <3> QED BY <3>1, <3>2 DEF Carries, Credited
    <2>2. written'[p][s] \in written[p][s] + 1 .. taken[q][s] + Window
      BY <1>2, <1>3, <1>4, <1>5, <1>6, <2>1, WindowAssumption
    <2>3. SameEnded(p, s) /\ SameEof(p, s) /\ SameBroken(p, s) /\ s \notin writeClosed[p]
      BY <1>2 DEF SameEnded, SameEof, SameBroken, AtEof, IsBroken, Writable
    <2>4. taken'[q][s] = taken[q][s]
      BY <1>2
    <2> QED BY <1>7, <2>2, <2>3, <2>4, PipeWrites
  <1>8. CASE ~(r = p /\ t = s)
    <2>1. written'[r][t] = written[r][t]
      BY <1>2, <1>8 DEF TypeOK
    <2> QED BY <1>2, <2>1, PipeQuiet
  <1> QED BY <1>7, <1>8

\* try_read is Read: what it returns is written, and end of stream shows
\* with the last byte of a closed stream.
LEMMA PipeTryRead ==
    ASSUME TypeOK, DataInv, NEW p \in Side, NEW s \in Sid, NEW n \in 1 .. MaxIo,
           TryRead(p, s, n), NEW r \in Side, NEW t \in Sid
    PROVE  PipeStep(r, t)
  <1> DEFINE b == recvBuf[p][s]
             k == Lesser(n, Len(b))
             q == Peer(p)
  <1>1. q \in Side /\ Peer(q) = p
    BY PeerType
  <1>2. /\ k > 0
        /\ recvBuf' = [recvBuf EXCEPT ![p][s] = SubSeq(b, k + 1, Len(b))]
        /\ taken' = [taken EXCEPT ![p][s] = @ + k]
        /\ UNCHANGED <<readClosed, writeClosed, reset, written>>
    BY DEF TryRead
  <1>3. b \in Seq(Nat) /\ Len(b) \in Nat /\ taken[p][s] \in Nat
    BY Counters DEF TypeOK
  <1>4. written[q][s] \in Nat
    BY <1>1, Counters
  <1>5. k \in 1 .. Len(b)
    BY <1>2, <1>3, BoundsAssumption DEF Lesser
  <1> HIDE DEF b, k
  <1>6. taken'[p][s] = taken[p][s] + k /\ recvBuf'[p][s] = SubSeq(b, k + 1, Len(b))
    BY <1>2 DEF TypeOK
  <1>7. CASE r = q /\ t = s
    <2>1. taken[p][s] + Len(b) <= written[q][s]
      <3>1. Arrived(p, s) <= written[q][s]
        BY <1>1 DEF DataInv, DataCarried
      <3> QED BY <3>1 DEF Arrived, b
    <2>2. taken'[p][s] \in taken[p][s] + 1 .. written[q][s]
      <3>1. taken'[p][s] = taken[p][s] + k
        BY <1>6
      <3> QED BY SMTT(30), <1>3, <1>4, <1>5, <2>1, <3>1
    <2>3. b # <<>>
      BY <1>3, <1>5
    <2>4. ~AtEof(q, s)
      BY <1>1, <2>3 DEF AtEof, b
    <2>5. \/ SameEof(q, s)
          \/ AtEof(q, s)' /\ s \in writeClosed[q] /\ taken'[p][s] = written[q][s]
      <3> SUFFICES ASSUME AtEof(q, s)'
                   PROVE  s \in writeClosed[q] /\ taken'[p][s] = written[q][s]
        BY <2>4 DEF SameEof
      <3>1. s \in readClosed[p] /\ SubSeq(b, k + 1, Len(b)) = <<>>
        BY <1>1, <1>2, <1>6 DEF AtEof
      <3>2. s \notin reset[p]
        BY <2>3 DEF DataInv, StreamsLocal, b
      <3>3. taken[p][s] + Len(b) = written[q][s] /\ s \in writeClosed[q]
        BY <1>1, <3>1, <3>2 DEF DataInv, EofComplete, b
      <3>4. Len(b) = k
        <4> DEFINE c == SubSeq(b, k + 1, Len(b))
        <4>1. Len(c) = Len(b) - k
          BY <1>3, <1>5
        <4>2. c = <<>>
          BY <3>1
        <4> HIDE DEF c
        <4>3. Len(b) - k = 0
          BY <4>1, <4>2
        <4> QED BY <1>3, <1>5, <4>3
      <3>5. taken'[p][s] = taken[p][s] + k
        BY <1>6
      <3> QED BY <3>3, <3>4, <3>5
    <2>6. SameEnded(q, s) /\ SameBroken(q, s) /\ written'[q][s] = written[q][s]
      BY <1>2 DEF SameEnded, SameBroken, IsBroken
    <2> QED BY <1>1, <1>7, <2>2, <2>5, <2>6, PipeReads
  <1>8. CASE ~(r = q /\ t = s)
    <2>1. Peer(r) \in Side /\ ~(Peer(r) = p /\ t = s)
      BY <1>1, <1>8, Sides, PeerType
    <2>2. taken'[Peer(r)][t] = taken[Peer(r)][t] /\ recvBuf'[Peer(r)][t] = recvBuf[Peer(r)][t]
      BY <1>2, <2>1 DEF TypeOK
    <2> QED BY <1>2, <2>2, PipeQuiet
  <1> QED BY <1>7, <1>8

\* close_write is Close.
LEMMA PipeCloseWrite ==
    ASSUME TypeOK, NEW p \in Side, NEW s \in Sid, CloseWrite(p, s),
           NEW r \in Side, NEW t \in Sid
    PROVE  PipeStep(r, t)
  <1>1. /\ s \notin writeClosed[p]
        /\ writeClosed' = [writeClosed EXCEPT ![p] = @ \cup {s}]
        /\ UNCHANGED <<recvBuf, readClosed, reset, written, taken>>
    BY DEF CloseWrite, history
  <1>2. CASE r = p /\ t = s
    <2>1. SameCounts(r, t) /\ SameEof(r, t) /\ SameBroken(r, t)
      BY <1>1 DEF SameCounts, SameEof, SameBroken, AtEof, IsBroken
    <2>2. t \notin writeClosed[r] /\ t \in writeClosed'[r]
      BY <1>1, <1>2 DEF TypeOK
    <2> QED BY <2>1, <2>2, PipeCloses
  <1>3. CASE ~(r = p /\ t = s)
    <2>1. t \in writeClosed'[r] <=> t \in writeClosed[r]
      BY <1>1, <1>3 DEF TypeOK
    <2> QED BY <1>1, <2>1, PipeQuiet
  <1> QED BY <1>2, <1>3

\* A step that resets stream s at p, and changes no other, is Break.
LEMMA PipeBroken ==
    ASSUME TypeOK, NEW p \in Side, NEW s \in Sid,
           readClosed'  = [readClosed EXCEPT ![p] = @ \cup {s}],
           writeClosed' = [writeClosed EXCEPT ![p] = @ \cup {s}],
           reset'       = [reset EXCEPT ![p] = @ \cup {s}],
           recvBuf'     = [recvBuf EXCEPT ![p][s] = <<>>],
           UNCHANGED <<written, taken>>, NEW r \in Side, NEW t \in Sid
    PROVE  PipeStep(r, t)
  <1>1. Peer(r) \in Side /\ Peer(r) # r /\ Peer(p) \in Side /\ Peer(p) # p /\ Peer(Peer(p)) = p
    BY PeerType
  <1>2. CASE t = s
    <2>1. IsBroken(r, t)' /\ SameCounts(r, t)
      BY <1>1, <1>2, Sides DEF TypeOK, IsBroken, SameCounts
    <2>2. CASE r = p
      <3>1. t \in writeClosed'[r]
        BY <1>2, <2>2 DEF TypeOK
      <3>2. /\ readClosed'[Peer(p)] = readClosed[Peer(p)]
            /\ recvBuf'[Peer(p)] = recvBuf[Peer(p)]
        BY <1>1 DEF TypeOK
      <3>3. SameEof(r, t)
        BY <2>2, <3>2 DEF SameEof, AtEof
      <3> QED BY <2>1, <3>1, <3>3, PipeBreaks
    <2>3. CASE r = Peer(p)
      <3>1. SameEnded(r, t)
        BY <1>1, <2>3 DEF TypeOK, SameEnded
      <3>2. s \in readClosed'[p] /\ recvBuf'[p][s] = <<>>
        BY DEF TypeOK
      <3>3. AtEof(r, t)'
        BY <1>1, <1>2, <2>3, <3>2 DEF AtEof
      <3> QED BY <2>1, <3>1, <3>3, PipeBreaks
    <2> QED BY <2>2, <2>3, Sides
  <1>3. CASE t # s
    <2>1. \A x \in Side : /\ t \in writeClosed'[x] <=> t \in writeClosed[x]
                          /\ t \in readClosed'[x] <=> t \in readClosed[x]
                          /\ t \in reset'[x] <=> t \in reset[x]
                          /\ recvBuf'[x][t] = recvBuf[x][t]
      BY <1>3 DEF TypeOK
    <2> QED BY <1>1, <2>1, PipeQuiet
  <1> QED BY <1>2, <1>3

\* A SYN shows nothing: the stream it creates is untouched.
LEMMA PipeAccept ==
    ASSUME TypeOK, IdInv, DataInv, NEW p \in Side, wire[Peer(p)] # <<>>,
           RecvStream(p), Opens(p, Incoming(p))
    PROVE  UNCHANGED <<recvBuf, readClosed, writeClosed, reset, written, taken>>
  <1> DEFINE f == Incoming(p)
             s == f.sid
             q == Peer(p)
  <1>1. /\ q \in Side /\ q # p /\ f = Head(wire[q]) /\ wire[q] \in Seq(Frame)
    BY PeerType DEF TypeOK, Incoming
  <1>2. s \in Nat /\ FrameTold(q, f, handles[q], writeClosed[q], reset[q])
    BY IncomingTold
  <1>3. IsStreamFrame(f) /\ "SYN" \in f.flags /\ IsRemoteStreamId(p, s)
    BY DEF RecvStream, Opens
  <1>4. f.flags = {"SYN"} /\ f.type = "Data" /\ f.len = 0 /\ s \in Sid
    BY <1>2, <1>3 DEF FrameTold, IsStreamFrame
  <1>5. IsSyn(q, f)
    BY <1>2, <1>3, Parity DEF IsSyn
  <1>6. s \notin handles[p]
    <2>1. WireOk(q, wire[q], nextStreamId[q], handles[p], foreign = 0)
      BY <1>1, PeerType DEF IdInv, WiresOk
    <2>2. 1 \in DOMAIN wire[q] /\ f = wire[q][1]
      BY <1>1, TailFacts
    <2> QED BY <1>5, <2>1, <2>2 DEF WireOk
  <1>7. recvBuf[p][s] = <<>>
    BY <1>4, <1>6 DEF DataInv, StreamsLocal
  <1>8. BufferAfter(p, f) = <<>>
    <2>1. 1 .. f.len = {}
      BY <1>4
    <2>2. Payload(f) = <<>>
      BY <1>4, <2>1 DEF Payload
    <2> QED BY <1>7, <2>2 DEF BufferAfter
  <1>9. /\ recvBuf' = [recvBuf EXCEPT ![p][s] = <<>>]
        /\ readClosed' = [readClosed EXCEPT ![p] = @]
        /\ writeClosed' = [writeClosed EXCEPT ![p] = @]
        /\ reset' = [reset EXCEPT ![p] = @]
        /\ UNCHANGED <<written, taken>>
    BY <1>4, <1>8 DEF RecvStream
  <1> HIDE DEF f, s
  <1> QED BY <1>4, <1>7, <1>9 DEF TypeOK

\* Data shows nothing, or end of stream when all of it is read and the FIN
\* is there; a window update shows nothing.
LEMMA PipeRecvKept ==
    ASSUME TypeOK, IdInv, DataInv, NEW p \in Side, wire[Peer(p)] # <<>>,
           NEW f, f = Incoming(p), NEW s \in Sid, s = f.sid,
           RecvStream(p), ~Opens(p, f), "RST" \notin f.flags,
           NEW r \in Side, NEW t \in Sid
    PROVE  PipeStep(r, t)
  <1> DEFINE q == Peer(p)
  <1>1. q \in Side /\ q # p /\ Peer(q) = p /\ Peer(r) \in Side
    BY PeerType
  <1>2. StreamStep(p, f, s)
    BY RecvKept
  <1>3. s \notin reset[p] /\ f.type \in {"Data", "WindowUpdate"}
    BY IncomingKnown
  <1>4. f \in Frame /\ f.len \in Nat /\ FrameTold(q, f, handles[q], writeClosed[q], reset[q])
    BY IncomingTold
  <1>5. recvBuf[p][s] \in Seq(Nat) /\ Len(recvBuf[p][s]) \in Nat /\ taken[p][s] \in Nat
    <2>1. recvBuf[p][s] \in Seq(Nat)
      BY SMTT(30) DEF TypeOK
    <2>2. Len(recvBuf[p][s]) \in Nat /\ taken[p][s] \in Nat
      BY Counters
    <2> QED BY <2>1, <2>2
  <1>6. SameCounts(r, t) /\ SameEnded(r, t) /\ SameBroken(r, t)
    BY <1>2 DEF StreamStep, SameCounts, SameEnded, SameBroken, IsBroken
  <1>7. CASE ~(r = q /\ t = s)
    <2>1. ~(Peer(r) = p /\ t = s)
      BY <1>1, <1>7, Sides
    <2>2. recvBuf'[Peer(r)][t] = recvBuf[Peer(r)][t]
      BY <1>1, <1>2, <2>1 DEF StreamStep
    <2>3. t \in readClosed'[Peer(r)] <=> t \in readClosed[Peer(r)]
      BY <1>1, <1>2, <2>1, Sides DEF StreamStep
    <2>4. SameEof(r, t)
      BY <2>2, <2>3 DEF SameEof, AtEof
    <2> QED BY <1>6, <2>4, PipeStutters
  <1>8. CASE r = q /\ t = s /\ f.type = "WindowUpdate"
    <2>1. "FIN" \notin f.flags
      BY <1>4, <1>8 DEF FrameTold
    <2>2. readClosed'[p] = readClosed[p]
      BY <1>2, <2>1 DEF StreamStep
    <2>3. Payload(f) = <<>>
      BY <1>8 DEF Payload
    <2>4. BufferAfter(p, f) = recvBuf[p][s]
      BY <1>5, <2>3 DEF BufferAfter
    <2>5. recvBuf'[p][s] = recvBuf[p][s]
      BY <1>2, <2>4 DEF StreamStep
    <2>6. SameEof(r, t)
      BY <1>1, <1>8, <2>2, <2>5 DEF SameEof, AtEof
    <2> QED BY <1>6, <2>6, PipeStutters
  <1>9. CASE r = q /\ t = s /\ f.type = "Data"
    <2>1. ("FIN" \in f.flags \/ s \in readClosed[p]) =>
             f.len = 0 /\ Arrived(p, s) = written[q][s] /\ s \in writeClosed[q]
      BY <1>3, <1>9, DataInFront
    <2>2. f.len = 0 => BufferAfter(p, f) = recvBuf[p][s]
      <3> SUFFICES ASSUME f.len = 0 PROVE BufferAfter(p, f) = recvBuf[p][s]
        OBVIOUS
      <3>1. 1 .. f.len = {}
        OBVIOUS
      <3>2. Payload(f) = <<>>
        BY <1>9, <3>1 DEF Payload
      <3> QED BY <1>5, <3>2 DEF BufferAfter
    <2>3. /\ recvBuf'[p][s] = BufferAfter(p, f)
          /\ s \in readClosed'[p] => "FIN" \in f.flags \/ s \in readClosed[p]
          /\ s \in readClosed[p] => s \in readClosed'[p]
      BY <1>2 DEF StreamStep
    <2>4. CASE AtEof(q, s)'
      <3>1. s \in readClosed'[p] /\ recvBuf'[p][s] = <<>>
        BY <1>1, <2>4 DEF AtEof
      <3>2. recvBuf[p][s] = <<>> /\ Arrived(p, s) = written[q][s] /\ s \in writeClosed[q]
        BY <2>1, <2>2, <2>3, <3>1
      <3>3. taken[p][s] = written[q][s]
        <4>1. Len(<<>>) = 0 /\ taken[p][s] + 0 = taken[p][s]
          BY <1>5
        <4> QED BY <3>2, <4>1 DEF Arrived
      <3> QED BY <1>1, <1>6, <1>9, <2>4, <3>2, <3>3, PipeEnds
    <2>5. CASE ~AtEof(q, s)'
      <3>1. ~AtEof(q, s)
        BY <1>1, <2>1, <2>2, <2>3, <2>5 DEF AtEof
      <3>2. SameEof(q, s)
        BY <2>5, <3>1 DEF SameEof
      <3> QED BY <1>6, <1>9, <3>2, PipeStutters
    <2> QED BY <2>4, <2>5
  <1> QED BY <1>3, <1>7, <1>8, <1>9

\* Whatever p receives is a step of the pipe.
LEMMA PipeReceive ==
    ASSUME TypeOK, IdInv, DataInv, NEW p \in Side, Receive(p), NEW r \in Side, NEW t \in Sid
    PROVE  PipeStep(r, t)
  <1>1. wire[Peer(p)] # <<>>
    BY DEF Receive
  <1>2. ASSUME UNCHANGED <<recvBuf, readClosed, writeClosed, reset, written, taken>>
        PROVE  PipeStep(r, t)
    BY <1>2, PipeQuiet
  <1>3. CASE RecvPing(p) \/ RecvGoAway(p) \/ RecvBadSyn(p) \/ RecvUnknown(p)
    <2>1. UNCHANGED <<recvBuf, readClosed, writeClosed, reset, written, taken>>
      BY <1>3 DEF RecvPing, RecvGoAway, RecvBadSyn, RecvUnknown, streamVars, history
    <2> QED BY <1>2, <2>1
  <1>4. CASE RecvStream(p) /\ Opens(p, Incoming(p))
    <2>1. UNCHANGED <<recvBuf, readClosed, writeClosed, reset, written, taken>>
      BY <1>1, <1>4, PipeAccept
    <2> QED BY <1>2, <2>1
  <1>5. CASE RecvStream(p) /\ ~Opens(p, Incoming(p))
    <2>1. /\ Incoming(p).sid \in Sid
          /\ UNCHANGED <<written, taken>>
      BY <1>1, <1>5, IncomingKnown
    <2>2. PICK f : f = Incoming(p)
      OBVIOUS
    <2>3. PICK s \in Sid : s = f.sid
      BY <2>1, <2>2
    <2>4. CASE "RST" \in f.flags
      <3>1. /\ readClosed'  = [readClosed EXCEPT ![p] = @ \cup {s}]
            /\ writeClosed' = [writeClosed EXCEPT ![p] = @ \cup {s}]
            /\ reset'       = [reset EXCEPT ![p] = @ \cup {s}]
            /\ recvBuf'     = [recvBuf EXCEPT ![p][s] = <<>>]
        BY <1>5, <2>2, <2>3, <2>4 DEF RecvStream
      <3> QED BY <2>1, <3>1, PipeBroken
    <2>5. CASE "RST" \notin f.flags
      BY <1>1, <1>5, <2>2, <2>3, <2>5, PipeRecvKept
    <2> QED BY <2>4, <2>5
  <1> QED BY <1>3, <1>4, <1>5 DEF Receive

\* Every step of the two sessions is a step of each pipe.
LEMMA PipeNextStep ==
    ASSUME TypeOK, IdInv, DataInv, [Next]_vars, NEW r \in Side, NEW t \in Sid
    PROVE  PipeStep(r, t)
  <1>1. ASSUME UNCHANGED <<recvBuf, readClosed, writeClosed, reset, written, taken>>
        PROVE  PipeStep(r, t)
    BY <1>1, PipeQuiet
  <1>2. ASSUME NEW p \in Side, OpenStream(p) \/ ForeignSend(p) PROVE PipeStep(r, t)
    <2>1. UNCHANGED <<recvBuf, readClosed, writeClosed, reset, written, taken>>
      BY <1>2 DEF OpenStream, ForeignSend, streamVars, history
    <2> QED BY <1>1, <2>1
  <1>3. ASSUME NEW p \in Side, NEW s \in Sid, Reset(p, s) PROVE PipeStep(r, t)
    <2>1. /\ readClosed'  = [readClosed EXCEPT ![p] = @ \cup {s}]
          /\ writeClosed' = [writeClosed EXCEPT ![p] = @ \cup {s}]
          /\ reset'       = [reset EXCEPT ![p] = @ \cup {s}]
          /\ recvBuf'     = [recvBuf EXCEPT ![p][s] = <<>>]
          /\ UNCHANGED <<written, taken>>
      BY <1>3 DEF Reset, history
    <2> QED BY <2>1, PipeBroken
  <1>4. ASSUME NEW p \in Side, Application(p) PROVE PipeStep(r, t)
    BY <1>2, <1>3, <1>4, PipeTryWrite, PipeTryRead, PipeCloseWrite DEF Application
  <1>5. CASE UNCHANGED vars
    <2>1. UNCHANGED <<recvBuf, readClosed, writeClosed, reset, written, taken>>
      BY <1>5 DEF vars
    <2> QED BY <1>1, <2>1
  <1> QED BY <1>2, <1>4, <1>5, PipeReceive DEF Next

\* Whatever the two sessions do with frames, windows, acknowledgements and
\* other streams, each direction of each stream is a reliable pipe of
\* capacity kInitialStreamWindow (try_write, try_read, close_write, reset).
THEOREM StreamsArePipes == Spec => ImplementsPipe
  <1>1. Init => \A p \in Side, s \in Sid : Pipe(p, s)!PipeInit
    BY PeerType DEF Pipe!PipeInit, Init
  <1>2. TypeOK /\ IdInv /\ DataInv /\ [Next]_vars =>
           [\A p \in Side, s \in Sid :
               [Pipe(p, s)!PipeNext]_(Pipe(p, s)!pipeVars)]_vars
    BY PipeNextStep DEF PipeStep
  <1> QED BY <1>1, <1>2, TypeCorrect, IdsInvariant, DataInvariant, PTL DEF Spec, ImplementsPipe
=============================================================================
