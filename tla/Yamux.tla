------------------------------- MODULE Yamux -------------------------------
(***************************************************************************)
(* Two yamux sessions, the two ends of one connection                      *)
(* (protocol/yamux/yamux.cpp).  A side owns the streams_ and send_windows_ *)
(* maps of its YamuxSession and the YamuxStream objects the application    *)
(* holds; the wire between the sides is the FIFO of whole frames that one  *)
(* side has written and the other has not handled yet: send_buf_, the      *)
(* connection and the peer's recv_buf_, whose framing loses nothing.       *)
(*                                                                         *)
(* A frame carries the ghost field off: the number of bytes of its kind    *)
(* (data, or window credit) sent on the stream before it.  No guard reads  *)
(* it except to name the payload's bytes: byte k of a stream's direction   *)
(* is the number k.                                                        *)
(***************************************************************************)
EXTENDS Naturals, Sequences

CONSTANTS
    Window,       \* kInitialStreamWindow
    MaxU32,       \* UINT32_MAX, the largest send window
    MaxStreamId,  \* bound: stream ids are 1 .. MaxStreamId
    MaxBytes,     \* bound: bytes written on one direction of one stream
    MaxIo,        \* bound: bytes offered by one try_write / try_read call
    MaxWire,      \* bound: frames in flight when the application may reset
    MaxForeign    \* bound: frames only another implementation would send

ASSUME WindowAssumption == Window \in Nat \ {0}
ASSUME MaxU32Assumption == MaxU32 \in Nat /\ Window <= MaxU32
ASSUME BoundsAssumption ==
    /\ MaxStreamId \in Nat
    /\ MaxBytes \in Nat
    /\ MaxIo \in Nat
    /\ MaxWire \in Nat
    /\ MaxForeign \in Nat

Side == {"client", "server"}
Peer(p) == IF p = "client" THEN "server" ELSE "client"
Sid  == 1 .. MaxStreamId
Flag == {"SYN", "ACK", "FIN", "RST"}

Frame == [type  : {"Data", "WindowUpdate", "Ping", "GoAway"},
          flags : SUBSET Flag,
          sid   : 0 .. MaxStreamId,
          off   : Nat,
          len   : Nat]

VARIABLES
    nextStreamId,  \* next_stream_id_ of each side
    streams,       \* keys of streams_ (and of send_windows_, always the same)
    sendWindow,    \* send_windows_, meaningful on streams
    remoteGoAway,  \* remote_go_away_
    handles,       \* streams whose YamuxStream object the application got
    recvBuf,       \* YamuxStream::recv_buf_, the unread bytes
    readClosed,    \* streams whose read_closed_ is set
    writeClosed,   \* streams whose write_closed_ is set
    reset,         \* streams whose reset_ is set
    wire,          \* wire[p]: frames p has sent and Peer(p) has not handled
    accepted,      \* history: the streams handed to accept_cb_, in order
    closeCb,       \* history: the streams handed to close_cb_, in order
    written,       \* history: bytes taken by try_write
    taken,         \* history: bytes returned by try_read
    foreign        \* number of foreign frames sent so far

streamVars == <<streams, sendWindow, handles, recvBuf, readClosed, writeClosed, reset>>
history    == <<accepted, closeCb, written, taken>>
vars == <<nextStreamId, streams, sendWindow, remoteGoAway, handles, recvBuf,
          readClosed, writeClosed, reset, wire, accepted, closeCb, written,
          taken, foreign>>

\* Definitions named Faulty... are variants of the definition they precede,
\* with a plausible mistake; no specification uses them.  They serve to test
\* that a property notices the mistake.

FaultyLesser(a, b) == a
Lesser(a, b) == IF a <= b THEN a ELSE b

----------------------------------------------------------------------------
(* Frames.                                                                 *)

FaultyDataFrameNoFin(s, flags, off, len) ==
    [type |-> "Data", flags |-> flags \ {"FIN"}, sid |-> s, off |-> off, len |-> len]
DataFrame(s, flags, off, len) ==
    [type |-> "Data", flags |-> flags, sid |-> s, off |-> off, len |-> len]
FaultyWindowUpdateExtra(s, off, len) ==
    [type |-> "WindowUpdate", flags |-> {}, sid |-> s, off |-> off, len |-> len + 1]
FaultyWindowUpdateEmpty(s, off, len) ==
    [type |-> "WindowUpdate", flags |-> {}, sid |-> s, off |-> off, len |-> 0]
WindowUpdateFrame(s, off, len) ==
    [type |-> "WindowUpdate", flags |-> {}, sid |-> s, off |-> off, len |-> len]
PingFrame(flags, opaque) ==
    [type |-> "Ping", flags |-> flags, sid |-> 0, off |-> 0, len |-> opaque]
GoAwayFrame(code) ==
    [type |-> "GoAway", flags |-> {}, sid |-> 0, off |-> 0, len |-> code]
ProtocolError == 1

Payload(f) == IF f.type = "Data" THEN [i \in 1 .. f.len |-> f.off + i] ELSE <<>>

\* write_frame, then the outgoing callback flushes it towards the peer.
Send(p, f) == wire' = [wire EXCEPT ![p] = Append(@, f)]

\* p takes the first frame of its peer off the wire without answering it.
Take(p) == wire' = [wire EXCEPT ![Peer(p)] = Tail(@)]

\* p takes the first frame of its peer off the wire and answers it.
TakeAndSend(p, f) ==
    wire' = [wire EXCEPT ![Peer(p)] = Tail(@), ![p] = Append(@, f)]

LocalStreamId(p, s) == s % 2 = (IF p = "client" THEN 1 ELSE 0)

IsRemoteStreamId(p, s) ==
    /\ s # 0
    /\ s % 2 = (IF p = "client" THEN 0 ELSE 1)

FaultyIdStuck(s) == s
FaultyIdNext(s) == s + 1
IdAfter(s) == s + 2

\* is_open, for given values of the object's flags and buffer.
IsOpen(isReset, rdClosed, wrClosed, buf) ==
    ~isReset /\ (~rdClosed \/ ~wrClosed \/ buf # <<>>)

----------------------------------------------------------------------------
Init ==
    /\ nextStreamId = [p \in Side |-> IF p = "client" THEN 1 ELSE 2]
    /\ streams      = [p \in Side |-> {}]
    /\ sendWindow   = [p \in Side |-> [s \in Sid |-> 0]]
    /\ remoteGoAway = [p \in Side |-> FALSE]
    /\ handles      = [p \in Side |-> {}]
    /\ recvBuf      = [p \in Side |-> [s \in Sid |-> <<>>]]
    /\ readClosed   = [p \in Side |-> {}]
    /\ writeClosed  = [p \in Side |-> {}]
    /\ reset        = [p \in Side |-> {}]
    /\ wire         = [p \in Side |-> <<>>]
    /\ accepted     = [p \in Side |-> <<>>]
    /\ closeCb      = [p \in Side |-> <<>>]
    /\ written      = [p \in Side |-> [s \in Sid |-> 0]]
    /\ taken        = [p \in Side |-> [s \in Sid |-> 0]]
    /\ foreign      = 0

----------------------------------------------------------------------------
(* Calls of the application.                                               *)

OpenStream(p) ==
    LET s == nextStreamId[p] IN
    /\ ~remoteGoAway[p]
    /\ s \in Sid
    /\ nextStreamId' = [nextStreamId EXCEPT ![p] = IdAfter(s)]
    /\ streams'    = [streams EXCEPT ![p] = @ \cup {s}]
    /\ handles'    = [handles EXCEPT ![p] = @ \cup {s}]
    /\ sendWindow' = [sendWindow EXCEPT ![p][s] = Window]
    /\ Send(p, DataFrame(s, {"SYN"}, 0, 0))
    /\ UNCHANGED <<remoteGoAway, recvBuf, readClosed, writeClosed, reset,
                   history, foreign>>

FaultyWritable(p, s) ==
    s \in handles[p] /\ s \notin reset[p] /\ s \in streams[p]
Writable(p, s) ==
    /\ s \in handles[p]
    /\ s \notin writeClosed[p]
    /\ s \notin reset[p]
    /\ s \in streams[p]

\* try_write of n bytes: as many as the send window admits go out.
TryWrite(p, s, n) ==
    LET k == Lesser(n, sendWindow[p][s]) IN
    /\ Writable(p, s)
    /\ k > 0
    /\ written[p][s] + k <= MaxBytes
    /\ Send(p, DataFrame(s, {}, written[p][s], k))
    /\ sendWindow' = [sendWindow EXCEPT ![p][s] = @ - k]
    /\ written'    = [written EXCEPT ![p][s] = @ + k]
    /\ UNCHANGED <<nextStreamId, streams, remoteGoAway, handles, recvBuf,
                   readClosed, writeClosed, reset, accepted, closeCb, taken,
                   foreign>>

\* try_read into n bytes: what was read is credited to the peer at once.
TryRead(p, s, n) ==
    LET k == Lesser(n, Len(recvBuf[p][s])) IN
    /\ s \in handles[p]
    /\ k > 0
    /\ recvBuf' = [recvBuf EXCEPT ![p][s] = SubSeq(@, k + 1, Len(@))]
    /\ taken'   = [taken EXCEPT ![p][s] = @ + k]
    /\ Send(p, WindowUpdateFrame(s, taken[p][s], k))
    /\ UNCHANGED <<nextStreamId, streams, sendWindow, remoteGoAway, handles,
                   readClosed, writeClosed, reset, accepted, closeCb, written,
                   foreign>>

CloseWrite(p, s) ==
    /\ s \in handles[p]
    /\ s \notin writeClosed[p]
    /\ writeClosed' = [writeClosed EXCEPT ![p] = @ \cup {s}]
    /\ Send(p, DataFrame(s, {"FIN"}, written[p][s], 0))
    /\ UNCHANGED <<nextStreamId, streams, sendWindow, remoteGoAway, handles,
                   recvBuf, readClosed, reset, history, foreign>>

FaultyResetSilent(p, s) ==
    /\ s \in handles[p] \ reset[p]
    /\ readClosed'  = [readClosed EXCEPT ![p] = @ \cup {s}]
    /\ writeClosed' = [writeClosed EXCEPT ![p] = @ \cup {s}]
    /\ reset'       = [reset EXCEPT ![p] = @ \cup {s}]
    /\ recvBuf'     = [recvBuf EXCEPT ![p][s] = <<>>]
    /\ streams'     = [streams EXCEPT ![p] = @ \ {s}]
    /\ UNCHANGED <<nextStreamId, sendWindow, remoteGoAway, handles, history,
                   wire, foreign>>

\* reset, which may be called again on a stream that is reset already.
Reset(p, s) ==
    /\ s \in handles[p]
    /\ Len(wire[p]) < MaxWire
    /\ readClosed'  = [readClosed EXCEPT ![p] = @ \cup {s}]
    /\ writeClosed' = [writeClosed EXCEPT ![p] = @ \cup {s}]
    /\ reset'       = [reset EXCEPT ![p] = @ \cup {s}]
    /\ recvBuf'     = [recvBuf EXCEPT ![p][s] = <<>>]
    /\ streams'     = [streams EXCEPT ![p] = @ \ {s}]
    /\ Send(p, DataFrame(s, {"RST"}, written[p][s], 0))
    /\ UNCHANGED <<nextStreamId, sendWindow, remoteGoAway, handles, history,
                   foreign>>

----------------------------------------------------------------------------
(* handle_frame on the first frame of the peer, one action per outcome.    *)

Incoming(p) == Head(wire[Peer(p)])

IsStreamFrame(f) == f.type \in {"Data", "WindowUpdate"} /\ f.sid # 0

RecvPing(p) ==
    LET f == Incoming(p) IN
    /\ f.type = "Ping"
    /\ \/ "ACK" \notin f.flags /\ TakeAndSend(p, PingFrame({"ACK"}, f.len))
       \/ "ACK" \in f.flags /\ Take(p)
    /\ UNCHANGED <<nextStreamId, streamVars, remoteGoAway, history, foreign>>

RecvGoAway(p) ==
    /\ Incoming(p).type = "GoAway"
    /\ Take(p)
    /\ remoteGoAway' = [remoteGoAway EXCEPT ![p] = TRUE]
    /\ UNCHANGED <<nextStreamId, streamVars, history, foreign>>

\* A SYN for an id that only this side may allocate.
RecvBadSyn(p) ==
    LET f == Incoming(p) IN
    /\ IsStreamFrame(f)
    /\ "SYN" \in f.flags
    /\ ~IsRemoteStreamId(p, f.sid)
    /\ TakeAndSend(p, GoAwayFrame(ProtocolError))
    /\ UNCHANGED <<nextStreamId, streamVars, remoteGoAway, history, foreign>>

\* A frame for a stream that is not (or no longer) in streams_.
RecvUnknown(p) ==
    LET f == Incoming(p) IN
    /\ IsStreamFrame(f)
    /\ "SYN" \notin f.flags
    /\ f.sid \notin streams[p]
    /\ Take(p)
    /\ UNCHANGED <<nextStreamId, streamVars, remoteGoAway, history, foreign>>

\* Frame f makes p create the stream.
Opens(p, f) == "SYN" \in f.flags /\ f.sid \notin streams[p]

\* The send window after f: a new one is full, an update adds up to UINT32_MAX.
WindowAfter(p, f) ==
    LET win == IF Opens(p, f) THEN Window ELSE sendWindow[p][f.sid] IN
    IF f.type = "WindowUpdate" THEN Lesser(win + f.len, MaxU32) ELSE win

FaultyBufferAfter(p, f) == Payload(f) \o recvBuf[p][f.sid]
\* recv_buf_ after the payload of f, before its flags.
BufferAfter(p, f) == recvBuf[p][f.sid] \o Payload(f)

\* The calls of close_cb_ that the flags of f cause, in order.
CloseCalls(p, f) ==
    LET open == IsOpen(f.sid \in reset[p], TRUE, f.sid \in writeClosed[p],
                       BufferAfter(p, f))
    IN (IF "FIN" \in f.flags /\ ~open THEN <<f.sid>> ELSE <<>>)
           \o (IF "RST" \in f.flags THEN <<f.sid>> ELSE <<>>)

\* The rest of handle_frame: a frame for a known stream, or one that opens it.
RecvStream(p) ==
    LET f   == Incoming(p)
        s   == f.sid
        new == Opens(p, f)
        fin == "FIN" \in f.flags
        rst == "RST" \in f.flags
    IN
    /\ IsStreamFrame(f)
    /\ "SYN" \in f.flags => IsRemoteStreamId(p, s)
    /\ new \/ s \in streams[p]
    /\ \/ new /\ TakeAndSend(p, DataFrame(s, {"ACK"}, 0, 0))
       \/ ~new /\ Take(p)
    /\ handles'     = [handles EXCEPT ![p] = @ \cup {s}]
    /\ accepted'    = [accepted EXCEPT ![p] = IF new THEN Append(@, s) ELSE @]
    /\ sendWindow'  = [sendWindow EXCEPT ![p][s] = WindowAfter(p, f)]
    /\ recvBuf'     = [recvBuf EXCEPT ![p][s] = IF rst THEN <<>> ELSE BufferAfter(p, f)]
    /\ readClosed'  = [readClosed EXCEPT ![p] = IF fin \/ rst THEN @ \cup {s} ELSE @]
    /\ writeClosed' = [writeClosed EXCEPT ![p] = IF rst THEN @ \cup {s} ELSE @]
    /\ reset'       = [reset EXCEPT ![p] = IF rst THEN @ \cup {s} ELSE @]
    /\ closeCb'     = [closeCb EXCEPT ![p] = @ \o CloseCalls(p, f)]
    /\ streams'     = [streams EXCEPT ![p] = IF rst THEN @ \ {s} ELSE @ \cup {s}]
    /\ UNCHANGED <<nextStreamId, remoteGoAway, written, taken, foreign>>

Receive(p) ==
    /\ wire[Peer(p)] # <<>>
    /\ \/ RecvPing(p)
       \/ RecvGoAway(p)
       \/ RecvBadSyn(p)
       \/ RecvUnknown(p)
       \/ RecvStream(p)

----------------------------------------------------------------------------
(* External: what another yamux implementation may send as p, and this one *)
(* never does: pings, a normal go-away, a SYN whose id has the wrong       *)
(* parity.                                                                 *)
ForeignFrames(p) ==
    {PingFrame({}, 7), PingFrame({"ACK"}, 7), GoAwayFrame(0)}
        \cup {DataFrame(s, {"SYN"}, 0, 0) : s \in {i \in Sid : ~LocalStreamId(p, i)}}

ForeignSend(p) ==
    /\ foreign < MaxForeign
    /\ \E f \in ForeignFrames(p) : Send(p, f)
    /\ foreign' = foreign + 1
    /\ UNCHANGED <<nextStreamId, streamVars, remoteGoAway, history>>

----------------------------------------------------------------------------
Application(p) ==
    \/ OpenStream(p)
    \/ \E s \in Sid :
          \/ \E n \in 1 .. MaxIo : TryWrite(p, s, n) \/ TryRead(p, s, n)
          \/ CloseWrite(p, s)
          \/ Reset(p, s)

Next == \E p \in Side : Application(p) \/ Receive(p) \/ ForeignSend(p)

Spec == Init /\ [][Next]_vars

\* The event loop keeps reading the socket, and applications keep reading
\* their streams; nobody is obliged to open, write, close or reset.
Fairness ==
    \A p \in Side :
        /\ WF_vars(Receive(p))
        /\ \A s \in Sid : WF_vars(\E n \in 1 .. MaxIo : TryRead(p, s, n))

FairSpec == Spec /\ Fairness

----------------------------------------------------------------------------
(* Invariants.                                                             *)

\* Every variable has its type (YamuxSession and YamuxStream fields,
\* yamux.hpp:64-76 and 107-117).
TypeOK ==
    /\ nextStreamId \in [Side -> Nat]
    /\ streams      \in [Side -> SUBSET Sid]
    /\ sendWindow   \in [Side -> [Sid -> 0 .. MaxU32]]
    /\ remoteGoAway \in [Side -> BOOLEAN]
    /\ handles      \in [Side -> SUBSET Sid]
    /\ recvBuf      \in [Side -> [Sid -> Seq(Nat)]]
    /\ readClosed   \in [Side -> SUBSET Sid]
    /\ writeClosed  \in [Side -> SUBSET Sid]
    /\ reset        \in [Side -> SUBSET Sid]
    /\ wire         \in [Side -> Seq(Frame)]
    /\ accepted     \in [Side -> Seq(Sid)]
    /\ closeCb      \in [Side -> Seq(Sid)]
    /\ written      \in [Side -> [Sid -> Nat]]
    /\ taken        \in [Side -> [Sid -> Nat]]
    /\ foreign      \in Nat

\* try_read returns the peer's bytes in the order they were written, with no
\* gap and no repetition: the unread buffer always holds exactly the bytes
\* that follow the last one returned (receive_data, try_read).
InOrder ==
    \A p \in Side, s \in Sid :
        recvBuf[p][s] = [i \in 1 .. Len(recvBuf[p][s]) |-> taken[p][s] + i]

\* End of stream is never reported early: when a FIN has been handled on a
\* stream that was not reset, every byte the peer wrote on it has arrived
\* and the peer's write side is closed for good (receive_fin).
EofComplete ==
    \A p \in Side : \A s \in readClosed[p] \ reset[p] :
        /\ taken[p][s] + Len(recvBuf[p][s]) = written[Peer(p)][s]
        /\ s \in writeClosed[Peer(p)]

\* A stream is handed to accept_cb_ at most once, and only when the peer has
\* allocated its id with open_stream.
AcceptOnce ==
    \A p \in Side :
        /\ \A i, j \in DOMAIN accepted[p] : accepted[p][i] = accepted[p][j] => i = j
        /\ \A i \in DOMAIN accepted[p] :
               /\ LocalStreamId(Peer(p), accepted[p][i])
               /\ accepted[p][i] < nextStreamId[Peer(p)]

\* Two ends of this implementation never tell each other to go away: their
\* SYNs never carry an id of the receiver's parity (is_remote_stream_id).
NoProtocolError ==
    foreign = 0 =>
        \A p \in Side :
            /\ ~remoteGoAway[p]
            /\ \A i \in DOMAIN wire[p] : wire[p][i].type # "GoAway"

OnWire(p, s, flag) ==
    \E i \in DOMAIN wire[p] : wire[p][i].sid = s /\ flag \in wire[p][i].flags

\* A stream never stays half-open: if one side still keeps a stream the
\* other side does not know, the SYN that will create it there or the RST
\* that will remove it here is on its way (open_stream, reset_stream).
NoHalfOpen ==
    \A p \in Side : \A s \in streams[p] \ streams[Peer(p)] :
        OnWire(p, s, "SYN") \/ OnWire(Peer(p), s, "RST")

----------------------------------------------------------------------------
(* Refinement: each direction of each stream is a StreamPipe.              *)

\* The direction of stream s from p to its peer.
Pipe(p, s) == INSTANCE StreamPipe WITH
    Capacity <- Window,
    sent     <- written[p][s],
    got      <- taken[Peer(p)][s],
    ended    <- s \in writeClosed[p],
    eof      <- s \in readClosed[Peer(p)] /\ recvBuf[Peer(p)][s] = <<>>,
    broken   <- s \in reset[p] \cup reset[Peer(p)]

\* Whatever the two sessions do with frames, windows, acknowledgements and
\* other streams, the two applications see a reliable pipe of capacity
\* kInitialStreamWindow (try_write, try_read, close_write, reset).
ImplementsPipe ==
    /\ \A p \in Side, s \in Sid : Pipe(p, s)!PipeInit
    /\ [][\A p \in Side, s \in Sid :
             [Pipe(p, s)!PipeNext]_(Pipe(p, s)!pipeVars)]_vars

----------------------------------------------------------------------------
(* Liveness, under FairSpec.                                               *)

\* A writer blocked on an empty window is unblocked by the reader's
\* progress, unless the stream is reset (update_receive_window).
WindowRefilled ==
    \A p \in Side, s \in Sid :
        (s \in streams[p] /\ sendWindow[p][s] = 0)
            ~> (s \notin streams[p] \/ sendWindow[p][s] > 0)

\* close_write reaches the peer: its application reads everything that was
\* written and then end of stream, unless one side resets the stream.
EofReached ==
    \A p \in Side, s \in Sid :
        (s \in writeClosed[p])
            ~> \/ s \in reset[p] \cup reset[Peer(p)]
               \/ /\ s \in readClosed[Peer(p)]
                  /\ taken[Peer(p)][s] = written[p][s]

=============================================================================
