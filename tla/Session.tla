------------------------------ MODULE Session ------------------------------
(***************************************************************************)
(* The two ConnectionSessions of one TCP connection                        *)
(* (connection_session.cpp): the upgrade from a raw socket through         *)
(* multistream-select and the Noise XX handshake to a ready connection     *)
(* with yamux or with one direct stream, its use, and its end.             *)
(*                                                                         *)
(* Each end is a single-threaded process.  A method of the class is an     *)
(* operator from the session's record to its new record.                   *)
(* on_socket_readable is a step that fills wire_rx_buffer and then one     *)
(* step per message of process_pending_input, during which (busy) the end  *)
(* does nothing else; the other end may move in between.  A message is     *)
(* whole: what a partial one leaves in wire_rx_buffer is in the kernel     *)
(* queue here.                                                             *)
(***************************************************************************)
EXTENDS Naturals, Sequences

CONSTANTS
    MuxerLists,   \* possible values of local_stream_muxers
    Identities,   \* possible values of "the end has a local_identity"
    Expectations, \* possible relations of the dial target's peer id to the
                  \* peer; "unreadable": no id that PeerId::from_string reads
    AnyConfig,    \* TRUE: the configurations of the ends need not be compatible
    NetCap,       \* bound: messages the kernel takes before EAGAIN
    MaxWrites,    \* bound: application messages per end
    MaxOpens,     \* bound: streams opened per end
    HugeWrites,   \* TRUE: the application may offer more than a frame holds
    ResetStreams, \* TRUE: the application may reset the direct stream
    MaxGarbled    \* bound: messages that arrive unreadable

ASSUME SessionAssumption ==
    /\ MuxerLists \subseteq Seq(STRING)
    /\ Identities \subseteq BOOLEAN
    /\ Expectations \subseteq {"none", "match", "mismatch", "unreadable"}
    /\ AnyConfig \in BOOLEAN /\ HugeWrites \in BOOLEAN /\ ResetStreams \in BOOLEAN
    /\ NetCap \in Nat \ {0}
    /\ MaxWrites \in Nat /\ MaxOpens \in Nat /\ MaxGarbled \in Nat

End == {"ini", "res"}   \* the dialing and the accepting end
Other(e) == IF e = "ini" THEN "res" ELSE "ini"

VARIABLES
    conf,     \* how the two ends were constructed, never changed
    ep,       \* ep[e]: the session object of end e and its kernel send queue
    appSent,  \* history: direct-stream messages accepted from the application
    appGot,   \* history: direct-stream messages returned to the application
    garbled   \* messages made unreadable so far

vars == <<conf, ep, appSent, appGot, garbled>>

----------------------------------------------------------------------------
(* Messages and plaintexts.                                                *)

Text(t, m, n) == [t |-> t, m |-> m, n |-> n]
NoText        == Text("none", "none", 0)
Plain(kind)   == [kind |-> kind, nonce |-> 0, text |-> NoText]
Enc(n, text)  == [kind |-> "enc", nonce |-> n, text |-> text]
Eof           == Plain("eof")

NoStream == [id |-> 0, open |-> FALSE, writeOpen |-> FALSE,
             closeWritePending |-> FALSE, rx |-> <<>>]

InitialEnd == [state |-> "TcpAccepted", stage |-> "NegotiatingProtocol",
               hs |-> "Idle", socketOpen |-> TRUE, writeShutdown |-> FALSE,
               rx |-> <<>>, tx |-> <<>>, net |-> <<>>, busy |-> FALSE,
               remotePeer |-> FALSE, remoteMuxers |-> <<>>, muxer |-> "none",
               yamux |-> FALSE, negotiation |-> <<>>, sendNonce |-> 0,
               recvNonce |-> 0, stream |-> NoStream, nextStreamId |-> 1,
               createInbound |-> FALSE, pending |-> 0, opens |-> 0,
               events |-> <<>>]

\* Configurations with which the ends can agree: both or neither have an
\* identity, both or neither offer muxers, and two muxers that both offer are
\* in the same order of preference.
Compatible ==
    LET a == conf.muxers["ini"] b == conf.muxers["res"] IN
    /\ conf.identity["ini"] = conf.identity["res"]
    /\ (a = <<>>) <=> (b = <<>>)
    /\ \A i, j \in DOMAIN a, k, l \in DOMAIN b :
          (a[i] = b[k] /\ a[j] = b[l] /\ i < j) => k < l

Init ==
    /\ conf \in [identity : [End -> Identities], muxers : [End -> MuxerLists],
                 expected : Expectations]
    /\ AnyConfig \/ Compatible
    /\ ep      = [e \in End |-> InitialEnd]
    /\ appSent = [e \in End |-> 0]
    /\ appGot  = [e \in End |-> <<>>]
    /\ garbled = 0

----------------------------------------------------------------------------
(* The socket.                                                             *)

IsActive(r) == r.socketOpen /\ r.state \notin {"Closed", "Failed"}

\* The Swarm begins the upgrade in the callback that registers the socket,
\* so nothing else reaches a session before it.
Begun(r) == r.state # "TcpAccepted"

Emit(r, ev) == [r EXCEPT !.events = Append(@, ev)]

\* The peer sees end of file once, after what was sent before it.
WithEof(net) ==
    IF net # <<>> /\ net[Len(net)] = Eof THEN net ELSE Append(net, Eof)

FaultyCloseSocket(r) ==
    [r EXCEPT !.socketOpen = FALSE, !.writeShutdown = TRUE, !.rx = <<>>, !.tx = <<>>]
CloseSocket(r) ==
    IF ~r.socketOpen THEN r
    ELSE [r EXCEPT !.socketOpen = FALSE, !.writeShutdown = TRUE, !.rx = <<>>,
                   !.tx = <<>>,
                   !.net = IF r.writeShutdown THEN @ ELSE WithEof(@)]

FaultyClose(r) == Emit([CloseSocket(r) EXCEPT !.busy = FALSE], "Closed")
\* close(): the Closed event is queued once.
Close(r) ==
    IF r.state = "Closed" THEN r
    ELSE Emit([CloseSocket(r) EXCEPT
                  !.state = "Closed", !.busy = FALSE,
                  !.stream = [@ EXCEPT !.open = FALSE, !.writeOpen = FALSE,
                                       !.closeWritePending = FALSE, !.rx = <<>>]],
              "Closed")

EmitError(r) ==
    IF r.state \in {"Failed", "Closed"} THEN r
    ELSE Emit([r EXCEPT !.state = "Failed"], "Error")

\* What every caller does with an error result.
FaultyFail(r) == [EmitError(r) EXCEPT !.busy = FALSE]
Fail(r) == Close(EmitError(r))

Queue(r, msg) == [r EXCEPT !.tx = Append(@, msg)]

\* encrypt, which uses up a nonce, and queue the frame.
FaultyQueueEncrypted(r, text) == Queue(r, Enc(r.sendNonce, text))
QueueEncrypted(r, text) ==
    Queue([r EXCEPT !.sendNonce = @ + 1], Enc(r.sendNonce, text))

\* send() fails only when the peer has closed its socket, and then not surely.
SendMayFail(e) == IF ep[Other(e)].socketOpen THEN {FALSE} ELSE {TRUE, FALSE}

\* flush_wire when send() does not fail: the kernel takes what it has room for.
Flush(e, r) ==
    LET room == IF Len(r.net) < NetCap THEN NetCap - Len(r.net) ELSE 0
        n    == IF Len(r.tx) < room THEN Len(r.tx) ELSE room
    IN IF ~ep[Other(e)].socketOpen THEN [r EXCEPT !.tx = <<>>]
       ELSE [r EXCEPT !.net = @ \o SubSeq(r.tx, 1, n),
                      !.tx  = SubSeq(r.tx, n + 1, Len(r.tx))]

\* The tail of flush_stream: SHUT_WR once everything is out.
Shutdown(r) ==
    IF r.stream.closeWritePending /\ ~r.writeShutdown /\ r.tx = <<>>
    THEN [r EXCEPT !.net = WithEof(@), !.writeShutdown = TRUE]
    ELSE r

\* flush_pending_writes and flush_stream.
FlushPending(e, r) == Shutdown(Flush(e, r))

----------------------------------------------------------------------------
(* The upgrade.                                                            *)

CreateStream(r, inbound) ==
    Emit([r EXCEPT !.stream = [id |-> r.nextStreamId, open |-> TRUE,
                               writeOpen |-> TRUE, closeWritePending |-> FALSE,
                               rx |-> <<>>],
                   !.nextStreamId = @ + 1,
                   !.pending = IF inbound THEN @ + 1 ELSE @],
         IF inbound THEN "StreamAccepted" ELSE "StreamOpened")

CompleteReadyState(r) ==
    LET ready == [r EXCEPT !.stage = "Ready", !.state = "Ready",
                           !.events = @ \o <<"Secured", "MultiplexerReady">>]
    IN IF ~r.yamux /\ r.createInbound /\ r.pending = 0
       THEN CreateStream([ready EXCEPT !.createInbound = FALSE], TRUE)
       ELSE ready

ActivateYamux(r) == [r EXCEPT !.yamux = TRUE, !.createInbound = FALSE]

\* The first local muxer that the peer's Noise extensions name.
SelectStreamMuxer(e, r) ==
    LET local  == conf.muxers[e]
        common == {i \in DOMAIN local : \E j \in DOMAIN r.remoteMuxers :
                                            r.remoteMuxers[j] = local[i]}
    IN IF common = {} THEN "none"
       ELSE local[CHOOSE i \in common : \A j \in common : i <= j]

\* The Noise payload of the peer: empty without an identity.
Authenticated(e, r) ==
    [r EXCEPT !.remotePeer = conf.identity[Other(e)],
              !.remoteMuxers = IF conf.identity[Other(e)]
                               THEN conf.muxers[Other(e)] ELSE <<>>]

\* validate_expected_remote_peer
FaultyExpectedPeerOk(e, r) == TRUE
ExpectedPeerOk(e, r) ==
    (e = "ini" /\ conf.expected # "none") =>
        r.remotePeer /\ conf.expected \in {"match", "unreadable"}

\* finish_secure_upgrade; fail says that send() fails.
FinishSecureUpgrade(e, r, fail) ==
    LET sel == SelectStreamMuxer(e, r)
        neg == [r EXCEPT !.muxer = sel, !.stage = "MuxerNegotiation"]
    IN CASE ~ExpectedPeerOk(e, r) -> Fail(r)
         [] ExpectedPeerOk(e, r) /\ sel = "yamux" ->
                CompleteReadyState(ActivateYamux([r EXCEPT !.muxer = sel]))
         [] ExpectedPeerOk(e, r) /\ sel # "yamux" /\ conf.muxers[e] = <<>> ->
                CompleteReadyState([r EXCEPT !.muxer = sel])
         [] OTHER ->
                IF e = "res" THEN neg
                ELSE LET out == QueueEncrypted(neg, Text("propose", conf.muxers[e][1], 0))
                     IN IF fail THEN Fail(out) ELSE Flush(e, out)

----------------------------------------------------------------------------
(* process_pending_input, one message at a time.                           *)

Put(e, r) == /\ ep' = [ep EXCEPT ![e] = r]
             /\ UNCHANGED <<conf, appSent, appGot, garbled>>

Popped(r) == [r EXCEPT !.rx = Tail(@)]

\* process_protocol_negotiation (and start_noise_handshake)
NegotiateProtocol(e) ==
    LET r == ep[e] m == Head(r.rx) IN
    /\ r.busy /\ r.stage = "NegotiatingProtocol" /\ r.rx # <<>>
    /\ \/ /\ e = "res" /\ m.kind = "msPropose"
          /\ \E fail \in SendMayFail(e) :
                LET out == Queue(r, Plain("msAccept")) IN
                Put(e, IF fail THEN Fail(out)
                       ELSE [Popped(FlushPending(e, out)) EXCEPT
                                !.stage = "NoiseHandshake", !.hs = "AwaitingMsg1"])
       \/ /\ e = "ini" /\ m.kind = "msAccept"
          /\ \E fail \in SendMayFail(e) :
                LET out == Queue([Popped(r) EXCEPT !.stage = "NoiseHandshake",
                                                   !.hs = "AwaitingMsg2"],
                                 Plain("msg1"))
                IN Put(e, IF fail THEN Fail(out) ELSE FlushPending(e, out))
       \/ /\ m.kind # (IF e = "res" THEN "msPropose" ELSE "msAccept")
          /\ Put(e, Fail(r))

\* process_handshake_frame
HandshakeFrame(e) ==
    LET r == Popped(ep[e]) m == Head(ep[e].rx) IN
    /\ ep[e].busy /\ ep[e].stage = "NoiseHandshake" /\ ep[e].rx # <<>>
    /\ \E fail \in SendMayFail(e) :
        \/ /\ r.hs = "AwaitingMsg1" /\ m.kind = "msg1"
           /\ LET out == Queue([r EXCEPT !.hs = "AwaitingMsg3"], Plain("msg2"))
              IN Put(e, IF fail THEN Fail(out) ELSE FlushPending(e, out))
        \/ /\ r.hs = "AwaitingMsg2" /\ m.kind = "msg2"
           /\ LET out == Queue([Authenticated(e, r) EXCEPT !.hs = "Complete"],
                               Plain("msg3"))
              IN \E failAgain \in SendMayFail(e) :
                 Put(e, IF fail THEN Fail(out)
                        ELSE FinishSecureUpgrade(e, FlushPending(e, out), failAgain))
        \/ /\ r.hs = "AwaitingMsg3" /\ m.kind = "msg3"
           /\ Put(e, FinishSecureUpgrade(
                        e, [Authenticated(e, r) EXCEPT !.hs = "Complete"], fail))
        \/ /\ <<r.hs, m.kind>> \notin {<<"AwaitingMsg1", "msg1">>,
                  <<"AwaitingMsg2", "msg2">>, <<"AwaitingMsg3", "msg3">>}
           /\ Put(e, Fail(r))

\* The frame decrypts: it is intact and its nonce is the one expected.
Decrypts(r, m) == m.kind = "enc" /\ m.nonce = r.recvNonce

\* process_muxer_negotiation, its loop: every frame goes to the buffer.
CollectNegotiation(e) ==
    LET r == Popped(ep[e]) m == Head(ep[e].rx) IN
    /\ ep[e].busy /\ ep[e].stage = "MuxerNegotiation" /\ ep[e].rx # <<>>
    /\ IF Decrypts(r, m)
       THEN Put(e, [r EXCEPT !.recvNonce = @ + 1,
                             !.negotiation = Append(@, m.text)])
       ELSE Put(e, Fail(r))

FaultyMuxerChosen(r, m) ==
    LET with == [r EXCEPT !.negotiation = Tail(@), !.muxer = m]
    IN CompleteReadyState(IF m = "yamux" /\ r.createInbound
                          THEN ActivateYamux(with) ELSE with)

\* A muxer is selected, or none is; the rest of the buffer stays where it is.
MuxerChosen(r, m) ==
    LET done == [r EXCEPT !.negotiation = Tail(@)]
        with == [done EXCEPT !.muxer = m]
    IN CompleteReadyState(CASE m = "na"    -> done
                            [] m = "yamux" -> ActivateYamux(with)
                            [] OTHER       -> with)

\* process_muxer_negotiation, after the loop: the first exchange decides.
\* Application bytes of a peer that negotiates nothing may look like an
\* incomplete exchange; yamux frames never do.
DecideMuxer(e) ==
    LET r == ep[e]
        t == Head(r.negotiation)
        has == {conf.muxers[e][i] : i \in DOMAIN conf.muxers[e]}
        ans == IF t.m \in has THEN t.m ELSE "na"
    IN
    /\ r.busy /\ r.stage = "MuxerNegotiation" /\ r.rx = <<>> /\ r.negotiation # <<>>
    /\ \/ /\ e = "res" /\ t.t = "propose"
          /\ \E fail \in SendMayFail(e) :
                LET out == QueueEncrypted(r, Text("reply", ans, 0)) IN
                Put(e, IF fail THEN Fail(out) ELSE MuxerChosen(Flush(e, out), ans))
       \/ /\ e = "ini" /\ t.t = "reply"
          /\ Put(e, IF t.m \in {"na", conf.muxers[e][1]} THEN MuxerChosen(r, t.m)
                    ELSE Fail(r))
       \/ /\ t.t \notin (IF e = "res" THEN {"propose"} ELSE {"reply"})
          /\ Put(e, Fail(r))
       \/ /\ t.t = "app"
          /\ Put(e, [r EXCEPT !.busy = FALSE])

\* The loop of process_pending_input on a ready connection.
DeliverFrame(e) ==
    LET m == Head(ep[e].rx)
        r == [Popped(ep[e]) EXCEPT !.recvNonce = @ + 1]
        d == IF r.stream.open THEN r ELSE CreateStream(r, TRUE)
        syn == Emit([r EXCEPT !.pending = @ + 1], "StreamAccepted")
    IN
    /\ ep[e].busy /\ ep[e].stage = "Ready" /\ ep[e].rx # <<>>
    /\ IF ~Decrypts(ep[e], m) THEN Put(e, Fail(Popped(ep[e])))
       ELSE IF ~r.yamux
       THEN Put(e, [d EXCEPT !.stream.rx = Append(@, m.text)])
       ELSE IF m.text.t = "syn"
       THEN \E fail \in SendMayFail(e) :
              LET out == QueueEncrypted(syn, Text("ack", "none", 0)) IN
              Put(e, IF fail THEN out ELSE Flush(e, out))
       ELSE Put(e, r)

\* on_socket_readable returns when nothing more can be parsed.
InputDone(e) ==
    LET r == ep[e] IN
    /\ r.busy /\ r.rx = <<>>
    /\ r.stage = "MuxerNegotiation" => r.negotiation = <<>>
    /\ Put(e, [r EXCEPT !.busy = FALSE])

ProcessPendingInput(e) ==
    \/ NegotiateProtocol(e)
    \/ HandshakeFrame(e)
    \/ CollectNegotiation(e)
    \/ DecideMuxer(e)
    \/ DeliverFrame(e)
    \/ InputDone(e)

----------------------------------------------------------------------------
(* Events of the socket, as the event loop delivers them.                  *)

\* The recv loop takes what has arrived; end of file closes the session at
\* once, whatever was received before it.
Receive(e) ==
    LET r == ep[e] o == Other(e) IN
    /\ Begun(r) /\ IsActive(r) /\ ~r.busy
    /\ \E n \in DOMAIN ep[o].net :
          LET batch == SubSeq(ep[o].net, 1, n)
              rest  == [ep[o] EXCEPT !.net = SubSeq(@, n + 1, Len(@))]
              mine  == IF batch[n] = Eof THEN Close(r)
                       ELSE [r EXCEPT !.rx = @ \o batch, !.busy = TRUE]
          IN ep' = [ep EXCEPT ![e] = mine, ![o] = rest]
    /\ UNCHANGED <<conf, appSent, appGot, garbled>>

\* External: recv fails, other than for want of data.
RecvFails(e) ==
    /\ Begun(ep[e]) /\ IsActive(ep[e]) /\ ~ep[e].busy
    /\ Put(e, Fail(ep[e]))

OnSocketReadable(e) == Receive(e) \/ RecvFails(e)

OnSocketWritable(e) ==
    LET r == ep[e] IN
    /\ IsActive(r) /\ ~r.busy
    /\ r.tx # <<>>
    /\ \E fail \in SendMayFail(e) :
          Put(e, IF fail THEN Fail(r) ELSE FlushPending(e, r))

\* EPOLLERR: the peer has reset the connection.
OnSocketError(e) ==
    /\ Begun(ep[e]) /\ IsActive(ep[e]) /\ ~ep[e].busy
    /\ ~ep[Other(e)].socketOpen
    /\ Put(e, Close(ep[e]))

----------------------------------------------------------------------------
(* Calls of the owner (the Swarm).                                         *)

\* begin_outbound_upgrade and begin_inbound_upgrade; the Swarm closes the
\* session when they fail.
Begin(e) ==
    LET r == [ep[e] EXCEPT !.state = "Securing", !.createInbound = (e = "res")] IN
    /\ ep[e].state = "TcpAccepted" /\ ~ep[e].busy
    /\ IF e = "res" THEN Put(e, r)
       ELSE \E fail \in SendMayFail(e) :
              LET out == Queue(r, Plain("msPropose")) IN
              Put(e, IF fail THEN Close(out) ELSE FlushPending(e, out))

\* close, when the application asks for it or the Swarm stops.
OwnerClose(e) ==
    /\ Begun(ep[e]) /\ ep[e].state # "Closed" /\ ~ep[e].busy
    /\ ep' = [ep EXCEPT ![e] = Close(@)]
    /\ UNCHANGED <<conf, appSent, appGot, garbled>>

OnTimeout(e) ==
    /\ Begun(ep[e]) /\ IsActive(ep[e]) /\ ~ep[e].busy /\ ep[e].state # "Ready"
    /\ ep' = [ep EXCEPT ![e] = Fail(@)]
    /\ UNCHANGED <<conf, appSent, appGot, garbled>>

RequestOpenStream(e) ==
    LET r == [ep[e] EXCEPT !.opens = @ + 1] IN
    /\ IsActive(r) /\ ~r.busy /\ r.state = "Ready"
    /\ ep[e].opens < MaxOpens
    /\ \/ /\ r.yamux
          /\ \E fail \in SendMayFail(e) :
                LET out == QueueEncrypted(r, Text("syn", "none", 0)) IN
                Put(e, IF fail THEN out ELSE Emit(Flush(e, out), "StreamOpened"))
       \/ /\ ~r.yamux /\ ~r.stream.open
          /\ Put(e, CreateStream(r, FALSE))

----------------------------------------------------------------------------
(* Calls on the direct stream.                                             *)

CanWrite(e) ==
    LET r == ep[e] IN ~r.busy /\ r.stream.open /\ r.stream.writeOpen

\* try_write of something that fits a Noise frame.
StreamWrite(e) ==
    /\ CanWrite(e) /\ ep[e].socketOpen
    /\ appSent[e] < MaxWrites
    /\ \E fail \in SendMayFail(e) :
          LET out == QueueEncrypted(ep[e], Text("app", "none", appSent[e] + 1)) IN
          ep' = [ep EXCEPT ![e] = IF fail THEN [out EXCEPT !.stream.open = FALSE]
                                  ELSE FlushPending(e, out)]
    /\ appSent' = [appSent EXCEPT ![e] = @ + 1]
    /\ UNCHANGED <<conf, appGot, garbled>>

\* try_write of more than 65535 bytes of ciphertext, on either kind of
\* stream: the nonce is used, then encode_frame refuses the frame.
HugeWrite(e) ==
    LET r == ep[e] used == [r EXCEPT !.sendNonce = @ + 1] IN
    /\ HugeWrites /\ r.sendNonce < MaxWrites + MaxOpens + 2
    /\ IsActive(r) /\ ~r.busy /\ r.state = "Ready"
    /\ \/ r.yamux /\ r.opens + r.pending > 0 /\ Put(e, used)
       \/ CanWrite(e) /\ Put(e, [used EXCEPT !.stream.open = FALSE])

Got(r) == [sid |-> r.stream.id, text |-> Head(r.stream.rx)]

FaultyStreamRead(e) ==
    LET r == ep[e] IN
    /\ ~r.busy /\ r.stream.rx # <<>>
    /\ appGot' = [appGot EXCEPT ![e] = Append(@, Got(r))]
    /\ UNCHANGED <<conf, ep, appSent, garbled>>

StreamRead(e) ==
    LET r == ep[e] IN
    /\ ~r.busy /\ r.stream.rx # <<>>
    /\ ep'     = [ep EXCEPT ![e].stream.rx = Tail(@)]
    /\ appGot' = [appGot EXCEPT ![e] = Append(@, Got(r))]
    /\ UNCHANGED <<conf, appSent, garbled>>

StreamCloseWrite(e) ==
    LET r == [ep[e] EXCEPT !.stream.writeOpen = FALSE,
                           !.stream.closeWritePending = TRUE] IN
    /\ CanWrite(e) /\ ep[e].socketOpen
    /\ \E fail \in SendMayFail(e) :
          Put(e, IF fail THEN [r EXCEPT !.stream.open = FALSE]
                 ELSE FlushPending(e, r))

\* reset closes the socket and tells the session nothing; the handle outlives
\* the stream.
StreamReset(e) ==
    LET r == ep[e] IN
    /\ ResetStreams
    /\ ~r.busy /\ r.stream.id # 0
    /\ Put(e, CloseSocket([r EXCEPT
              !.stream = [@ EXCEPT !.open = FALSE, !.writeOpen = FALSE,
                                   !.closeWritePending = FALSE, !.rx = <<>>]]))

----------------------------------------------------------------------------
\* External: a message on its way to Other(e) becomes unreadable: a corrupted
\* frame, or an answer this implementation does not support.
Garble(e) ==
    /\ garbled < MaxGarbled
    /\ \E i \in DOMAIN ep[e].net :
          /\ ep[e].net[i] # Eof
          /\ ep' = [ep EXCEPT ![e].net[i] = Plain("bad")]
    /\ garbled' = garbled + 1
    /\ UNCHANGED <<conf, appSent, appGot>>

Socket(e) == OnSocketReadable(e) \/ OnSocketWritable(e) \/ OnSocketError(e)
Owner(e)  == Begin(e) \/ OwnerClose(e) \/ OnTimeout(e) \/ RequestOpenStream(e)
Stream(e) == \/ StreamWrite(e) \/ HugeWrite(e) \/ StreamRead(e)
             \/ StreamCloseWrite(e) \/ StreamReset(e)

Next == \E e \in End :
    Socket(e) \/ ProcessPendingInput(e) \/ Owner(e) \/ Stream(e) \/ Garble(e)

Spec == Init /\ [][Next]_vars

\* The Swarm starts the upgrade when it creates the session, a handler runs
\* to its end, and the event loop reports readable and writable sockets.
Fairness ==
    \A e \in End :
        /\ WF_vars(Begin(e))
        /\ WF_vars(ProcessPendingInput(e))
        /\ WF_vars(Receive(e))
        /\ WF_vars(OnSocketWritable(e))

FairSpec == Spec /\ Fairness

----------------------------------------------------------------------------
(* Invariants.                                                             *)

Happened(e, ev) == \E i \in DOMAIN ep[e].events : ep[e].events[i] = ev

\* The events of a session tell one story to the Swarm: Secured, then
\* MultiplexerReady, then streams; at most one Error, followed by nothing but
\* Closed; Closed exactly when the session is closed, once, and last
\* (complete_ready_state, emit_error, close).
EventStory ==
    \A e \in End :
        LET ev == ep[e].events IN
        /\ \A i, j \in DOMAIN ev : i < j =>
              /\ ev[i] # "Closed"
              /\ ev[i] = "Error" => ev[j] = "Closed"
              /\ ev[j] # "Secured"
              /\ ev[j] = "MultiplexerReady" => j = 2 /\ ev[1] = "Secured"
        /\ \A i \in DOMAIN ev : ev[i] \in {"StreamOpened", "StreamAccepted"} =>
              i > 2 /\ ev[2] = "MultiplexerReady"
        /\ Happened(e, "Closed") <=> ep[e].state = "Closed"

\* A dialing end whose dial target names a peer id is ready only when its peer
\* has proved an identity, and that is the one it dialed, unless the id is one
\* that PeerId::from_string cannot read: then any proved identity will do
\* (validate_expected_remote_peer).
ReadyWithDialedPeer ==
    (ep["ini"].stage = "Ready" /\ conf.expected # "none")
        => /\ ep["ini"].remotePeer
           /\ conf.expected # "unreadable" => conf.expected = "match"

\* Everything of e on its way to its peer, oldest first.
InTransit(e) == ep[Other(e)].rx \o ep[e].net \o ep[e].tx

\* The encrypted frames among way.
Encrypted(way) == {i \in DOMAIN way : way[i].kind = "enc"}

\* The encrypted frames of way carry the nonces from recv up to send, each
\* once and in order.
InStep(way, recv, send) ==
    /\ recv <= send
    /\ {way[i].nonce : i \in Encrypted(way)} = recv .. send - 1
    /\ \A i, j \in Encrypted(way) : i < j => way[i].nonce < way[j].nonce

\* The two cipher states stay in step: the encrypted frames on their way
\* carry the nonces the peer will expect, one after the other, up to the
\* sender's next one (NoiseHandshake::encrypt and decrypt).  A write that is
\* too large for a frame uses up a nonce and sends nothing: without those.
NoncesInStep ==
    (garbled = 0 /\ ~HugeWrites) =>
        \A e \in End : (ep[e].socketOpen /\ ep[Other(e)].socketOpen) =>
            InStep(InTransit(e), ep[Other(e)].recvNonce, ep[e].sendNonce)

\* When both ends of a compatible configuration are ready they agree on the
\* stream muxer, and on whether they really run yamux (select_stream_muxer,
\* process_muxer_negotiation).
MuxerAgreement ==
    (Compatible /\ ep["ini"].stage = "Ready" /\ ep["res"].stage = "Ready")
        => /\ ep["ini"].muxer = ep["res"].muxer
           /\ ep["ini"].yamux = ep["res"].yamux

\* The application messages that were decrypted into the buffer of the muxer
\* negotiation and stayed there.
LeftBehind(e) == IF ep[e].stage = "Ready" THEN Len(ep[e].negotiation) ELSE 0

\* What has been or can be read at e begins with message n.
ReadsFirst(e, n) ==
    LET rx == ep[e].stream.rx IN
    IF appGot[e] # <<>> THEN appGot[e][1].text.n = n ELSE rx # <<>> /\ rx[1].n = n

\* In a compatible configuration, the messages an application reads from
\* direct streams are the ones its peer wrote.  From the first stream it reads
\* them from the very first on, except for those that arrived together with
\* the answer of the muxer negotiation, which it never gets (a finding:
\* SentArrives); on each stream it reads them one after the other
\* without a gap; and after a failed write, when the peer's later messages
\* appear on a second stream, it reads none a second time
\* (process_muxer_negotiation, queue_encrypted_write, process_pending_input,
\* ensure_inbound_stream).
DirectInOrder ==
    Compatible => \A e \in End : \A i, j \in DOMAIN appGot[e] :
        LET a == appGot[e][i] b == appGot[e][j] IN
        /\ a.text.t = "app"
        /\ (i = 1 /\ a.sid = 1) => a.text.n = LeftBehind(e) + 1
        /\ j = i + 1 => IF a.sid = b.sid THEN b.text.n = a.text.n + 1
                        ELSE b.text.n > a.text.n

----------------------------------------------------------------------------
(* Liveness, under FairSpec.                                               *)

\* The upgrade comes to an end: both sides become ready, or both sessions
\* are closed (begin_*_upgrade .. complete_ready_state).
UpgradeSettles ==
    <>(\/ \A e \in End : ep[e].stage = "Ready"
       \/ \A e \in End : ep[e].state = "Closed")

\* No end is left behind: when one session closes, whatever the reason, the
\* other one closes too (on_socket_readable's recv of 0).
CloseReachesPeer ==
    \A e \in End : (ep[e].state = "Closed") ~> (ep[Other(e)].state = "Closed")

\* In a compatible configuration, what one end sends arrives at the other,
\* unless that one closes: a yamux stream that it opens is accepted, and the
\* first message that it writes to a direct stream is the first that can be
\* read there.  The code does not do this: process_muxer_negotiation decrypts
\* whatever has arrived into its own buffer, where everything behind the
\* answer stays.
SentArrives ==
    \A e \in End :
        /\ (Compatible /\ ep[e].yamux /\ Happened(e, "StreamOpened"))
              ~> (Happened(Other(e), "StreamAccepted") \/ ep[Other(e)].state = "Closed")
        /\ (Compatible /\ ~ep[e].yamux /\ appSent[e] > 0)
              ~> (ReadsFirst(Other(e), 1) \/ ep[Other(e)].state = "Closed")

=============================================================================
