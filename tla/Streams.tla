------------------------------ MODULE Streams ------------------------------
(***************************************************************************)
(* The streams of one ready connection, as the Swarms at its two ends use  *)
(* them (swarm.cpp): open_stream, the per-stream protocol negotiation of   *)
(* ProtocolNegotiatingStream, pending_streams_ and its polling, the        *)
(* protocol handlers, and the calls of the applications on their handles.  *)
(*                                                                         *)
(* poll_once of a side is a number of Receive steps (frames of one         *)
(* readable event), then Drain (drain_connection_events), then one         *)
(* PollStream step per pending stream; the side's application acts only    *)
(* between two poll_once, the other side at any time.  Windows and         *)
(* acknowledgements are module Yamux's: here a yamux frame opens a stream, *)
(* carries whole messages, or ends it.                                     *)
(*                                                                         *)
(* One of the sides may be another implementation, which sends what it     *)
(* likes in the frames it likes.                                           *)
(***************************************************************************)
EXTENDS Naturals, Sequences

CONSTANTS
    Protocols,   \* protocol ids
    HandlerSets, \* possible sets of protocols that a side has handlers for
    NativeSets,  \* possible sets of sides that run this implementation
    Failures,    \* TRUE: connections close, swarms stop, streams are reset
    Openers,     \* sides that open streams
    MaxOpens,    \* bound: streams a side opens
    MaxApp,      \* bound: messages an application sends on a stream
    MaxForeign,  \* bound: frames another implementation sends
    MaxWire      \* bound: frames in flight when it sends one

Side == {"client", "server"}
Peer(p) == IF p = "client" THEN "server" ELSE "client"

ASSUME StreamsAssumption ==
    /\ "none" \notin Protocols /\ HandlerSets \subseteq SUBSET Protocols
    /\ NativeSets \subseteq SUBSET Side
    /\ Failures \in BOOLEAN /\ Openers \subseteq Side
    /\ MaxOpens \in Nat /\ MaxApp \in Nat /\ MaxForeign \in Nat /\ MaxWire \in Nat

\* A stream is named by the side that opens it and a number.
Sid == Openers \X (1 .. MaxOpens)

VARIABLES
    conf,       \* handlers of each side and the native sides, never changed
    opened,     \* opened[p]: streams p has opened
    st,         \* st[p][s]: p's end of stream s
    wire,       \* wire[p]: frames p has sent and Peer(p) has not read
    link,       \* link[p]: p's session is "up", "closed", or destroyed ("gone")
    accepting,  \* streams whose StreamAccepted event is not drained yet
    pending,    \* pending_streams_
    inLoop,     \* p is inside event_loop_->poll_once()
    toPoll,     \* streams poll_pending_streams has still to look at
    touched,    \* p's Swarm has called into a destroyed session
    foreign     \* frames another implementation has sent so far

vars == <<conf, opened, st, wire, link, accepting, pending, inLoop, toPoll,
          touched, foreign>>

----------------------------------------------------------------------------
(* Messages and ends of streams.                                           *)

Msg(m, v) == [m |-> m, v |-> v]
Header    == Msg("header", 0)
Token(x)  == Msg("token", x)      \* a protocol id, proposed or accepted
Na        == Msg("na", 0)
Bad       == Msg("bad", 0)        \* does not decode
App(i)    == Msg("app", i)        \* application data, the i-th message said

\* History fields: said, what an end has written on the stream; got, what its
\* application has read from it; reports, the events and handler calls.
Says(e, body) == [e EXCEPT !.said = @ \o body]

Frame(s, kind, body) == [s |-> s, kind |-> kind, body |-> body]

NoEnd == [known |-> FALSE, rx |-> <<>>, readClosed |-> FALSE,
          writeClosed |-> FALSE, reset |-> FALSE, stage |-> "None",
          desired |-> "none", buffer |-> <<>>, appRx |-> <<>>,
          protocol |-> "none", detail |-> "none", handle |-> FALSE,
          reports |-> <<>>, said |-> <<>>, got |-> <<>>]

\* A YamuxStream as get_or_create_stream makes it.
NewYamuxStream == [NoEnd EXCEPT !.known = TRUE]

IsOpen(e) == ~e.reset /\ (~e.readClosed \/ ~e.writeClosed \/ e.rx # <<>>)

\* The two constructors of ProtocolNegotiatingStream.
Outbound(e, x) == [e EXCEPT !.stage = "SendingOutboundProposal", !.desired = x,
                            !.handle = TRUE]
Inbound(e)     == [e EXCEPT !.stage = "AwaitingInboundProposal"]

FailWith(e, why) == [e EXCEPT !.stage = "Failed", !.detail = why]

Init ==
    /\ conf \in [handlers : [Side -> HandlerSets], native : NativeSets]
    /\ opened    = [p \in Side |-> 0]
    /\ st        = [p \in Side |-> [s \in Sid |-> NoEnd]]
    /\ wire      = [p \in Side |-> <<>>]
    /\ link      = [p \in Side |-> "up"]
    /\ accepting = [p \in Side |-> {}]
    /\ pending   = [p \in Side |-> {}]
    /\ inLoop    = [p \in Side |-> FALSE]
    /\ toPoll    = [p \in Side |-> {}]
    /\ touched   = [p \in Side |-> FALSE]
    /\ foreign   = 0

----------------------------------------------------------------------------
(* ProtocolNegotiatingStream::poll, from the end e of stream s to its new  *)
(* value and the frames it sends.  ok: the connection takes what is        *)
(* written.                                                                *)

Writable(e, ok) == ok /\ e.known /\ ~e.writeClosed /\ ~e.reset

Result(e, out) == [e |-> e, out |-> out]

Propose(s, e, ok) ==
    IF e.stage # "SendingOutboundProposal" THEN Result(e, <<>>)
    ELSE IF Writable(e, ok)
         THEN Result([Says(e, <<Header, Token(e.desired)>>) EXCEPT
                        !.stage = "AwaitingOutboundResponse"],
                     <<Frame(s, "DATA", <<Header, Token(e.desired)>>)>>)
         ELSE Result(FailWith(e, "write failed"), <<>>)

\* read_into_negotiation_buffer: everything there is, then end of stream.
ReadIn(e) ==
    LET a == [e EXCEPT !.buffer = @ \o e.rx, !.rx = <<>>] IN
    IF (a.readClosed \/ a.reset) /\ ~IsOpen(a)
    THEN FailWith(a, "stream closed during protocol negotiation")
    ELSE a

\* multistream_exchange_span, on whole messages.
Span(b) ==
    IF \E i \in DOMAIN b : i <= 2 /\ b[i] = Bad THEN "invalid"
    ELSE IF Len(b) < 2 THEN "incomplete" ELSE "complete"

FaultyFinishDrops(e, x) ==
    [e EXCEPT !.stage = "Ready", !.protocol = x, !.buffer = <<>>]
\* finish_negotiation: what follows the exchange belongs to the application.
Finish(e, x) ==
    [e EXCEPT !.stage = "Ready", !.protocol = x, !.buffer = <<>>,
              !.appRx = @ \o SubSeq(e.buffer, 3, Len(e.buffer))]

\* read_outbound_response.
ReadResponse(e) ==
    CASE e.buffer[1] # Header -> FailWith(e, "unexpected multistream header")
      [] e.buffer[1] = Header /\ e.buffer[2] = Token(e.desired) -> Finish(e, e.desired)
      [] e.buffer[1] = Header /\ e.buffer[2] = Na -> FailWith(e, "protocol not supported")
      [] OTHER -> FailWith(e, "unexpected multistream response")

\* negotiate_inbound and the sending of its answer.
FaultyAnswerReset(s, e, supported, ok) ==
    IF e.buffer[1] # Header THEN Result(FailWith(e, "unexpected multistream header"), <<>>)
    ELSE IF ~Writable(e, ok) THEN Result(FailWith(e, "write failed"), <<>>)
    ELSE IF e.buffer[2] \in {Token(x) : x \in supported}
         THEN Result(Says(Finish(e, e.buffer[2].v), <<Header, e.buffer[2]>>),
                     <<Frame(s, "DATA", <<Header, e.buffer[2]>>)>>)
         ELSE Result([Says(FailWith(e, "protocol not supported"), <<Header, Na>>) EXCEPT
                         !.reset = TRUE, !.readClosed = TRUE, !.writeClosed = TRUE],
                     <<Frame(s, "DATA", <<Header, Na>>), Frame(s, "RST", <<>>)>>)
FaultyAnswerSilent(s, e, supported, ok) ==
    IF e.buffer[1] # Header THEN Result(FailWith(e, "unexpected multistream header"), <<>>)
    ELSE IF ~Writable(e, ok) THEN Result(FailWith(e, "write failed"), <<>>)
    ELSE IF e.buffer[2] \in {Token(x) : x \in supported}
         THEN Result(Says(Finish(e, e.buffer[2].v), <<Header, e.buffer[2]>>),
                     <<Frame(s, "DATA", <<Header, e.buffer[2]>>)>>)
         ELSE Result(FailWith(e, "protocol not supported"), <<>>)
AnswerProposal(s, e, supported, ok) ==
    IF e.buffer[1] # Header THEN Result(FailWith(e, "unexpected multistream header"), <<>>)
    ELSE IF ~Writable(e, ok) THEN Result(FailWith(e, "write failed"), <<>>)
    ELSE IF e.buffer[2] \in {Token(x) : x \in supported}
         THEN Result(Says(Finish(e, e.buffer[2].v), <<Header, e.buffer[2]>>),
                     <<Frame(s, "DATA", <<Header, e.buffer[2]>>)>>)
         ELSE Result([Says(FailWith(e, "protocol not supported"), <<Header, Na>>) EXCEPT
                         !.writeClosed = TRUE],
                     <<Frame(s, "DATA", <<Header, Na>>), Frame(s, "FIN", <<>>)>>)

Exchange(s, e, supported, ok) ==
    LET span == Span(e.buffer) IN
    CASE span = "incomplete" -> Result(e, <<>>)
      [] span = "invalid"    -> Result(FailWith(e, "invalid multistream length"), <<>>)
      [] span = "complete" /\ e.stage = "AwaitingOutboundResponse" ->
             Result(ReadResponse(e), <<>>)
      [] OTHER -> AnswerProposal(s, e, supported, ok)

Poll(s, e, supported, ok) ==
    IF e.stage \in {"Ready", "Failed"} THEN Result(e, <<>>)
    ELSE LET a == Propose(s, e, ok)
             b == IF a.e.stage = "Failed" THEN a.e ELSE ReadIn(a.e)
             c == Exchange(s, b, supported, ok)
         IN IF b.stage = "Failed" THEN Result(b, a.out)
            ELSE Result(c.e, a.out \o c.out)

----------------------------------------------------------------------------
(* One side.                                                               *)

Native(p) == p \in conf.native

\* p is not inside poll_once or open_stream.
Quiet(p) == ~inLoop[p] /\ toPoll[p] = {}

\* Whether a write is taken: always, until the other end has hung up.
WriteOutcomes(p) == IF link[Peer(p)] = "up" THEN {TRUE} ELSE BOOLEAN

Polled(p, s, ok) == Poll(s, st[p][s], conf.handlers[p], ok)

SetEnd(p, s, e) == st' = [st EXCEPT ![p][s] = e]
Send(p, frames) == wire' = [wire EXCEPT ![p] = @ \o frames]

\* The callbacks of a YamuxStream use the YamuxSession: a write, and a read
\* that returns something (window update).
Calls(e, r) == r.out # <<>> \/ (e.stage \notin {"Ready", "Failed"} /\ e.rx # <<>>)

----------------------------------------------------------------------------
(* Calls of the application.                                               *)

\* open_stream, which ends with a round of poll_pending_streams.
OpenStream(p, x) ==
    LET s == <<p, opened[p] + 1>> IN
    /\ Native(p) /\ Quiet(p) /\ link[p] = "up"
    /\ s \in Sid
    /\ opened' = [opened EXCEPT ![p] = @ + 1]
    /\ SetEnd(p, s, Outbound(NewYamuxStream, x))
    /\ Send(p, <<Frame(s, "SYN", <<>>)>>)
    /\ pending' = [pending EXCEPT ![p] = @ \cup {s}]
    /\ toPoll'  = [toPoll EXCEPT ![p] = pending[p] \cup {s}]
    /\ UNCHANGED <<conf, link, accepting, inLoop, touched, foreign>>

\* The SYN cannot be written: the caller gets an error and no handle, the
\* yamux session keeps the stream.
OpenStreamFails(p) ==
    LET s == <<p, opened[p] + 1>> IN
    /\ Native(p) /\ Quiet(p) /\ link[p] = "up"
    /\ FALSE \in WriteOutcomes(p)
    /\ s \in Sid
    /\ opened' = [opened EXCEPT ![p] = @ + 1]
    /\ SetEnd(p, s, NewYamuxStream)
    /\ UNCHANGED <<conf, wire, link, accepting, pending, inLoop, toPoll, touched,
                   foreign>>

\* The application may call its handle of s, whose session still exists.
\* After ConnectionClosed it must not: the callbacks would be dangling.
MayCall(p, s) ==
    Native(p) /\ Quiet(p) /\ st[p][s].handle /\ link[p] # "gone"

HandleCall(p, s, e, frames) ==
    /\ SetEnd(p, s, e)
    /\ Send(p, frames)
    /\ UNCHANGED <<conf, opened, link, accepting, pending, inLoop, toPoll, touched,
                   foreign>>

\* try_read: poll, then the bytes left over from the negotiation, then the
\* stream's; here one message at a time.
ReadNext(e) ==
    IF e.appRx # <<>> THEN [e EXCEPT !.got = Append(@, Head(e.appRx)), !.appRx = Tail(@)]
    ELSE IF e.rx # <<>> THEN [e EXCEPT !.got = Append(@, Head(e.rx)), !.rx = Tail(@)]
    ELSE e

TryRead(p, s) ==
    /\ MayCall(p, s)
    /\ \E ok \in WriteOutcomes(p) :
          LET r == Polled(p, s, ok)
              e == IF r.e.stage = "Ready" THEN ReadNext(r.e) ELSE r.e
          IN /\ e # st[p][s]
             /\ HandleCall(p, s, e, r.out)

\* try_write of one message.
TryWrite(p, s) ==
    /\ MayCall(p, s)
    /\ Len(st[p][s].said) < 2 + MaxApp
    /\ \E ok \in WriteOutcomes(p) :
          LET r == Polled(p, s, ok)
              m == App(Len(r.e.said) + 1)
          IN /\ r.e.stage = "Ready" /\ Writable(r.e, ok)
             /\ HandleCall(p, s, Says(r.e, <<m>>), Append(r.out, Frame(s, "DATA", <<m>>)))

CloseWrite(p, s) ==
    /\ MayCall(p, s)
    /\ \E ok \in WriteOutcomes(p) :
          LET r == Polled(p, s, ok) IN
          /\ r.e.stage = "Ready" /\ ~r.e.writeClosed
          /\ HandleCall(p, s, [r.e EXCEPT !.writeClosed = TRUE],
                        Append(r.out, Frame(s, "FIN", <<>>)))

\* reset, at any stage of the negotiation.
Reset(p, s) ==
    LET e == st[p][s] IN
    /\ Failures /\ MayCall(p, s) /\ ~e.reset
    /\ HandleCall(p, s,
                  [e EXCEPT !.stage = "Failed",
                            !.detail = IF @ = "none" THEN "stream reset locally" ELSE @,
                            !.readClosed = TRUE, !.writeClosed = TRUE, !.reset = TRUE,
                            !.rx = <<>>, !.known = FALSE],
                  <<Frame(s, "RST", <<>>)>>)

\* A controller's CloseConnection: close, drain and remove.
CloseConnection(p) ==
    /\ Failures /\ Native(p) /\ Quiet(p) /\ link[p] = "up"
    /\ link' = [link EXCEPT ![p] = "gone"]
    /\ pending' = [pending EXCEPT ![p] = {}]
    /\ UNCHANGED <<conf, opened, st, wire, accepting, inLoop, toPoll, touched, foreign>>

\* stop() destroys the sessions, and keeps pending_streams_.
Stop(p) ==
    /\ Failures /\ Native(p) /\ Quiet(p) /\ link[p] = "up"
    /\ link' = [link EXCEPT ![p] = "gone"]
    /\ UNCHANGED <<conf, opened, st, wire, accepting, pending, inLoop, toPoll,
                   touched, foreign>>

----------------------------------------------------------------------------
(* poll_once.                                                              *)

\* The end of a stream after frame f (handle_frame).
AfterFrame(e, f) ==
    CASE f.kind = "SYN"  -> NewYamuxStream
      [] f.kind = "DATA" -> [e EXCEPT !.rx = @ \o f.body]
      [] f.kind = "FIN"  -> [e EXCEPT !.readClosed = TRUE]
      [] f.kind = "RST"  -> [e EXCEPT !.readClosed = TRUE, !.writeClosed = TRUE,
                                      !.reset = TRUE, !.rx = <<>>, !.known = FALSE]

\* The socket is readable and the next frame is complete.
Receive(p) ==
    /\ Native(p) /\ link[p] = "up" /\ toPoll[p] = {}
    /\ wire[Peer(p)] # <<>>
    /\ LET f == Head(wire[Peer(p)])
           e == st[p][f.s]
       IN /\ st' = IF f.kind = "SYN" \/ e.known
                   THEN [st EXCEPT ![p][f.s] = AfterFrame(e, f)] ELSE st
          /\ accepting' = IF f.kind = "SYN"
                          THEN [accepting EXCEPT ![p] = @ \cup {f.s}] ELSE accepting
    /\ wire'   = [wire EXCEPT ![Peer(p)] = Tail(@)]
    /\ inLoop' = [inLoop EXCEPT ![p] = TRUE]
    /\ UNCHANGED <<conf, opened, link, pending, toPoll, touched, foreign>>

\* End of file: on_socket_readable closes the session and leaves what it has
\* just read unprocessed.
ReceiveEof(p) ==
    /\ Native(p) /\ link[p] = "up" /\ toPoll[p] = {}
    /\ link[Peer(p)] # "up"
    /\ link'   = [link EXCEPT ![p] = "closed"]
    /\ wire'   = [wire EXCEPT ![Peer(p)] = <<>>]
    /\ inLoop' = [inLoop EXCEPT ![p] = TRUE]
    /\ UNCHANGED <<conf, opened, st, accepting, pending, toPoll, touched, foreign>>

\* drain_connection_events, remove_connection, and the start of
\* poll_pending_streams.
FaultyDrainKeeps(p) ==
    LET now == pending[p] \cup accepting[p] IN
    /\ Native(p) /\ toPoll[p] = {}
    /\ inLoop[p] \/ pending[p] # {}
    /\ st' = [st EXCEPT ![p] = [s \in Sid |-> IF s \in accepting[p] THEN Inbound(@[s])
                                             ELSE @[s]]]
    /\ link'    = [link EXCEPT ![p] = IF @ = "closed" THEN "gone" ELSE @]
    /\ pending' = [pending EXCEPT ![p] = now]
    /\ toPoll'  = [toPoll EXCEPT ![p] = now]
    /\ accepting' = [accepting EXCEPT ![p] = {}]
    /\ inLoop'  = [inLoop EXCEPT ![p] = FALSE]
    /\ UNCHANGED <<conf, opened, wire, touched, foreign>>
Drain(p) ==
    LET now == IF link[p] = "closed" THEN {} ELSE pending[p] \cup accepting[p] IN
    /\ Native(p) /\ toPoll[p] = {}
    /\ inLoop[p] \/ pending[p] # {}
    /\ st' = [st EXCEPT ![p] = [s \in Sid |-> IF s \in accepting[p] THEN Inbound(@[s])
                                             ELSE @[s]]]
    /\ link'    = [link EXCEPT ![p] = IF @ = "closed" THEN "gone" ELSE @]
    /\ pending' = [pending EXCEPT ![p] = now]
    /\ toPoll'  = [toPoll EXCEPT ![p] = now]
    /\ accepting' = [accepting EXCEPT ![p] = {}]
    /\ inLoop'  = [inLoop EXCEPT ![p] = FALSE]
    /\ UNCHANGED <<conf, opened, wire, touched, foreign>>

\* What poll_pending_streams reports of an end it has polled: an event, then
\* the protocol's handler if there is one.
Report(p, e) ==
    CASE e.stage = "Failed" -> [e EXCEPT !.reports = Append(@, "ProtocolError")]
      [] e.stage = "Ready"  ->
             IF e.protocol \in conf.handlers[p]
             THEN [e EXCEPT !.reports = @ \o <<"ProtocolNegotiated", "handler">>,
                            !.handle = TRUE]
             ELSE [e EXCEPT !.reports = Append(@, "ProtocolNegotiated")]
      [] OTHER -> e

FaultySettled(e) == e.stage = "Failed"
\* The entry is erased at the end of the round.
Settled(e) == e.stage \in {"Ready", "Failed"}

PollStream(p, s) ==
    /\ s \in toPoll[p]
    /\ \E ok \in WriteOutcomes(p) :
          LET r == Polled(p, s, ok) IN
          /\ SetEnd(p, s, Report(p, r.e))
          /\ Send(p, IF link[p] = "gone" THEN <<>> ELSE r.out)
          /\ pending' = [pending EXCEPT ![p] = IF Settled(r.e) THEN @ \ {s} ELSE @]
          /\ touched' = [touched EXCEPT ![p] =
                            @ \/ (link[p] = "gone" /\ Calls(st[p][s], r))]
    /\ toPoll' = [toPoll EXCEPT ![p] = @ \ {s}]
    /\ UNCHANGED <<conf, opened, link, accepting, inLoop, foreign>>

----------------------------------------------------------------------------
(* External: another implementation at end q of the connection.  It opens  *)
(* streams, sends negotiation messages one by one or together with data,   *)
(* and ends streams and the connection when it likes.                      *)

ForeignBodies(q, s) ==
    {<<Header>>, <<Na>>, <<Bad>>, <<App(Len(st[q][s].said) + 1)>>}
        \cup {<<Token(x)>> : x \in Protocols}

ForeignOpen(q, s) ==
    /\ ~Native(q) /\ link[q] = "up"
    /\ s[1] = q /\ s[2] = opened[q] + 1
    /\ opened' = [opened EXCEPT ![q] = @ + 1]
    /\ Send(q, <<Frame(s, "SYN", <<>>)>>)
    /\ UNCHANGED <<conf, st, link, accepting, pending, inLoop, toPoll, touched, foreign>>

ForeignSend(q, s) ==
    /\ ~Native(q) /\ link[q] = "up" /\ s[2] <= opened[s[1]]
    /\ foreign < MaxForeign /\ Len(wire[q]) < MaxWire
    /\ foreign' = foreign + 1
    /\ \/ \E body \in ForeignBodies(q, s) :
             /\ Send(q, <<Frame(s, "DATA", body)>>)
             /\ SetEnd(q, s, Says(st[q][s], body))
       \/ \E kind \in {"FIN", "RST"} :
             /\ Send(q, <<Frame(s, kind, <<>>)>>)
             /\ UNCHANGED st
    /\ UNCHANGED <<conf, opened, link, accepting, pending, inLoop, toPoll, touched>>

ForeignHangUp(q) ==
    /\ ~Native(q) /\ link[q] = "up"
    /\ link' = [link EXCEPT ![q] = "gone"]
    /\ UNCHANGED <<conf, opened, st, wire, accepting, pending, inLoop, toPoll,
                   touched, foreign>>

----------------------------------------------------------------------------
Application(p) ==
    \/ \E x \in Protocols : OpenStream(p, x)
    \/ OpenStreamFails(p)
    \/ \E s \in Sid : TryRead(p, s) \/ TryWrite(p, s) \/ CloseWrite(p, s) \/ Reset(p, s)
    \/ CloseConnection(p)
    \/ Stop(p)

PollOnce(p) ==
    \/ Receive(p)
    \/ ReceiveEof(p)
    \/ Drain(p)
    \/ \E s \in Sid : PollStream(p, s)

Foreign(q) == ForeignHangUp(q) \/ \E s \in Sid : ForeignOpen(q, s) \/ ForeignSend(q, s)

Next == \E p \in Side : Application(p) \/ PollOnce(p) \/ Foreign(p)

Spec == Init /\ [][Next]_vars

\* poll_once is called for ever: every pending stream is polled, events are
\* drained, and what the peer has sent, or the end of the connection, is
\* delivered and reported by the event loop.
Fairness ==
    \A p \in Side :
        /\ SF_vars(Receive(p))
        /\ SF_vars(ReceiveEof(p))
        /\ WF_vars(Drain(p))
        /\ \A s \in Sid : WF_vars(PollStream(p, s))

FairSpec == Spec /\ Fairness

----------------------------------------------------------------------------
(* Properties.                                                             *)

Said(p, s, x) == SubSeq(st[p][s].said, 1, 2) = <<Header, Token(x)>>

\* Whatever the frames the messages come in, a negotiated protocol is what
\* the opener proposed and the other side has a handler for and accepted; an
\* opener never becomes ready before the other side has.  A refused proposal
\* is refused for the same reason at both ends: the comment at the close_write
\* promises that they "converge on a deterministic 'protocol not supported'
\* error" (poll, read_outbound_response, negotiate_inbound).
ProtocolAgreed ==
    \A s \in Sid :
        LET p == s[1]
            q == Peer(p)
            x == st[p][s].protocol
            y == st[q][s].protocol
        IN /\ (Native(p) /\ x # "none") => x = st[p][s].desired /\ Said(q, s, x)
           /\ (Native(q) /\ y # "none") => y \in conf.handlers[q] /\ Said(p, s, y)
           /\ (Native(q) /\ x # "none") => y = x
           /\ (conf.native = Side /\ st[q][s].detail = "protocol not supported") =>
                 \/ st[p][s].stage = "AwaitingOutboundResponse"
                 \/ st[p][s].detail \in {"protocol not supported", "stream reset locally"}

IsPrefixOf(a, b) == Len(a) <= Len(b) /\ a = SubSeq(b, 1, Len(a))

\* The application reads exactly what the other end wrote after its two
\* negotiation messages, in order, also when it arrived together with them:
\* what it has read and can read is a prefix of it, and all of it once no
\* frame of the stream is in flight (finish_negotiation, app_rx_buffer_).
DataAfterNegotiation ==
    \A p \in conf.native, s \in Sid :
        LET e    == st[p][s]
            said == st[Peer(p)][s].said
            data == SubSeq(said, 3, Len(said))
            have == e.got \o e.appRx \o e.rx
        IN /\ IsPrefixOf(e.got \o e.appRx, data)
           /\ (e.stage = "Ready" /\ ~e.reset /\ link[p] = "up") =>
                 \/ have = data
                 \/ IsPrefixOf(have, data) /\ \E i \in DOMAIN wire[Peer(p)] : wire[Peer(p)][i].s = s

\* However the application's calls on the handle, which advance the same
\* negotiation, mix with the Swarm's polling, the Swarm reports one outcome
\* of a stream and calls a handler once, after ProtocolNegotiated
\* (poll_pending_streams).
OutcomeOnce ==
    \A p \in conf.native, s \in Sid :
        LET r == st[p][s].reports IN
        /\ r \in {<<>>, <<"ProtocolError">>, <<"ProtocolNegotiated">>,
                  <<"ProtocolNegotiated", "handler">>}
        /\ r # <<>> => s \notin pending[p]

\* The Swarm never polls its way into a destroyed session, although stop()
\* leaves pending_streams_ as it is and streams refer to their session by a
\* plain pointer: what could make a poll read or write has been polled before
\* the session goes (poll_once, open_stream, remove_connection, stop).
NoDanglingPoll == \A p \in Side : ~touched[p]

\* Between two ends of this implementation a negotiation ends: a pending
\* stream is reported, or its connection ends (poll, poll_pending_streams).
\* Another implementation can leave it pending for ever; there is no timeout.
StreamSettles ==
    \A p \in Side, s \in Sid :
        (conf.native = Side /\ s \in pending[p])
            ~> (s \notin pending[p] \/ link[p] = "gone")
=============================================================================
