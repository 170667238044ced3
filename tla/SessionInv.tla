----------------------------- MODULE SessionInv -----------------------------
(***************************************************************************)
(* The inductive invariants behind the event story of a session, the check *)
(* of the dialed peer and the nonces (SessionInv), the choice of the muxer *)
(* (MuxerInv), and what arrives on direct streams (DirectInv).             *)
(***************************************************************************)
EXTENDS Session

----------------------------------------------------------------------------
(* Types.                                                                  *)

\* What may stand for a muxer: any name a configuration gives, and the words
\* for no muxer and for an answer that offers none.
Names    == STRING \cup {"none", "na", "yamux"}
Texts    == [t : {"none", "app", "propose", "reply", "syn", "ack"}, m : Names, n : Nat]
Messages == [kind : {"msPropose", "msAccept", "msg1", "msg2", "msg3", "bad", "eof", "enc"},
             nonce : Nat, text : Texts]
Directs  == [id : Nat, open : BOOLEAN, writeOpen : BOOLEAN, closeWritePending : BOOLEAN,
             rx : Seq(Texts)]
Events   == {"Secured", "MultiplexerReady", "StreamOpened", "StreamAccepted", "Error", "Closed"}
Sessions ==
    [state : {"TcpAccepted", "Securing", "Ready", "Failed", "Closed"},
     stage : {"NegotiatingProtocol", "NoiseHandshake", "MuxerNegotiation", "Ready"},
     hs : {"Idle", "AwaitingMsg1", "AwaitingMsg2", "AwaitingMsg3", "Complete"},
     socketOpen : BOOLEAN, writeShutdown : BOOLEAN,
     rx : Seq(Messages), tx : Seq(Messages), net : Seq(Messages), busy : BOOLEAN,
     remotePeer : BOOLEAN, remoteMuxers : Seq(STRING), muxer : Names, yamux : BOOLEAN,
     negotiation : Seq(Texts), sendNonce : Nat, recvNonce : Nat, stream : Directs,
     nextStreamId : Nat, createInbound : BOOLEAN, pending : Nat, opens : Nat,
     events : Seq(Events)]

TypeInv ==
    /\ conf \in [identity : [End -> BOOLEAN], muxers : [End -> Seq(STRING)],
                 expected : {"none", "match", "mismatch", "unreadable"}]
    /\ ep \in [End -> Sessions]
    /\ appSent \in [End -> Nat]
    /\ appGot = [e \in End |-> appGot[e]]
    /\ garbled \in Nat

----------------------------------------------------------------------------
(* The story of one session r at the end e.                                *)

\* Events in an order that the Swarm can follow.
Story(ev) ==
    /\ \A i, j \in DOMAIN ev : i < j =>
          /\ ev[i] # "Closed"
          /\ ev[i] = "Error" => ev[j] = "Closed"
          /\ ev[j] # "Secured"
          /\ ev[j] = "MultiplexerReady" => j = 2 /\ ev[1] = "Secured"
    /\ \A i \in DOMAIN ev : ev[i] \in {"StreamOpened", "StreamAccepted"} =>
          i > 2 /\ ev[2] = "MultiplexerReady"

\* Of a session that is not closed: nothing is told before it is ready.
Told(r) ==
    /\ \A i \in DOMAIN r.events : r.events[i] \notin {"Error", "Closed"}
    /\ r.stage # "Ready" => r.events = <<>>
    /\ r.stage = "Ready" => Len(r.events) >= 2 /\ r.events[2] = "MultiplexerReady"

\* What state, stage and events of a session have to do with each other.
SessionOk(e, r) ==
    /\ r.state # "Failed"
    /\ r.busy => r.state \notin {"Closed", "TcpAccepted"}
    /\ r.state = "TcpAccepted" => r.stage = "NegotiatingProtocol"
    /\ r.state = "Ready" => r.stage = "Ready"
    /\ r.stage = "Ready" => r.state \in {"Ready", "Closed"}
    /\ Story(r.events)
    /\ r.state # "Closed" => Told(r)
    /\ r.state = "Closed" => \E i \in DOMAIN r.events : r.events[i] = "Closed"
    /\ r.stage \in {"MuxerNegotiation", "Ready"} => ExpectedPeerOk(e, r)

StoryInv == \A e \in End : SessionOk(e, ep[e])

\* Every step preserves this conjunction (process_pending_input,
\* complete_ready_state, emit_error, close, encrypt, decrypt, flush_wire).
SessionInv ==
    /\ TypeInv
    /\ StoryInv
    /\ NoncesInStep

----------------------------------------------------------------------------
(* What the configuration alone decides about the muxer.                   *)

\* The initiator's proposal, the responder's answer to it, and what each end
\* selects from the Noise extensions.
Proposal == conf.muxers["ini"][1]
Answer   == IF Proposal \in {conf.muxers["res"][i] : i \in DOMAIN conf.muxers["res"]}
            THEN Proposal ELSE "na"
Offered(e)  == IF conf.identity[Other(e)] THEN conf.muxers[Other(e)] ELSE <<>>
Selected(e) == SelectStreamMuxer(e, [remoteMuxers |-> Offered(e)])

\* Whether the exchange of proposal and answer takes place at e.
Exchange(e) == Selected(e) # "yamux" /\ conf.muxers[e] # <<>>

\* What e may say: only the initiator proposes, only the responder replies.
TextsOf(e) == {t \in Texts : /\ t.t = "propose" => e = "ini" /\ t.m = Proposal
                             /\ t.t = "reply" => e = "res" /\ t.m = Answer}
MessagesOf(e) == {m \in Messages : m.kind = "enc" => m.text \in TextsOf(e)}

SaysOk(e, r) ==
    /\ r.tx \in Seq(MessagesOf(e)) /\ r.net \in Seq(MessagesOf(e))
    /\ r.rx \in Seq(MessagesOf(Other(e)))
    /\ r.negotiation \in Seq(TextsOf(Other(e)))

\* The muxer of a session at each stage.
MuxerOk(e, r) ==
    /\ r.stage # "Ready" => ~r.yamux
    /\ r.stage = "MuxerNegotiation" => Exchange(e) /\ r.muxer = Selected(e)
    /\ r.stage = "Ready" =>
          /\ r.muxer = IF Exchange(e) /\ Answer # "na" THEN Answer ELSE Selected(e)
          /\ r.yamux = IF Exchange(e) THEN Answer = "yamux" ELSE Selected(e) = "yamux"

\* Every step preserves this conjunction (select_stream_muxer,
\* finish_secure_upgrade, process_muxer_negotiation).
MuxerInv == \A e \in End : SaysOk(e, ep[e]) /\ MuxerOk(e, ep[e])
----------------------------------------------------------------------------
(* What arrives on direct streams.  A receiver decrypts the frames of its   *)
(* peer by their nonces, one after the other, so the place of an application *)
(* message among all that were sent is given by the nonce of its frame.      *)

\* The encrypted messages of a queue, and all of e's on their way to its peer.
EncOf(queue) == {queue[i] : i \in Encrypted(queue)}
Outgoing(r)  == EncOf(r.net) \cup EncOf(r.tx)
Frames(e)    == Outgoing(ep[e]) \cup EncOf(ep[Other(e)].rx)

\* A nonce between lo and hi that no frame carries (any more), so that the
\* receiver, which expects lo, never comes to hi: an oversized write used it
\* up, or its frame was damaged or dropped.
Hole(frames, lo, hi) == \E k \in lo .. hi - 1 : \A m \in frames : m.nonce # k

\* With direct streams, e's application messages follow the one message of
\* the muxer negotiation that e sends, if there is one.
IsDirect(e) == IF Exchange(e) THEN Answer # "yamux" ELSE Selected(e) # "yamux"
Base(e)     == IF Exchange(e) THEN 1 ELSE 0

\* The n-th application message of e, with the nonce of its place.
Placed(e, n, nonce) == n + Base(e) = nonce + 1

\* What e has sent and its peer has not read, when its peer expects recv.
Numbered(e, frames, recv, send) ==
    /\ recv <= send
    /\ \A m \in frames :
          /\ m.nonce < send
          /\ (IsDirect(e) /\ m.nonce >= Base(e)) =>
                /\ m.text.t = "app"
                /\ Placed(e, m.text.n, m.nonce) \/ Hole(frames, recv, m.nonce)

\* How many application messages e has sent, as its next nonce has it.
Counted(e, r, sent, frames, recv) ==
    (r.stage = "Ready" /\ IsDirect(e)) =>
        Placed(e, sent + 1, r.sendNonce) \/ Hole(frames, recv, r.sendNonce)

\* A session that is not ready has sent nothing but its proposal.
SendsOk(e, r, sent) ==
    /\ r.stream.open => r.stage = "Ready" /\ ~r.yamux
    /\ r.stage # "Ready" =>
          /\ sent = 0
          /\ r.state # "Closed" =>
                r.sendNonce = IF e = "ini" /\ r.stage = "MuxerNegotiation" THEN 1 ELSE 0

\* What the application at r has got, what it can read next, and the nonce
\* that r expects, are about messages in one order without a gap.
Follows(a, b) ==
    IF a.sid = b.sid THEN b.text.n = a.text.n + 1 ELSE b.text.n > a.text.n

GotOk(e, r, got) ==
    /\ \A i \in DOMAIN got : got[i].text.t = "app"
    /\ \A i \in DOMAIN got : i + 1 \in DOMAIN got => Follows(got[i], got[i + 1])
    /\ got # <<>> =>
          LET last == got[Len(got)]
              next == last.text.n + Len(r.stream.rx) + 1
          IN /\ last.sid < r.nextStreamId
             /\ next + Base(e) <= r.recvNonce + 1
             /\ (last.sid = r.stream.id /\ r.socketOpen) => Placed(e, next, r.recvNonce)

\* Where the first direct stream begins: what is decrypted goes to the buffer
\* of the muxer negotiation as long as the session is not ready, and what is
\* left there then is missing from the stream.
FirstOk(e, r, got) ==
    /\ r.nextStreamId = r.stream.id + 1
    /\ r.stream.id = 0 => ~r.stream.open /\ r.stream.rx = <<>>
    /\ r.stage # "Ready" => r.stream.id = 0 /\ r.recvNonce = Len(r.negotiation)
    /\ (/\ r.stage = "Ready" /\ ~r.yamux /\ r.socketOpen
        /\ got = <<>> /\ r.stream.id <= 1) =>
           r.recvNonce = Base(e) + Len(r.negotiation) + Len(r.stream.rx)
    /\ (got # <<>> /\ got[1].sid = 1) => got[1].text.n = Len(r.negotiation) + 1

ReceivesOk(e, r, got) ==
    /\ got \in Seq([sid : Nat, text : Texts])
    /\ r.busy => r.socketOpen
    /\ ~r.socketOpen => r.stream.rx = <<>>
    /\ (r.stage = "Ready" \/ r.negotiation # <<>>) => r.recvNonce >= Base(e)
    /\ (r.stage # "Ready" \/ r.yamux) => r.stream.rx = <<>> /\ got = <<>>
    /\ FirstOk(e, r, got)
    /\ \A i \in DOMAIN r.stream.rx :
          /\ r.stream.rx[i].t = "app"
          /\ Placed(e, r.stream.rx[i].n + Len(r.stream.rx), r.recvNonce + i - 1)
    /\ GotOk(e, r, got)

\* Every step preserves this conjunction (queue_encrypted_write,
\* process_pending_input, ensure_inbound_stream, DirectMuxedStream).
DirectInv ==
    Compatible => \A e \in End :
        /\ Numbered(e, Frames(e), ep[Other(e)].recvNonce, ep[e].sendNonce)
        /\ Counted(e, ep[e], appSent[e], Frames(e), ep[Other(e)].recvNonce)
        /\ SendsOk(e, ep[e], appSent[e])
        /\ ReceivesOk(e, ep[e], appGot[e])
=============================================================================
