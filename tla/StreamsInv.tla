----------------------------- MODULE StreamsInv -----------------------------
(***************************************************************************)
(* The inductive invariants behind the properties of Streams.  What the    *)
(* Swarm reports and polls rests on where a stream stands in a poll_once   *)
(* (PollInv); what the two ends agree on rests on what one has said, the   *)
(* other has seen and the frames in flight carry (TalkInv).                *)
(***************************************************************************)
EXTENDS Streams

----------------------------------------------------------------------------
(* Types.                                                                  *)

Message == [m : {"header", "token", "na", "bad", "app"}, v : Nat \cup Protocols]
Frames  == [s : Sid, kind : {"SYN", "DATA", "FIN", "RST"}, body : Seq(Message)]
Stages  == {"None", "SendingOutboundProposal", "AwaitingOutboundResponse",
            "AwaitingInboundProposal", "Ready", "Failed"}
Details == {"none", "write failed", "stream closed during protocol negotiation",
            "unexpected multistream header", "protocol not supported",
            "unexpected multistream response", "invalid multistream length",
            "stream reset locally"}
Reports == {<<>>, <<"ProtocolError">>, <<"ProtocolNegotiated">>,
            <<"ProtocolNegotiated", "handler">>}

End == [known : BOOLEAN, rx : Seq(Message), readClosed : BOOLEAN,
        writeClosed : BOOLEAN, reset : BOOLEAN, stage : Stages,
        desired : Protocols \cup {"none"}, buffer : Seq(Message),
        appRx : Seq(Message), protocol : Protocols \cup {"none"}, detail : Details,
        handle : BOOLEAN, reports : Reports, said : Seq(Message), got : Seq(Message)]

TypeInv ==
    /\ conf \in [handlers : [Side -> SUBSET Protocols], native : SUBSET Side]
    /\ opened \in [Side -> Nat]
    /\ st \in [Side -> [Sid -> End]]
    /\ wire \in [Side -> Seq(Frames)]
    /\ link \in [Side -> {"up", "closed", "gone"}]
    /\ accepting \in [Side -> SUBSET Sid]
    /\ pending \in [Side -> SUBSET Sid]
    /\ inLoop \in [Side -> BOOLEAN]
    /\ toPoll \in [Side -> SUBSET Sid]
    /\ touched \in [Side -> BOOLEAN]
    /\ foreign \in Nat

----------------------------------------------------------------------------
(* Where a poll_once stands.                                               *)

\* The negotiation of e is over.
Over(e) == e.stage \in {"Ready", "Failed"}

\* Nothing happens when e is polled and no frame has come: it is over, or it
\* has read all there is and waits for more.
Idle(e) ==
    \/ Over(e)
    \/ /\ e.stage # "SendingOutboundProposal"
       /\ e.rx = <<>>
       /\ Span(e.buffer) = "incomplete"

\* Events are drained before streams are polled, and a round of polling is
\* not interrupted.
Rounds ==
    \A p \in Side :
       /\ toPoll[p] \subseteq pending[p]
       /\ accepting[p] # {} => inLoop[p]
       /\ toPoll[p] # {} => ~inLoop[p]
       /\ link[p] = "closed" => inLoop[p]
       /\ link[p] = "gone" => ~inLoop[p]
       /\ ~Native(p) => /\ toPoll[p] = {} /\ accepting[p] = {} /\ pending[p] = {}
                        /\ ~inLoop[p]

\* A stream that was reported is not polled again, nor accepted again.
ReportedOnce ==
    \A p \in Side, s \in Sid :
       s \in pending[p] \cup accepting[p] => st[p][s].reports = <<>>

\* Outside of event_loop_->poll_once(), what is pending and not just being
\* polled is idle; and so is everything that is left when the session is gone.
PendingIdle ==
    \A p \in Side : \A s \in pending[p] :
       (link[p] = "gone" \/ (~inLoop[p] /\ s \notin toPoll[p])) => Idle(st[p][s])

\* An end that proposes has something to propose.
Asks(e) ==
    e.stage \in {"SendingOutboundProposal", "AwaitingOutboundResponse"} =>
        e.desired \in Protocols
ProposalsNamed == \A p \in Side, s \in Sid : Asks(st[p][s])

\* Every step preserves this conjunction (poll_once, open_stream,
\* poll_pending_streams, remove_connection, stop, the calls on a handle).
PollInv ==
    /\ TypeInv
    /\ Rounds
    /\ ReportedOnce
    /\ PendingIdle
    /\ ProposalsNamed
    /\ NoDanglingPoll

----------------------------------------------------------------------------
(* What the ends of a stream say to each other.  Below, a frame of stream  *)
(* s goes from side a to its peer; w is what a has on the wire, o the end  *)
(* at a, e the end at the peer, up says whether the peer still reads.      *)

\* What e has taken of what the other end said, and how much of it the
\* negotiation used up.
Seen(e) == IF e.protocol = "none" THEN e.buffer \o e.rx ELSE e.got \o (e.appRx \o e.rx)
Skip(e) == IF e.protocol = "none" THEN 0 ELSE 2

IsData(f, s) == f.s = s /\ f.kind = "DATA"

\* The frames of s in w carry the messages of said after the first n, each
\* once and in order; off[i] messages come before the i-th frame.
Places(w, s, said, n, off) ==
    /\ \A i \in DOMAIN w : IsData(w[i], s) =>
          /\ n <= off[i] /\ off[i] + Len(w[i].body) <= Len(said)
          /\ \A k \in DOMAIN w[i].body : w[i].body[k] = said[off[i] + k]
    /\ \A i, j \in DOMAIN w : (i < j /\ IsData(w[i], s) /\ IsData(w[j], s)) =>
          off[i] + Len(w[i].body) <= off[j]
    /\ \A k \in n + 1 .. Len(said) : \E i \in DOMAIN w :
          IsData(w[i], s) /\ off[i] < k /\ k <= off[i] + Len(w[i].body)
Carried(w, s, said, n) ==
    \E off \in [DOMAIN w -> Nat] : Places(w, s, said, n, off)

\* seen is what said holds after the first k messages; when open, the rest is
\* in flight.
Sees(s, said, w, k, seen, open) ==
    /\ k + Len(seen) <= Len(said)
    /\ \A i \in DOMAIN seen : seen[i] = said[k + i]
    /\ open => Carried(w, s, said, k + Len(seen))

\* e has seen the beginning of said, in order; as long as frames reach it,
\* the rest is in flight.
Follows(s, said, w, e, up) == Sees(s, said, w, Skip(e), Seen(e), up /\ ~e.reset)

IsSyn(f, s) == f.s = s /\ f.kind = "SYN"
SynAmong(w, n, s) == \E i \in DOMAIN w : i <= n /\ IsSyn(w[i], s)

\* A SYN goes to an end that has nothing, once, and ahead of other frames.
SynFirst(a, s, w, e, up) ==
    /\ \A i \in DOMAIN w : IsSyn(w[i], s) => s[1] = a /\ e = NoEnd
    /\ \A i, j \in DOMAIN w : IsSyn(w[i], s) /\ IsSyn(w[j], s) => i = j
    /\ (up /\ ~e.known /\ ~e.reset) =>
          \A i \in DOMAIN w : w[i].s = s => SynAmong(w, i, s)

\* Stream s is opened; and a's end of it is more than what a failed
\* open_stream leaves.
Begun(s) == s[2] <= opened[s[1]]
Told(a, s, o) == Begun(s) /\ ((Native(a) /\ s[1] = a) => o.stage # "None")

\* said begins with the header and x.
Names(said, x) == Len(said) >= 2 /\ said[1] = Header /\ said[2] = Token(x)

\* An end of this implementation, whatever its role.
EndOk(e) ==
    /\ e.stage = "None" => /\ e.protocol = "none" /\ e.buffer = <<>>
                           /\ e.said = <<>> /\ ~e.handle
    /\ e.stage # "Failed" => e.detail = "none"
    /\ e.stage = "Ready" => e.protocol # "none"
    /\ e.protocol = "none" => e.got = <<>> /\ e.appRx = <<>>
    /\ e.protocol # "none" => Over(e)
    /\ e.reset => e.rx = <<>> /\ ~e.known

\* The end at the side that opened the stream.
OpenerOk(e) ==
    /\ e.stage # "AwaitingInboundProposal"
    /\ e.said # <<>> => Names(e.said, e.desired)
    /\ e.stage \in {"None", "SendingOutboundProposal"} => e.said = <<>>
    /\ e.stage = "AwaitingOutboundResponse" => e.said # <<>>
    /\ e.protocol # "none" => e.protocol = e.desired /\ e.said # <<>>
    /\ e.detail = "write failed" => e.said = <<>>

\* The end at the side that accepted it, which answers once.
AcceptorOk(a, e) ==
    /\ e.stage \notin {"SendingOutboundProposal", "AwaitingOutboundResponse"}
    /\ e.stage = "AwaitingInboundProposal" => e.said = <<>>
    /\ e.protocol # "none" => e.protocol \in conf.handlers[a] /\ Names(e.said, e.protocol)
    /\ e.protocol = "none" => e.said \in {<<>>, <<Header, Na>>} /\ ~e.handle
    /\ (e.protocol = "none" /\ e.said # <<>>) => e.stage = "Failed"
    /\ e.detail = "protocol not supported" => e.protocol = "none" /\ e.said # <<>>

\* The opener's end e, as long as the acceptor, whose frames are w, has not
\* accepted: it can have failed for few reasons only.
Undecided(s, w, e) ==
    /\ \A i \in DOMAIN w : w[i].s = s => w[i].kind # "RST"
    /\ e.reset \/ e.writeClosed => e.stage = "Failed"
    /\ e.stage = "Failed" =>
          e.detail \in {"write failed", "protocol not supported", "stream reset locally"}

Local(a, s, o) ==
    IF Native(a) THEN EndOk(o) /\ IF s[1] = a THEN OpenerOk(o) ELSE AcceptorOk(a, o)
    ELSE o.protocol = "none"

\* What the end e makes of what the end o at a has said.
Heard(a, s, o, w, e, up) ==
    /\ Follows(s, o.said, w, e, up)
    /\ SynFirst(a, s, w, e, up)
    /\ (up /\ Told(a, s, o) /\ ~e.known /\ ~e.reset) => SynAmong(w, Len(w), s)
    /\ e.protocol # "none" => Names(o.said, e.protocol)
    /\ (s[1] = a /\ e.said # <<>>) => Len(o.said) >= 2

\* One direction of a stream.
Half(a, s, o, w, e, up) ==
    /\ Local(a, s, o)
    /\ Native(Peer(a)) => Heard(a, s, o, w, e, up)
    /\ (Native(a) /\ Native(Peer(a)) /\ s[1] # a /\ o.protocol = "none") =>
          Undecided(s, w, e)

\* A stream that is not opened yet is untouched at both ends.
FreshStreams ==
    \A s \in Sid : ~Begun(s) =>
       \A p \in Side : st[p][s] = NoEnd /\ \A i \in DOMAIN wire[p] : wire[p][i].s # s

\* Pending streams have begun, and accepted ones have not.
Roles ==
    \A p \in Side :
       /\ \A s \in pending[p] : st[p][s].stage # "None"
       /\ \A s \in accepting[p] :
             /\ s[1] = Peer(p) /\ st[p][s].stage = "None"
             /\ st[p][s].known \/ st[p][s].reset

TalkInv ==
    /\ FreshStreams
    /\ Roles
    /\ \A p \in Side, s \in Sid :
          Half(p, s, st[p][s], wire[p], st[Peer(p)][s], link[Peer(p)] = "up")
=============================================================================
