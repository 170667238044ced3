--------------------------- MODULE StreamsProofs ---------------------------
(* Proofs about Streams, from the invariants of StreamsInv.                *)
EXTENDS StreamsInv, TLAPS

LEMMA Sides ==
    /\ Side = {"client", "server"}
    /\ \A p \in Side : Peer(p) \in Side /\ Peer(p) # p /\ Peer(Peer(p)) = p
    /\ \A p, q \in Side : q = p \/ q = Peer(p)
  BY DEF Side, Peer

----------------------------------------------------------------------------
(* The values the operators make.                                          *)

LEMMA MessageType ==
    /\ Header \in Message /\ Na \in Message /\ Bad \in Message
    /\ \A x \in Protocols : Token(x) \in Message /\ Token(x).v = x
    /\ \A i \in Nat : App(i) \in Message
  BY DEF Header, Na, Bad, Token, App, Msg, Message

LEMMA FrameType ==
    ASSUME NEW s \in Sid, NEW body \in Seq(Message), NEW kind \in {"SYN", "DATA", "FIN", "RST"}
    PROVE  /\ Frame(s, kind, body) \in Frames
           /\ <<Frame(s, kind, body)>> \in Seq(Frames)
  BY DEF Frame, Frames

LEMMA NoEndType ==
    /\ NoEnd \in End
    /\ NewYamuxStream \in End
    /\ NewYamuxStream.reports = <<>> /\ NewYamuxStream.stage = "None"
  <1> DEFINE nil == <<>>
  <1>1. nil \in Seq(Message) /\ nil \in Reports
    BY DEF Reports
  <1>2. /\ NoEnd = [known |-> FALSE, rx |-> nil, readClosed |-> FALSE,
                    writeClosed |-> FALSE, reset |-> FALSE, stage |-> "None",
                    desired |-> "none", buffer |-> nil, appRx |-> nil,
                    protocol |-> "none", detail |-> "none", handle |-> FALSE,
                    reports |-> nil, said |-> nil, got |-> nil]
        /\ NoEnd.reports = nil
    BY DEF NoEnd
  <1> HIDE DEF nil
  <1>3. NoEnd \in End
    BY <1>1, <1>2 DEF End, Stages, Details
  <1>4. /\ NewYamuxStream \in End
        /\ NewYamuxStream.reports = nil /\ NewYamuxStream.stage = "None"
    BY <1>2, <1>3 DEF NewYamuxStream, End
  <1> QED BY <1>3, <1>4 DEF nil

LEMMA SaysType ==
    ASSUME NEW e \in End, NEW body \in Seq(Message)
    PROVE  Says(e, body) \in End
  <1> DEFINE x == e.said \o body
  <1>1. x \in Seq(Message)
    BY DEF End
  <1>2. Says(e, body) = [e EXCEPT !.said = x]
    BY DEF Says, End
  <1> HIDE DEF x
  <1> QED BY <1>1, <1>2 DEF End

LEMMA FailWithType ==
    ASSUME NEW e \in End, NEW why \in Details
    PROVE  FailWith(e, why) \in End
  BY DEF FailWith, End, Stages

LEMMA FinishType ==
    ASSUME NEW e \in End, NEW x \in Protocols, Len(e.buffer) >= 2
    PROVE  Finish(e, x) \in End
  <1> DEFINE rest == e.appRx \o SubSeq(e.buffer, 3, Len(e.buffer))
  <1>1. rest \in Seq(Message)
    <2>1. e.buffer \in Seq(Message) /\ e.appRx \in Seq(Message)
      BY DEF End
    <2>2. SubSeq(e.buffer, 3, Len(e.buffer)) \in Seq(Message)
      BY <2>1
    <2> QED BY <2>1, <2>2
  <1> DEFINE nil == <<>>
  <1>2. /\ Finish(e, x) = [e EXCEPT !.stage = "Ready", !.protocol = x, !.buffer = nil,
                                    !.appRx = rest]
        /\ nil \in Seq(Message)
    BY DEF Finish, End
  <1> HIDE DEF rest, nil
  <1> QED BY <1>1, <1>2 DEF End, Stages

LEMMA ReadInType ==
    ASSUME NEW e \in End
    PROVE  ReadIn(e) \in End
  <1> DEFINE b == e.buffer \o e.rx
             nil == <<>>
             a == [e EXCEPT !.buffer = b, !.rx = nil]
  <1>1. b \in Seq(Message) /\ nil \in Seq(Message)
    BY DEF End
  <1>2. ReadIn(e) \in {a, FailWith(a, "stream closed during protocol negotiation")}
    BY DEF ReadIn, End
  <1> HIDE DEF b, nil
  <1>3. a \in End
    BY <1>1 DEF End
  <1> HIDE DEF a
  <1> QED BY <1>2, <1>3, FailWithType DEF Details

----------------------------------------------------------------------------
(* poll() as a whole.                                                      *)

\* What a poll leaves alone.
SameHandle(e, f) ==
    /\ f.reports = e.reports /\ f.handle = e.handle
    /\ f.known = e.known /\ f.desired = e.desired

\* The outcomes of finish_negotiation and of a failure.
LEMMA FinishFacts ==
    ASSUME NEW e \in End, NEW x \in Protocols, Len(e.buffer) >= 2, NEW f, f = Finish(e, x)
    PROVE  f \in End /\ SameHandle(e, f) /\ f.stage = "Ready"
  <1>1. SameHandle(e, f) /\ f.stage = "Ready"
    BY DEF Finish, SameHandle, End
  <1> QED BY <1>1, FinishType

LEMMA FailFacts ==
    ASSUME NEW e \in End, NEW why \in Details, NEW f, f = FailWith(e, why)
    PROVE  f \in End /\ SameHandle(e, f) /\ f.stage = "Failed"
  BY FailWithType DEF FailWith, SameHandle, End

LEMMA SaysFacts ==
    ASSUME NEW e \in End, NEW body \in Seq(Message), NEW f, f = Says(e, body)
    PROVE  f \in End /\ SameHandle(e, f) /\ f.stage = e.stage
  <1>1. SameHandle(e, f) /\ f.stage = e.stage
    BY DEF Says, SameHandle, End
  <1> QED BY <1>1, SaysType

\* The frames of a proposal or an acceptance, of a refusal, and none.
AcceptFrames(s, x) == <<Frame(s, "DATA", <<Header, Token(x)>>)>>
RefuseFrames(s) == <<Frame(s, "DATA", <<Header, Na>>), Frame(s, "FIN", <<>>)>>
NoFrames == <<>>
ProposedEnd(e) ==
    [Says(e, <<Header, Token(e.desired)>>) EXCEPT !.stage = "AwaitingOutboundResponse"]

LEMMA ProposeCases ==
    ASSUME NEW s, NEW e, NEW ok
    PROVE  LET r == Propose(s, e, ok) IN
           \/ e.stage # "SendingOutboundProposal" /\ r = Result(e, NoFrames)
           \/ /\ e.stage = "SendingOutboundProposal" /\ Writable(e, ok)
              /\ r = Result(ProposedEnd(e), AcceptFrames(s, e.desired))
           \/ /\ e.stage = "SendingOutboundProposal" /\ ~Writable(e, ok)
              /\ r = Result(FailWith(e, "write failed"), NoFrames)
  <1>1. CASE e.stage # "SendingOutboundProposal"
    BY <1>1 DEF Propose, NoFrames
  <1>2. CASE e.stage = "SendingOutboundProposal" /\ Writable(e, ok)
    BY <1>2 DEF Propose, ProposedEnd, AcceptFrames
  <1>3. CASE e.stage = "SendingOutboundProposal" /\ ~Writable(e, ok)
    BY <1>3 DEF Propose, NoFrames
  <1> QED BY <1>1, <1>2, <1>3

LEMMA ProposedFacts ==
    ASSUME NEW s \in Sid, NEW e \in End, e.desired \in Protocols
    PROVE  /\ AcceptFrames(s, e.desired) \in Seq(Frames)
           /\ ProposedEnd(e) \in End /\ SameHandle(e, ProposedEnd(e))
           /\ ProposedEnd(e).stage = "AwaitingOutboundResponse"
  <1> DEFINE body == <<Header, Token(e.desired)>>
             f == Says(e, body)
             g == [f EXCEPT !.stage = "AwaitingOutboundResponse"]
  <1>1. body \in Seq(Message)
    BY MessageType
  <1>2. AcceptFrames(s, e.desired) \in Seq(Frames)
    BY <1>1, FrameType DEF AcceptFrames
  <1>3. ProposedEnd(e) = g
    BY DEF ProposedEnd
  <1> HIDE DEF body
  <1>4. f \in End /\ SameHandle(e, f)
    BY <1>1, SaysFacts
  <1> HIDE DEF f
  <1>5. g \in End /\ SameHandle(f, g) /\ g.stage = "AwaitingOutboundResponse"
    BY <1>4 DEF End, Stages, SameHandle
  <1> HIDE DEF g
  <1> QED BY <1>2, <1>3, <1>4, <1>5 DEF SameHandle

LEMMA ProposeFacts ==
    ASSUME NEW s \in Sid, NEW e \in End, NEW ok, Asks(e)
    PROVE  LET r == Propose(s, e, ok) IN
           /\ r.e \in End /\ r.out \in Seq(Frames) /\ SameHandle(e, r.e) /\ Asks(r.e)
           /\ r.e.stage # "SendingOutboundProposal"
           /\ r.e.stage \in {e.stage, "Failed", "AwaitingOutboundResponse"}
           /\ e.stage # "SendingOutboundProposal" => r.e = e /\ r.out = NoFrames
  <1> DEFINE r == Propose(s, e, ok)
  <1>1. NoFrames \in Seq(Frames)
    BY DEF NoFrames
  <1>2. CASE e.stage # "SendingOutboundProposal"
    <2>1. r = Result(e, NoFrames)
      BY <1>2, ProposeCases
    <2>2. r.e = e /\ r.out = NoFrames
      BY <2>1 DEF Result
    <2> QED BY <1>1, <1>2, <2>2 DEF SameHandle
  <1>3. CASE e.stage = "SendingOutboundProposal" /\ Writable(e, ok)
    <2>1. r = Result(ProposedEnd(e), AcceptFrames(s, e.desired))
      BY <1>3, ProposeCases
    <2>2. r.e = ProposedEnd(e) /\ r.out = AcceptFrames(s, e.desired)
      BY <2>1 DEF Result
    <2>3. e.desired \in Protocols
      BY <1>3 DEF Asks
    <2> HIDE DEF r
    <2>4. Asks(ProposedEnd(e))
      BY <2>3, ProposedFacts DEF Asks, SameHandle
    <2> USE DEF r
    <2> QED BY <1>3, <2>2, <2>3, <2>4, ProposedFacts
  <1>4. CASE e.stage = "SendingOutboundProposal" /\ ~Writable(e, ok)
    <2> DEFINE f == FailWith(e, "write failed")
    <2>1. r = Result(f, NoFrames)
      BY <1>4, ProposeCases
    <2>2. f \in End /\ SameHandle(e, f) /\ f.stage = "Failed"
      BY FailFacts DEF Details
    <2> HIDE DEF f, r
    <2>3. r.e = f /\ r.out = NoFrames
      BY <2>1 DEF Result
    <2> QED BY <1>1, <1>4, <2>2, <2>3 DEF Asks, r
  <1> QED BY <1>2, <1>3, <1>4

LEMMA ReadInFacts ==
    ASSUME NEW e \in End, NEW f, f = ReadIn(e)
    PROVE  /\ f \in End /\ SameHandle(e, f) /\ f.rx = <<>>
           /\ f.stage \in {e.stage, "Failed"}
           /\ f.desired = e.desired
  <1> DEFINE nil == <<>>
             b == e.buffer \o e.rx
             a == [e EXCEPT !.buffer = b, !.rx = nil]
             c == [a EXCEPT !.stage = "Failed",
                            !.detail = "stream closed during protocol negotiation"]
  <1>1. f = a \/ f = c
    BY DEF ReadIn, FailWith, End
  <1>2. f \in End
    BY ReadInType
  <1> HIDE DEF nil, b
  <1>3. SameHandle(e, a) /\ a.rx = nil /\ a.stage = e.stage /\ a.desired = e.desired
    BY DEF End, SameHandle
  <1>4. SameHandle(e, c) /\ c.rx = nil /\ c.stage = "Failed" /\ c.desired = e.desired
    BY DEF End, SameHandle
  <1> HIDE DEF a, c
  <1> QED BY <1>1, <1>2, <1>3, <1>4 DEF nil


\* A complete exchange is two messages.
LEMMA SpanFacts ==
    ASSUME NEW b \in Seq(Message), Span(b) = "complete"
    PROVE  Len(b) >= 2 /\ b[1] \in Message /\ b[2] \in Message /\ b[1] # Bad /\ b[2] # Bad
  <1>1. Len(b) \in Nat /\ ~(Len(b) < 2)
    BY DEF Span
  <1>2. 1 \in DOMAIN b /\ 2 \in DOMAIN b
    BY <1>1
  <1> QED BY <1>1, <1>2 DEF Span

LEMMA ResponseCases ==
    ASSUME NEW e
    PROVE  \/ /\ e.buffer[1] = Header /\ e.buffer[2] = Token(e.desired)
              /\ ReadResponse(e) = Finish(e, e.desired)
           \/ /\ e.buffer[1] = Header /\ e.buffer[2] = Na
              /\ ReadResponse(e) = FailWith(e, "protocol not supported")
           \/ /\ e.buffer[1] # Header
              /\ ReadResponse(e) = FailWith(e, "unexpected multistream header")
           \/ /\ e.buffer[1] = Header /\ e.buffer[2] \notin {Token(e.desired), Na}
              /\ ReadResponse(e) = FailWith(e, "unexpected multistream response")
  <1> DEFINE head == e.buffer[1]
             answer == e.buffer[2]
  <1>1. ReadResponse(e) =
          CASE head # Header -> FailWith(e, "unexpected multistream header")
            [] head = Header /\ answer = Token(e.desired) -> Finish(e, e.desired)
            [] head = Header /\ answer = Na -> FailWith(e, "protocol not supported")
            [] OTHER -> FailWith(e, "unexpected multistream response")
    BY DEF ReadResponse
  <1>2. Token(e.desired) # Na
    BY DEF Token, Na, Msg
  <1> HIDE DEF head, answer
  <1>3. CASE head # Header
    BY <1>1, <1>3 DEF head
  <1>4. CASE head = Header /\ answer = Token(e.desired)
    BY <1>1, <1>2, <1>4 DEF head, answer
  <1>5. CASE head = Header /\ answer = Na
    BY <1>1, <1>2, <1>5 DEF head, answer
  <1>6. CASE head = Header /\ answer # Token(e.desired) /\ answer # Na
    BY <1>1, <1>6 DEF head, answer
  <1> QED BY <1>3, <1>4, <1>5, <1>6

LEMMA ResponseFacts ==
    ASSUME NEW e \in End, e.desired \in Protocols, Span(e.buffer) = "complete"
    PROVE  LET f == ReadResponse(e) IN f \in End /\ SameHandle(e, f) /\ Over(f)
  <1>1. Len(e.buffer) >= 2
    BY SpanFacts DEF End
  <1>2. \/ ReadResponse(e) = Finish(e, e.desired)
        \/ \E why \in Details : ReadResponse(e) = FailWith(e, why)
    BY ResponseCases DEF Details
  <1> QED BY <1>1, <1>2, FinishFacts, FailFacts DEF Over

\* What answers a proposal: acceptance, refusal, or a failure without a word.
Accepts(e, ok, supported, x) ==
    /\ e.buffer[1] = Header /\ Writable(e, ok)
    /\ x \in supported /\ e.buffer[2] = Token(x)
Refuses(e, ok) == e.buffer[1] = Header /\ Writable(e, ok)
AcceptedEnd(e, x) == Says(Finish(e, x), <<Header, Token(x)>>)
RefusedEnd(e) ==
    [Says(FailWith(e, "protocol not supported"), <<Header, Na>>) EXCEPT !.writeClosed = TRUE]

LEMMA AnswerCases ==
    ASSUME NEW s, NEW e, NEW ok, NEW supported \in SUBSET Protocols
    PROVE  LET r == AnswerProposal(s, e, supported, ok) IN
           \/ \E x \in supported :
                 /\ Accepts(e, ok, supported, x)
                 /\ r = Result(AcceptedEnd(e, x), AcceptFrames(s, x))
           \/ Refuses(e, ok) /\ r = Result(RefusedEnd(e), RefuseFrames(s))
           \/ \E why \in {"unexpected multistream header", "write failed"} :
                 r = Result(FailWith(e, why), NoFrames)
  <1>1. CASE e.buffer[1] # Header
    BY <1>1 DEF AnswerProposal, NoFrames
  <1>2. CASE e.buffer[1] = Header /\ ~Writable(e, ok)
    BY <1>2 DEF AnswerProposal, NoFrames
  <1>3. CASE /\ e.buffer[1] = Header /\ Writable(e, ok)
             /\ \E x \in supported : e.buffer[2] = Token(x)
    <2>1. PICK x \in supported : e.buffer[2] = Token(x)
      BY <1>3
    <2>2. Token(x).v = x
      BY MessageType
    <2>3. AnswerProposal(s, e, supported, ok) = Result(AcceptedEnd(e, x), AcceptFrames(s, x))
      BY <1>3, <2>1, <2>2 DEF AnswerProposal, AcceptedEnd, AcceptFrames
    <2> QED BY <1>3, <2>1, <2>3 DEF Accepts
  <1>4. CASE /\ e.buffer[1] = Header /\ Writable(e, ok)
             /\ ~\E x \in supported : e.buffer[2] = Token(x)
    BY <1>4 DEF AnswerProposal, Refuses, RefusedEnd, RefuseFrames
  <1> QED BY <1>1, <1>2, <1>3, <1>4

LEMMA AcceptFacts ==
    ASSUME NEW s \in Sid, NEW e \in End, NEW x \in Protocols, Len(e.buffer) >= 2
    PROVE  /\ AcceptFrames(s, x) \in Seq(Frames)
           /\ AcceptedEnd(e, x) \in End /\ SameHandle(e, AcceptedEnd(e, x))
           /\ AcceptedEnd(e, x).stage = "Ready"
  <1> DEFINE body == <<Header, Token(x)>>
             f == Finish(e, x)
             g == Says(f, body)
  <1>1. body \in Seq(Message)
    BY MessageType
  <1>2. AcceptFrames(s, x) \in Seq(Frames)
    BY <1>1, FrameType DEF AcceptFrames
  <1> HIDE DEF body
  <1>3. f \in End /\ SameHandle(e, f) /\ f.stage = "Ready"
    BY FinishFacts
  <1> HIDE DEF f
  <1>4. g \in End /\ SameHandle(f, g) /\ g.stage = f.stage
    BY <1>1, <1>3, SaysFacts
  <1>5. AcceptedEnd(e, x) = g
    BY DEF AcceptedEnd, f, body
  <1> HIDE DEF g
  <1> QED BY <1>2, <1>3, <1>4, <1>5 DEF SameHandle

LEMMA RefuseFacts ==
    ASSUME NEW s \in Sid, NEW e \in End
    PROVE  /\ RefuseFrames(s) \in Seq(Frames)
           /\ RefusedEnd(e) \in End /\ SameHandle(e, RefusedEnd(e))
           /\ RefusedEnd(e).stage = "Failed"
  <1> DEFINE body == <<Header, Na>>
             nil == <<>>
             f == FailWith(e, "protocol not supported")
             g == Says(f, body)
             h == [g EXCEPT !.writeClosed = TRUE]
  <1>1. body \in Seq(Message) /\ nil \in Seq(Message)
    BY MessageType
  <1>2. RefuseFrames(s) = <<Frame(s, "DATA", body), Frame(s, "FIN", nil)>>
    BY DEF RefuseFrames
  <1>3. RefusedEnd(e) = h
    BY DEF RefusedEnd
  <1> HIDE DEF body, nil
  <1>4. Frame(s, "DATA", body) \in Frames /\ Frame(s, "FIN", nil) \in Frames
    BY <1>1, FrameType
  <1>5. RefuseFrames(s) \in Seq(Frames)
    BY <1>2, <1>4
  <1>6. f \in End /\ SameHandle(e, f) /\ f.stage = "Failed"
    BY FailFacts DEF Details
  <1> HIDE DEF f
  <1>7. g \in End /\ SameHandle(f, g) /\ g.stage = f.stage
    BY <1>1, <1>6, SaysFacts
  <1> HIDE DEF g
  <1>8. h \in End /\ SameHandle(g, h) /\ h.stage = g.stage
    BY <1>7 DEF End, SameHandle
  <1> HIDE DEF h
  <1> QED BY <1>3, <1>5, <1>6, <1>7, <1>8 DEF SameHandle

LEMMA AnswerFacts ==
    ASSUME NEW s \in Sid, NEW e \in End, NEW ok, NEW supported \in SUBSET Protocols,
           Span(e.buffer) = "complete"
    PROVE  LET r == AnswerProposal(s, e, supported, ok) IN
           r.e \in End /\ r.out \in Seq(Frames) /\ SameHandle(e, r.e) /\ Over(r.e)
  <1> DEFINE r == AnswerProposal(s, e, supported, ok)
  <1>1. Len(e.buffer) >= 2
    BY SpanFacts DEF End
  <1>2. PICK f, out : /\ r = Result(f, out)
                      /\ \/ \E x \in supported : f = AcceptedEnd(e, x) /\ out = AcceptFrames(s, x)
                         \/ f = RefusedEnd(e) /\ out = RefuseFrames(s)
                         \/ /\ f \in {FailWith(e, why) : why \in Details}
                            /\ out = NoFrames
    <2>1. CASE \E x \in supported : r = Result(AcceptedEnd(e, x), AcceptFrames(s, x))
      BY <2>1
    <2>2. CASE r = Result(RefusedEnd(e), RefuseFrames(s))
      BY <2>2
    <2>3. CASE \E why \in {"unexpected multistream header", "write failed"} :
                  r = Result(FailWith(e, why), NoFrames)
      <3>1. PICK why \in Details : r = Result(FailWith(e, why), NoFrames)
        BY <2>3 DEF Details
      <3>2. FailWith(e, why) \in {FailWith(e, w) : w \in Details}
        OBVIOUS
      <3> QED BY <3>1, <3>2
    <2>4. \/ \E x \in supported : r = Result(AcceptedEnd(e, x), AcceptFrames(s, x))
          \/ r = Result(RefusedEnd(e), RefuseFrames(s))
          \/ \E why \in {"unexpected multistream header", "write failed"} :
                r = Result(FailWith(e, why), NoFrames)
      BY AnswerCases
    <2> HIDE DEF r
    <2> QED BY <2>1, <2>2, <2>3, <2>4
  <1> HIDE DEF r
  <1>3. r.e = f /\ r.out = out
    BY <1>2 DEF Result
  <1>4. f \in End /\ out \in Seq(Frames) /\ SameHandle(e, f) /\ Over(f)
    <2>1. CASE \E x \in supported : f = AcceptedEnd(e, x) /\ out = AcceptFrames(s, x)
      BY <1>1, <2>1, AcceptFacts DEF Over
    <2>2. CASE f = RefusedEnd(e) /\ out = RefuseFrames(s)
      BY <2>2, RefuseFacts DEF Over
    <2>3. CASE f \in {FailWith(e, why) : why \in Details} /\ out = NoFrames
      <3>1. NoFrames \in Seq(Frames)
        BY DEF NoFrames
      <3> QED BY <2>3, <3>1, FailFacts DEF Over
    <2> QED BY <1>2, <2>1, <2>2, <2>3
  <1> USE DEF r
  <1> QED BY <1>3, <1>4

\* What the loop of poll() does with whole messages.
LEMMA ExchangeFacts ==
    ASSUME NEW s \in Sid, NEW e \in End, NEW ok, NEW supported \in SUBSET Protocols,
           Asks(e), e.stage # "SendingOutboundProposal", e.rx = <<>>
    PROVE  LET r == Exchange(s, e, supported, ok) IN
           /\ r.e \in End /\ r.out \in Seq(Frames) /\ SameHandle(e, r.e)
           /\ Idle(r.e) /\ Asks(r.e)
           /\ Span(e.buffer) = "incomplete" => r = Result(e, NoFrames)
  <1> DEFINE r == Exchange(s, e, supported, ok)
             answer == AnswerProposal(s, e, supported, ok)
  <1>1. NoFrames \in Seq(Frames)
    BY DEF NoFrames
  <1>2. Span(e.buffer) \in {"incomplete", "invalid", "complete"}
    BY DEF Span
  <1>3. CASE Span(e.buffer) = "incomplete"
    <2>1. r = Result(e, NoFrames)
      BY <1>3 DEF Exchange, NoFrames
    <2>2. r.e = e /\ r.out = NoFrames
      BY <2>1 DEF Result
    <2> HIDE DEF r
    <2>3. Idle(e)
      BY <1>3 DEF Idle
    <2> QED BY <1>1, <2>1, <2>2, <2>3 DEF SameHandle, r
  <1>4. CASE Span(e.buffer) = "invalid"
    <2> DEFINE f == FailWith(e, "invalid multistream length")
    <2>1. r = Result(f, NoFrames)
      BY <1>4 DEF Exchange, NoFrames
    <2>2. f \in End /\ SameHandle(e, f) /\ f.stage = "Failed"
      BY FailFacts DEF Details
    <2> HIDE DEF f, r
    <2>3. r.e = f /\ r.out = NoFrames
      BY <2>1 DEF Result
    <2> QED BY <1>1, <1>4, <2>2, <2>3 DEF Idle, Over, Asks, r
  <1>5. CASE Span(e.buffer) = "complete" /\ e.stage = "AwaitingOutboundResponse"
    <2>1. r = Result(ReadResponse(e), NoFrames)
      BY <1>5 DEF Exchange, NoFrames
    <2>2. r.e = ReadResponse(e) /\ r.out = NoFrames
      BY <2>1 DEF Result
    <2> HIDE DEF r
    <2>3. e.desired \in Protocols
      BY <1>5 DEF Asks
    <2>4. r.e \in End /\ SameHandle(e, r.e) /\ Over(r.e)
      BY <1>5, <2>2, <2>3, ResponseFacts
    <2> QED BY <1>1, <1>5, <2>2, <2>4 DEF Idle, Asks, Over, r
  <1>6. CASE Span(e.buffer) = "complete" /\ e.stage # "AwaitingOutboundResponse"
    <2>1. r = answer
      BY <1>6 DEF Exchange
    <2>2. /\ answer.e \in End /\ answer.out \in Seq(Frames)
          /\ SameHandle(e, answer.e) /\ Over(answer.e)
      BY <1>6, AnswerFacts
    <2> HIDE DEF r, answer
    <2> QED BY <1>6, <2>1, <2>2 DEF Idle, Asks, Over, r
  <1> QED BY <1>2, <1>3, <1>4, <1>5, <1>6

\* The three parts of poll().
LEMMA PollParts ==
    ASSUME NEW s, NEW e, NEW supported, NEW ok
    PROVE  LET a == Propose(s, e, ok)
               b == ReadIn(a.e)
               c == Exchange(s, b, supported, ok)
               r == Poll(s, e, supported, ok)
           IN \/ Over(e) /\ r = Result(e, NoFrames)
              \/ ~Over(e) /\ a.e.stage = "Failed" /\ r = Result(a.e, a.out)
              \/ ~Over(e) /\ a.e.stage # "Failed" /\ b.stage = "Failed" /\ r = Result(b, a.out)
              \/ /\ ~Over(e) /\ a.e.stage # "Failed" /\ b.stage # "Failed"
                 /\ r = Result(c.e, a.out \o c.out)
  <1> DEFINE a == Propose(s, e, ok)
             b == ReadIn(a.e)
             c == Exchange(s, b, supported, ok)
             r == Poll(s, e, supported, ok)
  <1>1. CASE Over(e)
    BY <1>1 DEF Poll, Over, NoFrames
  <1>2. CASE ~Over(e) /\ a.e.stage = "Failed"
    BY <1>2 DEF Poll, Over
  <1>3. CASE ~Over(e) /\ a.e.stage # "Failed" /\ b.stage = "Failed"
    BY <1>3 DEF Poll, Over
  <1>4. CASE ~Over(e) /\ a.e.stage # "Failed" /\ b.stage # "Failed"
    BY <1>4 DEF Poll, Over
  <1> QED BY <1>1, <1>2, <1>3, <1>4

\* A poll keeps what the application and the reports see, and leaves an end
\* that is idle.
LEMMA PollFacts ==
    ASSUME NEW s \in Sid, NEW e \in End, NEW ok, NEW supported \in SUBSET Protocols, Asks(e)
    PROVE  LET r == Poll(s, e, supported, ok) IN
           /\ r.e \in End /\ r.out \in Seq(Frames) /\ SameHandle(e, r.e)
           /\ Asks(r.e) /\ Idle(r.e)
  <1> DEFINE a == Propose(s, e, ok)
             b == ReadIn(a.e)
             c == Exchange(s, b, supported, ok)
             r == Poll(s, e, supported, ok)
  <1>1. NoFrames \in Seq(Frames)
    BY DEF NoFrames
  <1>2. /\ a.e \in End /\ a.out \in Seq(Frames) /\ SameHandle(e, a.e) /\ Asks(a.e)
        /\ a.e.stage # "SendingOutboundProposal"
    BY ProposeFacts
  <1>3. /\ b \in End /\ SameHandle(a.e, b) /\ b.rx = <<>> /\ b.stage \in {a.e.stage, "Failed"}
    <2> HIDE DEF a
    <2> QED BY <1>2, ReadInFacts
  <1>4. Asks(b) /\ b.stage # "SendingOutboundProposal"
    <2> HIDE DEF a, b
    <2> QED BY <1>2, <1>3 DEF Asks, SameHandle
  <1>5. /\ c.e \in End /\ c.out \in Seq(Frames) /\ SameHandle(b, c.e)
        /\ Idle(c.e) /\ Asks(c.e)
    <2> HIDE DEF a, b
    <2> QED BY <1>3, <1>4, ExchangeFacts
  <1>6. PICK f, out :
          /\ r = Result(f, out)
          /\ \/ Over(e) /\ f = e /\ out = NoFrames
             \/ a.e.stage = "Failed" /\ f = a.e /\ out = a.out
             \/ b.stage = "Failed" /\ f = b /\ out = a.out
             \/ f = c.e /\ out = a.out \o c.out
    BY PollParts
  <1> HIDE DEF a, b, c, r
  <1>7. r.e = f /\ r.out = out
    BY <1>6 DEF Result
  <1>8. f \in End /\ out \in Seq(Frames) /\ SameHandle(e, f) /\ Asks(f) /\ Idle(f)
    <2>1. CASE Over(e) /\ f = e /\ out = NoFrames
      BY <1>1, <2>1 DEF SameHandle, Idle
    <2>2. CASE a.e.stage = "Failed" /\ f = a.e /\ out = a.out
      BY <1>2, <2>2 DEF Idle, Over
    <2>3. CASE b.stage = "Failed" /\ f = b /\ out = a.out
      BY <1>2, <1>3, <1>4, <2>3 DEF Idle, Over, SameHandle
    <2>4. CASE f = c.e /\ out = a.out \o c.out
      <3>1. a.out \o c.out \in Seq(Frames)
        BY <1>2, <1>5
      <3> QED BY <1>2, <1>3, <1>5, <2>4, <3>1 DEF SameHandle
    <2> QED BY <1>6, <2>1, <2>2, <2>3, <2>4
  <1> USE DEF r
  <1> QED BY <1>7, <1>8

\* Polling an idle end calls nothing.
LEMMA IdlePolled ==
    ASSUME NEW s \in Sid, NEW e \in End, NEW ok, NEW supported \in SUBSET Protocols, Asks(e),
           Idle(e)
    PROVE  LET r == Poll(s, e, supported, ok) IN r.out = NoFrames /\ ~Calls(e, r)
  <1> DEFINE a == Propose(s, e, ok)
             b == ReadIn(a.e)
             c == Exchange(s, b, supported, ok)
             r == Poll(s, e, supported, ok)
             nil == <<>>
  <1>1. CASE Over(e)
    <2>1. r = Result(e, NoFrames)
      BY <1>1, PollParts
    <2>2. r.out = NoFrames
      BY <2>1 DEF Result
    <2> QED BY <1>1, <2>2 DEF Calls, Over, NoFrames
  <1>2. CASE ~Over(e)
    <2>1. /\ e.stage # "SendingOutboundProposal" /\ e.rx = nil
          /\ Span(e.buffer) = "incomplete"
      BY <1>2 DEF Idle
    <2>2. a.e = e /\ a.out = NoFrames
      BY <2>1, ProposeFacts
    <2>3. b = ReadIn(e)
      BY <2>2
    <2>4. b \in End /\ b.rx = nil /\ b.stage \in {e.stage, "Failed"} /\ SameHandle(e, b)
      BY <2>3, ReadInFacts
    <2>5. b.buffer = e.buffer
      <3>1. e.buffer \o e.rx = e.buffer
        BY <2>1 DEF End
      <3> DEFINE f == [e EXCEPT !.buffer = e.buffer \o e.rx, !.rx = nil]
      <3>2. b = f \/ b = FailWith(f, "stream closed during protocol negotiation")
        BY <2>3 DEF ReadIn
      <3>3. f.buffer = e.buffer \o e.rx /\ f \in End
        <4>1. nil \in Seq(Message)
          OBVIOUS
        <4> HIDE DEF nil
        <4> QED BY <3>1, <4>1 DEF End
      <3> HIDE DEF f, b
      <3> QED BY <3>1, <3>2, <3>3 DEF FailWith, End
    <2>6. c = Result(b, NoFrames)
      <3>1. Asks(b) /\ b.stage # "SendingOutboundProposal" /\ b.rx = <<>>
        BY <2>1, <2>4 DEF Asks, SameHandle
      <3> HIDE DEF a, b
      <3> QED BY <2>1, <2>4, <2>5, <3>1, ExchangeFacts
    <2>7. c.out = NoFrames
      BY <2>6 DEF Result
    <2>8. a.out \o c.out = NoFrames
      BY <2>2, <2>7 DEF NoFrames
    <2>9. PICK f, out : /\ r = Result(f, out)
                        /\ out \in {NoFrames, a.out, a.out \o c.out}
      BY PollParts
    <2>10. r.out = NoFrames
      <3> HIDE DEF a, c, r
      <3>1. r.out = out
        BY <2>9 DEF Result
      <3> QED BY <2>2, <2>8, <2>9, <3>1
    <2> QED BY <2>1, <2>10 DEF Calls, NoFrames
  <1> QED BY <1>1, <1>2

----------------------------------------------------------------------------
(* PollInv.                                                                *)

LEMMA StateTypes ==
    ASSUME TypeInv, NEW p \in Side, NEW s \in Sid
    PROVE  /\ st[p][s] \in End /\ wire[p] \in Seq(Frames)
           /\ conf.handlers[p] \in SUBSET Protocols
  BY DEF TypeInv

LEMMA PollInit ==
    ASSUME Init
    PROVE  PollInv
  <1>1. TypeInv
    <2>1. conf \in [handlers : [Side -> SUBSET Protocols], native : SUBSET Side]
      BY StreamsAssumption DEF Init
    <2>2. st \in [Side -> [Sid -> End]]
      BY NoEndType DEF Init
    <2>3. wire \in [Side -> Seq(Frames)]
      <3> DEFINE nil == <<>>
      <3>1. nil \in Seq(Frames) /\ wire = [p \in Side |-> nil]
        BY DEF Init
      <3> HIDE DEF nil
      <3> QED BY <3>1
    <2> QED BY <2>1, <2>2, <2>3 DEF Init, TypeInv
  <1>2. \A p \in Side, s \in Sid : st[p][s].stage = "None" /\ st[p][s] = NoEnd
    BY DEF Init, NoEnd
  <1>3. Rounds /\ ReportedOnce /\ PendingIdle /\ NoDanglingPoll
    BY DEF Init, Rounds, ReportedOnce, PendingIdle, NoDanglingPoll
  <1>4. ProposalsNamed
    BY <1>2 DEF ProposalsNamed, Asks
  <1> QED BY <1>1, <1>3, <1>4 DEF PollInv

\* An end changes, and what it sends joins the wire.
LEMMA EndStepType ==
    ASSUME TypeInv, NEW p \in Side, NEW s \in Sid, NEW e \in End, NEW frames \in Seq(Frames),
           SetEnd(p, s, e), Send(p, frames)
    PROVE  /\ st' \in [Side -> [Sid -> End]]
           /\ wire' \in [Side -> Seq(Frames)]
           /\ st'[p][s] = e
           /\ \A q \in Side, t \in Sid : ~(q = p /\ t = s) => st'[q][t] = st[q][t]
           /\ wire'[p] = wire[p] \o frames
           /\ \A q \in Side : q # p => wire'[q] = wire[q]
  <1>1. st \in [Side -> [Sid -> End]] /\ wire \in [Side -> Seq(Frames)]
    BY DEF TypeInv
  <1>2. /\ st' \in [Side -> [Sid -> End]] /\ st'[p][s] = e
        /\ \A q \in Side, t \in Sid : ~(q = p /\ t = s) => st'[q][t] = st[q][t]
    BY <1>1 DEF SetEnd
  <1> DEFINE w == wire[p] \o frames
  <1>3. w \in Seq(Frames)
    BY <1>1
  <1>4. wire' = [wire EXCEPT ![p] = w]
    BY <1>1 DEF Send
  <1>5. /\ wire' \in [Side -> Seq(Frames)] /\ wire'[p] = w
        /\ \A q \in Side : q # p => wire'[q] = wire[q]
    <2> HIDE DEF w
    <2> QED BY <1>1, <1>3, <1>4
  <1> QED BY <1>2, <1>5

\* The steps of an application's call on its handle.
LEMMA PollCall ==
    ASSUME PollInv, NEW p \in Side, NEW s \in Sid, MayCall(p, s),
           NEW e \in End, NEW frames \in Seq(Frames), HandleCall(p, s, e, frames),
           e.reports = st[p][s].reports, Asks(e), Idle(e)
    PROVE  PollInv'
  <1> USE DEF PollInv
  <1>1. TypeInv'
    <2>1. st' \in [Side -> [Sid -> End]] /\ wire' \in [Side -> Seq(Frames)]
      BY EndStepType DEF HandleCall
    <2> QED BY <2>1 DEF TypeInv, HandleCall
  <1>2. /\ st'[p][s] = e
        /\ \A q \in Side, t \in Sid : ~(q = p /\ t = s) => st'[q][t] = st[q][t]
    BY EndStepType DEF HandleCall
  <1>3. Rounds'
    BY DEF Rounds, HandleCall, Native
  <1>4. \A q \in Side, t \in Sid : st'[q][t].reports = st[q][t].reports
    BY <1>2
  <1>5. ReportedOnce'
    BY <1>4 DEF ReportedOnce, HandleCall
  <1>6. PendingIdle'
    <2>1. UNCHANGED <<pending, link, inLoop, toPoll>>
      BY DEF HandleCall
    <2>2. ASSUME NEW q \in Side, NEW t \in pending'[q],
                 link'[q] = "gone" \/ (~inLoop'[q] /\ t \notin toPoll'[q])
          PROVE  Idle(st'[q][t])
      <3>1. t \in Sid
        BY <2>1, <2>2 DEF TypeInv
      <3>2. Idle(st[q][t])
        BY <2>1, <2>2 DEF PendingIdle
      <3> QED BY <1>2, <3>1, <3>2
    <2> QED BY <2>2 DEF PendingIdle
  <1>7. ProposalsNamed'
    BY <1>2 DEF ProposalsNamed, HandleCall
  <1>8. NoDanglingPoll'
    BY DEF NoDanglingPoll, HandleCall
  <1> QED BY <1>1, <1>3, <1>5, <1>6, <1>7, <1>8

\* What a poll makes of an end of p.
LEMMA PolledFacts ==
    ASSUME PollInv, NEW p \in Side, NEW s \in Sid, NEW ok
    PROVE  LET r == Polled(p, s, ok) IN
           /\ r.e \in End /\ r.out \in Seq(Frames) /\ SameHandle(st[p][s], r.e)
           /\ Asks(r.e) /\ Idle(r.e)
           /\ Idle(st[p][s]) => r.out = NoFrames /\ ~Calls(st[p][s], r)
  <1>1. /\ st[p][s] \in End /\ conf.handlers[p] \in SUBSET Protocols /\ Asks(st[p][s])
    BY StateTypes DEF PollInv, ProposalsNamed
  <1> DEFINE e == st[p][s]
             h == conf.handlers[p]
             r == Poll(s, e, h, ok)
  <1>2. Polled(p, s, ok) = r
    BY DEF Polled
  <1>3. e \in End /\ h \in SUBSET Protocols /\ Asks(e)
    BY <1>1
  <1>4. /\ r.e \in End /\ r.out \in Seq(Frames) /\ SameHandle(e, r.e)
        /\ Asks(r.e) /\ Idle(r.e)
    <2> HIDE DEF e, h
    <2> QED BY <1>3, PollFacts
  <1>5. Idle(e) => r.out = NoFrames /\ ~Calls(e, r)
    <2> HIDE DEF e, h
    <2> QED BY <1>3, IdlePolled
  <1> QED BY <1>2, <1>4, <1>5

\* try_read takes a message out of what is there.
LEMMA ReadNextFacts ==
    ASSUME NEW e \in End
    PROVE  LET f == ReadNext(e) IN f \in End /\ SameHandle(e, f) /\ f.stage = e.stage
  <1>1. CASE e.appRx # <<>>
    <2> DEFINE got == Append(e.got, Head(e.appRx))
               rest == Tail(e.appRx)
               f == [e EXCEPT !.got = got, !.appRx = rest]
    <2>1. ReadNext(e) = f
      BY <1>1 DEF ReadNext, End
    <2>2. got \in Seq(Message) /\ rest \in Seq(Message)
      BY <1>1 DEF End
    <2> HIDE DEF got, rest
    <2>3. f \in End /\ SameHandle(e, f) /\ f.stage = e.stage
      BY <2>2 DEF End, SameHandle
    <2> QED BY <2>1, <2>3
  <1>2. CASE e.appRx = <<>> /\ e.rx # <<>>
    <2> DEFINE got == Append(e.got, Head(e.rx))
               rest == Tail(e.rx)
               f == [e EXCEPT !.got = got, !.rx = rest]
    <2>1. ReadNext(e) = f
      BY <1>2 DEF ReadNext, End
    <2>2. got \in Seq(Message) /\ rest \in Seq(Message)
      BY <1>2 DEF End
    <2> HIDE DEF got, rest
    <2>3. f \in End /\ SameHandle(e, f) /\ f.stage = e.stage
      BY <2>2 DEF End, SameHandle
    <2> QED BY <2>1, <2>3
  <1>3. CASE e.appRx = <<>> /\ e.rx = <<>>
    BY <1>3 DEF ReadNext, SameHandle
  <1> QED BY <1>1, <1>2, <1>3

LEMMA PollTryRead ==
    ASSUME PollInv, NEW p \in Side, NEW s \in Sid, TryRead(p, s)
    PROVE  PollInv'
  <1>1. PICK ok : LET r == Polled(p, s, ok) IN
           HandleCall(p, s, IF r.e.stage = "Ready" THEN ReadNext(r.e) ELSE r.e, r.out)
    BY DEF TryRead
  <1> DEFINE r == Polled(p, s, ok)
             f == r.e
             e == IF f.stage = "Ready" THEN ReadNext(f) ELSE f
             out == r.out
  <1>2. MayCall(p, s) /\ HandleCall(p, s, e, out)
    BY <1>1 DEF TryRead
  <1>3. /\ f \in End /\ out \in Seq(Frames) /\ SameHandle(st[p][s], f) /\ Asks(f) /\ Idle(f)
    BY PolledFacts
  <1> HIDE DEF f, out
  <1>4. e \in End /\ e.reports = st[p][s].reports /\ Asks(e) /\ Idle(e)
    <2>1. CASE f.stage = "Ready"
      BY <1>3, <2>1, ReadNextFacts DEF SameHandle, Asks, Idle, Over
    <2>2. CASE f.stage # "Ready"
      BY <1>3, <2>2 DEF SameHandle
    <2> QED BY <2>1, <2>2
  <1> HIDE DEF e
  <1> QED BY <1>2, <1>3, <1>4, PollCall

LEMMA PollTryWrite ==
    ASSUME PollInv, NEW p \in Side, NEW s \in Sid, TryWrite(p, s)
    PROVE  PollInv'
  <1>1. PICK ok : LET r == Polled(p, s, ok)
                      m == App(Len(r.e.said) + 1)
                  IN /\ r.e.stage = "Ready"
                     /\ HandleCall(p, s, Says(r.e, <<m>>),
                                   Append(r.out, Frame(s, "DATA", <<m>>)))
    BY DEF TryWrite
  <1> DEFINE r == Polled(p, s, ok)
             f == r.e
             out == r.out
             body == <<App(Len(f.said) + 1)>>
             e == Says(f, body)
             frame == Frame(s, "DATA", body)
             frames == Append(out, frame)
  <1>2. MayCall(p, s) /\ HandleCall(p, s, e, frames) /\ f.stage = "Ready"
    BY <1>1 DEF TryWrite
  <1>3. f \in End /\ out \in Seq(Frames) /\ SameHandle(st[p][s], f) /\ Asks(f) /\ Idle(f)
    BY PolledFacts
  <1> HIDE DEF f, out
  <1>4. body \in Seq(Message)
    <2>1. Len(f.said) + 1 \in Nat
      BY <1>3 DEF End
    <2> QED BY <2>1, MessageType
  <1> HIDE DEF body
  <1>5. frames \in Seq(Frames)
    <2>1. frame \in Frames
      BY <1>4, FrameType
    <2> QED BY <1>3, <2>1
  <1>6. e \in End /\ SameHandle(f, e) /\ e.stage = f.stage
    BY <1>3, <1>4, SaysFacts
  <1> HIDE DEF e, frames
  <1>7. e.reports = st[p][s].reports /\ Asks(e) /\ Idle(e)
    BY <1>2, <1>3, <1>6 DEF SameHandle, Asks, Idle, Over
  <1> QED BY <1>2, <1>5, <1>6, <1>7, PollCall

LEMMA PollCloseWrite ==
    ASSUME PollInv, NEW p \in Side, NEW s \in Sid, CloseWrite(p, s)
    PROVE  PollInv'
  <1>1. PICK ok : LET r == Polled(p, s, ok) IN
                  /\ r.e.stage = "Ready"
                  /\ HandleCall(p, s, [r.e EXCEPT !.writeClosed = TRUE],
                                Append(r.out, Frame(s, "FIN", <<>>)))
    BY DEF CloseWrite
  <1> DEFINE r == Polled(p, s, ok)
             f == r.e
             out == r.out
             nil == <<>>
             e == [f EXCEPT !.writeClosed = TRUE]
             frame == Frame(s, "FIN", nil)
             frames == Append(out, frame)
  <1>2. MayCall(p, s) /\ HandleCall(p, s, e, frames) /\ f.stage = "Ready"
    BY <1>1 DEF CloseWrite
  <1>3. f \in End /\ out \in Seq(Frames) /\ SameHandle(st[p][s], f) /\ Asks(f) /\ Idle(f)
    BY PolledFacts
  <1> HIDE DEF f, out
  <1>4. frames \in Seq(Frames)
    <2>1. nil \in Seq(Message)
      OBVIOUS
    <2> HIDE DEF nil
    <2>2. frame \in Frames
      BY <2>1, FrameType
    <2> QED BY <1>3, <2>2
  <1>5. e \in End /\ SameHandle(f, e) /\ e.stage = f.stage
    BY <1>3 DEF End, SameHandle
  <1> HIDE DEF e, frames
  <1>6. e.reports = st[p][s].reports /\ Asks(e) /\ Idle(e)
    BY <1>2, <1>3, <1>5 DEF SameHandle, Asks, Idle, Over
  <1> QED BY <1>2, <1>4, <1>5, <1>6, PollCall

\* The end that reset() leaves.
ResetEnd(e) ==
    [e EXCEPT !.stage = "Failed",
              !.detail = IF @ = "none" THEN "stream reset locally" ELSE @,
              !.readClosed = TRUE, !.writeClosed = TRUE, !.reset = TRUE,
              !.rx = <<>>, !.known = FALSE]

LEMMA ResetFacts ==
    ASSUME NEW e \in End
    PROVE  /\ ResetEnd(e) \in End
           /\ ResetEnd(e).reports = e.reports /\ ResetEnd(e).stage = "Failed"
  <1> DEFINE nil == <<>>
             why == IF e.detail = "none" THEN "stream reset locally" ELSE e.detail
             f == [e EXCEPT !.stage = "Failed", !.detail = why, !.readClosed = TRUE,
                            !.writeClosed = TRUE, !.reset = TRUE, !.rx = nil, !.known = FALSE]
  <1>1. ResetEnd(e) = f
    BY DEF ResetEnd, End
  <1>2. nil \in Seq(Message) /\ why \in Details
    <2>1. e.detail \in Details /\ "stream reset locally" \in Details
      BY DEF End, Details
    <2>2. why \in Details
      BY <2>1
    <2>3. nil \in Seq(Message)
      OBVIOUS
    <2> HIDE DEF nil, why
    <2> QED BY <2>2, <2>3
  <1> HIDE DEF nil, why
  <1>3. f \in End /\ f.reports = e.reports /\ f.stage = "Failed"
    BY <1>2 DEF End, Stages
  <1> QED BY <1>1, <1>3

LEMMA PollReset ==
    ASSUME PollInv, NEW p \in Side, NEW s \in Sid, Reset(p, s)
    PROVE  PollInv'
  <1> DEFINE e == ResetEnd(st[p][s])
             nil == <<>>
             frames == <<Frame(s, "RST", nil)>>
  <1>1. MayCall(p, s) /\ HandleCall(p, s, e, frames)
    BY DEF Reset, ResetEnd
  <1>2. frames \in Seq(Frames)
    <2>1. nil \in Seq(Message)
      OBVIOUS
    <2> HIDE DEF nil
    <2> QED BY <2>1, FrameType
  <1>3. e \in End /\ e.reports = st[p][s].reports /\ e.stage = "Failed"
    BY StateTypes, ResetFacts DEF PollInv
  <1> HIDE DEF e, frames
  <1> QED BY <1>1, <1>2, <1>3, PollCall DEF Asks, Idle, Over

\* What is reported of an end that has not been reported.
LEMMA ReportFacts ==
    ASSUME NEW p, NEW e \in End, e.reports = <<>>
    PROVE  LET f == Report(p, e) IN
           /\ f \in End /\ f.stage = e.stage /\ f.desired = e.desired
           /\ f.rx = e.rx /\ f.buffer = e.buffer
           /\ ~Over(e) => f = e
  <1> DEFINE one == <<"ProtocolError">>
             two == <<"ProtocolNegotiated">>
             three == <<"ProtocolNegotiated", "handler">>
             a == [e EXCEPT !.reports = one]
             b == [e EXCEPT !.reports = two]
             c == [e EXCEPT !.reports = three, !.handle = TRUE]
  <1>1. /\ Append(e.reports, "ProtocolError") = one
        /\ Append(e.reports, "ProtocolNegotiated") = two
        /\ e.reports \o three = three
    OBVIOUS
  <1>2. one \in Reports /\ two \in Reports /\ three \in Reports
    BY DEF Reports
  <1>3. Report(p, e) \in {a, b, c, e}
    <2> HIDE DEF one, two, three
    <2>1. CASE e.stage = "Failed"
      BY <1>1, <2>1 DEF Report, End
    <2>2. CASE e.stage = "Ready" /\ e.protocol \in conf.handlers[p]
      BY <1>1, <2>2 DEF Report, End, three
    <2>3. CASE e.stage = "Ready" /\ e.protocol \notin conf.handlers[p]
      BY <1>1, <2>3 DEF Report, End
    <2>4. CASE e.stage \notin {"Failed", "Ready"}
      BY <2>4 DEF Report
    <2> QED BY <2>1, <2>2, <2>3, <2>4
  <1>4. ~Over(e) => Report(p, e) = e
    BY DEF Report, Over
  <1> HIDE DEF one, two, three
  <1> DEFINE Kept(f) == /\ f \in End /\ f.stage = e.stage /\ f.desired = e.desired
                        /\ f.rx = e.rx /\ f.buffer = e.buffer
  <1>5. Kept(a)
    BY <1>2 DEF End
  <1>6. Kept(b)
    BY <1>2 DEF End
  <1>7. Kept(c)
    BY <1>2 DEF End
  <1> HIDE DEF a, b, c
  <1> QED BY <1>3, <1>4, <1>5, <1>6, <1>7

LEMMA PollPollStream ==
    ASSUME PollInv, NEW p \in Side, NEW s \in Sid, PollStream(p, s)
    PROVE  PollInv'
  <1> USE DEF PollInv
  <1>1. PICK ok : LET r == Polled(p, s, ok) IN
          /\ SetEnd(p, s, Report(p, r.e))
          /\ Send(p, IF link[p] = "gone" THEN <<>> ELSE r.out)
          /\ pending' = [pending EXCEPT ![p] = IF Settled(r.e) THEN @ \ {s} ELSE @]
          /\ touched' = [touched EXCEPT ![p] =
                            @ \/ (link[p] = "gone" /\ Calls(st[p][s], r))]
    BY DEF PollStream
  <1> DEFINE r == Polled(p, s, ok)
             f == r.e
             e == Report(p, f)
             out == r.out
             nil == <<>>
             frames == IF link[p] = "gone" THEN nil ELSE out
             calls == Calls(st[p][s], r)
  <1>2. /\ SetEnd(p, s, e) /\ Send(p, frames)
        /\ pending' = [pending EXCEPT ![p] = IF Settled(f) THEN @ \ {s} ELSE @]
        /\ touched' = [touched EXCEPT ![p] = @ \/ (link[p] = "gone" /\ calls)]
        /\ toPoll' = [toPoll EXCEPT ![p] = @ \ {s}]
        /\ UNCHANGED <<conf, opened, link, accepting, inLoop, foreign>>
    BY <1>1 DEF PollStream
  <1>3. /\ s \in toPoll[p] /\ s \in pending[p] /\ ~inLoop[p] /\ accepting[p] = {}
        /\ st[p][s].reports = <<>>
    BY DEF PollStream, Rounds, ReportedOnce
  <1>4. /\ f \in End /\ out \in Seq(Frames) /\ SameHandle(st[p][s], f) /\ Asks(f) /\ Idle(f)
        /\ Idle(st[p][s]) => ~calls
    BY PolledFacts
  <1>5. link[p] = "gone" => ~calls
    BY <1>3, <1>4 DEF PendingIdle
  <1>6. nil \in Seq(Frames)
    OBVIOUS
  <1> HIDE DEF f, out, nil, calls
  <1>7. frames \in Seq(Frames)
    BY <1>4, <1>6
  <1>8. f.reports = <<>>
    BY <1>3, <1>4 DEF SameHandle
  <1>9. /\ e \in End /\ Asks(e) /\ Idle(e)
        /\ ~Settled(f) => e.reports = <<>>
    BY <1>4, <1>8, ReportFacts DEF Asks, Idle, Over, Settled
  <1> HIDE DEF e, frames
  <1>10. /\ st' \in [Side -> [Sid -> End]] /\ wire' \in [Side -> Seq(Frames)]
         /\ st'[p][s] = e
         /\ \A q \in Side, t \in Sid : ~(q = p /\ t = s) => st'[q][t] = st[q][t]
    BY <1>2, <1>7, <1>9, EndStepType
  <1>11. touched' = touched
    BY <1>2, <1>5 DEF TypeInv
  <1>12. /\ pending' \in [Side -> SUBSET Sid]
         /\ \A q \in Side : q # p => pending'[q] = pending[q]
         /\ pending'[p] = IF Settled(f) THEN pending[p] \ {s} ELSE pending[p]
    BY <1>2 DEF TypeInv
  <1>13. /\ toPoll' \in [Side -> SUBSET Sid]
         /\ \A q \in Side : q # p => toPoll'[q] = toPoll[q]
         /\ toPoll'[p] = toPoll[p] \ {s}
    BY <1>2 DEF TypeInv
  <1>14. TypeInv'
    BY <1>2, <1>10, <1>11, <1>12, <1>13 DEF TypeInv
  <1>15. Rounds'
    <2>1. /\ UNCHANGED <<conf, link, accepting, inLoop>>
          /\ Native(p)
      BY <1>2, <1>3 DEF Rounds
    <2>2. \A q \in Side : toPoll'[q] \subseteq toPoll[q] /\ pending'[q] \subseteq pending[q]
      BY <1>12, <1>13
    <2>3. \A q \in Side : toPoll'[q] \subseteq pending'[q]
      BY <1>12, <1>13 DEF Rounds
    <2> QED BY <2>1, <2>2, <2>3 DEF Rounds, Native
  <1>16. ReportedOnce'
    <2>1. ASSUME NEW q \in Side, NEW t \in Sid, t \in pending'[q] \cup accepting'[q]
          PROVE  st'[q][t].reports = <<>>
      <3>1. t \in pending[q] \cup accepting[q]
        BY <1>2, <1>12, <2>1
      <3>2. CASE q = p /\ t = s
        BY <1>2, <1>3, <1>9, <1>10, <1>12, <2>1, <3>2
      <3>3. CASE ~(q = p /\ t = s)
        BY <1>10, <3>1, <3>3 DEF ReportedOnce
      <3> QED BY <3>2, <3>3
    <2> QED BY <2>1 DEF ReportedOnce
  <1>17. PendingIdle'
    <2>1. ASSUME NEW q \in Side, NEW t \in pending'[q],
                 link'[q] = "gone" \/ (~inLoop'[q] /\ t \notin toPoll'[q])
          PROVE  Idle(st'[q][t])
      <3>1. t \in pending[q] /\ t \in Sid
        BY <1>12, <2>1 DEF TypeInv
      <3>2. CASE q = p /\ t = s
        BY <1>9, <1>10, <3>2
      <3>3. CASE ~(q = p /\ t = s)
        BY <1>2, <1>10, <1>13, <2>1, <3>1, <3>3 DEF PendingIdle
      <3> QED BY <3>2, <3>3
    <2> QED BY <2>1 DEF PendingIdle
  <1>18. ProposalsNamed'
    BY <1>9, <1>10 DEF ProposalsNamed
  <1>19. NoDanglingPoll'
    BY <1>11 DEF NoDanglingPoll
  <1> QED BY <1>14, <1>15, <1>16, <1>17, <1>18, <1>19

LEMMA PollOpenStream ==
    ASSUME PollInv, NEW p \in Side, NEW x \in Protocols, OpenStream(p, x)
    PROVE  PollInv'
  <1> USE DEF PollInv
  <1> DEFINE s == <<p, opened[p] + 1>>
             e == Outbound(NewYamuxStream, x)
             nil == <<>>
             frames == <<Frame(s, "SYN", nil)>>
  <1>1. /\ Native(p) /\ ~inLoop[p] /\ toPoll[p] = {} /\ link[p] = "up" /\ s \in Sid
        /\ opened' = [opened EXCEPT ![p] = @ + 1]
        /\ SetEnd(p, s, e) /\ Send(p, frames)
        /\ pending' = [pending EXCEPT ![p] = @ \cup {s}]
        /\ toPoll'  = [toPoll EXCEPT ![p] = pending[p] \cup {s}]
        /\ UNCHANGED <<conf, link, accepting, inLoop, touched, foreign>>
    BY DEF OpenStream, Quiet
  <1>2. opened' \in [Side -> Nat]
    BY <1>1 DEF TypeInv
  <1> HIDE DEF s
  <1>3. frames \in Seq(Frames)
    <2>1. nil \in Seq(Message)
      OBVIOUS
    <2> HIDE DEF nil
    <2> QED BY <1>1, <2>1, FrameType
  <1>4. e \in End /\ e.reports = <<>> /\ Asks(e)
    BY NoEndType DEF Outbound, End, Stages, Asks
  <1> HIDE DEF e, frames
  <1>5. /\ st' \in [Side -> [Sid -> End]] /\ wire' \in [Side -> Seq(Frames)]
        /\ st'[p][s] = e
        /\ \A q \in Side, t \in Sid : ~(q = p /\ t = s) => st'[q][t] = st[q][t]
    BY <1>1, <1>3, <1>4, EndStepType
  <1>6. /\ pending' \in [Side -> SUBSET Sid] /\ pending'[p] = pending[p] \cup {s}
        /\ \A q \in Side : q # p => pending'[q] = pending[q]
    BY <1>1 DEF TypeInv
  <1>7. /\ toPoll' \in [Side -> SUBSET Sid] /\ toPoll'[p] = pending[p] \cup {s}
        /\ \A q \in Side : q # p => toPoll'[q] = toPoll[q]
    BY <1>1 DEF TypeInv
  <1>8. TypeInv'
    BY <1>1, <1>2, <1>5, <1>6, <1>7 DEF TypeInv
  <1>9. Rounds'
    <2>1. UNCHANGED <<conf, link, accepting, inLoop>>
      BY <1>1
    <2>2. \A q \in Side : q # p =>
              UNCHANGED <<toPoll[q], pending[q]>>
      BY <1>6, <1>7
    <2> QED BY <1>1, <1>6, <1>7, <2>1, <2>2 DEF Rounds, Native
  <1>10. ReportedOnce'
    <2>1. ASSUME NEW q \in Side, NEW t \in Sid, t \in pending'[q] \cup accepting'[q]
          PROVE  st'[q][t].reports = <<>>
      <3>1. CASE q = p /\ t = s
        BY <1>4, <1>5, <3>1
      <3>2. CASE ~(q = p /\ t = s)
        <4>1. t \in pending[q] \cup accepting[q]
          BY <1>1, <1>6, <2>1, <3>2
        <4> QED BY <1>5, <3>2, <4>1 DEF ReportedOnce
      <3> QED BY <3>1, <3>2
    <2> QED BY <2>1 DEF ReportedOnce
  <1>11. PendingIdle'
    <2>1. ASSUME NEW q \in Side, NEW t \in pending'[q],
                 link'[q] = "gone" \/ (~inLoop'[q] /\ t \notin toPoll'[q])
          PROVE  Idle(st'[q][t])
      <3>1. q # p
        BY <1>1, <1>6, <1>7, <2>1
      <3>2. t \in pending[q] /\ t \in Sid
        BY <1>6, <2>1, <3>1 DEF TypeInv
      <3> QED BY <1>1, <1>5, <1>7, <2>1, <3>1, <3>2 DEF PendingIdle
    <2> QED BY <2>1 DEF PendingIdle
  <1>12. ProposalsNamed'
    BY <1>4, <1>5 DEF ProposalsNamed
  <1>13. NoDanglingPoll'
    BY <1>1 DEF NoDanglingPoll
  <1> QED BY <1>8, <1>9, <1>10, <1>11, <1>12, <1>13

\* A stream that is new, or has been told nothing, waits.
LEMMA NewIsIdle == Idle(NewYamuxStream) /\ Asks(NewYamuxStream)
  <1> DEFINE nil == <<>>
  <1>1. /\ NoEnd.stage = "None" /\ NoEnd.rx = nil /\ NoEnd.buffer = nil
    BY DEF NoEnd
  <1>2. /\ NewYamuxStream.stage = "None" /\ NewYamuxStream.rx = nil
        /\ NewYamuxStream.buffer = nil
    <2>1. NoEnd \in End
      BY NoEndType
    <2> HIDE DEF nil
    <2> QED BY <1>1, <2>1 DEF NewYamuxStream, End
  <1>3. Span(nil) = "incomplete"
    BY DEF Span
  <1> QED BY <1>2, <1>3 DEF Idle, Asks

\* An end changes alone, and has as much to do as before.
LEMMA PollEndOnly ==
    ASSUME PollInv, NEW p \in Side, NEW s \in Sid, NEW e \in End, SetEnd(p, s, e),
           e.reports \in {<<>>, st[p][s].reports}, Asks(e),
           Idle(e) \/ ~Native(p) \/ (inLoop'[p] /\ link'[p] # "gone"),
           opened' \in [Side -> Nat], wire' \in [Side -> Seq(Frames)],
           inLoop' = inLoop \/ inLoop' = [inLoop EXCEPT ![p] = TRUE],
           accepting' \in [Side -> SUBSET Sid],
           \A q \in Side : \A t \in accepting'[q] :
               t \in accepting[q] \/ (q = p /\ t = s /\ e.reports = <<>>),
           UNCHANGED <<link, pending, toPoll, touched, conf>>, foreign' \in Nat
    PROVE  TypeInv' /\ ReportedOnce' /\ PendingIdle' /\ ProposalsNamed' /\ NoDanglingPoll'
  <1> USE DEF PollInv
  <1>1. /\ st' \in [Side -> [Sid -> End]] /\ st'[p][s] = e
        /\ \A q \in Side, t \in Sid : ~(q = p /\ t = s) => st'[q][t] = st[q][t]
    BY DEF SetEnd, TypeInv
  <1>2. /\ inLoop' \in [Side -> BOOLEAN]
        /\ \A q \in Side : q # p => inLoop'[q] = inLoop[q]
        /\ inLoop[p] => inLoop'[p]
    BY DEF TypeInv
  <1>3. TypeInv'
    BY <1>1, <1>2 DEF TypeInv
  <1>4. ReportedOnce'
    <2>1. ASSUME NEW q \in Side, NEW t \in Sid, t \in pending'[q] \cup accepting'[q]
          PROVE  st'[q][t].reports = <<>>
      <3>1. st[q][t].reports = <<>> \/ (q = p /\ t = s /\ e.reports = <<>>)
        BY <2>1 DEF ReportedOnce
      <3> QED BY <1>1, <3>1
    <2> QED BY <2>1 DEF ReportedOnce
  <1>5. PendingIdle'
    <2>1. ASSUME NEW q \in Side, NEW t \in pending'[q],
                 link'[q] = "gone" \/ (~inLoop'[q] /\ t \notin toPoll'[q])
          PROVE  Idle(st'[q][t])
      <3>1. t \in pending[q] /\ t \in Sid
        BY <2>1 DEF TypeInv
      <3>2. Native(q)
        BY <3>1 DEF Rounds
      <3>3. link[q] = "gone" \/ (~inLoop[q] /\ t \notin toPoll[q])
        BY <1>2, <2>1
      <3>4. Idle(st[q][t])
        BY <3>1, <3>3 DEF PendingIdle
      <3>5. CASE q = p /\ t = s
        BY <1>1, <2>1, <3>2, <3>5
      <3>6. CASE ~(q = p /\ t = s)
        BY <1>1, <3>1, <3>4, <3>6
      <3> QED BY <3>5, <3>6
    <2> QED BY <2>1 DEF PendingIdle
  <1>6. ProposalsNamed'
    BY <1>1 DEF ProposalsNamed
  <1>7. NoDanglingPoll'
    BY DEF NoDanglingPoll
  <1> QED BY <1>3, <1>4, <1>5, <1>6, <1>7

\* What accepting keeps to be a part of Rounds when poll_once reads.
LEMMA RoundsReading ==
    ASSUME Rounds, NEW p \in Side, Native(p), toPoll[p] = {},
           inLoop' = [inLoop EXCEPT ![p] = TRUE], inLoop \in [Side -> BOOLEAN],
           \A q \in Side : q # p => accepting'[q] = accepting[q] /\ link'[q] = link[q],
           link'[p] # "gone", UNCHANGED <<conf, pending, toPoll>>
    PROVE  Rounds'
  <1>1. inLoop'[p] /\ \A q \in Side : q # p => inLoop'[q] = inLoop[q]
    OBVIOUS
  <1> QED BY <1>1 DEF Rounds, Native

LEMMA PollOpenStreamFails ==
    ASSUME PollInv, NEW p \in Side, OpenStreamFails(p)
    PROVE  PollInv'
  <1> DEFINE s == <<p, opened[p] + 1>>
  <1>1. /\ s \in Sid /\ SetEnd(p, s, NewYamuxStream)
        /\ UNCHANGED <<conf, wire, link, accepting, pending, inLoop, toPoll, touched,
                       foreign>>
    BY DEF OpenStreamFails
  <1>2. opened' \in [Side -> Nat]
    BY DEF OpenStreamFails, PollInv, TypeInv
  <1> HIDE DEF s
  <1>3. /\ wire' \in [Side -> Seq(Frames)] /\ foreign' \in Nat
        /\ accepting' \in [Side -> SUBSET Sid]
    BY <1>1 DEF PollInv, TypeInv
  <1>4. TypeInv' /\ ReportedOnce' /\ PendingIdle' /\ ProposalsNamed' /\ NoDanglingPoll'
    BY <1>1, <1>2, <1>3, NoEndType, NewIsIdle, PollEndOnly
  <1>5. Rounds'
    BY <1>1 DEF PollInv, Rounds, Native
  <1> QED BY <1>4, <1>5 DEF PollInv

LEMMA PollGoes ==
    ASSUME PollInv, NEW p \in Side, CloseConnection(p) \/ Stop(p)
    PROVE  PollInv'
  <1> USE DEF PollInv
  <1>1. /\ Native(p) /\ ~inLoop[p] /\ toPoll[p] = {}
        /\ link' = [link EXCEPT ![p] = "gone"]
        /\ pending' = pending \/ pending' = [pending EXCEPT ![p] = {}]
        /\ UNCHANGED <<conf, opened, st, wire, accepting, inLoop, toPoll, touched, foreign>>
    BY DEF CloseConnection, Stop, Quiet
  <1>2. /\ link' \in [Side -> {"up", "closed", "gone"}] /\ link'[p] = "gone"
        /\ \A q \in Side : q # p => link'[q] = link[q]
    BY <1>1 DEF TypeInv
  <1>3. /\ pending' \in [Side -> SUBSET Sid]
        /\ \A q \in Side : pending'[q] \subseteq pending[q]
        /\ \A q \in Side : q # p => pending'[q] = pending[q]
    BY <1>1 DEF TypeInv
  <1>4. TypeInv'
    BY <1>1, <1>2, <1>3 DEF TypeInv
  <1>5. Rounds'
    BY <1>1, <1>2, <1>3 DEF Rounds, Native
  <1>6. ReportedOnce'
    BY <1>1, <1>3 DEF ReportedOnce
  <1>7. PendingIdle'
    <2>1. ASSUME NEW q \in Side, NEW t \in pending'[q],
                 link'[q] = "gone" \/ (~inLoop'[q] /\ t \notin toPoll'[q])
          PROVE  Idle(st'[q][t])
      <3>1. t \in pending[q]
        BY <1>3, <2>1
      <3>2. link[q] = "gone" \/ (~inLoop[q] /\ t \notin toPoll[q])
        BY <1>1, <1>2, <2>1
      <3> QED BY <1>1, <3>1, <3>2 DEF PendingIdle
    <2> QED BY <2>1 DEF PendingIdle
  <1>8. ProposalsNamed' /\ NoDanglingPoll'
    BY <1>1 DEF ProposalsNamed, NoDanglingPoll
  <1> QED BY <1>4, <1>5, <1>6, <1>7, <1>8

\* A frame leaves a stream that is not new as far as it is.
LEMMA AfterFrameFacts ==
    ASSUME NEW e \in End, NEW f \in Frames
    PROVE  LET g == AfterFrame(e, f) IN
           /\ g \in End
           /\ f.kind = "SYN" => g = NewYamuxStream
           /\ f.kind # "SYN" => /\ g.reports = e.reports /\ g.stage = e.stage
                                /\ g.desired = e.desired
  <1>1. f.kind \in {"SYN", "DATA", "FIN", "RST"} /\ f.body \in Seq(Message)
    BY DEF Frames
  <1>2. CASE f.kind = "SYN"
    BY <1>2, NoEndType DEF AfterFrame
  <1>3. CASE f.kind = "DATA"
    <2> DEFINE x == e.rx \o f.body
               a == [e EXCEPT !.rx = x]
    <2>1. AfterFrame(e, f) = a
      BY <1>3 DEF AfterFrame, End
    <2>2. x \in Seq(Message)
      BY <1>1 DEF End
    <2> HIDE DEF x
    <2>3. a \in End /\ a.reports = e.reports /\ a.stage = e.stage /\ a.desired = e.desired
      BY <2>2 DEF End
    <2> QED BY <1>3, <2>1, <2>3
  <1>4. CASE f.kind = "FIN"
    <2> DEFINE a == [e EXCEPT !.readClosed = TRUE]
    <2>1. AfterFrame(e, f) = a
      BY <1>4 DEF AfterFrame
    <2>2. a \in End /\ a.reports = e.reports /\ a.stage = e.stage /\ a.desired = e.desired
      BY DEF End
    <2> QED BY <1>4, <2>1, <2>2
  <1>5. CASE f.kind = "RST"
    <2> DEFINE nil == <<>>
               a == [e EXCEPT !.readClosed = TRUE, !.writeClosed = TRUE,
                              !.reset = TRUE, !.rx = nil, !.known = FALSE]
    <2>1. AfterFrame(e, f) = a
      BY <1>5 DEF AfterFrame
    <2>2. nil \in Seq(Message)
      OBVIOUS
    <2> HIDE DEF nil
    <2>3. a \in End /\ a.reports = e.reports /\ a.stage = e.stage /\ a.desired = e.desired
      BY <2>2 DEF End
    <2> QED BY <1>5, <2>1, <2>3
  <1> QED BY <1>1, <1>2, <1>3, <1>4, <1>5

LEMMA PollReceive ==
    ASSUME PollInv, NEW p \in Side, Receive(p)
    PROVE  PollInv'
  <1> DEFINE q == Peer(p)
             f == Head(wire[q])
             s == f.s
             e == st[p][s]
             g == IF f.kind = "SYN" \/ e.known THEN AfterFrame(e, f) ELSE e
  <1>1. q \in Side /\ q # p
    BY Sides
  <1>2. f \in Frames /\ Tail(wire[q]) \in Seq(Frames)
    <2>1. wire[q] \in Seq(Frames) /\ wire[q] # <<>>
      BY <1>1 DEF Receive, PollInv, TypeInv
    <2> HIDE DEF q
    <2> QED BY <2>1
  <1>3. s \in Sid /\ e \in End
    <2>1. s \in Sid
      BY <1>2 DEF Frames
    <2> HIDE DEF s
    <2> QED BY <2>1 DEF PollInv, TypeInv
  <1>4. SetEnd(p, s, g)
    <2>1. st \in [Side -> [Sid -> End]]
      BY DEF PollInv, TypeInv
    <2>2. CASE f.kind = "SYN" \/ e.known
      BY <2>2 DEF Receive, SetEnd
    <2>3. CASE ~(f.kind = "SYN" \/ e.known)
      <3>1. st' = st /\ g = st[p][s]
        BY <2>3 DEF Receive
      <3> HIDE DEF g, s
      <3> QED BY <2>1, <3>1, <1>3 DEF SetEnd
    <2> QED BY <2>2, <2>3
  <1>5. wire' \in [Side -> Seq(Frames)]
    <2>1. wire' = [wire EXCEPT ![q] = Tail(wire[q])]
      BY <1>1 DEF Receive, PollInv, TypeInv
    <2> HIDE DEF q
    <2> QED BY <1>1, <1>2, <2>1 DEF PollInv, TypeInv
  <1>6. /\ accepting' \in [Side -> SUBSET Sid]
        /\ \A r \in Side : \A t \in accepting'[r] :
               t \in accepting[r] \/ (r = p /\ t = s /\ f.kind = "SYN")
        /\ \A r \in Side : r # p => accepting'[r] = accepting[r]
    <2>1. accepting \in [Side -> SUBSET Sid]
      BY DEF PollInv, TypeInv
    <2>2. \/ f.kind = "SYN" /\ accepting' = [accepting EXCEPT ![p] = @ \cup {s}]
          \/ accepting' = accepting
      BY DEF Receive
    <2> HIDE DEF s
    <2> QED BY <1>3, <2>1, <2>2
  <1>7. /\ inLoop' = [inLoop EXCEPT ![p] = TRUE] /\ Native(p) /\ toPoll[p] = {}
        /\ link[p] = "up"
        /\ UNCHANGED <<conf, opened, link, pending, toPoll, touched, foreign>>
    BY DEF Receive
  <1>8. /\ g \in End /\ Asks(g)
        /\ g.reports \in {<<>>, e.reports}
        /\ f.kind = "SYN" => g.reports = <<>>
    <2>1. Asks(e)
      BY <1>3 DEF PollInv, ProposalsNamed
    <2> HIDE DEF e, f
    <2>2. CASE f.kind = "SYN"
      <3>1. g = NewYamuxStream
        BY <1>2, <1>3, <2>2, AfterFrameFacts
      <3> QED BY <3>1, NewIsIdle, NoEndType
    <2>3. CASE f.kind # "SYN" /\ e.known
      <3>1. g = AfterFrame(e, f)
        BY <2>3
      <3>2. /\ g \in End /\ g.reports = e.reports /\ g.stage = e.stage
            /\ g.desired = e.desired
        BY <1>2, <1>3, <2>3, <3>1, AfterFrameFacts
      <3> QED BY <2>1, <2>3, <3>2 DEF Asks
    <2>4. CASE f.kind # "SYN" /\ ~e.known
      BY <1>3, <2>1, <2>4
    <2> QED BY <2>2, <2>3, <2>4
  <1> HIDE DEF f, s, g
  <1>9. /\ inLoop \in [Side -> BOOLEAN] /\ opened' \in [Side -> Nat] /\ foreign' \in Nat
    BY <1>7 DEF PollInv, TypeInv
  <1>10. inLoop'[p] /\ link'[p] # "gone"
    BY <1>7, <1>9
  <1>11. TypeInv' /\ ReportedOnce' /\ PendingIdle' /\ ProposalsNamed' /\ NoDanglingPoll'
    <2>1. \A r \in Side : \A t \in accepting'[r] :
              t \in accepting[r] \/ (r = p /\ t = s /\ g.reports = <<>>)
      BY <1>6, <1>8
    <2>2. g.reports \in {<<>>, st[p][s].reports} /\ g \in End /\ Asks(g) /\ s \in Sid
      BY <1>3, <1>8
    <2>3. UNCHANGED <<link, pending, toPoll, touched, conf>>
      BY <1>7
    <2>4. accepting' \in [Side -> SUBSET Sid]
      BY <1>6
    <2>5. inLoop' = [inLoop EXCEPT ![p] = TRUE]
      BY <1>7
    <2> HIDE DEF e
    <2> QED BY <1>4, <1>5, <1>9, <1>10, <2>1, <2>2, <2>3, <2>4, <2>5, PollEndOnly
  <1>12. Rounds'
    BY <1>6, <1>7, <1>9, <1>10, RoundsReading DEF PollInv
  <1> QED BY <1>11, <1>12 DEF PollInv

LEMMA PollReceiveEof ==
    ASSUME PollInv, NEW p \in Side, ReceiveEof(p)
    PROVE  PollInv'
  <1> USE DEF PollInv
  <1> DEFINE q == Peer(p)
             nil == <<>>
  <1>1. /\ Native(p) /\ toPoll[p] = {} /\ q \in Side
        /\ link' = [link EXCEPT ![p] = "closed"]
        /\ wire' = [wire EXCEPT ![q] = nil]
        /\ inLoop' = [inLoop EXCEPT ![p] = TRUE]
        /\ UNCHANGED <<conf, opened, st, accepting, pending, toPoll, touched, foreign>>
    BY Sides DEF ReceiveEof
  <1>2. nil \in Seq(Frames)
    OBVIOUS
  <1> HIDE DEF q, nil
  <1>3. wire' \in [Side -> Seq(Frames)]
    BY <1>1, <1>2 DEF TypeInv
  <1>4. /\ inLoop' \in [Side -> BOOLEAN] /\ inLoop'[p]
        /\ \A r \in Side : r # p => inLoop'[r] = inLoop[r]
    BY <1>1 DEF TypeInv
  <1>5. /\ link' \in [Side -> {"up", "closed", "gone"}] /\ link'[p] = "closed"
        /\ \A r \in Side : r # p => link'[r] = link[r]
    BY <1>1 DEF TypeInv
  <1>6. TypeInv'
    BY <1>1, <1>3, <1>4, <1>5 DEF TypeInv
  <1>7. Rounds'
    BY <1>1, <1>4, <1>5, RoundsReading DEF TypeInv
  <1>8. ReportedOnce' /\ ProposalsNamed' /\ NoDanglingPoll'
    BY <1>1 DEF ReportedOnce, ProposalsNamed, NoDanglingPoll
  <1>9. PendingIdle'
    <2>1. ASSUME NEW r \in Side, NEW t \in pending'[r],
                 link'[r] = "gone" \/ (~inLoop'[r] /\ t \notin toPoll'[r])
          PROVE  Idle(st'[r][t])
      <3>1. r # p
        BY <1>4, <1>5, <2>1
      <3> QED BY <1>1, <1>4, <1>5, <2>1, <3>1 DEF PendingIdle
    <2> QED BY <2>1 DEF PendingIdle
  <1> QED BY <1>6, <1>7, <1>8, <1>9

LEMMA PollDrain ==
    ASSUME PollInv, NEW p \in Side, Drain(p)
    PROVE  PollInv'
  <1> USE DEF PollInv
  <1> DEFINE now == IF link[p] = "closed" THEN {} ELSE pending[p] \cup accepting[p]
  <1>1. /\ Native(p) /\ toPoll[p] = {}
        /\ st' = [st EXCEPT ![p] = [s \in Sid |-> IF s \in accepting[p] THEN Inbound(@[s])
                                                  ELSE @[s]]]
        /\ link'    = [link EXCEPT ![p] = IF @ = "closed" THEN "gone" ELSE @]
        /\ pending' = [pending EXCEPT ![p] = now]
        /\ toPoll'  = [toPoll EXCEPT ![p] = now]
        /\ accepting' = [accepting EXCEPT ![p] = {}]
        /\ inLoop'  = [inLoop EXCEPT ![p] = FALSE]
        /\ UNCHANGED <<conf, opened, wire, touched, foreign>>
    BY DEF Drain
  <1>2. now \in SUBSET Sid
    BY DEF TypeInv
  <1>3. /\ \A q \in Side, s \in Sid :
               st'[q][s] = IF q = p /\ s \in accepting[p] THEN Inbound(st[q][s])
                           ELSE st[q][s]
    BY <1>1 DEF TypeInv
  <1>4. \A e \in End : /\ Inbound(e) \in End /\ Inbound(e).reports = e.reports
                       /\ Asks(Inbound(e))
    BY DEF Inbound, End, Stages, Asks
  <1>5. st' \in [Side -> [Sid -> End]]
    <2> DEFINE new == [s \in Sid |-> IF s \in accepting[p] THEN Inbound(st[p][s])
                                     ELSE st[p][s]]
    <2>1. new \in [Sid -> End]
      BY <1>4 DEF TypeInv
    <2>2. st' = [st EXCEPT ![p] = new]
      BY <1>1 DEF TypeInv
    <2> HIDE DEF new
    <2> QED BY <2>1, <2>2 DEF TypeInv
  <1>6. /\ link' \in [Side -> {"up", "closed", "gone"}]
        /\ link'[p] = IF link[p] = "closed" THEN "gone" ELSE link[p]
        /\ \A q \in Side : q # p => link'[q] = link[q]
    BY <1>1 DEF TypeInv
  <1>7. /\ pending' \in [Side -> SUBSET Sid] /\ pending'[p] = now
        /\ \A q \in Side : q # p => pending'[q] = pending[q]
    <2> HIDE DEF now
    <2> QED BY <1>1, <1>2 DEF TypeInv
  <1>8. /\ toPoll' \in [Side -> SUBSET Sid] /\ toPoll'[p] = now
        /\ \A q \in Side : q # p => toPoll'[q] = toPoll[q]
    <2> HIDE DEF now
    <2> QED BY <1>1, <1>2 DEF TypeInv
  <1>9. /\ accepting' \in [Side -> SUBSET Sid] /\ accepting'[p] = {}
        /\ \A q \in Side : q # p => accepting'[q] = accepting[q]
    BY <1>1 DEF TypeInv
  <1>10. /\ inLoop' \in [Side -> BOOLEAN] /\ ~inLoop'[p]
         /\ \A q \in Side : q # p => inLoop'[q] = inLoop[q]
    BY <1>1 DEF TypeInv
  <1>11. TypeInv'
    BY <1>1, <1>5, <1>6, <1>7, <1>8, <1>9, <1>10 DEF TypeInv
  <1>12. Rounds'
    <2> HIDE DEF now
    <2>1. conf' = conf /\ Native(p)
      BY <1>1
    <2>2. link'[p] # "closed"
      BY <1>6
    <2> QED BY <1>6, <1>7, <1>8, <1>9, <1>10, <2>1, <2>2 DEF Rounds, Native
  <1>13. ReportedOnce'
    <2>1. ASSUME NEW q \in Side, NEW s \in Sid, s \in pending'[q] \cup accepting'[q]
          PROVE  st'[q][s].reports = <<>>
      <3>1. s \in pending[q] \cup accepting[q]
        BY <1>7, <1>9, <2>1
      <3>2. st[q][s].reports = <<>> /\ st[q][s] \in End
        BY <3>1 DEF ReportedOnce, TypeInv
      <3> QED BY <1>3, <1>4, <3>2
    <2> QED BY <2>1 DEF ReportedOnce
  <1>14. PendingIdle'
    <2>1. ASSUME NEW q \in Side, NEW t \in pending'[q],
                 link'[q] = "gone" \/ (~inLoop'[q] /\ t \notin toPoll'[q])
          PROVE  Idle(st'[q][t])
      <3>1. CASE q # p
        <4>1. t \in pending[q] /\ t \in Sid
          BY <1>7, <2>1, <3>1 DEF TypeInv
        <4>2. Idle(st[q][t])
          BY <1>6, <1>8, <1>10, <2>1, <3>1, <4>1 DEF PendingIdle
        <4> QED BY <1>3, <3>1, <4>1, <4>2
      <3>2. CASE q = p
        <4>1. link'[p] = "gone" /\ t \in now
          BY <1>7, <1>8, <2>1, <3>2
        <4>2. link[p] = "gone"
          BY <1>6, <4>1
        <4>3. accepting[p] = {} /\ t \in pending[p] /\ t \in Sid
          BY <4>1, <4>2 DEF Rounds, TypeInv
        <4>4. Idle(st[p][t])
          BY <4>2, <4>3 DEF PendingIdle
        <4> QED BY <1>3, <3>2, <4>3, <4>4
      <3> QED BY <3>1, <3>2
    <2> QED BY <2>1 DEF PendingIdle
  <1>15. ProposalsNamed'
    <2>1. \A q \in Side, s \in Sid : st[q][s] \in End /\ Asks(st[q][s])
      BY DEF ProposalsNamed, TypeInv
    <2> QED BY <1>3, <1>4, <2>1 DEF ProposalsNamed
  <1>16. NoDanglingPoll'
    BY <1>1 DEF NoDanglingPoll
  <1> QED BY <1>11, <1>12, <1>13, <1>14, <1>15, <1>16

\* What another implementation does.
LEMMA PollForeign ==
    ASSUME PollInv, NEW q \in Side, Foreign(q)
    PROVE  PollInv'
  <1>1. ASSUME ForeignHangUp(q)
        PROVE  PollInv'
    <2> USE DEF PollInv
    <2>1. /\ ~Native(q) /\ link[q] = "up" /\ link' = [link EXCEPT ![q] = "gone"]
          /\ UNCHANGED <<conf, opened, st, wire, accepting, pending, inLoop, toPoll,
                         touched, foreign>>
      BY <1>1 DEF ForeignHangUp
    <2>2. /\ link' \in [Side -> {"up", "closed", "gone"}] /\ link'[q] = "gone"
          /\ \A p \in Side : p # q => link'[p] = link[p]
      BY <2>1 DEF TypeInv
    <2>3. pending[q] = {}
      BY <2>1 DEF Rounds
    <2>4. TypeInv'
      BY <2>1, <2>2 DEF TypeInv
    <2>5. ReportedOnce' /\ ProposalsNamed' /\ NoDanglingPoll'
      BY <2>1 DEF ReportedOnce, ProposalsNamed, NoDanglingPoll
    <2>6. PendingIdle'
      BY <2>1, <2>2, <2>3 DEF PendingIdle
    <2>7. Rounds'
      BY <2>1, <2>2 DEF Rounds, Native
    <2> QED BY <2>4, <2>5, <2>6, <2>7
  <1>2. ASSUME NEW s \in Sid, NEW e \in End, NEW frames \in Seq(Frames), ~Native(q),
               SetEnd(q, s, e), Send(q, frames), Asks(e), e.reports = st[q][s].reports,
               opened' \in [Side -> Nat], foreign' \in Nat,
               UNCHANGED <<conf, link, accepting, pending, inLoop, toPoll, touched>>
        PROVE  PollInv'
    <2>1. wire' \in [Side -> Seq(Frames)]
      BY <1>2, EndStepType DEF PollInv
    <2>2. /\ accepting' \in [Side -> SUBSET Sid]
          /\ \A p \in Side : \A t \in accepting'[p] : t \in accepting[p]
      BY <1>2 DEF PollInv, TypeInv
    <2>3. /\ UNCHANGED <<link, pending, toPoll, touched, conf>> /\ inLoop' = inLoop
      BY <1>2
    <2>4. TypeInv' /\ ReportedOnce' /\ PendingIdle' /\ ProposalsNamed' /\ NoDanglingPoll'
      BY <1>2, <2>1, <2>2, <2>3, PollEndOnly
    <2>5. Rounds'
      BY <1>2 DEF PollInv, Rounds, Native
    <2> QED BY <2>4, <2>5 DEF PollInv
  <1>3. ASSUME NEW s \in Sid, ForeignOpen(q, s)
        PROVE  PollInv'
    <2> DEFINE e == st[q][s]
               nil == <<>>
               frames == <<Frame(s, "SYN", nil)>>
    <2>1. e \in End /\ Asks(e) /\ SetEnd(q, s, e)
      BY <1>3 DEF PollInv, TypeInv, ProposalsNamed, ForeignOpen, SetEnd
    <2>2. frames \in Seq(Frames)
      <3>1. nil \in Seq(Message)
        OBVIOUS
      <3> HIDE DEF nil
      <3> QED BY <3>1, FrameType
    <2>3. /\ ~Native(q) /\ Send(q, frames)
          /\ UNCHANGED <<conf, link, accepting, pending, inLoop, toPoll, touched>>
      BY <1>3 DEF ForeignOpen
    <2>4. opened' \in [Side -> Nat] /\ foreign' \in Nat
      BY <1>3 DEF ForeignOpen, PollInv, TypeInv
    <2> HIDE DEF frames
    <2> QED BY <1>2, <2>1, <2>2, <2>3, <2>4
  <1>4. ASSUME NEW s \in Sid, ForeignSend(q, s)
        PROVE  PollInv'
    <2>1. /\ ~Native(q) /\ st[q][s] \in End /\ Asks(st[q][s])
          /\ UNCHANGED <<conf, link, accepting, pending, inLoop, toPoll, touched>>
          /\ opened' \in [Side -> Nat] /\ foreign' \in Nat
      BY <1>4 DEF ForeignSend, PollInv, TypeInv, ProposalsNamed
    <2>2. ASSUME NEW body \in ForeignBodies(q, s), Send(q, <<Frame(s, "DATA", body)>>),
                 SetEnd(q, s, Says(st[q][s], body))
          PROVE  PollInv'
      <3> DEFINE e == Says(st[q][s], body)
                 frames == <<Frame(s, "DATA", body)>>
      <3>1. body \in Seq(Message)
        <4>1. Len(st[q][s].said) + 1 \in Nat
          BY <2>1 DEF End
        <4>2. \E m \in Message : body = <<m>>
          <5> DEFINE m == App(Len(st[q][s].said) + 1)
          <5>1. m \in Message
            BY <4>1, MessageType
          <5>2. body \in {<<Header>>, <<Na>>, <<Bad>>, <<m>>} \cup {<<Token(x)>> : x \in Protocols}
            BY <2>2 DEF ForeignBodies
          <5> HIDE DEF m
          <5> QED BY <5>1, <5>2, MessageType
        <4> QED BY <4>2
      <3>2. e \in End /\ SameHandle(st[q][s], e) /\ e.stage = st[q][s].stage
        BY <2>1, <3>1, SaysFacts
      <3>3. frames \in Seq(Frames)
        BY <3>1, FrameType
      <3>4. Asks(e) /\ e.reports = st[q][s].reports
        <4> HIDE DEF e
        <4> QED BY <2>1, <3>2 DEF SameHandle, Asks
      <3>5. SetEnd(q, s, e) /\ Send(q, frames)
        BY <2>2
      <3> HIDE DEF e, frames
      <3> QED BY <1>2, <2>1, <3>2, <3>3, <3>4, <3>5
    <2>3. ASSUME NEW kind \in {"FIN", "RST"}, Send(q, <<Frame(s, kind, <<>>)>>), st' = st
          PROVE  PollInv'
      <3> DEFINE e == st[q][s]
                 nil == <<>>
                 frames == <<Frame(s, kind, nil)>>
      <3>1. frames \in Seq(Frames)
        <4>1. nil \in Seq(Message)
          OBVIOUS
        <4> HIDE DEF nil
        <4> QED BY <4>1, FrameType
      <3>2. SetEnd(q, s, e) /\ Send(q, frames)
        BY <2>3 DEF SetEnd, PollInv, TypeInv
      <3> HIDE DEF frames
      <3> QED BY <1>2, <2>1, <3>1, <3>2
    <2> QED BY <1>4, <2>2, <2>3 DEF ForeignSend
  <1> QED BY <1>1, <1>3, <1>4 DEF Foreign

LEMMA PollStep ==
    ASSUME PollInv, [Next]_vars
    PROVE  PollInv'
  <1>1. ASSUME NEW p \in Side, Application(p)
        PROVE  PollInv'
    BY <1>1, PollOpenStream, PollOpenStreamFails, PollTryRead, PollTryWrite,
       PollCloseWrite, PollReset, PollGoes DEF Application
  <1>2. ASSUME NEW p \in Side, PollOnce(p)
        PROVE  PollInv'
    BY <1>2, PollReceive, PollReceiveEof, PollDrain, PollPollStream DEF PollOnce
  <1>3. ASSUME UNCHANGED vars
        PROVE  PollInv'
    <2>1. TypeInv'
      BY <1>3 DEF PollInv, TypeInv, vars
    <2>2. Rounds'
      BY <1>3 DEF PollInv, Rounds, Native, vars
    <2>3. ReportedOnce'
      BY <1>3 DEF PollInv, ReportedOnce, vars
    <2>4. PendingIdle'
      BY <1>3 DEF PollInv, PendingIdle, vars
    <2>5. ProposalsNamed' /\ NoDanglingPoll'
      BY <1>3 DEF PollInv, ProposalsNamed, NoDanglingPoll, vars
    <2> QED BY <2>1, <2>2, <2>3, <2>4, <2>5 DEF PollInv
  <1> QED BY <1>1, <1>2, <1>3, PollForeign DEF Next

\* Between the steps of a poll_once and the application's calls, events are
\* drained before streams are polled, a stream that was reported is not
\* pending, and a pending stream that was polled has nothing to do until a
\* frame arrives (poll_once, open_stream, poll_pending_streams,
\* remove_connection, stop).
THEOREM PollInvariant == Spec => []PollInv
  <1>1. Init => PollInv
    BY PollInit
  <1>2. PollInv /\ [Next]_vars => PollInv'
    BY PollStep
  <1> QED BY <1>1, <1>2, PTL DEF Spec

\* The Swarm reports one outcome of a stream and calls a handler at most
\* once, after ProtocolNegotiated, however the calls on the handle and the
\* rounds of poll_pending_streams mix.
THEOREM OutcomesOnce == Spec => []OutcomeOnce
  <1>1. PollInv => OutcomeOnce
    <2> SUFFICES ASSUME PollInv, NEW p \in conf.native, NEW s \in Sid
                 PROVE  /\ st[p][s].reports \in Reports
                        /\ st[p][s].reports # <<>> => s \notin pending[p]
      BY DEF OutcomeOnce, Reports
    <2>1. p \in Side
      BY DEF PollInv, TypeInv
    <2>2. st[p][s] \in End
      BY <2>1, StateTypes DEF PollInv
    <2> QED BY <2>1, <2>2 DEF End, PollInv, ReportedOnce
  <1> QED BY <1>1, PollInvariant, PTL

\* No poll of a pending stream reaches a session that is destroyed, although
\* stop() keeps pending_streams_ and streams hold a plain pointer.
THEOREM NoDanglingPolls == Spec => []NoDanglingPoll
  <1>1. PollInv => NoDanglingPoll
    BY DEF PollInv
  <1> QED BY <1>1, PollInvariant, PTL
=============================================================================
