--------------------------- MODULE SessionProofs ---------------------------
(***************************************************************************)
(* What a session promises, for any configuration of the two ends, any     *)
(* room in the kernel and any number of streams, messages and damaged      *)
(* messages: its events tell one story, it is ready only with the peer it  *)
(* dialed, the two cipher states stay in step, compatible ends run the     *)
(* same muxer, and direct streams return what was written, in order.  This *)
(* follows from SessionInv, MuxerInv and DirectInv: for each of them, one  *)
(* lemma for each method of the class says what the method preserves, and  *)
(* one for each action puts the methods together.                          *)
(***************************************************************************)
EXTENDS SessionInv, Integers, SequenceTheorems, WellFoundedInduction, TLAPS

----------------------------------------------------------------------------
(* Frames on their way.                                                    *)

\* A message that is not encrypted joins the others.
LEMMA InStepPlain ==
    ASSUME NEW way \in Seq(Messages), NEW m \in Messages, m.kind # "enc",
           NEW recv, NEW send, InStep(way, recv, send)
    PROVE  InStep(Append(way, m), recv, send)
<1> DEFINE to == Append(way, m)
<1>1. /\ to \in Seq(Messages) /\ DOMAIN way = 1 .. Len(way) /\ Len(way) \in Nat
      /\ DOMAIN to = 1 .. Len(way) + 1 /\ to[Len(way) + 1] = m
      /\ \A i \in DOMAIN way : to[i] = way[i]
  OBVIOUS
<1> HIDE DEF to
<1>2. Encrypted(to) = Encrypted(way) /\ \A i \in Encrypted(way) : to[i] = way[i]
  BY <1>1 DEF Encrypted
<1>3. {to[i].nonce : i \in Encrypted(to)} = {way[i].nonce : i \in Encrypted(way)}
  BY <1>2
<1>4. \A i, j \in Encrypted(to) : i < j => to[i].nonce < to[j].nonce
  BY <1>2 DEF InStep
<1> QED BY <1>3, <1>4 DEF InStep, to

\* An encrypted message joins the others with the sender's next nonce.
LEMMA InStepEncrypted ==
    ASSUME NEW way \in Seq(Messages), NEW m \in Messages, m.kind = "enc",
           NEW recv \in Nat, NEW send \in Nat, m.nonce = send, InStep(way, recv, send)
    PROVE  InStep(Append(way, m), recv, send + 1)
<1> DEFINE to == Append(way, m)
           k  == Len(way) + 1
<1>1. /\ to \in Seq(Messages) /\ DOMAIN way = 1 .. Len(way) /\ Len(way) \in Nat
      /\ DOMAIN to = 1 .. Len(way) + 1 /\ to[k] = m
      /\ \A i \in DOMAIN way : to[i] = way[i]
  OBVIOUS
<1> HIDE DEF to
<1>2. /\ Encrypted(to) = Encrypted(way) \cup {k}
      /\ \A i \in Encrypted(way) : to[i] = way[i] /\ i < k /\ ~(k < i)
  BY <1>1 DEF Encrypted
<1>3. /\ recv <= send
      /\ {way[i].nonce : i \in Encrypted(way)} = recv .. send - 1
      /\ \A i, j \in Encrypted(way) : i < j => way[i].nonce < way[j].nonce
  BY DEF InStep
<1>4. \A i \in Encrypted(way) : way[i].nonce \in recv .. send - 1
  BY <1>3
<1>5. \A i \in Encrypted(way) : to[i].nonce < send
  BY <1>2, <1>4
<1>6. {to[i].nonce : i \in Encrypted(to)} = {way[i].nonce : i \in Encrypted(way)} \cup {send}
  BY <1>1, <1>2
<1>7. (recv .. send - 1) \cup {send} = recv .. (send + 1) - 1
  BY <1>3
<1>8. \A i, j \in Encrypted(to) : i < j => to[i].nonce < to[j].nonce
  <2> TAKE i, j \in Encrypted(to)
  <2>1. CASE i = k
    BY <1>1, <1>2, <2>1
  <2>2. CASE i # k /\ j = k
    BY <1>1, <1>2, <1>5, <2>2
  <2>3. CASE i # k /\ j # k
    BY <1>2, <1>3, <2>3
  <2> QED BY <2>1, <2>2, <2>3
<1>9. recv <= send + 1
  BY <1>3
<1> HIDE DEF k
<1> QED BY <1>3, <1>6, <1>7, <1>8, <1>9 DEF InStep, to

\* The messages after the first has left.
LEMMA RestFacts ==
    ASSUME NEW way \in Seq(Messages), way # <<>>
    PROVE  /\ Tail(way) \in Seq(Messages) /\ Head(way) \in Messages
           /\ Len(way) \in Nat /\ DOMAIN way = 1 .. Len(way)
           /\ DOMAIN Tail(way) = 1 .. (Len(way) - 1)
           /\ 1 \in DOMAIN way /\ Head(way) = way[1]
           /\ \A i \in DOMAIN Tail(way) : i + 1 \in DOMAIN way /\ Tail(way)[i] = way[i + 1]
  OBVIOUS

\* What leaves is not encrypted, or carries the nonce the receiver expects.
LEMMA InStepTail ==
    ASSUME NEW way \in Seq(Messages), way # <<>>, NEW recv \in Nat, NEW send \in Nat,
           InStep(way, recv, send)
    PROVE  /\ Head(way).kind # "enc" => InStep(Tail(way), recv, send)
           /\ (Head(way).kind = "enc" /\ Head(way).nonce = recv)
                 => InStep(Tail(way), recv + 1, send)
<1> DEFINE to == Tail(way)
<1>1. /\ DOMAIN way = 1 .. Len(way) /\ Len(way) \in Nat /\ DOMAIN to = 1 .. (Len(way) - 1)
      /\ Head(way) = way[1] /\ 1 \in DOMAIN way
      /\ \A i \in DOMAIN to : to[i] = way[i + 1]
  BY RestFacts
<1> HIDE DEF to
<1>2. /\ recv <= send
      /\ {way[i].nonce : i \in Encrypted(way)} = recv .. send - 1
      /\ \A i, j \in Encrypted(way) : i < j => way[i].nonce < way[j].nonce
  BY DEF InStep
<1>3. /\ \A i \in Encrypted(to) : i + 1 \in Encrypted(way) /\ to[i].nonce = way[i + 1].nonce
      /\ \A i \in Encrypted(way) : i # 1 => i - 1 \in Encrypted(to) /\ to[i - 1].nonce = way[i].nonce
      /\ 1 \in Encrypted(way) <=> way[1].kind = "enc"
      /\ Encrypted(to) \subseteq Nat \ {0}
  BY <1>1 DEF Encrypted
<1>4. \A i, j \in Encrypted(to) : i < j => to[i].nonce < to[j].nonce
  BY <1>2, <1>3
<1>5. CASE way[1].kind # "enc"
  <2>1. {to[i].nonce : i \in Encrypted(to)} = {way[i].nonce : i \in Encrypted(way)}
    <3>1. \A i \in Encrypted(way) : i # 1
      BY <1>3, <1>5
    <3>2. \A i \in Encrypted(way) : \E j \in Encrypted(to) : to[j].nonce = way[i].nonce
      BY <1>3, <3>1
    <3>3. \A j \in Encrypted(to) : \E i \in Encrypted(way) : to[j].nonce = way[i].nonce
      BY <1>3
    <3> QED BY <3>2, <3>3
  <2> QED BY <1>1, <1>2, <1>4, <1>5, <2>1 DEF InStep, to
<1>6. CASE way[1].kind = "enc" /\ way[1].nonce = recv
  <2>1. \A i \in Encrypted(way) : i # 1 => recv < way[i].nonce
    BY <1>1, <1>2, <1>3, <1>6 DEF Encrypted
  <2>2. \A i \in Encrypted(to) : to[i].nonce \in recv + 1 .. send - 1
    <3> TAKE i \in Encrypted(to)
    <3>1. i + 1 \in Encrypted(way) /\ to[i].nonce = way[i + 1].nonce /\ i + 1 # 1
      BY <1>3
    <3>2. way[i + 1].nonce \in recv .. send - 1 /\ recv < way[i + 1].nonce
      BY <1>2, <2>1, <3>1
    <3> DEFINE x == to[i].nonce
    <3>3. x \in recv .. send - 1 /\ recv < x
      BY <3>1, <3>2
    <3> HIDE DEF x
    <3>4. x \in recv + 1 .. send - 1
      BY <3>3
    <3> QED BY <3>4 DEF x
  <2>3. \A x \in recv + 1 .. send - 1 : \E i \in Encrypted(to) : to[i].nonce = x
    <3> TAKE x \in recv + 1 .. send - 1
    <3>1. x \in recv .. send - 1 /\ x # recv
      OBVIOUS
    <3>2. PICK i \in Encrypted(way) : x = way[i].nonce
      BY <1>2, <3>1
    <3>3. i # 1
      BY <1>6, <3>1, <3>2
    <3> QED BY <1>3, <3>2, <3>3
  <2>4. recv \in recv .. send - 1
    <3>1. 1 \in Encrypted(way)
      BY <1>3, <1>6
    <3> QED BY <1>2, <1>6, <3>1
  <2>5. recv + 1 <= send
    BY <2>4
  <2>6. {to[i].nonce : i \in Encrypted(to)} = recv + 1 .. send - 1
    BY <2>2, <2>3
  <2> QED BY <1>1, <1>4, <1>6, <2>5, <2>6 DEF InStep, to
<1> QED BY <1>1, <1>5, <1>6
----------------------------------------------------------------------------
(* What a method may do to a session.                                      *)

\* The same story: SessionOk says the same of both.
SameStory(q, r) ==
    /\ q.state = r.state /\ q.stage = r.stage /\ q.busy = r.busy
    /\ q.events = r.events /\ q.remotePeer = r.remotePeer

\* The same wire and the same nonces.
SameWire(q, r) ==
    /\ q.socketOpen = r.socketOpen /\ q.rx = r.rx /\ q.tx = r.tx /\ q.net = r.net
    /\ q.sendNonce = r.sendNonce /\ q.recvNonce = r.recvNonce

\* The nonces of a session g at the end e, whose peer is as it is.
OutOk(e, g) ==
    LET o == ep[Other(e)] IN InStep((o.rx \o g.net) \o g.tx, o.recvNonce, g.sendNonce)
InOk(e, g) ==
    LET o == ep[Other(e)] IN InStep((g.rx \o o.net) \o o.tx, g.recvNonce, o.sendNonce)
StepOk(e, g) ==
    (garbled = 0 /\ ~HugeWrites /\ g.socketOpen /\ ep[Other(e)].socketOpen)
        => OutOk(e, g) /\ InOk(e, g)

\* All that the invariant says of a session g at the end e.
Ok(e, g) == g \in Sessions /\ SessionOk(e, g) /\ StepOk(e, g)

LEMMA StoryKept ==
    ASSUME NEW e, NEW r, NEW q, SessionOk(e, r), SameStory(q, r)
    PROVE  SessionOk(e, q)
  BY DEF SessionOk, SameStory, Told, ExpectedPeerOk

LEMMA WireKept ==
    ASSUME NEW e, NEW r, NEW q, StepOk(e, r), SameWire(q, r)
    PROVE  StepOk(e, q)
  BY DEF StepOk, OutOk, InOk, SameWire

LEMMA OtherEnd == ASSUME NEW e \in End PROVE Other(e) \in End /\ Other(e) # e /\ Other(Other(e)) = e
  BY DEF End, Other

LEMMA SeqFacts ==
    ASSUME NEW r \in Sessions
    PROVE  /\ r.rx \in Seq(Messages) /\ r.tx \in Seq(Messages) /\ r.net \in Seq(Messages)
           /\ r.events \in Seq(Events) /\ r.negotiation \in Seq(Texts)
           /\ r.sendNonce \in Nat /\ r.recvNonce \in Nat /\ r.stream \in Directs
           /\ r.socketOpen \in BOOLEAN /\ r.writeShutdown \in BOOLEAN
  BY DEF Sessions

LEMMA EofType == Eof \in Messages /\ Eof.kind # "enc"
<1>1. NoText \in Texts
  BY DEF NoText, Text, Texts, Names
<1> QED BY <1>1 DEF Eof, Plain, Messages

LEMMA PlainType ==
    ASSUME NEW kind \in {"msPropose", "msAccept", "msg1", "msg2", "msg3", "bad", "eof"}
    PROVE  Plain(kind) \in Messages /\ Plain(kind).kind # "enc" /\ Plain(kind).kind = kind
<1>1. NoText \in Texts
  BY DEF NoText, Text, Texts, Names
<1> DEFINE p == Plain(kind)
<1>2. p = [kind |-> kind, nonce |-> 0, text |-> NoText]
  BY DEF Plain
<1>3. p \in Messages
  BY <1>1, <1>2 DEF Messages
<1>4. p.kind = kind
  BY <1>2
<1> HIDE DEF p
<1>5. p.kind # "enc"
  BY <1>4
<1> QED BY <1>3, <1>4, <1>5 DEF p

LEMMA EncType ==
    ASSUME NEW n \in Nat, NEW t \in {"app", "propose", "reply", "syn", "ack"}, NEW m \in Names,
           NEW k \in Nat
    PROVE  /\ Enc(n, Text(t, m, k)) \in Messages /\ Text(t, m, k) \in Texts
           /\ Enc(n, Text(t, m, k)).kind = "enc" /\ Enc(n, Text(t, m, k)).nonce = n
<1> DEFINE x == Text(t, m, k)
<1>1. x \in Texts
  BY DEF Text, Texts
<1> HIDE DEF x
<1>2. Enc(n, x) = [kind |-> "enc", nonce |-> n, text |-> x]
  BY DEF Enc
<1>3. Enc(n, x) \in Messages
  BY <1>1, <1>2 DEF Messages
<1> QED BY <1>1, <1>2, <1>3 DEF x

LEMMA QueueFields ==
    ASSUME NEW r \in Sessions, NEW m \in Messages
    PROVE  LET q == Queue(r, m) IN
           /\ q \in Sessions /\ SameStory(q, r)
           /\ q.socketOpen = r.socketOpen /\ q.rx = r.rx /\ q.net = r.net
           /\ q.sendNonce = r.sendNonce /\ q.recvNonce = r.recvNonce
           /\ q.tx = Append(r.tx, m) /\ q.negotiation = r.negotiation
  <1> DEFINE t == Append(r.tx, m)
  <1>1. t \in Seq(Messages)
    BY SeqFacts
  <1> HIDE DEF t
  <1>2. [r EXCEPT !.tx = t] \in Sessions
    BY <1>1 DEF Sessions
  <1>3. Queue(r, m) = [r EXCEPT !.tx = t]
    BY DEF Queue, t
  <1> QED BY <1>2, <1>3 DEF Sessions, SameStory, t
----------------------------------------------------------------------------
(* What is on its way, in its three places: a, then b, then c.             *)

LEMMA WayType ==
    ASSUME NEW a \in Seq(Messages), NEW b \in Seq(Messages), NEW c \in Seq(Messages)
    PROVE  (a \o b) \o c \in Seq(Messages) /\ a \o b \in Seq(Messages)
  OBVIOUS

LEMMA WayAppend ==
    ASSUME NEW a \in Seq(Messages), NEW c \in Seq(Messages), NEW m \in Messages
    PROVE  a \o Append(c, m) = Append(a \o c, m)
<1> DEFINE s == a \o Append(c, m)
           t == Append(a \o c, m)
<1>1. s \in Seq(Messages) /\ t \in Seq(Messages) /\ Len(s) = Len(t)
  OBVIOUS
<1>2. \A i \in 1 .. Len(s) : s[i] = t[i]
  OBVIOUS
<1> HIDE DEF s, t
<1>3. s = t
  BY <1>1, <1>2, SeqEqual
<1> QED BY <1>3 DEF s, t

LEMMA WayAssoc ==
    ASSUME NEW a \in Seq(Messages), NEW b \in Seq(Messages), NEW c \in Seq(Messages)
    PROVE  a \o (b \o c) = (a \o b) \o c
  BY SMTT(30), ConcatAssociative

LEMMA WaySplit ==
    ASSUME NEW c \in Seq(Messages), NEW n \in 0 .. Len(c)
    PROVE  LET p == SubSeq(c, 1, n)
               q == SubSeq(c, n + 1, Len(c)) IN
           p \in Seq(Messages) /\ q \in Seq(Messages) /\ p \o q = c
<1> DEFINE p == SubSeq(c, 1, n)
           q == SubSeq(c, n + 1, Len(c))
<1>1. /\ p \in Seq(Messages) /\ Len(p) = n /\ \A i \in 1 .. n : p[i] = c[i]
      /\ q \in Seq(Messages) /\ Len(q) = Len(c) - n
      /\ \A i \in 1 .. Len(c) - n : q[i] = c[n + i]
  BY SubSeqProperties
<1>t. p \in Seq(Messages) /\ q \in Seq(Messages)
  BY <1>1
<1> HIDE DEF p, q
<1>2. p \o q = c
  <2> DEFINE d == p \o q
  <2>0. Len(c) \in Nat /\ n \in Nat /\ n <= Len(c) /\ Len(p) = n /\ Len(q) = Len(c) - n
    BY <1>1
  <2>1. /\ d \in Seq(Messages) /\ Len(d) = n + (Len(c) - n)
        /\ \A i \in 1 .. n + (Len(c) - n) : d[i] = IF i <= n THEN p[i] ELSE q[i - n]
    <3>1. /\ d \in Seq(Messages) /\ Len(d) = Len(p) + Len(q)
          /\ \A i \in 1 .. Len(p) + Len(q) : d[i] = IF i <= Len(p) THEN p[i] ELSE q[i - Len(p)]
      BY <1>t, ConcatProperties
    <3> HIDE DEF d
    <3> QED BY <2>0, <3>1
  <2> HIDE DEF d
  <2>2. Len(d) = Len(c)
    BY <2>0, <2>1
  <2>4. \A i \in 1 .. Len(c) : d[i] = c[i]
    <3> TAKE i \in 1 .. Len(c)
    <3>1. CASE i <= n
      BY <1>1, <2>0, <2>1, <3>1
    <3>2. CASE ~(i <= n)
      <4>1. i - n \in 1 .. Len(c) - n /\ n + (i - n) = i /\ i \in 1 .. n + (Len(c) - n)
        BY <2>0, <3>2
      <4> QED BY <1>1, <2>1, <3>2, <4>1
    <3> QED BY <3>1, <3>2
  <2> HIDE DEF d
  <2>3. d = c
    BY <2>1, <2>2, <2>4, SeqEqual
  <2> QED BY <2>3 DEF d
<1> QED BY <1>t, <1>2 DEF p, q

LEMMA WayMove ==
    ASSUME NEW a \in Seq(Messages), NEW b \in Seq(Messages), NEW c \in Seq(Messages),
           NEW n \in 0 .. Len(c)
    PROVE  LET p == SubSeq(c, 1, n)
               q == SubSeq(c, n + 1, Len(c)) IN
           /\ p \in Seq(Messages) /\ q \in Seq(Messages)
           /\ (a \o (b \o p)) \o q = (a \o b) \o c
<1> DEFINE p == SubSeq(c, 1, n)
           q == SubSeq(c, n + 1, Len(c))
           x == a \o b
<1>t. p \in Seq(Messages) /\ q \in Seq(Messages) /\ x \in Seq(Messages)
  BY WaySplit
<1>2. p \o q = c
  BY WaySplit
<1> HIDE DEF p, q
<1>4. (a \o (b \o p)) = x \o p
  BY SMTT(30), <1>t, WayAssoc
<1> HIDE DEF x
<1>5. x \o (p \o q) = (x \o p) \o q
  BY SMTT(30), <1>t, WayAssoc
<1>6. (a \o (b \o p)) \o q = x \o c
  BY <1>2, <1>4, <1>5
<1> QED BY <1>t, <1>6 DEF p, q, x

LEMMA WayTail ==
    ASSUME NEW a \in Seq(Messages), NEW b \in Seq(Messages), a # <<>>
    PROVE  /\ Tail(a) \o b = Tail(a \o b) /\ Head(a \o b) = Head(a) /\ a \o b # <<>>
<1> DEFINE w == a \o b
           s == Tail(a) \o b
           t == Tail(w)
<1>1. Tail(a) \in Seq(Messages) /\ Len(Tail(a)) = Len(a) - 1 /\ Len(a) >= 1
      /\ \A i \in 1 .. Len(a) - 1 : Tail(a)[i] = a[i + 1]
  BY EmptySeq, HeadTailProperties
<1>2. w \in Seq(Messages) /\ Len(w) = Len(a) + Len(b) /\ w[1] = a[1]
      /\ \A i \in 1 .. Len(w) : w[i] = IF i <= Len(a) THEN a[i] ELSE b[i - Len(a)]
  BY <1>1
<1>3. w # <<>>
  BY <1>1, <1>2
<1> HIDE DEF w
<1>4. t \in Seq(Messages) /\ Len(t) = Len(w) - 1 /\ \A i \in 1 .. Len(t) : t[i] = w[i + 1]
  BY <1>2, <1>3, HeadTailProperties
<1>5. s \in Seq(Messages) /\ Len(s) = Len(w) - 1
      /\ \A i \in 1 .. Len(s) : s[i] = IF i <= Len(a) - 1 THEN Tail(a)[i] ELSE b[i - (Len(a) - 1)]
  BY <1>1, <1>2
<1> HIDE DEF s, t
<1>6. \A i \in 1 .. Len(s) : s[i] = t[i]
  BY SMTT(30), <1>1, <1>2, <1>4, <1>5
<1>7. s = t
  BY <1>4, <1>5, <1>6, SeqEqual
<1>8. Head(w) = w[1] /\ Head(a) = a[1]
  BY <1>2, <1>3
<1> QED BY <1>2, <1>3, <1>7, <1>8 DEF s, t, w
----------------------------------------------------------------------------
(* The socket.                                                             *)

\* The parts of the way from and to a session g of the end e.
LEMMA PeerFacts ==
    ASSUME TypeInv, NEW e \in End
    PROVE  LET o == ep[Other(e)] IN
           /\ o \in Sessions
           /\ o.rx \in Seq(Messages) /\ o.tx \in Seq(Messages) /\ o.net \in Seq(Messages)
           /\ o.sendNonce \in Nat /\ o.recvNonce \in Nat
<1>1. ep[Other(e)] \in Sessions
  BY OtherEnd DEF TypeInv
<1> QED BY <1>1, SeqFacts

\* A message that is not encrypted is queued.
LEMMA QueueStep ==
    ASSUME TypeInv, NEW e \in End, NEW r \in Sessions, NEW m \in Messages, m.kind # "enc",
           StepOk(e, r)
    PROVE  StepOk(e, Queue(r, m))
<1> DEFINE q == Queue(r, m)
           o == ep[Other(e)]
           w == o.rx \o r.net
<1>1. /\ q.socketOpen = r.socketOpen /\ q.rx = r.rx /\ q.net = r.net
      /\ q.sendNonce = r.sendNonce /\ q.recvNonce = r.recvNonce /\ q.tx = Append(r.tx, m)
  BY QueueFields
<1>2. w \in Seq(Messages) /\ w \o r.tx \in Seq(Messages) /\ r.tx \in Seq(Messages)
  BY PeerFacts, SeqFacts, WayType
<1> HIDE DEF q
<1>3. OutOk(e, r) => OutOk(e, q)
  <2>1. w \o q.tx = Append(w \o r.tx, m)
    BY <1>1, <1>2, WayAppend DEF w
  <2>2. InStep(w \o r.tx, o.recvNonce, r.sendNonce) => InStep(w \o q.tx, o.recvNonce, r.sendNonce)
    BY <1>2, <2>1, InStepPlain DEF w
  <2> QED BY <1>1, <2>2 DEF OutOk
<1>4. InOk(e, r) => InOk(e, q)
  BY <1>1 DEF InOk
<1> QED BY <1>1, <1>3, <1>4 DEF StepOk, q

\* Used(r): the nonce is used up and nothing is queued yet.
Used(r) == [r EXCEPT !.sendNonce = @ + 1]

LEMMA UsedFields ==
    ASSUME NEW r \in Sessions
    PROVE  LET q == Used(r) IN
           /\ q \in Sessions /\ SameStory(q, r)
           /\ q.socketOpen = r.socketOpen /\ q.rx = r.rx /\ q.tx = r.tx /\ q.net = r.net
           /\ q.sendNonce = r.sendNonce + 1 /\ q.recvNonce = r.recvNonce
           /\ q.negotiation = r.negotiation
<1> DEFINE n == r.sendNonce + 1
<1>1. n \in Nat
  BY SeqFacts
<1> HIDE DEF n
<1>2. [r EXCEPT !.sendNonce = n] \in Sessions
  BY <1>1 DEF Sessions
<1>3. Used(r) = [r EXCEPT !.sendNonce = n]
  BY DEF Used, n
<1> QED BY <1>2, <1>3 DEF Sessions, SameStory, n

LEMMA QueueEncryptedFields ==
    ASSUME NEW r \in Sessions, NEW t \in {"app", "propose", "reply", "syn", "ack"},
           NEW m \in Names, NEW k \in Nat
    PROVE  LET q == QueueEncrypted(r, Text(t, m, k)) IN
           /\ q \in Sessions /\ SameStory(q, r)
           /\ q.socketOpen = r.socketOpen /\ q.rx = r.rx /\ q.net = r.net
           /\ q.sendNonce = r.sendNonce + 1 /\ q.recvNonce = r.recvNonce
           /\ q.tx = Append(r.tx, Enc(r.sendNonce, Text(t, m, k)))
           /\ q.negotiation = r.negotiation
<1> DEFINE x == Enc(r.sendNonce, Text(t, m, k))
           u == Used(r)
<1>1. x \in Messages
  BY SeqFacts, EncType
<1>2. /\ u \in Sessions /\ SameStory(u, r)
      /\ u.socketOpen = r.socketOpen /\ u.rx = r.rx /\ u.tx = r.tx /\ u.net = r.net
      /\ u.sendNonce = r.sendNonce + 1 /\ u.recvNonce = r.recvNonce
      /\ u.negotiation = r.negotiation
  BY UsedFields
<1>3. QueueEncrypted(r, Text(t, m, k)) = Queue(u, x)
  BY DEF QueueEncrypted, Used
<1> HIDE DEF x, u
<1> QED BY <1>1, <1>2, <1>3, QueueFields DEF SameStory, x

\* An encrypted message is queued, with the next nonce.
LEMMA QueueEncryptedStep ==
    ASSUME TypeInv, NEW e \in End, NEW r \in Sessions,
           NEW t \in {"app", "propose", "reply", "syn", "ack"}, NEW m \in Names, NEW k \in Nat,
           StepOk(e, r)
    PROVE  StepOk(e, QueueEncrypted(r, Text(t, m, k)))
<1> DEFINE q == QueueEncrypted(r, Text(t, m, k))
           x == Enc(r.sendNonce, Text(t, m, k))
           o == ep[Other(e)]
           w == o.rx \o r.net
<1>1. /\ q.socketOpen = r.socketOpen /\ q.rx = r.rx /\ q.net = r.net
      /\ q.sendNonce = r.sendNonce + 1 /\ q.recvNonce = r.recvNonce /\ q.tx = Append(r.tx, x)
  BY ZenonT(60), QueueEncryptedFields
<1>2. w \in Seq(Messages) /\ w \o r.tx \in Seq(Messages) /\ r.tx \in Seq(Messages)
  BY PeerFacts, SeqFacts, WayType
<1>n. o.recvNonce \in Nat /\ r.sendNonce \in Nat
  BY PeerFacts, SeqFacts
<1>t. x \in Messages /\ x.kind = "enc" /\ x.nonce = r.sendNonce
  BY <1>n, EncType
<1> HIDE DEF q, x
<1>3. OutOk(e, r) => OutOk(e, q)
  <2>1. w \o q.tx = Append(w \o r.tx, x)
    BY <1>1, <1>2, <1>t, WayAppend DEF w
  <2>2. InStep(w \o r.tx, o.recvNonce, r.sendNonce)
           => InStep(w \o q.tx, o.recvNonce, r.sendNonce + 1)
    BY <1>2, <1>n, <1>t, <2>1, InStepEncrypted DEF w
  <2> QED BY <1>1, <2>2 DEF OutOk
<1>4. InOk(e, r) => InOk(e, q)
  BY <1>1 DEF InOk
<1> QED BY <1>1, <1>3, <1>4 DEF StepOk, q
\* Sending leaves what has been received as it is.
SameInput(q, r) ==
    /\ SameStory(q, r) /\ q.socketOpen = r.socketOpen /\ q.rx = r.rx
    /\ q.sendNonce = r.sendNonce /\ q.recvNonce = r.recvNonce
    /\ q.negotiation = r.negotiation


\* flush_wire moves the oldest of what is queued to the kernel, or drops all
\* of it when the peer has gone.
LEMMA FlushStep ==
    ASSUME TypeInv, NEW e \in End, NEW r \in Sessions
    PROVE  LET q == Flush(e, r) IN
           q \in Sessions /\ SameInput(q, r) /\ (StepOk(e, r) => StepOk(e, q))
<1> DEFINE q == Flush(e, r)
           o == ep[Other(e)]
<1>t. r.net \in Seq(Messages) /\ r.tx \in Seq(Messages) /\ r.writeShutdown \in BOOLEAN
  BY SeqFacts
<1>1. CASE ~o.socketOpen
  <2> DEFINE nil == <<>>
  <2>1. nil \in Seq(Messages)
    OBVIOUS
  <2>2. q = [r EXCEPT !.tx = nil]
    BY <1>1 DEF Flush
  <2> HIDE DEF nil, q
  <2>3. q \in Sessions /\ SameInput(q, r)
    BY <2>1, <2>2 DEF Sessions, SameInput, SameStory
  <2>4. StepOk(e, q)
    BY <1>1 DEF StepOk
  <2> QED BY <2>3, <2>4 DEF q
<1>2. CASE o.socketOpen
  <2> DEFINE room == IF Len(r.net) < NetCap THEN NetCap - Len(r.net) ELSE 0
             n    == IF Len(r.tx) < room THEN Len(r.tx) ELSE room
             net  == r.net \o SubSeq(r.tx, 1, n)
             tx   == SubSeq(r.tx, n + 1, Len(r.tx))
  <2>1. q = [r EXCEPT !.net = net, !.tx = tx]
    BY <1>2 DEF Flush
  <2>2. n \in 0 .. Len(r.tx)
    <3>1. NetCap \in Nat /\ Len(r.net) \in Nat /\ Len(r.tx) \in Nat
      BY <1>t, SessionAssumption
    <3>2. room \in Nat
      BY <3>1
    <3> HIDE DEF room
    <3> QED BY <3>1, <3>2
  <2> HIDE DEF n, q
  <2>o. o.rx \in Seq(Messages)
    BY PeerFacts
  <2>3. SubSeq(r.tx, 1, n) \in Seq(Messages) /\ tx \in Seq(Messages)
    BY <1>t, <2>2, <2>o, WayMove
  <2>4. net \in Seq(Messages)
    BY <1>t, <2>3
  <2>5. (o.rx \o net) \o tx = (o.rx \o r.net) \o r.tx
    BY ZenonT(60), <1>t, <2>2, <2>o, WayMove
  <2> HIDE DEF net, tx
  <2>6. q \in Sessions /\ SameInput(q, r) /\ q.net = net /\ q.tx = tx
    BY <2>1, <2>3, <2>4 DEF Sessions, SameInput, SameStory
  <2>7. OutOk(e, r) => OutOk(e, q)
    BY <2>5, <2>6 DEF OutOk, SameInput
  <2>8. InOk(e, r) => InOk(e, q)
    BY <2>6 DEF InOk, SameInput
  <2> QED BY <2>6, <2>7, <2>8 DEF StepOk, SameInput, q
<1> QED BY <1>1, <1>2

\* The end of file follows whatever is in the kernel.
LEMMA WithEofStep ==
    ASSUME NEW net \in Seq(Messages)
    PROVE  /\ WithEof(net) \in Seq(Messages)
           /\ WithEof(net) = net \/ WithEof(net) = Append(net, Eof)
  BY EofType DEF WithEof

\* SHUT_WR is sent after everything else.
LEMMA ShutdownStep ==
    ASSUME TypeInv, NEW e \in End, NEW r \in Sessions
    PROVE  LET q == Shutdown(r) IN
           q \in Sessions /\ SameInput(q, r) /\ (StepOk(e, r) => StepOk(e, q))
<1> DEFINE q == Shutdown(r)
           net == WithEof(r.net)
           o == ep[Other(e)]
           w == o.rx \o r.net
<1>t. r.net \in Seq(Messages) /\ r.tx \in Seq(Messages)
  BY SeqFacts
<1>n. net \in Seq(Messages) /\ (net = r.net \/ net = Append(r.net, Eof))
  BY <1>t, WithEofStep
<1>1. CASE q = r
  BY <1>1 DEF SameInput, SameStory
<1>2. CASE r.tx = <<>> /\ q = [r EXCEPT !.net = net, !.writeShutdown = TRUE]
  <2> HIDE DEF net, q
  <2>1. q \in Sessions /\ SameInput(q, r) /\ q.net = net /\ q.tx = r.tx
    BY <1>2, <1>n DEF Sessions, SameInput, SameStory
  <2>2. InOk(e, r) => InOk(e, q)
    BY <2>1 DEF InOk, SameInput
  <2>3. OutOk(e, r) => OutOk(e, q)
    <3>1. CASE net = r.net
      BY <2>1, <3>1 DEF OutOk, SameInput
    <3>2. CASE net = Append(r.net, Eof)
      <4>1. o.rx \in Seq(Messages) /\ w \in Seq(Messages)
        BY <1>t, PeerFacts, WayType
      <4>2. o.rx \o net = Append(w, Eof)
        BY <1>t, <3>2, <4>1, EofType, WayAppend
      <4>3. Append(w, Eof) \in Seq(Messages)
        BY <4>1, EofType
      <4>4. w \o r.tx = w /\ (o.rx \o net) \o q.tx = Append(w, Eof)
        BY <1>2, <2>1, <4>1, <4>2, <4>3, ConcatEmptySeq
      <4>5. InStep(w, o.recvNonce, r.sendNonce) => InStep(Append(w, Eof), o.recvNonce, r.sendNonce)
        BY <4>1, EofType, InStepPlain
      <4> QED BY <2>1, <4>4, <4>5 DEF OutOk, SameInput
    <3> QED BY <1>n, <3>1, <3>2
  <2> QED BY <2>1, <2>2, <2>3 DEF StepOk, SameInput, q
<1> QED BY <1>1, <1>2 DEF Shutdown

LEMMA FlushPendingStep ==
    ASSUME TypeInv, NEW e \in End, NEW r \in Sessions
    PROVE  LET q == FlushPending(e, r) IN
           q \in Sessions /\ SameInput(q, r) /\ (StepOk(e, r) => StepOk(e, q))
<1> DEFINE f == Flush(e, r)
           q == Shutdown(f)
<1>1. f \in Sessions /\ SameInput(f, r) /\ (StepOk(e, r) => StepOk(e, f))
  BY FlushStep
<1> HIDE DEF f
<1>2. q \in Sessions /\ SameInput(q, f) /\ (StepOk(e, f) => StepOk(e, q))
  BY <1>1, ShutdownStep
<1> QED BY <1>1, <1>2 DEF FlushPending, SameInput, SameStory, f
----------------------------------------------------------------------------
(* Reading.                                                                *)

LEMMA PoppedFields ==
    ASSUME NEW r \in Sessions, r.rx # <<>>
    PROVE  LET q == Popped(r) IN
           /\ q \in Sessions /\ SameStory(q, r)
           /\ q.socketOpen = r.socketOpen /\ q.tx = r.tx /\ q.net = r.net
           /\ q.sendNonce = r.sendNonce /\ q.recvNonce = r.recvNonce
           /\ q.rx = Tail(r.rx) /\ q.negotiation = r.negotiation
           /\ Head(r.rx) \in Messages
<1> DEFINE t == Tail(r.rx)
<1>1. t \in Seq(Messages) /\ Head(r.rx) \in Messages
  BY SeqFacts, RestFacts
<1> HIDE DEF t
<1>2. [r EXCEPT !.rx = t] \in Sessions
  BY <1>1 DEF Sessions
<1>3. Popped(r) = [r EXCEPT !.rx = t]
  BY DEF Popped, t
<1> QED BY <1>1, <1>2, <1>3 DEF Sessions, SameStory, t

\* The way into a session g of the end e without its first message.
LEMMA WayIn ==
    ASSUME TypeInv, NEW e \in End, NEW r \in Sessions, r.rx # <<>>
    PROVE  LET o == ep[Other(e)]
               w == (r.rx \o o.net) \o o.tx IN
           /\ w \in Seq(Messages) /\ w # <<>> /\ Head(w) = Head(r.rx)
           /\ (Tail(r.rx) \o o.net) \o o.tx = Tail(w)
           /\ r.recvNonce \in Nat /\ o.sendNonce \in Nat
<1> DEFINE o == ep[Other(e)]
           a == r.rx
           b == o.net
           c == o.tx
           v == a \o b
           w == v \o c
<1>1. a \in Seq(Messages) /\ b \in Seq(Messages) /\ c \in Seq(Messages) /\ a # <<>>
  BY PeerFacts, SeqFacts
<1>2. r.recvNonce \in Nat /\ o.sendNonce \in Nat
  BY PeerFacts, SeqFacts
<1> HIDE DEF a, b, c
<1>3. Tail(a) \o b = Tail(v) /\ Head(v) = Head(a) /\ v # <<>>
  BY <1>1, WayTail
<1>4. v \in Seq(Messages) /\ w \in Seq(Messages)
  BY <1>1, WayType
<1> HIDE DEF v
<1>5. Tail(v) \o c = Tail(w) /\ Head(w) = Head(v) /\ w # <<>>
  BY <1>1, <1>3, <1>4, WayTail
<1>6. w \in Seq(Messages) /\ w # <<>> /\ Head(w) = Head(a) /\ (Tail(a) \o b) \o c = Tail(w)
  BY <1>3, <1>4, <1>5
<1> QED BY <1>2, <1>6 DEF v, a, b, c

\* A message that is not encrypted is taken out.
LEMMA PoppedStep ==
    ASSUME TypeInv, NEW e \in End, NEW r \in Sessions, r.rx # <<>>, Head(r.rx).kind # "enc",
           StepOk(e, r)
    PROVE  StepOk(e, Popped(r))
<1> DEFINE q == Popped(r)
           o == ep[Other(e)]
           w == (r.rx \o o.net) \o o.tx
<1>1. /\ q.socketOpen = r.socketOpen /\ q.tx = r.tx /\ q.net = r.net
      /\ q.sendNonce = r.sendNonce /\ q.recvNonce = r.recvNonce /\ q.rx = Tail(r.rx)
  BY PoppedFields
<1>2. /\ w \in Seq(Messages) /\ w # <<>> /\ Head(w).kind # "enc"
      /\ (q.rx \o o.net) \o o.tx = Tail(w)
  BY <1>1, WayIn
<1>n. r.recvNonce \in Nat /\ o.sendNonce \in Nat
  BY WayIn
<1> HIDE DEF q
<1>3. InOk(e, r) => InOk(e, q)
  <2> SUFFICES ASSUME InStep(w, r.recvNonce, o.sendNonce)
               PROVE  InStep(Tail(w), r.recvNonce, o.sendNonce)
    BY <1>1, <1>2 DEF InOk
  <2> HIDE DEF w
  <2> QED BY <1>2, <1>n, InStepTail
<1>4. OutOk(e, r) => OutOk(e, q)
  BY <1>1 DEF OutOk
<1> QED BY <1>1, <1>3, <1>4 DEF StepOk, q

\* Deciphered(r): the first message is taken out and its nonce used up.
Deciphered(r) == [Popped(r) EXCEPT !.recvNonce = @ + 1]

LEMMA DecipheredFields ==
    ASSUME NEW r \in Sessions, r.rx # <<>>
    PROVE  LET q == Deciphered(r) IN
           /\ q \in Sessions /\ SameStory(q, r)
           /\ q.socketOpen = r.socketOpen /\ q.tx = r.tx /\ q.net = r.net
           /\ q.sendNonce = r.sendNonce /\ q.recvNonce = r.recvNonce + 1
           /\ q.rx = Tail(r.rx) /\ q.negotiation = r.negotiation
           /\ Head(r.rx) \in Messages
<1> DEFINE p == Popped(r)
           n == p.recvNonce + 1
<1>1. /\ p \in Sessions /\ SameStory(p, r)
      /\ p.socketOpen = r.socketOpen /\ p.tx = r.tx /\ p.net = r.net
      /\ p.sendNonce = r.sendNonce /\ p.recvNonce = r.recvNonce
      /\ p.rx = Tail(r.rx) /\ p.negotiation = r.negotiation
      /\ Head(r.rx) \in Messages
  BY PoppedFields
<1>2. n \in Nat /\ n = r.recvNonce + 1
  BY <1>1, SeqFacts
<1>3. Deciphered(r) = [p EXCEPT !.recvNonce = n]
  BY DEF Deciphered
<1> HIDE DEF p, n
<1>4. [p EXCEPT !.recvNonce = n] \in Sessions
  BY <1>1, <1>2 DEF Sessions
<1> QED BY <1>1, <1>2, <1>3, <1>4 DEF Sessions, SameStory

LEMMA DecipheredStep ==
    ASSUME TypeInv, NEW e \in End, NEW r \in Sessions, r.rx # <<>>,
           Decrypts(r, Head(r.rx)), StepOk(e, r)
    PROVE  StepOk(e, Deciphered(r))
<1> DEFINE q == Deciphered(r)
           o == ep[Other(e)]
           w == (r.rx \o o.net) \o o.tx
<1>1. /\ q.socketOpen = r.socketOpen /\ q.tx = r.tx /\ q.net = r.net
      /\ q.sendNonce = r.sendNonce /\ q.recvNonce = r.recvNonce + 1 /\ q.rx = Tail(r.rx)
  BY DecipheredFields
<1>2. /\ w \in Seq(Messages) /\ w # <<>>
      /\ Head(w).kind = "enc" /\ Head(w).nonce = r.recvNonce
      /\ (q.rx \o o.net) \o o.tx = Tail(w)
  BY <1>1, WayIn DEF Decrypts
<1>n. r.recvNonce \in Nat /\ o.sendNonce \in Nat
  BY WayIn
<1> HIDE DEF q
<1>3. InOk(e, r) => InOk(e, q)
  <2> SUFFICES ASSUME InStep(w, r.recvNonce, o.sendNonce)
               PROVE  InStep(Tail(w), r.recvNonce + 1, o.sendNonce)
    BY <1>1, <1>2 DEF InOk
  <2> HIDE DEF w
  <2> QED BY <1>2, <1>n, InStepTail
<1>4. OutOk(e, r) => OutOk(e, q)
  BY <1>1 DEF OutOk
<1> QED BY <1>1, <1>3, <1>4 DEF StepOk, q

----------------------------------------------------------------------------
(* Stories.                                                                *)

\* Nothing has gone wrong so far.
Sound(ev) == \A i \in DOMAIN ev : ev[i] \notin {"Error", "Closed"}

\* A ready session has said so.
Announced(ev) == Len(ev) >= 2 /\ ev[2] = "MultiplexerReady"

LEMMA AppendEvent ==
    ASSUME NEW ev \in Seq(Events), NEW x \in Events
    PROVE  LET to == Append(ev, x) IN
           /\ to \in Seq(Events) /\ DOMAIN ev = 1 .. Len(ev) /\ Len(ev) \in Nat
           /\ DOMAIN to = 1 .. Len(ev) + 1 /\ to[Len(ev) + 1] = x /\ Len(to) = Len(ev) + 1
           /\ \A i \in DOMAIN ev : to[i] = ev[i]
  OBVIOUS

LEMMA StoryClosed ==
    ASSUME NEW ev \in Seq(Events), Story(ev), \A i \in DOMAIN ev : ev[i] # "Closed"
    PROVE  LET to == Append(ev, "Closed") IN
           to \in Seq(Events) /\ Story(to) /\ \E i \in DOMAIN to : to[i] = "Closed"
<1> DEFINE to == Append(ev, "Closed")
<1>1. "Closed" \in Events
  BY DEF Events
<1>2. /\ to \in Seq(Events) /\ DOMAIN ev = 1 .. Len(ev) /\ Len(ev) \in Nat
      /\ DOMAIN to = 1 .. Len(ev) + 1 /\ to[Len(ev) + 1] = "Closed"
      /\ \A i \in DOMAIN ev : to[i] = ev[i]
  BY <1>1, AppendEvent
<1> HIDE DEF to
<1> QED BY <1>2 DEF Story, to

LEMMA StoryError ==
    ASSUME NEW ev \in Seq(Events), Story(ev), Sound(ev)
    PROVE  LET to == Append(ev, "Error") IN
           to \in Seq(Events) /\ Story(to) /\ \A i \in DOMAIN to : to[i] # "Closed"
<1> DEFINE to == Append(ev, "Error")
<1>1. "Error" \in Events
  BY DEF Events
<1>2. /\ to \in Seq(Events) /\ DOMAIN ev = 1 .. Len(ev) /\ Len(ev) \in Nat
      /\ DOMAIN to = 1 .. Len(ev) + 1 /\ to[Len(ev) + 1] = "Error"
      /\ \A i \in DOMAIN ev : to[i] = ev[i]
  BY <1>1, AppendEvent
<1> HIDE DEF to
<1> QED BY <1>2 DEF Story, Sound, to

LEMMA StoryStream ==
    ASSUME NEW ev \in Seq(Events), Story(ev), Sound(ev), Announced(ev),
           NEW x \in {"StreamOpened", "StreamAccepted"}
    PROVE  LET to == Append(ev, x) IN
           to \in Seq(Events) /\ Story(to) /\ Sound(to) /\ Announced(to)
<1> DEFINE to == Append(ev, x)
<1>1. x \in Events
  BY DEF Events
<1>2. /\ to \in Seq(Events) /\ DOMAIN ev = 1 .. Len(ev) /\ Len(ev) \in Nat
      /\ DOMAIN to = 1 .. Len(ev) + 1 /\ to[Len(ev) + 1] = x /\ Len(to) = Len(ev) + 1
      /\ \A i \in DOMAIN ev : to[i] = ev[i]
  BY <1>1, AppendEvent
<1> HIDE DEF to
<1>3. Len(ev) >= 2 /\ 2 \in DOMAIN ev /\ ev[2] = "MultiplexerReady"
  BY <1>2 DEF Announced
<1>4. Announced(to)
  BY <1>2, <1>3 DEF Announced
<1>5. Sound(to)
  BY <1>2 DEF Sound
<1>6. Story(to)
  BY <1>2, <1>3 DEF Story, Sound
<1> QED BY <1>2, <1>4, <1>5, <1>6 DEF to

\* The two events of a session that becomes ready.
ReadyEvents == <<"Secured", "MultiplexerReady">>

LEMMA StoryReady ==
    ASSUME NEW ev, ev = <<>>
    PROVE  LET to == ev \o ReadyEvents IN
           to \in Seq(Events) /\ Story(to) /\ Sound(to) /\ Announced(to)
<1> DEFINE to == ev \o ReadyEvents
<1>1. ReadyEvents \in Seq(Events) /\ DOMAIN ReadyEvents = {1, 2} /\ Len(ReadyEvents) = 2
      /\ ReadyEvents[1] = "Secured" /\ ReadyEvents[2] = "MultiplexerReady"
  BY DEF ReadyEvents, Events
<1>2. to = ReadyEvents
  BY <1>1, ConcatEmptySeq
<1> QED BY <1>1, <1>2 DEF Story, Sound, Announced
----------------------------------------------------------------------------
(* The end of a session.                                                   *)

LEMMA CloseSocketFields ==
    ASSUME NEW r \in Sessions
    PROVE  LET q == CloseSocket(r) IN
           q \in Sessions /\ SameStory(q, r) /\ q.socketOpen = FALSE
<1>1. CASE ~r.socketOpen
  BY <1>1 DEF CloseSocket, SameStory, Sessions
<1>2. CASE r.socketOpen
  <2> DEFINE net == IF r.writeShutdown THEN r.net ELSE WithEof(r.net)
             nil == <<>>
  <2>1. net \in Seq(Messages) /\ nil \in Seq(Messages)
    BY SeqFacts, WithEofStep
  <2>2. CloseSocket(r) = [r EXCEPT !.socketOpen = FALSE, !.writeShutdown = TRUE, !.rx = nil,
                                   !.tx = nil, !.net = net]
    BY <1>2 DEF CloseSocket
  <2> HIDE DEF net, nil
  <2> DEFINE q == [r EXCEPT !.socketOpen = FALSE, !.writeShutdown = TRUE, !.rx = nil,
                            !.tx = nil, !.net = net]
  <2>3. q \in Sessions
    BY <2>1 DEF Sessions
  <2>4. SameStory(q, r) /\ q.socketOpen = FALSE
    BY DEF Sessions, SameStory
  <2> HIDE DEF q
  <2> QED BY <2>2, <2>3, <2>4 DEF q
<1> QED BY <1>1, <1>2

\* What is left of a session that closes with the events ev.
ClosedWith(q, r, ev) ==
    /\ q \in Sessions /\ q.state = "Closed" /\ q.busy = FALSE /\ q.socketOpen = FALSE
    /\ q.stage = r.stage /\ q.remotePeer = r.remotePeer
    /\ q.events = Append(ev, "Closed")

LEMMA CloseFields ==
    ASSUME NEW r \in Sessions, r.state # "Closed"
    PROVE  ClosedWith(Close(r), r, r.events)
<1> DEFINE c   == CloseSocket(r)
           d   == [c.stream EXCEPT !.open = FALSE, !.writeOpen = FALSE,
                                   !.closeWritePending = FALSE, !.rx = <<>>]
           ev  == Append(r.events, "Closed")
           s   == [c EXCEPT !.state = "Closed", !.busy = FALSE, !.stream = d]
           q   == [s EXCEPT !.events = ev]
<1>1. c \in Sessions /\ SameStory(c, r) /\ c.socketOpen = FALSE
  BY CloseSocketFields
<1>2. d \in Directs
  <2> DEFINE nil == <<>>
  <2>1. nil \in Seq(Texts) /\ c.stream \in Directs
    BY <1>1, SeqFacts
  <2> HIDE DEF nil, c
  <2>2. [c.stream EXCEPT !.open = FALSE, !.writeOpen = FALSE,
                         !.closeWritePending = FALSE, !.rx = nil] \in Directs
    BY <2>1 DEF Directs
  <2> QED BY <2>2 DEF nil
<1>3. ev \in Seq(Events)
  <2>1. "Closed" \in Events /\ r.events \in Seq(Events)
    BY SeqFacts DEF Events
  <2> QED BY <2>1
<1>4. s.events = c.events /\ c.events = r.events
  BY <1>1 DEF SameStory
<1>5. Close(r) = [s EXCEPT !.events = Append(s.events, "Closed")]
  BY DEF Close, Emit
<1>6. Close(r) = q
  BY <1>4, <1>5
<1> HIDE DEF c, d, ev
<1>7. s \in Sessions /\ s.state = "Closed" /\ s.busy = FALSE /\ s.socketOpen = FALSE
      /\ s.stage = r.stage /\ s.remotePeer = r.remotePeer
  BY <1>1, <1>2 DEF Sessions, SameStory
<1> HIDE DEF s
<1>8. /\ q \in Sessions /\ q.state = "Closed" /\ q.busy = FALSE /\ q.socketOpen = FALSE
      /\ q.stage = r.stage /\ q.remotePeer = r.remotePeer /\ q.events = ev
  BY <1>3, <1>7 DEF Sessions
<1> QED BY <1>6, <1>8 DEF ClosedWith, ev

LEMMA FailFields ==
    ASSUME NEW r \in Sessions, r.state \notin {"Failed", "Closed"}
    PROVE  ClosedWith(Fail(r), r, Append(r.events, "Error"))
<1> DEFINE s  == [r EXCEPT !.state = "Failed"]
           ev == Append(r.events, "Error")
           q  == [s EXCEPT !.events = ev]
<1>1. "Error" \in Events /\ r.events \in Seq(Events)
  BY SeqFacts DEF Events
<1>2. ev \in Seq(Events)
  BY <1>1
<1>3. EmitError(r) = q
  BY DEF EmitError, Emit, Sessions
<1> HIDE DEF ev
<1>4. s \in Sessions /\ s.state = "Failed" /\ s.stage = r.stage /\ s.remotePeer = r.remotePeer
  BY DEF Sessions
<1> HIDE DEF s
<1>5. /\ q \in Sessions /\ q.state = "Failed" /\ q.stage = r.stage
      /\ q.remotePeer = r.remotePeer /\ q.events = ev
  BY <1>2, <1>4 DEF Sessions
<1> HIDE DEF q
<1>6. q.state # "Closed"
  BY <1>5
<1>7. ClosedWith(Close(q), q, q.events)
  BY <1>5, <1>6, CloseFields
<1> QED BY <1>3, <1>5, <1>7 DEF Fail, ClosedWith, ev

\* A session that is closed with a story that ends in Closed is in order.
LEMMA ClosedOk ==
    ASSUME NEW e, NEW r, NEW q, NEW ev \in Seq(Events), ClosedWith(q, r, ev), SessionOk(e, r),
           Story(ev), \A i \in DOMAIN ev : ev[i] # "Closed"
    PROVE  Ok(e, q)
<1>1. /\ q \in Sessions /\ q.state = "Closed" /\ q.busy = FALSE /\ q.socketOpen = FALSE
      /\ q.stage = r.stage /\ q.remotePeer = r.remotePeer
      /\ q.events = Append(ev, "Closed")
  BY DEF ClosedWith
<1>2. Story(q.events) /\ \E i \in DOMAIN q.events : q.events[i] = "Closed"
  BY <1>1, StoryClosed
<1>3. r.stage \in {"MuxerNegotiation", "Ready"} => ExpectedPeerOk(e, q)
  BY <1>1 DEF SessionOk, ExpectedPeerOk
<1>4. SessionOk(e, q)
  BY <1>1, <1>2, <1>3 DEF SessionOk
<1>5. StepOk(e, q)
  BY <1>1 DEF StepOk
<1> QED BY <1>1, <1>4, <1>5 DEF Ok

LEMMA CloseOk ==
    ASSUME NEW e, NEW r \in Sessions, SessionOk(e, r), r.state # "Closed"
    PROVE  Ok(e, Close(r))
<1>1. r.events \in Seq(Events) /\ Story(r.events) /\ \A i \in DOMAIN r.events : r.events[i] # "Closed"
  BY SeqFacts DEF SessionOk, Told
<1>2. ClosedWith(Close(r), r, r.events)
  BY CloseFields
<1> QED BY <1>1, <1>2, ClosedOk

LEMMA FailOk ==
    ASSUME NEW e, NEW r \in Sessions, SessionOk(e, r), r.state # "Closed"
    PROVE  Ok(e, Fail(r))
<1> DEFINE ev == Append(r.events, "Error")
<1>1. r.events \in Seq(Events) /\ Story(r.events) /\ Sound(r.events)
  BY SeqFacts DEF SessionOk, Told, Sound
<1>2. ev \in Seq(Events) /\ Story(ev) /\ \A i \in DOMAIN ev : ev[i] # "Closed"
  BY <1>1, StoryError
<1>3. r.state \notin {"Failed", "Closed"}
  BY DEF SessionOk
<1>4. ClosedWith(Fail(r), r, ev)
  BY <1>3, FailFields
<1> HIDE DEF ev
<1> QED BY <1>2, <1>4, ClosedOk
----------------------------------------------------------------------------
(* A session becomes ready, and streams appear on it.                      *)

\* Nothing that the invariant speaks of has changed.
Alike(q, r) == q \in Sessions /\ SameStory(q, r) /\ SameWire(q, r)

LEMMA AlikeOk ==
    ASSUME NEW e, NEW r, NEW q, Ok(e, r), Alike(q, r)
    PROVE  Ok(e, q)
  BY StoryKept, WireKept DEF Ok, Alike

\* A session that is ready, or will be when this handler returns.
Open(e, r) == r \in Sessions /\ SessionOk(e, r) /\ r.state # "Closed"

\* A ready session tells of a stream.
LEMMA EmitStream ==
    ASSUME NEW e, NEW r, Open(e, r), r.stage = "Ready",
           NEW x \in {"StreamOpened", "StreamAccepted"}
    PROVE  LET q == Emit(r, x) IN
           Open(e, q) /\ SameWire(q, r) /\ q.stage = r.stage /\ q.busy = r.busy
<1> DEFINE ev == Append(r.events, x)
           q  == [r EXCEPT !.events = ev]
<1>1. r \in Sessions /\ SessionOk(e, r) /\ r.state # "Closed"
  BY DEF Open
<1>2. /\ r.events \in Seq(Events) /\ Story(r.events) /\ Sound(r.events) /\ Announced(r.events)
  BY <1>1, SeqFacts DEF SessionOk, Told, Sound, Announced
<1>3. ev \in Seq(Events) /\ Story(ev) /\ Sound(ev) /\ Announced(ev)
  BY <1>2, StoryStream
<1>4. Emit(r, x) = q
  BY DEF Emit
<1> HIDE DEF ev
<1>5. /\ q \in Sessions /\ q.events = ev /\ SameWire(q, r)
      /\ q.state = r.state /\ q.stage = r.stage /\ q.busy = r.busy
      /\ q.remotePeer = r.remotePeer
  BY <1>1, <1>3 DEF Sessions, SameWire
<1> HIDE DEF q
<1>6. Story(q.events) /\ Told(q)
  BY <1>3, <1>5 DEF Told, Sound, Announced
<1>7. r.stage \in {"MuxerNegotiation", "Ready"} => ExpectedPeerOk(e, q)
  BY <1>1, <1>5 DEF SessionOk, ExpectedPeerOk
<1>8. SessionOk(e, q)
  BY <1>1, <1>5, <1>6, <1>7 DEF SessionOk
<1> QED BY <1>1, <1>4, <1>5, <1>8 DEF Open

LEMMA OpenKept ==
    ASSUME NEW e, NEW r, NEW q, Open(e, r), q \in Sessions, SameStory(q, r)
    PROVE  Open(e, q)
  BY StoryKept DEF Open, SameStory

LEMMA CreateStreamStep ==
    ASSUME NEW e, NEW r, Open(e, r), r.stage = "Ready", NEW inbound \in BOOLEAN
    PROVE  LET q == CreateStream(r, inbound) IN
           /\ Open(e, q) /\ SameWire(q, r) /\ q.stage = r.stage /\ q.busy = r.busy
<1> DEFINE d  == [id |-> r.nextStreamId, open |-> TRUE, writeOpen |-> TRUE,
                  closeWritePending |-> FALSE, rx |-> <<>>]
           i  == r.nextStreamId + 1
           p  == IF inbound THEN r.pending + 1 ELSE r.pending
           s  == [r EXCEPT !.stream = d, !.nextStreamId = i, !.pending = p]
           x  == IF inbound THEN "StreamAccepted" ELSE "StreamOpened"
<1>1. r \in Sessions
  BY DEF Open
<1>n. r.nextStreamId \in Nat /\ r.pending \in Nat
  BY <1>1 DEF Sessions
<1>2. d \in Directs
  <2> DEFINE nil == <<>>
  <2>1. nil \in Seq(Texts)
    OBVIOUS
  <2> HIDE DEF nil
  <2>2. [id |-> r.nextStreamId, open |-> TRUE, writeOpen |-> TRUE,
         closeWritePending |-> FALSE, rx |-> nil] \in Directs
    BY <1>n, <2>1 DEF Directs
  <2> QED BY <2>2 DEF nil
<1>3. i \in Nat /\ p \in Nat
  BY <1>n
<1>4. CreateStream(r, inbound) = Emit(s, x)
  BY DEF CreateStream
<1>5. x \in {"StreamOpened", "StreamAccepted"}
  OBVIOUS
<1> HIDE DEF d, i, p, x
<1>6. s \in Sessions /\ SameStory(s, r) /\ SameWire(s, r)
  BY <1>1, <1>2, <1>3 DEF Sessions, SameStory, SameWire
<1> HIDE DEF s
<1>7. Open(e, s) /\ s.stage = "Ready" /\ s.busy = r.busy
  BY <1>6, OpenKept DEF SameStory
<1>8. LET q == Emit(s, x) IN
      Open(e, q) /\ SameWire(q, s) /\ q.stage = s.stage /\ q.busy = s.busy
  BY <1>5, <1>7, EmitStream
<1> QED BY <1>4, <1>6, <1>7, <1>8 DEF SameWire

\* complete_ready_state, of a session whose peer has been checked.
LEMMA CompleteReadyStep ==
    ASSUME NEW e, NEW r, Open(e, r), r.stage # "Ready", ExpectedPeerOk(e, r)
    PROVE  LET q == CompleteReadyState(r) IN
           Open(e, q) /\ SameWire(q, r) /\ q.busy = r.busy
<1> DEFINE ev    == r.events \o ReadyEvents
           ready == [r EXCEPT !.stage = "Ready", !.state = "Ready", !.events = ev]
           t     == [ready EXCEPT !.createInbound = FALSE]
<1>1. r \in Sessions /\ SessionOk(e, r) /\ r.state # "Closed"
  BY DEF Open
<1>2. r.events = <<>>
  BY <1>1 DEF SessionOk, Told
<1>3. ev \in Seq(Events) /\ Story(ev) /\ Sound(ev) /\ Announced(ev)
  BY <1>2, StoryReady
<1>4. /\ ready = [r EXCEPT !.stage = "Ready", !.state = "Ready",
                           !.events = r.events \o <<"Secured", "MultiplexerReady">>]
  BY DEF ReadyEvents
<1>5. CompleteReadyState(r) \in {ready, CreateStream(t, TRUE)}
  BY <1>4 DEF CompleteReadyState
<1> HIDE DEF ev
<1>6. /\ ready \in Sessions /\ SameWire(ready, r) /\ ready.busy = r.busy
      /\ ready.state = "Ready" /\ ready.stage = "Ready" /\ ready.events = ev
      /\ ready.remotePeer = r.remotePeer
  BY <1>1, <1>3 DEF Sessions, SameWire
<1> HIDE DEF ready
<1>7. Open(e, ready)
  <2>1. Told(ready) /\ Story(ready.events)
    BY <1>3, <1>6 DEF Told, Sound, Announced
  <2>2. ExpectedPeerOk(e, ready)
    BY <1>6 DEF ExpectedPeerOk
  <2>3. SessionOk(e, ready)
    BY <1>6, <2>1, <2>2 DEF SessionOk
  <2> QED BY <1>6, <2>3 DEF Open
<1>8. t \in Sessions /\ SameStory(t, ready) /\ SameWire(t, ready)
  BY <1>6 DEF Sessions, SameStory, SameWire
<1> HIDE DEF t
<1>9. Open(e, t) /\ t.stage = "Ready" /\ t.busy = r.busy
  BY <1>6, <1>7, <1>8, OpenKept DEF SameStory
<1>10. LET q == CreateStream(t, TRUE) IN
       Open(e, q) /\ SameWire(q, t) /\ q.busy = t.busy
  BY <1>9, CreateStreamStep
<1>11. CASE CompleteReadyState(r) = ready
  BY <1>6, <1>7, <1>11
<1>12. CASE CompleteReadyState(r) = CreateStream(t, TRUE)
  BY <1>6, <1>8, <1>9, <1>10, <1>12 DEF SameWire
<1> QED BY <1>5, <1>11, <1>12
----------------------------------------------------------------------------
(* The choice of the muxer.                                                *)

\* A nonempty set of numbers has a least one.
LEMMA LeastOne ==
    ASSUME NEW T, T \subseteq Nat, T # {}
    PROVE  \E x \in T : \A y \in T : x <= y
<1> DEFINE Less == OpToRel(<, Nat)
<1>1. IsWellFoundedOn(Less, Nat)
  BY NatLessThanWellFounded, Zenon
<1>2. \A x, y \in Nat : y < x => <<y, x>> \in Less
  <2> SUFFICES ASSUME NEW x \in Nat, NEW y \in Nat, y < x
               PROVE  <<y, x>> \in {ss \in Nat \X Nat : ss[1] < ss[2]}
    BY Zenon DEF OpToRel
  <2> QED OBVIOUS
<1> HIDE DEF Less
<1>3. PICK x \in T : \A y \in T : <<y, x>> \notin Less
  BY <1>1, WFMin
<1>4. \A y \in T : x <= y
  <2> TAKE y \in T
  <2>1. x \in Nat /\ y \in Nat
    OBVIOUS
  <2>2. ~(y < x)
    BY <1>2, <1>3, <2>1
  <2> QED BY <2>1, <2>2
<1> QED BY <1>4

LEMMA SelectType ==
    ASSUME TypeInv, NEW e \in End, NEW r
    PROVE  SelectStreamMuxer(e, r) \in Names
<1> DEFINE local  == conf.muxers[e]
           common == {i \in DOMAIN local : \E j \in DOMAIN r.remoteMuxers :
                                               r.remoteMuxers[j] = local[i]}
           least  == CHOOSE i \in common : \A j \in common : i <= j
<1>1. conf.muxers \in [End -> Seq(STRING)]
  BY DEF TypeInv
<1>2. local \in Seq(STRING)
  BY <1>1
<1> HIDE DEF local
<1>3. DOMAIN local \subseteq Nat /\ \A i \in DOMAIN local : local[i] \in STRING
  BY <1>2
<1>4. CASE common = {}
  BY <1>4 DEF SelectStreamMuxer, Names, local
<1>5. CASE common # {}
  <2>1. common \subseteq Nat
    BY <1>3
  <2> HIDE DEF common
  <2>2. \E i \in common : \A j \in common : i <= j
    BY <1>5, <2>1, LeastOne
  <2>3. least \in common
    BY <2>2
  <2> USE DEF common
  <2> HIDE DEF least
  <2>4. local[least] \in STRING
    BY <1>3, <2>3
  <2>5. SelectStreamMuxer(e, r) = local[least]
    BY <1>5 DEF SelectStreamMuxer, local, least
  <2> QED BY <2>4, <2>5 DEF Names
<1> QED BY <1>4, <1>5

LEMMA ActivateStep ==
    ASSUME NEW r \in Sessions
    PROVE  Alike(ActivateYamux(r), r)
  BY DEF ActivateYamux, Alike, Sessions, SameStory, SameWire

LEMMA MuxerStep ==
    ASSUME NEW r \in Sessions, NEW m \in Names
    PROVE  Alike([r EXCEPT !.muxer = m], r)
  BY DEF Alike, Sessions, SameStory, SameWire

LEMMA AlikeTrans ==
    ASSUME NEW p, NEW q, NEW r, Alike(p, q), Alike(q, r)
    PROVE  Alike(p, r)
  BY DEF Alike, SameStory, SameWire

\* The session q is ready, and the wire is as it was with r.
LEMMA ReadyOk ==
    ASSUME NEW e, NEW r, NEW s, Open(e, r), StepOk(e, r), Alike(s, r), r.stage # "Ready",
           ExpectedPeerOk(e, r)
    PROVE  /\ Ok(e, CompleteReadyState(s))
<1>1. Open(e, s) /\ s.stage # "Ready" /\ ExpectedPeerOk(e, s)
  BY OpenKept DEF Alike, SameStory, ExpectedPeerOk
<1> DEFINE q == CompleteReadyState(s)
<1>2. Open(e, q) /\ SameWire(q, s)
  BY <1>1, CompleteReadyStep
<1> HIDE DEF q
<1>3. SameWire(q, r)
  BY <1>2 DEF Alike, SameWire
<1>4. StepOk(e, q)
  BY <1>3, WireKept
<1> QED BY <1>2, <1>4 DEF Ok, Open, q

\* MuxerChosen of a negotiation that is not empty.
LEMMA MuxerChosenOk ==
    ASSUME NEW e, NEW r, Open(e, r), StepOk(e, r), r.stage = "MuxerNegotiation",
           r.negotiation # <<>>, NEW m \in Names
    PROVE  Ok(e, MuxerChosen(r, m))
<1> DEFINE t    == Tail(r.negotiation)
           done == [r EXCEPT !.negotiation = t]
           with == [done EXCEPT !.muxer = m]
           s    == CASE m = "na" -> done [] m = "yamux" -> ActivateYamux(with) [] OTHER -> with
<1>1. r \in Sessions /\ r.negotiation \in Seq(Texts)
  BY SeqFacts DEF Open
<1>2. t \in Seq(Texts)
  BY <1>1, HeadTailProperties
<1> HIDE DEF t
<1>3. Alike(done, r)
  BY <1>1, <1>2 DEF Alike, Sessions, SameStory, SameWire
<1> HIDE DEF done
<1>4. Alike(with, done)
  BY <1>3, MuxerStep DEF Alike
<1> HIDE DEF with
<1>5. Alike(ActivateYamux(with), with)
  BY <1>4, ActivateStep DEF Alike
<1>6. Alike(with, r) /\ Alike(ActivateYamux(with), r)
  BY <1>3, <1>4, <1>5, AlikeTrans
<1>7. s \in {done, with, ActivateYamux(with)}
  OBVIOUS
<1>8. MuxerChosen(r, m) = CompleteReadyState(s)
  BY DEF MuxerChosen, done, with, t
<1> HIDE DEF s
<1>9. Alike(s, r)
  BY <1>3, <1>6, <1>7
<1>10. ExpectedPeerOk(e, r) /\ r.stage # "Ready"
  BY DEF Open, SessionOk
<1> QED BY <1>8, <1>9, <1>10, ReadyOk
----------------------------------------------------------------------------
(* The end of the handshake.                                               *)

\* What the peer proves of itself matters from here on, not before.
LEMMA AuthenticatedStep ==
    ASSUME TypeInv, NEW e \in End, NEW r, Open(e, r), r.stage = "NoiseHandshake"
    PROVE  LET q == Authenticated(e, r) IN
           Open(e, q) /\ SameWire(q, r) /\ q.stage = r.stage /\ q.busy = r.busy
<1> DEFINE p == conf.identity[Other(e)]
           l == IF p THEN conf.muxers[Other(e)] ELSE <<>>
           q == [r EXCEPT !.remotePeer = p, !.remoteMuxers = l]
<1>1. r \in Sessions /\ SessionOk(e, r) /\ r.state # "Closed"
  BY DEF Open
<1>2. p \in BOOLEAN /\ conf.muxers[Other(e)] \in Seq(STRING)
  BY OtherEnd DEF TypeInv
<1>3. l \in Seq(STRING)
  <2> DEFINE nil == <<>>
  <2>1. nil \in Seq(STRING)
    OBVIOUS
  <2> HIDE DEF nil
  <2>2. (IF p THEN conf.muxers[Other(e)] ELSE nil) \in Seq(STRING)
    BY <1>2, <2>1
  <2> QED BY <2>2 DEF nil
<1>4. Authenticated(e, r) = q
  BY DEF Authenticated
<1> HIDE DEF p, l
<1>5. /\ q \in Sessions /\ SameWire(q, r) /\ q.state = r.state /\ q.stage = r.stage
      /\ q.busy = r.busy /\ q.events = r.events
  BY <1>1, <1>2, <1>3 DEF Sessions, SameWire
<1> HIDE DEF q
<1>6. SessionOk(e, q)
  BY <1>1, <1>5 DEF SessionOk, Told
<1> QED BY <1>1, <1>4, <1>5, <1>6 DEF Open

\* The responder waits, and the initiator asks, for a muxer.
LEMMA NegotiatingStep ==
    ASSUME NEW e, NEW r, Open(e, r), r.stage = "NoiseHandshake", ExpectedPeerOk(e, r),
           NEW m \in Names
    PROVE  LET q == [r EXCEPT !.muxer = m, !.stage = "MuxerNegotiation"] IN
           Open(e, q) /\ SameWire(q, r)
<1> DEFINE q == [r EXCEPT !.muxer = m, !.stage = "MuxerNegotiation"]
<1>1. r \in Sessions /\ SessionOk(e, r) /\ r.state # "Closed"
  BY DEF Open
<1>2. /\ q \in Sessions /\ SameWire(q, r) /\ q.state = r.state /\ q.stage = "MuxerNegotiation"
      /\ q.busy = r.busy /\ q.events = r.events /\ q.remotePeer = r.remotePeer
  BY <1>1 DEF Sessions, SameWire
<1> HIDE DEF q
<1>3. ExpectedPeerOk(e, q)
  BY <1>2 DEF ExpectedPeerOk
<1>4. SessionOk(e, q)
  BY <1>1, <1>2, <1>3 DEF SessionOk, Told
<1> QED BY <1>1, <1>2, <1>4 DEF Open, q

LEMMA FinishOk ==
    ASSUME TypeInv, NEW e \in End, NEW r, Open(e, r), StepOk(e, r), r.stage = "NoiseHandshake",
           NEW fail \in SendMayFail(e)
    PROVE  Ok(e, FinishSecureUpgrade(e, r, fail))
<1> DEFINE sel   == SelectStreamMuxer(e, r)
           neg   == [r EXCEPT !.muxer = sel, !.stage = "MuxerNegotiation"]
           plain == [r EXCEPT !.muxer = sel]
           first == conf.muxers[e][1]
           out   == QueueEncrypted(neg, Text("propose", first, 0))
<1>1. r \in Sessions /\ SessionOk(e, r) /\ r.state # "Closed" /\ sel \in Names
  BY SelectType DEF Open
<1> HIDE DEF sel
<1>2. CASE ~ExpectedPeerOk(e, r)
  BY <1>1, <1>2, FailOk DEF FinishSecureUpgrade
<1>3. CASE ExpectedPeerOk(e, r) /\ (sel = "yamux" \/ conf.muxers[e] = <<>>)
  <2>1. Alike(plain, r)
    BY <1>1, MuxerStep
  <2> HIDE DEF plain
  <2>2. Alike(ActivateYamux(plain), plain)
    BY <2>1, ActivateStep DEF Alike
  <2>3. Alike(ActivateYamux(plain), r)
    BY <2>1, <2>2, AlikeTrans
  <2>4. Ok(e, CompleteReadyState(plain)) /\ Ok(e, CompleteReadyState(ActivateYamux(plain)))
    BY <1>3, <2>1, <2>3, ReadyOk
  <2>5. FinishSecureUpgrade(e, r, fail)
           \in {CompleteReadyState(plain), CompleteReadyState(ActivateYamux(plain))}
    BY <1>3 DEF FinishSecureUpgrade, plain, sel
  <2> QED BY <2>4, <2>5
<1>4. CASE ExpectedPeerOk(e, r) /\ sel # "yamux" /\ conf.muxers[e] # <<>>
  <2>1. Open(e, neg) /\ SameWire(neg, r)
    BY <1>1, <1>4, NegotiatingStep
  <2>2. FinishSecureUpgrade(e, r, fail) =
           IF e = "res" THEN neg ELSE IF fail THEN Fail(out) ELSE Flush(e, out)
    BY <1>4 DEF FinishSecureUpgrade, sel
  <2> HIDE DEF neg
  <2>3. StepOk(e, neg) /\ neg \in Sessions
    BY <2>1, WireKept DEF Open
  <2>4. first \in Names
    <3> DEFINE local == conf.muxers[e]
    <3>1. local \in Seq(STRING) /\ local # <<>>
      BY <1>4 DEF TypeInv
    <3> HIDE DEF local
    <3>2. local[1] \in STRING
      BY <3>1
    <3> QED BY <3>2 DEF Names, local
  <2> HIDE DEF first
  <2>5. out \in Sessions /\ SameStory(out, neg) /\ StepOk(e, out)
    BY <2>3, <2>4, QueueEncryptedFields, QueueEncryptedStep
  <2> HIDE DEF out
  <2>6. Open(e, out)
    BY <2>1, <2>5, OpenKept
  <2>7. Ok(e, neg)
    BY <2>1, <2>3 DEF Ok, Open
  <2>8. Ok(e, Fail(out))
    BY <2>6, FailOk DEF Open
  <2>9. Ok(e, Flush(e, out))
    <3> DEFINE f == Flush(e, out)
    <3>1. f \in Sessions /\ SameStory(f, out) /\ StepOk(e, f)
      BY <2>5, FlushStep DEF SameInput
    <3> HIDE DEF f
    <3>2. Open(e, f)
      BY <2>6, <3>1, OpenKept
    <3> QED BY <3>1, <3>2 DEF Ok, Open, f
  <2> QED BY <2>2, <2>7, <2>8, <2>9
<1> QED BY <1>2, <1>3, <1>4
----------------------------------------------------------------------------
(* The invariant of both ends and what it says of one.                     *)

LEMMA SelfOk ==
    ASSUME SessionInv, NEW e \in End
    PROVE  /\ Ok(e, ep[e]) /\ TypeInv
           /\ ep[e].state # "Closed" => Open(e, ep[e])
<1>1. ep[e] \in Sessions /\ SessionOk(e, ep[e]) /\ TypeInv /\ NoncesInStep
  BY DEF SessionInv, TypeInv, StoryInv
<1>2. StepOk(e, ep[e])
  <2> SUFFICES ASSUME garbled = 0, ~HugeWrites, ep[e].socketOpen, ep[Other(e)].socketOpen
               PROVE  OutOk(e, ep[e]) /\ InOk(e, ep[e])
    BY DEF StepOk
  <2>1. InStep(InTransit(e), ep[Other(e)].recvNonce, ep[e].sendNonce)
    BY <1>1 DEF NoncesInStep
  <2>2. InStep(InTransit(Other(e)), ep[e].recvNonce, ep[Other(e)].sendNonce)
    BY <1>1, OtherEnd DEF NoncesInStep
  <2> QED BY <2>1, <2>2, OtherEnd DEF OutOk, InOk, InTransit
<1> QED BY <1>1, <1>2 DEF Ok, Open

\* A step of one end that leaves its session in order keeps the invariant.
LEMMA OneEnd ==
    ASSUME SessionInv, NEW e \in End, NEW g, g \in Sessions, SessionOk(e, g),
           ep' = [ep EXCEPT ![e] = g], conf' = conf, garbled' \in Nat,
           garbled' = 0 => garbled = 0 /\ StepOk(e, g),
           appSent' \in [End -> Nat], appGot' = [f \in End |-> appGot'[f]]
    PROVE  SessionInv'
<1> DEFINE o == Other(e)
<1>1. TypeInv /\ StoryInv /\ NoncesInStep
  BY DEF SessionInv
<1>2. ep \in [End -> Sessions]
  BY <1>1 DEF TypeInv
<1>3. o \in End /\ o # e /\ Other(o) = e /\ \A f \in End : f = e \/ f = o
  BY OtherEnd DEF End, Other
<1>4. ep'[e] = g /\ ep'[o] = ep[o] /\ ep' \in [End -> Sessions]
  BY <1>2, <1>3
<1>5. TypeInv'
  BY <1>1, <1>4 DEF TypeInv
<1>6. StoryInv'
  <2>1. SessionOk(e, g) /\ SessionOk(o, ep[o])
    BY <1>1, <1>3 DEF StoryInv
  <2>2. \A f \in End : SessionOk(f, ep[f])'
    BY <1>3, <1>4, <2>1 DEF SessionOk, Told, ExpectedPeerOk
  <2> QED BY <2>2 DEF StoryInv
<1>7. NoncesInStep'
  <2> SUFFICES ASSUME garbled' = 0, ~HugeWrites, NEW f \in End,
                      ep'[f].socketOpen, ep'[Other(f)].socketOpen
               PROVE  InStep((ep'[Other(f)].rx \o ep'[f].net) \o ep'[f].tx,
                             ep'[Other(f)].recvNonce, ep'[f].sendNonce)
    BY DEF NoncesInStep, InTransit
  <2>1. g.socketOpen /\ ep[o].socketOpen /\ garbled = 0
    BY <1>3, <1>4
  <2>2. OutOk(e, g) /\ InOk(e, g)
    BY <2>1 DEF StepOk
  <2>3. CASE f = e
    BY <1>3, <1>4, <2>2, <2>3 DEF OutOk
  <2>4. CASE f = o
    BY <1>3, <1>4, <2>2, <2>4 DEF InOk
  <2> QED BY <1>3, <2>3, <2>4
<1> QED BY <1>5, <1>6, <1>7 DEF SessionInv

LEMMA PutOk ==
    ASSUME SessionInv, NEW e \in End, NEW g, Put(e, g), Ok(e, g)
    PROVE  SessionInv'
<1>1. /\ ep' = [ep EXCEPT ![e] = g] /\ conf' = conf /\ garbled' = garbled
      /\ appSent' = appSent /\ appGot' = appGot
  BY DEF Put
<1>2. /\ appSent' \in [End -> Nat] /\ appGot' = [f \in End |-> appGot'[f]]
      /\ garbled' \in Nat
  BY <1>1 DEF SessionInv, TypeInv
<1>3. g \in Sessions /\ SessionOk(e, g) /\ StepOk(e, g)
  BY DEF Ok
<1> QED BY <1>1, <1>2, <1>3, OneEnd
----------------------------------------------------------------------------
(* process_pending_input.                                                  *)

\* The next stage of the upgrade, or of the handshake.
LEMMA HandshakeStep ==
    ASSUME NEW e, NEW r, Open(e, r), r.stage \in {"NegotiatingProtocol", "NoiseHandshake"},
           r.state # "TcpAccepted",
           NEW h \in {"AwaitingMsg1", "AwaitingMsg2", "AwaitingMsg3", "Complete"}
    PROVE  LET q == [r EXCEPT !.stage = "NoiseHandshake", !.hs = h] IN
           Open(e, q) /\ SameWire(q, r) /\ q.stage = "NoiseHandshake" /\ q.busy = r.busy
<1> DEFINE q == [r EXCEPT !.stage = "NoiseHandshake", !.hs = h]
<1>1. r \in Sessions /\ SessionOk(e, r) /\ r.state # "Closed"
  BY DEF Open
<1>2. /\ q \in Sessions /\ SameWire(q, r) /\ q.state = r.state /\ q.stage = "NoiseHandshake"
      /\ q.busy = r.busy /\ q.events = r.events /\ q.remotePeer = r.remotePeer
  BY <1>1 DEF Sessions, SameWire
<1> HIDE DEF q
<1>3. SessionOk(e, q)
  BY <1>1, <1>2 DEF SessionOk, Told
<1> QED BY <1>1, <1>2, <1>3 DEF Open, q

\* A message is queued and sent, or the session fails.
LEMMA SendPlain ==
    ASSUME TypeInv, NEW e \in End, NEW r, Open(e, r), StepOk(e, r),
           NEW m \in Messages, m.kind # "enc"
    PROVE  LET out == Queue(r, m)
               f   == FlushPending(e, out) IN
           /\ Open(e, out) /\ StepOk(e, out) /\ Ok(e, Fail(out)) /\ Ok(e, Close(out))
           /\ Open(e, f) /\ StepOk(e, f) /\ f.rx = r.rx /\ f.stage = r.stage
           /\ f.state = r.state
<1> DEFINE out == Queue(r, m)
           f   == FlushPending(e, out)
<1>1. r \in Sessions
  BY DEF Open
<1>2. out \in Sessions /\ SameStory(out, r) /\ out.rx = r.rx /\ StepOk(e, out)
  BY <1>1, QueueFields, QueueStep
<1> HIDE DEF out
<1>3. Open(e, out)
  BY <1>2, OpenKept
<1>4. Ok(e, Fail(out)) /\ Ok(e, Close(out))
  BY <1>3, FailOk, CloseOk DEF Open
<1>5. f \in Sessions /\ SameStory(f, out) /\ f.rx = out.rx /\ StepOk(e, f)
  BY <1>2, FlushPendingStep DEF SameInput
<1> HIDE DEF f
<1>6. Open(e, f)
  BY <1>3, <1>5, OpenKept
<1> QED BY <1>2, <1>3, <1>4, <1>5, <1>6 DEF SameStory, out, f

LEMMA NegotiateProtocolOk ==
    ASSUME SessionInv, NEW e \in End, NegotiateProtocol(e)
    PROVE  SessionInv'
<1> DEFINE r == ep[e]
           m == Head(r.rx)
<1>1. r.busy /\ r.stage = "NegotiatingProtocol" /\ r.rx # <<>>
  BY DEF NegotiateProtocol
<1>2. TypeInv /\ r \in Sessions /\ SessionOk(e, r) /\ StepOk(e, r)
  BY SelfOk DEF Ok
<1>3. r.state \notin {"Closed", "TcpAccepted"} /\ Open(e, r)
  BY <1>1, <1>2 DEF SessionOk, Open
<1>4. CASE e = "res" /\ m.kind = "msPropose" /\ \E fail \in SendMayFail(e) :
              LET out == Queue(r, Plain("msAccept")) IN
              Put(e, IF fail THEN Fail(out)
                     ELSE [Popped(FlushPending(e, out)) EXCEPT
                              !.stage = "NoiseHandshake", !.hs = "AwaitingMsg1"])
  <2> DEFINE out == Queue(r, Plain("msAccept"))
             f   == FlushPending(e, out)
             p   == Popped(f)
             q   == [p EXCEPT !.stage = "NoiseHandshake", !.hs = "AwaitingMsg1"]
  <2>1. Plain("msAccept") \in Messages /\ Plain("msAccept").kind # "enc"
    BY PlainType
  <2>2. /\ Ok(e, Fail(out)) /\ Open(e, f) /\ StepOk(e, f) /\ f.rx = r.rx
        /\ f.stage = r.stage /\ f.state = r.state
    BY <1>2, <1>3, <2>1, SendPlain
  <2>3. Put(e, Fail(out)) \/ Put(e, q)
    BY <1>4
  <2> HIDE DEF out, f
  <2>4. f.rx # <<>> /\ Head(f.rx).kind # "enc" /\ f \in Sessions
    BY <1>1, <1>4, <2>2 DEF Open
  <2>5. p \in Sessions /\ SameStory(p, f) /\ StepOk(e, p)
    BY <1>2, <2>2, <2>4, PoppedFields, PoppedStep
  <2> HIDE DEF p
  <2>6. Open(e, p) /\ p.stage = "NegotiatingProtocol" /\ p.state # "TcpAccepted"
    BY <1>1, <1>3, <2>2, <2>5, OpenKept DEF SameStory
  <2>7. Open(e, q) /\ SameWire(q, p)
    BY <2>6, HandshakeStep
  <2> HIDE DEF q
  <2>8. Ok(e, q)
    BY <2>5, <2>7, WireKept DEF Ok, Open
  <2> QED BY <2>2, <2>3, <2>8, PutOk
<1>5. CASE e = "ini" /\ m.kind = "msAccept" /\ \E fail \in SendMayFail(e) :
              LET out == Queue([Popped(r) EXCEPT !.stage = "NoiseHandshake",
                                                 !.hs = "AwaitingMsg2"],
                               Plain("msg1"))
              IN Put(e, IF fail THEN Fail(out) ELSE FlushPending(e, out))
  <2> DEFINE p   == Popped(r)
             h   == [p EXCEPT !.stage = "NoiseHandshake", !.hs = "AwaitingMsg2"]
             out == Queue(h, Plain("msg1"))
  <2>1. Plain("msg1") \in Messages /\ Plain("msg1").kind # "enc"
    BY PlainType
  <2>2. Put(e, Fail(out)) \/ Put(e, FlushPending(e, out))
    BY <1>5
  <2>3. p \in Sessions /\ SameStory(p, r) /\ StepOk(e, p)
    BY <1>1, <1>2, <1>5, PoppedFields, PoppedStep
  <2> HIDE DEF p
  <2>4. Open(e, p) /\ p.stage = "NegotiatingProtocol" /\ p.state # "TcpAccepted"
    BY <1>1, <1>3, <2>3, OpenKept DEF SameStory
  <2>5. Open(e, h) /\ SameWire(h, p)
    BY <2>4, HandshakeStep
  <2> HIDE DEF h
  <2>6. StepOk(e, h)
    BY <2>3, <2>5, WireKept
  <2>7. Ok(e, Fail(out)) /\ Ok(e, FlushPending(e, out))
    BY <1>2, <2>1, <2>5, <2>6, SendPlain DEF Ok, Open
  <2> HIDE DEF out
  <2> QED BY <2>2, <2>7, PutOk
<1>6. CASE Put(e, Fail(r))
  <2>1. Ok(e, Fail(r))
    BY <1>2, <1>3, FailOk
  <2> QED BY <1>6, <2>1, PutOk
<1> QED BY <1>4, <1>5, <1>6 DEF NegotiateProtocol
\* The session that has taken a message out.
LEMMA TakenOpen ==
    ASSUME SessionInv, NEW e \in End, ep[e].busy, ep[e].rx # <<>>
    PROVE  LET r == ep[e]
               p == Popped(r) IN
           /\ TypeInv /\ Open(e, r) /\ StepOk(e, r) /\ Ok(e, r) /\ r \in Sessions
           /\ r.state \notin {"Closed", "TcpAccepted"}
           /\ Open(e, p) /\ p.stage = r.stage /\ p.state = r.state /\ p.busy
           /\ Ok(e, Fail(p)) /\ Ok(e, Fail(r))
           /\ Head(r.rx).kind # "enc" => StepOk(e, p)
<1> DEFINE r == ep[e]
           p == Popped(r)
<1>1. TypeInv /\ r \in Sessions /\ SessionOk(e, r) /\ StepOk(e, r) /\ Ok(e, r)
  BY SelfOk DEF Ok
<1>2. r.state \notin {"Closed", "TcpAccepted"} /\ Open(e, r)
  BY <1>1 DEF SessionOk, Open
<1>3. p \in Sessions /\ SameStory(p, r) /\ (Head(r.rx).kind # "enc" => StepOk(e, p))
  BY <1>1, PoppedFields, PoppedStep
<1> HIDE DEF p
<1>4. Open(e, p)
  BY <1>2, <1>3, OpenKept
<1>5. Ok(e, Fail(p)) /\ Ok(e, Fail(r))
  BY <1>2, <1>4, FailOk DEF Open
<1> QED BY <1>1, <1>2, <1>3, <1>4, <1>5 DEF SameStory, p

LEMMA HandshakeFrameOk ==
    ASSUME SessionInv, NEW e \in End, HandshakeFrame(e)
    PROVE  SessionInv'
<1> DEFINE r == Popped(ep[e])
           m == Head(ep[e].rx)
<1>1. ep[e].busy /\ ep[e].stage = "NoiseHandshake" /\ ep[e].rx # <<>>
  BY DEF HandshakeFrame
<1>2. /\ TypeInv /\ Open(e, r) /\ r.stage = "NoiseHandshake" /\ r.state # "TcpAccepted"
      /\ Ok(e, Fail(r)) /\ (m.kind # "enc" => StepOk(e, r))
  BY <1>1, TakenOpen
<1>3. ASSUME m.kind = "msg1",
             NEW out, out = Queue([r EXCEPT !.hs = "AwaitingMsg3"], Plain("msg2")),
             Put(e, Fail(out)) \/ Put(e, FlushPending(e, out))
      PROVE  SessionInv'
  <2> DEFINE h == [r EXCEPT !.hs = "AwaitingMsg3"]
  <2>1. Plain("msg2") \in Messages /\ Plain("msg2").kind # "enc"
    BY PlainType
  <2> HIDE DEF r
  <2>2. Alike(h, r)
    BY <1>2 DEF Alike, Open, Sessions, SameStory, SameWire
  <2> HIDE DEF h
  <2>3. Open(e, h) /\ StepOk(e, h)
    BY <1>2, <1>3, <2>2, OpenKept, WireKept DEF Alike
  <2>4. Ok(e, Fail(Queue(h, Plain("msg2")))) /\ Ok(e, FlushPending(e, Queue(h, Plain("msg2"))))
    BY <1>2, <2>1, <2>3, SendPlain DEF Ok, Open
  <2>5. out = Queue(h, Plain("msg2"))
    BY <1>3 DEF h
  <2> QED BY <1>3, <2>4, <2>5, PutOk
<1>4. ASSUME m.kind = "msg2",
             NEW out, out = Queue([Authenticated(e, r) EXCEPT !.hs = "Complete"], Plain("msg3")),
             NEW again \in SendMayFail(e),
             \/ Put(e, Fail(out))
             \/ Put(e, FinishSecureUpgrade(e, FlushPending(e, out), again))
      PROVE  SessionInv'
  <2> DEFINE a == Authenticated(e, r)
             h == [a EXCEPT !.hs = "Complete"]
             f == FlushPending(e, Queue(h, Plain("msg3")))
  <2>1. Plain("msg3") \in Messages /\ Plain("msg3").kind # "enc"
    BY PlainType
  <2>2. Open(e, a) /\ SameWire(a, r) /\ a.stage = "NoiseHandshake"
    BY <1>2, AuthenticatedStep
  <2>3. out = Queue(h, Plain("msg3"))
    BY <1>4
  <2> HIDE DEF a
  <2>4. Alike(h, a)
    BY <2>2 DEF Alike, Open, Sessions, SameStory, SameWire
  <2> HIDE DEF h, r
  <2>5. Open(e, h) /\ StepOk(e, h) /\ h.stage = "NoiseHandshake"
    BY <1>2, <1>4, <2>2, <2>4, OpenKept, WireKept DEF Alike, SameStory
  <2>6. /\ Ok(e, Fail(Queue(h, Plain("msg3")))) /\ Open(e, f) /\ StepOk(e, f)
        /\ f.stage = "NoiseHandshake"
    BY <1>2, <2>1, <2>5, SendPlain
  <2> HIDE DEF f
  <2>7. Ok(e, FinishSecureUpgrade(e, f, again))
    BY <1>2, <2>6, FinishOk
  <2>8. Put(e, Fail(Queue(h, Plain("msg3")))) \/ Put(e, FinishSecureUpgrade(e, f, again))
    BY <1>4, <2>3 DEF f
  <2> QED BY <2>6, <2>7, <2>8, PutOk
<1>5. ASSUME m.kind = "msg3", NEW fail \in SendMayFail(e),
             Put(e, FinishSecureUpgrade(
                       e, [Authenticated(e, r) EXCEPT !.hs = "Complete"], fail))
      PROVE  SessionInv'
  <2> DEFINE a == Authenticated(e, r)
             h == [a EXCEPT !.hs = "Complete"]
  <2>1. Open(e, a) /\ SameWire(a, r) /\ a.stage = "NoiseHandshake"
    BY <1>2, AuthenticatedStep
  <2>2. Put(e, FinishSecureUpgrade(e, h, fail))
    BY <1>5
  <2> HIDE DEF a
  <2>3. Alike(h, a)
    BY <2>1 DEF Alike, Open, Sessions, SameStory, SameWire
  <2> HIDE DEF h, r
  <2>4. Open(e, h) /\ StepOk(e, h) /\ h.stage = "NoiseHandshake"
    BY <1>2, <1>5, <2>1, <2>3, OpenKept, WireKept DEF Alike, SameStory
  <2>5. Ok(e, FinishSecureUpgrade(e, h, fail))
    BY <1>2, <2>4, FinishOk
  <2> QED BY <2>2, <2>5, PutOk
<1>6. ASSUME Put(e, Fail(r)) PROVE SessionInv'
  BY <1>2, <1>6, PutOk
<1> QED BY <1>3, <1>4, <1>5, <1>6 DEF HandshakeFrame
LEMMA CollectNegotiationOk ==
    ASSUME SessionInv, NEW e \in End, CollectNegotiation(e)
    PROVE  SessionInv'
<1> DEFINE r == ep[e]
           m == Head(r.rx)
           p == Popped(r)
           d == Deciphered(r)
           t == Append(d.negotiation, m.text)
           q == [d EXCEPT !.negotiation = t]
<1>1. r.busy /\ r.stage = "MuxerNegotiation" /\ r.rx # <<>>
  BY DEF CollectNegotiation
<1>2. TypeInv /\ Open(e, r) /\ StepOk(e, r) /\ r \in Sessions /\ Ok(e, Fail(p))
  BY <1>1, TakenOpen
<1>3. CASE Put(e, Fail(p))
  BY <1>2, <1>3, PutOk
<1>4. CASE Decrypts(p, m) /\ Put(e, [p EXCEPT !.recvNonce = @ + 1,
                                              !.negotiation = Append(@, m.text)])
  <2>1. m \in Messages /\ p.recvNonce = r.recvNonce /\ p.negotiation = r.negotiation
    BY <1>1, <1>2, PoppedFields
  <2>2. Decrypts(r, m)
    BY <1>4, <2>1 DEF Decrypts
  <2>3. d \in Sessions /\ SameStory(d, r) /\ d.negotiation = r.negotiation /\ StepOk(e, d)
    BY <1>1, <1>2, <2>2, DecipheredFields, DecipheredStep
  <2>4. Put(e, [d EXCEPT !.negotiation = Append(p.negotiation, m.text)])
    BY <1>4 DEF Deciphered
  <2>5. Put(e, q)
    BY <2>1, <2>3, <2>4
  <2> HIDE DEF d
  <2>6. t \in Seq(Texts)
    <3>1. m.text \in Texts /\ d.negotiation \in Seq(Texts)
      BY <2>1, <2>3, SeqFacts DEF Messages
    <3> QED BY <3>1
  <2> HIDE DEF t
  <2>7. Alike(q, d)
    BY <2>3, <2>6 DEF Alike, Sessions, SameStory, SameWire
  <2>8. Ok(e, d)
    BY <1>2, <2>3, OpenKept DEF Ok, Open
  <2> HIDE DEF q
  <2> QED BY <2>5, <2>7, <2>8, AlikeOk, PutOk
<1> QED BY <1>3, <1>4 DEF CollectNegotiation

\* A handler that is done with what has arrived.
LEMMA IdleOk ==
    ASSUME NEW e, NEW r, Ok(e, r)
    PROVE  Ok(e, [r EXCEPT !.busy = FALSE])
<1> DEFINE q == [r EXCEPT !.busy = FALSE]
<1>1. r \in Sessions /\ SessionOk(e, r) /\ StepOk(e, r)
  BY DEF Ok
<1>2. /\ q \in Sessions /\ SameWire(q, r) /\ q.state = r.state /\ q.stage = r.stage
      /\ q.busy = FALSE /\ q.events = r.events /\ q.remotePeer = r.remotePeer
  BY <1>1 DEF Sessions, SameWire
<1> HIDE DEF q
<1>3. SessionOk(e, q)
  BY <1>1, <1>2 DEF SessionOk, Told, ExpectedPeerOk
<1>4. StepOk(e, q)
  BY <1>1, <1>2, WireKept
<1> QED BY <1>2, <1>3, <1>4 DEF Ok, q

\* An encrypted message is queued and sent, or the session fails.
LEMMA SendEncrypted ==
    ASSUME TypeInv, NEW e \in End, NEW r, Open(e, r), StepOk(e, r),
           NEW t \in {"app", "propose", "reply", "syn", "ack"}, NEW m \in Names, NEW k \in Nat
    PROVE  LET out == QueueEncrypted(r, Text(t, m, k))
               f   == Flush(e, out)
               g   == FlushPending(e, out) IN
           /\ Open(e, out) /\ Ok(e, out) /\ Ok(e, Fail(out))
           /\ Open(e, f) /\ Ok(e, f) /\ StepOk(e, f)
           /\ f.negotiation = r.negotiation /\ f.stage = r.stage
           /\ Ok(e, g)
<1> DEFINE out == QueueEncrypted(r, Text(t, m, k))
           f   == Flush(e, out)
           g   == FlushPending(e, out)
<1>1. r \in Sessions
  BY DEF Open
<1>2. /\ out \in Sessions /\ SameStory(out, r) /\ out.negotiation = r.negotiation
      /\ StepOk(e, out)
  BY ZenonT(60), <1>1, QueueEncryptedFields, QueueEncryptedStep
<1> HIDE DEF out
<1>3. Open(e, out)
  BY <1>2, OpenKept
<1>4. Ok(e, Fail(out)) /\ Ok(e, out)
  BY <1>2, <1>3, FailOk DEF Open, Ok
<1>5. f \in Sessions /\ SameInput(f, out) /\ StepOk(e, f)
  BY <1>2, FlushStep
<1>6. g \in Sessions /\ SameInput(g, out) /\ StepOk(e, g)
  BY <1>2, FlushPendingStep
<1> HIDE DEF f, g
<1>7. Open(e, f) /\ Open(e, g)
  BY <1>3, <1>5, <1>6, OpenKept DEF SameInput
<1>8. f.negotiation = r.negotiation /\ f.stage = r.stage
  BY <1>2, <1>5 DEF SameInput, SameStory
<1>9. Ok(e, f) /\ Ok(e, g)
  BY <1>5, <1>6, <1>7 DEF Ok, Open
<1> QED BY <1>3, <1>4, <1>5, <1>7, <1>8, <1>9 DEF out, f, g

LEMMA DecideMuxerOk ==
    ASSUME SessionInv, NEW e \in End, DecideMuxer(e)
    PROVE  SessionInv'
<1> DEFINE r   == ep[e]
           t   == Head(r.negotiation)
           has == {conf.muxers[e][i] : i \in DOMAIN conf.muxers[e]}
           ans == IF t.m \in has THEN t.m ELSE "na"
           out == QueueEncrypted(r, Text("reply", ans, 0))
<1>1. r.busy /\ r.stage = "MuxerNegotiation" /\ r.negotiation # <<>>
  BY DEF DecideMuxer
<1>2. TypeInv /\ r \in Sessions /\ SessionOk(e, r) /\ StepOk(e, r) /\ Ok(e, r)
  BY SelfOk DEF Ok
<1>3. r.state # "Closed" /\ Open(e, r) /\ Ok(e, Fail(r))
  BY <1>1, <1>2, FailOk DEF SessionOk, Open
<1>4. t.m \in Names
  <2>1. t \in Texts
    BY <1>1, <1>2, SeqFacts, HeadTailProperties
  <2> QED BY <2>1 DEF Texts
<1>5. ans \in Names
  BY <1>4 DEF Names
<1>6. ASSUME Put(e, Fail(out)) \/ Put(e, MuxerChosen(Flush(e, out), ans))
      PROVE  SessionInv'
  <2> DEFINE f == Flush(e, out)
  <2> HIDE DEF ans
  <2>1. /\ Ok(e, Fail(out)) /\ Open(e, f) /\ StepOk(e, f)
        /\ f.negotiation = r.negotiation /\ f.stage = r.stage
    BY <1>2, <1>3, <1>5, SendEncrypted
  <2>2. Put(e, Fail(out)) \/ Put(e, MuxerChosen(f, ans))
    BY <1>6 DEF ans
  <2> HIDE DEF f, out
  <2>3. Ok(e, MuxerChosen(f, ans))
    BY <1>1, <1>5, <2>1, MuxerChosenOk
  <2> QED BY <2>1, <2>2, <2>3, PutOk
<1>7. ASSUME Put(e, MuxerChosen(r, t.m)) PROVE SessionInv'
  <2>1. Ok(e, MuxerChosen(r, t.m))
    BY <1>1, <1>2, <1>3, <1>4, MuxerChosenOk
  <2> QED BY <1>7, <2>1, PutOk
<1>8. ASSUME Put(e, Fail(r)) PROVE SessionInv'
  BY <1>3, <1>8, PutOk
<1>9. ASSUME Put(e, [r EXCEPT !.busy = FALSE]) PROVE SessionInv'
  <2>1. Ok(e, [r EXCEPT !.busy = FALSE])
    BY <1>2, IdleOk
  <2> QED BY <1>9, <2>1, PutOk
<1> QED BY <1>6, <1>7, <1>8, <1>9 DEF DecideMuxer

LEMMA InputDoneOk ==
    ASSUME SessionInv, NEW e \in End, InputDone(e)
    PROVE  SessionInv'
<1>1. Put(e, [ep[e] EXCEPT !.busy = FALSE])
  BY DEF InputDone
<1>2. Ok(e, [ep[e] EXCEPT !.busy = FALSE])
  BY SelfOk, IdleOk
<1> QED BY <1>1, <1>2, PutOk
LEMMA DeliverFrameOk ==
    ASSUME SessionInv, NEW e \in End, DeliverFrame(e)
    PROVE  SessionInv'
<1> DEFINE s   == ep[e]
           m   == Head(s.rx)
           r   == Deciphered(s)
           d   == IF r.stream.open THEN r ELSE CreateStream(r, TRUE)
           n   == r.pending + 1
           u   == [r EXCEPT !.pending = n]
           syn == Emit(u, "StreamAccepted")
           out == QueueEncrypted(syn, Text("ack", "none", 0))
<1>1. s.busy /\ s.stage = "Ready" /\ s.rx # <<>>
  BY DEF DeliverFrame
<1>2. TypeInv /\ Open(e, s) /\ StepOk(e, s) /\ s \in Sessions /\ Ok(e, Fail(Popped(s)))
  BY <1>1, TakenOpen
<1>3. CASE Put(e, Fail(Popped(s)))
  BY <1>2, <1>3, PutOk
<1>4. ASSUME Decrypts(s, m)
      PROVE  Open(e, r) /\ r.stage = "Ready" /\ StepOk(e, r) /\ Ok(e, r) /\ m.text \in Texts
  <2>1. r \in Sessions /\ SameStory(r, s) /\ StepOk(e, r) /\ m \in Messages
    BY <1>1, <1>2, <1>4, DecipheredFields, DecipheredStep
  <2>2. Open(e, r)
    BY <1>2, <2>1, OpenKept
  <2> QED BY <1>1, <2>1, <2>2 DEF Ok, Open, SameStory, Messages
<1>5. CASE Decrypts(s, m) /\ Put(e, [d EXCEPT !.stream.rx = Append(@, m.text)])
  <2>1. Open(e, r) /\ r.stage = "Ready" /\ StepOk(e, r) /\ m.text \in Texts
    BY <1>4, <1>5
  <2> HIDE DEF r
  <2>2. LET q == CreateStream(r, TRUE) IN Open(e, q) /\ SameWire(q, r)
    BY <2>1, CreateStreamStep
  <2>3. Open(e, d) /\ SameWire(d, r)
    BY <2>1, <2>2 DEF SameWire
  <2> DEFINE x == Append(d.stream.rx, m.text)
             y == [d.stream EXCEPT !.rx = x]
             q == [d EXCEPT !.stream = y]
  <2>4. Put(e, q)
    BY <1>5
  <2> HIDE DEF d
  <2>5. d \in Sessions /\ d.stream \in Directs /\ d.stream.rx \in Seq(Texts)
    BY <2>3, SeqFacts DEF Open, Directs
  <2>6. x \in Seq(Texts)
    BY <2>1, <2>5
  <2> HIDE DEF x
  <2>7. y \in Directs
    BY <2>5, <2>6 DEF Directs
  <2> HIDE DEF y
  <2>8. Alike(q, d)
    BY <2>5, <2>7 DEF Alike, Sessions, SameStory, SameWire
  <2>9. Ok(e, d)
    BY <2>1, <2>3, WireKept DEF Ok, Open
  <2> HIDE DEF q
  <2> QED BY <2>4, <2>8, <2>9, AlikeOk, PutOk
<1>6. CASE /\ Decrypts(s, m)
           /\ \E fail \in SendMayFail(e) : Put(e, IF fail THEN out ELSE Flush(e, out))
  <2>1. Open(e, r) /\ r.stage = "Ready" /\ StepOk(e, r)
    BY <1>4, <1>6
  <2> HIDE DEF r
  <2>2. Alike(u, r)
    <3>1. r \in Sessions /\ n \in Nat
      BY <2>1 DEF Open, Sessions
    <3> HIDE DEF n
    <3> QED BY <3>1 DEF Alike, Sessions, SameStory, SameWire
  <2> HIDE DEF u
  <2>3. Open(e, u) /\ u.stage = "Ready" /\ StepOk(e, u)
    BY <2>1, <2>2, OpenKept, WireKept DEF Alike, SameStory
  <2>4. Open(e, syn) /\ SameWire(syn, u)
    BY <2>3, EmitStream
  <2>5. Put(e, out) \/ Put(e, Flush(e, out))
    BY <1>6
  <2> HIDE DEF syn
  <2>6. StepOk(e, syn)
    BY <2>3, <2>4, WireKept
  <2>7. "none" \in Names
    BY DEF Names
  <2>8. Ok(e, out) /\ Ok(e, Flush(e, out))
    BY <1>2, <2>4, <2>6, <2>7, SendEncrypted
  <2> HIDE DEF out
  <2> QED BY <2>5, <2>8, PutOk
<1>7. CASE Decrypts(s, m) /\ Put(e, r)
  BY <1>4, <1>7, PutOk
<1> QED BY <1>3, <1>5, <1>6, <1>7 DEF DeliverFrame, Deciphered

LEMMA ProcessPendingInputOk ==
    ASSUME SessionInv, NEW e \in End, ProcessPendingInput(e)
    PROVE  SessionInv'
  BY NegotiateProtocolOk, HandshakeFrameOk, CollectNegotiationOk, DecideMuxerOk,
     DeliverFrameOk, InputDoneOk DEF ProcessPendingInput
----------------------------------------------------------------------------
(* The socket, the owner and the application.                              *)

\* What e takes from the kernel is still on its way, or the session closes.
LEMMA ReceiveOk ==
    ASSUME SessionInv, NEW e \in End, Receive(e)
    PROVE  SessionInv'
<1> DEFINE r == ep[e]
           o == Other(e)
           k == ep[o]
<1>1. TypeInv /\ r \in Sessions /\ SessionOk(e, r) /\ StepOk(e, r)
  BY SelfOk DEF Ok
<1>2. /\ o \in End /\ o # e /\ Other(o) = e /\ \A f \in End : f = e \/ f = o
      /\ k \in Sessions /\ SessionOk(o, k)
      /\ ep \in [End -> Sessions]
  BY <1>1, OtherEnd DEF SessionInv, StoryInv, TypeInv, End, Other
<1>3. r.state \notin {"TcpAccepted", "Closed"}
  BY DEF Receive, Begun, IsActive
<1>4. PICK n \in DOMAIN k.net :
         LET batch == SubSeq(k.net, 1, n)
             rest  == [k EXCEPT !.net = SubSeq(@, n + 1, Len(@))]
             mine  == IF batch[n] = Eof THEN Close(r)
                      ELSE [r EXCEPT !.rx = @ \o batch, !.busy = TRUE]
         IN ep' = [ep EXCEPT ![e] = mine, ![o] = rest]
  BY DEF Receive
<1> DEFINE batch == SubSeq(k.net, 1, n)
           left  == SubSeq(k.net, n + 1, Len(k.net))
           rest  == [k EXCEPT !.net = left]
           rx    == r.rx \o batch
           more  == [r EXCEPT !.rx = rx, !.busy = TRUE]
           mine  == IF batch[n] = Eof THEN Close(r) ELSE more
<1>5. ep' = [ep EXCEPT ![e] = mine, ![o] = rest]
  BY <1>4
<1>6. /\ batch \in Seq(Messages) /\ left \in Seq(Messages) /\ batch \o left = k.net
      /\ r.rx \in Seq(Messages) /\ k.tx \in Seq(Messages) /\ k.net \in Seq(Messages)
  <2>1. k.net \in Seq(Messages) /\ r.rx \in Seq(Messages) /\ k.tx \in Seq(Messages)
    BY <1>1, <1>2, SeqFacts
  <2>2. n \in 0 .. Len(k.net)
    BY <2>1
  <2> QED BY <2>1, <2>2, WaySplit
<1> HIDE DEF batch, left
<1>7. rx \in Seq(Messages) /\ rx \o left = r.rx \o k.net
  <2>1. batch \in Seq(Messages) /\ left \in Seq(Messages) /\ r.rx \in Seq(Messages)
    BY <1>6
  <2>2. r.rx \o (batch \o left) = (r.rx \o batch) \o left
    BY <2>1, WayAssoc
  <2> QED BY <1>6, <2>1, <2>2
<1> HIDE DEF rx
<1>8. /\ rest \in Sessions /\ SameStory(rest, k) /\ rest.net = left /\ rest.socketOpen = k.socketOpen
      /\ rest.rx = k.rx /\ rest.tx = k.tx
      /\ rest.sendNonce = k.sendNonce /\ rest.recvNonce = k.recvNonce
  BY <1>2, <1>6 DEF Sessions, SameStory
<1>9. /\ more \in Sessions /\ more.state = r.state /\ more.stage = r.stage /\ more.busy = TRUE
      /\ more.events = r.events /\ more.remotePeer = r.remotePeer /\ more.socketOpen = r.socketOpen
      /\ more.rx = rx /\ more.tx = r.tx /\ more.net = r.net
      /\ more.sendNonce = r.sendNonce /\ more.recvNonce = r.recvNonce
  BY <1>1, <1>7 DEF Sessions
<1> HIDE DEF rest, more
<1>10. SessionOk(o, rest)
  BY <1>2, <1>8, StoryKept
<1>11. SessionOk(e, more)
  BY <1>1, <1>3, <1>9 DEF SessionOk, Told, ExpectedPeerOk
<1>12. Ok(e, Close(r))
  BY <1>1, <1>3, CloseOk
<1>13. mine \in Sessions /\ SessionOk(e, mine) /\ (mine.socketOpen => mine = more)
  <2>1. Close(r).socketOpen = FALSE
    <3>1. ClosedWith(Close(r), r, r.events)
      BY <1>1, <1>3, CloseFields
    <3> QED BY <3>1 DEF ClosedWith
  <2> QED BY <1>9, <1>11, <1>12, <2>1 DEF Ok
<1> HIDE DEF mine
<1>14. /\ ep'[e] = mine /\ ep'[o] = rest /\ ep' \in [End -> Sessions]
       /\ conf' = conf /\ garbled' = garbled /\ appSent' = appSent /\ appGot' = appGot
  BY <1>2, <1>5, <1>8, <1>13 DEF Receive
<1>15. TypeInv'
  BY <1>1, <1>14 DEF TypeInv
<1>16. StoryInv'
  <2>1. \A f \in End : SessionOk(f, ep[f])'
    BY <1>2, <1>10, <1>13, <1>14 DEF SessionOk, Told, ExpectedPeerOk
  <2> QED BY <2>1 DEF StoryInv
<1>17. NoncesInStep'
  <2> SUFFICES ASSUME garbled' = 0, ~HugeWrites, NEW f \in End,
                      ep'[f].socketOpen, ep'[Other(f)].socketOpen
               PROVE  InStep((ep'[Other(f)].rx \o ep'[f].net) \o ep'[f].tx,
                             ep'[Other(f)].recvNonce, ep'[f].sendNonce)
    BY DEF NoncesInStep, InTransit
  <2>1. mine.socketOpen /\ rest.socketOpen /\ garbled = 0
    BY <1>2, <1>14
  <2>2. mine = more /\ r.socketOpen /\ k.socketOpen
    BY <1>8, <1>9, <1>13, <2>1
  <2>3. OutOk(e, r) /\ InOk(e, r)
    BY <1>1, <2>1, <2>2 DEF StepOk
  <2>4. InStep((rest.rx \o more.net) \o more.tx, rest.recvNonce, more.sendNonce)
    BY <1>8, <1>9, <2>3 DEF OutOk
  <2>5. InStep((more.rx \o rest.net) \o rest.tx, more.recvNonce, rest.sendNonce)
    BY <1>7, <1>8, <1>9, <2>3 DEF InOk
  <2>6. CASE f = e
    BY <1>2, <1>14, <2>2, <2>4, <2>6
  <2>7. CASE f = o
    BY <1>2, <1>14, <2>2, <2>5, <2>7
  <2> QED BY <1>2, <2>6, <2>7
<1> QED BY <1>15, <1>16, <1>17 DEF SessionInv
LEMMA OnSocketWritableOk ==
    ASSUME SessionInv, NEW e \in End, OnSocketWritable(e)
    PROVE  SessionInv'
<1> DEFINE r == ep[e]
           f == FlushPending(e, r)
<1>1. TypeInv /\ r \in Sessions /\ SessionOk(e, r) /\ StepOk(e, r)
  BY SelfOk DEF Ok
<1>2. r.state # "Closed"
  BY DEF OnSocketWritable, IsActive
<1>3. Put(e, Fail(r)) \/ Put(e, f)
  BY DEF OnSocketWritable
<1>4. f \in Sessions /\ SameStory(f, r) /\ StepOk(e, f)
  BY <1>1, FlushPendingStep DEF SameInput
<1> HIDE DEF f
<1>5. Ok(e, f) /\ Ok(e, Fail(r))
  BY <1>1, <1>2, <1>4, StoryKept, FailOk DEF Ok
<1> QED BY <1>3, <1>5, PutOk

LEMMA ClosesOk ==
    ASSUME SessionInv, NEW e \in End, ep[e].state # "Closed",
           Put(e, Close(ep[e])) \/ Put(e, Fail(ep[e]))
    PROVE  SessionInv'
<1>1. Ok(e, Close(ep[e])) /\ Ok(e, Fail(ep[e]))
  BY SelfOk, CloseOk, FailOk DEF Open
<1> QED BY <1>1, PutOk

LEMMA SocketOk ==
    ASSUME SessionInv, NEW e \in End, Socket(e)
    PROVE  SessionInv'
<1>1. CASE OnSocketReadable(e)
  BY <1>1, ReceiveOk, ClosesOk DEF OnSocketReadable, RecvFails, IsActive
<1>2. CASE OnSocketWritable(e)
  BY <1>2, OnSocketWritableOk
<1>3. CASE OnSocketError(e)
  BY <1>3, ClosesOk DEF OnSocketError, IsActive
<1> QED BY <1>1, <1>2, <1>3 DEF Socket

LEMMA BeginOk ==
    ASSUME SessionInv, NEW e \in End, Begin(e)
    PROVE  SessionInv'
<1> DEFINE s   == ep[e]
           c   == e = "res"
           r   == [s EXCEPT !.state = "Securing", !.createInbound = c]
           out == Queue(r, Plain("msPropose"))
           f   == FlushPending(e, out)
<1>1. TypeInv /\ s \in Sessions /\ SessionOk(e, s) /\ StepOk(e, s)
  BY SelfOk DEF Ok
<1>2. s.state = "TcpAccepted" /\ ~s.busy
  BY DEF Begin
<1>3. Put(e, r) \/ Put(e, Close(out)) \/ Put(e, f)
  BY DEF Begin
<1>4. c \in BOOLEAN
  OBVIOUS
<1> HIDE DEF c
<1>5. /\ r \in Sessions /\ SameWire(r, s) /\ r.state = "Securing" /\ r.stage = s.stage
      /\ r.busy = s.busy /\ r.events = s.events /\ r.remotePeer = s.remotePeer
  BY <1>1, <1>4 DEF Sessions, SameWire
<1> HIDE DEF r
<1>6. SessionOk(e, r)
  BY <1>1, <1>2, <1>5 DEF SessionOk, Told, ExpectedPeerOk
<1>7. Open(e, r) /\ StepOk(e, r) /\ Ok(e, r)
  BY <1>1, <1>5, <1>6, WireKept DEF Open, Ok
<1>8. Plain("msPropose") \in Messages /\ Plain("msPropose").kind # "enc"
  BY PlainType
<1>9. Ok(e, Close(out)) /\ Ok(e, f)
  BY <1>1, <1>7, <1>8, SendPlain DEF Open, Ok
<1> HIDE DEF out, f
<1> QED BY <1>3, <1>7, <1>9, PutOk

LEMMA RequestOpenStreamOk ==
    ASSUME SessionInv, NEW e \in End, RequestOpenStream(e)
    PROVE  SessionInv'
<1> DEFINE s   == ep[e]
           i   == s.opens + 1
           r   == [s EXCEPT !.opens = i]
           out == QueueEncrypted(r, Text("syn", "none", 0))
           f   == Flush(e, out)
<1>1. TypeInv /\ s \in Sessions /\ SessionOk(e, s) /\ StepOk(e, s) /\ Ok(e, s)
  BY SelfOk DEF Ok
<1>2. i \in Nat
  BY <1>1 DEF Sessions
<1>3. \/ Put(e, out) \/ Put(e, Emit(f, "StreamOpened")) \/ Put(e, CreateStream(r, FALSE))
  BY DEF RequestOpenStream
<1>4. r.state = "Ready"
  BY DEF RequestOpenStream
<1> HIDE DEF i
<1>5. Alike(r, s)
  BY <1>1, <1>2 DEF Alike, Sessions, SameStory, SameWire
<1> HIDE DEF r
<1>6. r \in Sessions /\ SessionOk(e, r) /\ StepOk(e, r)
  BY <1>1, <1>5, StoryKept, WireKept DEF Alike
<1>7. Open(e, r) /\ r.stage = "Ready"
  BY <1>4, <1>6 DEF SessionOk, Open
<1>8. Ok(e, CreateStream(r, FALSE))
  <2> DEFINE q == CreateStream(r, FALSE)
  <2>1. Open(e, q) /\ SameWire(q, r)
    BY <1>7, CreateStreamStep
  <2> HIDE DEF q
  <2>2. Ok(e, q)
    BY <1>6, <2>1, WireKept DEF Ok, Open
  <2> QED BY <2>2 DEF q
<1>9. "none" \in Names
  BY DEF Names
<1>10. Ok(e, out) /\ Open(e, f) /\ StepOk(e, f) /\ f.stage = "Ready"
  BY <1>1, <1>6, <1>7, <1>9, SendEncrypted
<1> HIDE DEF out, f
<1>11. Ok(e, Emit(f, "StreamOpened"))
  <2> DEFINE q == Emit(f, "StreamOpened")
  <2>1. Open(e, q) /\ SameWire(q, f)
    BY <1>10, EmitStream
  <2> HIDE DEF q
  <2>2. Ok(e, q)
    BY <1>10, <2>1, WireKept DEF Ok, Open
  <2> QED BY <2>2 DEF q
<1> QED BY <1>3, <1>8, <1>10, <1>11, PutOk

LEMMA OwnerOk ==
    ASSUME SessionInv, NEW e \in End, Owner(e)
    PROVE  SessionInv'
<1>1. CASE Begin(e)
  BY <1>1, BeginOk
<1>2. CASE OwnerClose(e)
  BY <1>2, ClosesOk DEF OwnerClose, Put
<1>3. CASE OnTimeout(e)
  BY <1>3, ClosesOk DEF OnTimeout, IsActive, Put
<1>4. CASE RequestOpenStream(e)
  BY <1>4, RequestOpenStreamOk
<1> QED BY <1>1, <1>2, <1>3, <1>4 DEF Owner
LEMMA StreamStep ==
    ASSUME NEW r \in Sessions, NEW d \in Directs
    PROVE  Alike([r EXCEPT !.stream = d], r)
  BY DEF Alike, Sessions, SameStory, SameWire

\* Whatever becomes of the direct stream, the session stays in order.
LEMMA StreamOk ==
    ASSUME NEW e, NEW r, Ok(e, r), NEW d \in Directs
    PROVE  Ok(e, [r EXCEPT !.stream = d])
<1> DEFINE q == [r EXCEPT !.stream = d]
<1>1. Alike(q, r)
  BY StreamStep DEF Ok
<1> HIDE DEF q
<1>2. Ok(e, q)
  BY <1>1, AlikeOk
<1> QED BY <1>2 DEF q

LEMMA WriteOk ==
    ASSUME TypeInv, NEW e \in End, NEW r, Ok(e, r), NEW k \in Nat
    PROVE  LET out == QueueEncrypted(r, Text("app", "none", k)) IN
           Ok(e, out) /\ Ok(e, FlushPending(e, out))
<1> DEFINE out == QueueEncrypted(r, Text("app", "none", k))
           f   == FlushPending(e, out)
<1>1. r \in Sessions /\ SessionOk(e, r) /\ StepOk(e, r)
  BY DEF Ok
<1>2. "none" \in Names
  BY DEF Names
<1>3. out \in Sessions /\ SameStory(out, r) /\ StepOk(e, out)
  BY <1>1, <1>2, QueueEncryptedFields, QueueEncryptedStep
<1> HIDE DEF out
<1>4. f \in Sessions /\ SameStory(f, out) /\ StepOk(e, f)
  BY <1>3, FlushPendingStep DEF SameInput
<1> HIDE DEF f
<1>5. SessionOk(e, out) /\ SessionOk(e, f)
  BY <1>1, <1>3, <1>4, StoryKept
<1> QED BY <1>3, <1>4, <1>5 DEF Ok, out, f

LEMMA StreamWriteOk ==
    ASSUME SessionInv, NEW e \in End, StreamWrite(e)
    PROVE  SessionInv'
<1> DEFINE r   == ep[e]
           k   == appSent[e] + 1
           out == QueueEncrypted(r, Text("app", "none", k))
           f   == FlushPending(e, out)
           d   == [out.stream EXCEPT !.open = FALSE]
           q   == [out EXCEPT !.stream = d]
<1>1. TypeInv /\ Ok(e, r)
  BY SelfOk
<1>2. appSent \in [End -> Nat] /\ k \in Nat
  BY <1>1 DEF TypeInv
<1>3. \/ ep' = [ep EXCEPT ![e] = q]
      \/ ep' = [ep EXCEPT ![e] = f]
  BY DEF StreamWrite
<1>4. /\ conf' = conf /\ garbled' = garbled /\ appGot' = appGot
      /\ appSent' = [appSent EXCEPT ![e] = k]
  BY DEF StreamWrite
<1> HIDE DEF k
<1>5. Ok(e, out) /\ Ok(e, f)
  BY <1>1, <1>2, WriteOk
<1> HIDE DEF out, f
<1>6. d \in Directs
  <2>1. out.stream \in Directs
    BY <1>5, SeqFacts DEF Ok
  <2> QED BY <2>1 DEF Directs
<1>7. Ok(e, q)
  BY <1>5, <1>6, StreamOk
<1> HIDE DEF q
<1>8. /\ appSent' \in [End -> Nat] /\ appGot' = [x \in End |-> appGot'[x]]
      /\ garbled' \in Nat
  BY <1>1, <1>2, <1>4 DEF TypeInv
<1>9. CASE ep' = [ep EXCEPT ![e] = q]
  BY <1>4, <1>7, <1>8, <1>9, OneEnd DEF Ok
<1>10. CASE ep' = [ep EXCEPT ![e] = f]
  BY <1>4, <1>5, <1>8, <1>10, OneEnd DEF Ok
<1> QED BY <1>3, <1>9, <1>10

\* The nonce is lost: nothing is said of the nonces from then on.
LEMMA HugeWriteOk ==
    ASSUME SessionInv, NEW e \in End, HugeWrite(e)
    PROVE  SessionInv'
<1> DEFINE r    == ep[e]
           used == Used(r)
           d    == [used.stream EXCEPT !.open = FALSE]
           q    == [used EXCEPT !.stream = d]
<1>1. TypeInv /\ r \in Sessions /\ SessionOk(e, r)
  BY SelfOk DEF Ok
<1>2. HugeWrites /\ (Put(e, used) \/ Put(e, q))
  BY DEF HugeWrite, Used
<1>3. used \in Sessions /\ SameStory(used, r)
  BY <1>1, UsedFields
<1> HIDE DEF used
<1>4. Ok(e, used)
  BY <1>1, <1>2, <1>3, StoryKept DEF Ok, StepOk
<1>5. d \in Directs
  <2>1. used.stream \in Directs
    BY <1>3, SeqFacts
  <2> QED BY <2>1 DEF Directs
<1>6. Ok(e, q)
  BY <1>4, <1>5, StreamOk
<1> HIDE DEF q
<1> QED BY <1>2, <1>4, <1>6, PutOk

LEMMA StreamReadOk ==
    ASSUME SessionInv, NEW e \in End, StreamRead(e)
    PROVE  SessionInv'
<1> DEFINE r == ep[e]
           x == Tail(r.stream.rx)
           d == [r.stream EXCEPT !.rx = x]
           q == [r EXCEPT !.stream = d]
<1>1. TypeInv /\ r \in Sessions /\ Ok(e, r)
  BY SelfOk DEF Ok
<1>2. /\ ep' = [ep EXCEPT ![e] = q] /\ r.stream.rx # <<>>
      /\ conf' = conf /\ garbled' = garbled /\ appSent' = appSent
      /\ appGot' = [appGot EXCEPT ![e] = Append(@, Got(r))]
  BY DEF StreamRead
<1>3. x \in Seq(Texts) /\ r.stream \in Directs
  <2>1. r.stream \in Directs
    BY <1>1, SeqFacts
  <2>2. r.stream.rx \in Seq(Texts)
    BY <2>1 DEF Directs
  <2> QED BY <1>2, <2>1, <2>2, HeadTailProperties
<1> HIDE DEF x
<1>4. d \in Directs
  BY <1>3 DEF Directs
<1> HIDE DEF d
<1>5. Ok(e, q)
  BY <1>1, <1>4, StreamOk
<1> HIDE DEF q
<1>6. /\ appSent' \in [End -> Nat] /\ appGot' = [f \in End |-> appGot'[f]]
      /\ garbled' \in Nat
  BY <1>1, <1>2 DEF TypeInv
<1> QED BY <1>2, <1>5, <1>6, OneEnd DEF Ok

LEMMA StreamCloseWriteOk ==
    ASSUME SessionInv, NEW e \in End, StreamCloseWrite(e)
    PROVE  SessionInv'
<1> DEFINE s == ep[e]
           d == [s.stream EXCEPT !.writeOpen = FALSE, !.closeWritePending = TRUE]
           r == [s EXCEPT !.stream = d]
           f == FlushPending(e, r)
           b == [r.stream EXCEPT !.open = FALSE]
           q == [r EXCEPT !.stream = b]
<1>1. TypeInv /\ s \in Sessions /\ Ok(e, s)
  BY SelfOk DEF Ok
<1>2. s.stream \in Directs
  BY <1>1, SeqFacts
<1>3. [s EXCEPT !.stream.writeOpen = FALSE, !.stream.closeWritePending = TRUE] = r
  BY <1>1, <1>2 DEF Sessions, Directs
<1>4. Put(e, q) \/ Put(e, f)
  BY <1>3 DEF StreamCloseWrite
<1>5. d \in Directs
  BY <1>2 DEF Directs
<1> HIDE DEF d
<1>6. Ok(e, r)
  BY <1>1, <1>5, StreamOk
<1> HIDE DEF r
<1>7. r \in Sessions /\ SessionOk(e, r) /\ StepOk(e, r) /\ r.stream \in Directs
  BY <1>6, SeqFacts DEF Ok
<1>8. b \in Directs
  BY <1>7 DEF Directs
<1> HIDE DEF b
<1>9. Ok(e, q)
  BY <1>6, <1>8, StreamOk
<1> HIDE DEF q
<1>10. Ok(e, f)
  <2>1. f \in Sessions /\ SameStory(f, r) /\ StepOk(e, f)
    BY <1>1, <1>7, FlushPendingStep DEF SameInput
  <2> HIDE DEF f
  <2>2. SessionOk(e, f)
    BY <1>7, <2>1, StoryKept
  <2> QED BY <2>1, <2>2 DEF Ok
<1> HIDE DEF f
<1> QED BY <1>4, <1>9, <1>10, PutOk

LEMMA StreamResetOk ==
    ASSUME SessionInv, NEW e \in End, StreamReset(e)
    PROVE  SessionInv'
<1> DEFINE r   == ep[e]
           nil == <<>>
           d   == [r.stream EXCEPT !.open = FALSE, !.writeOpen = FALSE,
                                   !.closeWritePending = FALSE, !.rx = nil]
           s   == [r EXCEPT !.stream = d]
           q   == CloseSocket(s)
<1>1. TypeInv /\ r \in Sessions /\ Ok(e, r) /\ r.stream \in Directs
  BY SelfOk, SeqFacts DEF Ok
<1>2. Put(e, q)
  BY DEF StreamReset
<1>3. nil \in Seq(Texts)
  OBVIOUS
<1> HIDE DEF nil
<1>4. d \in Directs
  BY <1>1, <1>3 DEF Directs
<1> HIDE DEF d
<1>5. Ok(e, s)
  BY <1>1, <1>4, StreamOk
<1> HIDE DEF s
<1>6. q \in Sessions /\ SameStory(q, s) /\ q.socketOpen = FALSE
  BY <1>5, CloseSocketFields DEF Ok
<1> HIDE DEF q
<1>7. Ok(e, q)
  BY <1>5, <1>6, StoryKept DEF Ok, StepOk
<1> QED BY <1>2, <1>7, PutOk

LEMMA GarbleOk ==
    ASSUME SessionInv, NEW e \in End, Garble(e)
    PROVE  SessionInv'
<1> DEFINE r == ep[e]
<1>1. TypeInv /\ r \in Sessions /\ SessionOk(e, r)
  BY SelfOk DEF Ok
<1>2. PICK i \in DOMAIN r.net : ep' = [ep EXCEPT ![e].net[i] = Plain("bad")]
  BY DEF Garble
<1> DEFINE b   == Plain("bad")
           net == [r.net EXCEPT ![i] = b]
           q   == [r EXCEPT !.net = net]
<1>3. ep' = [ep EXCEPT ![e] = q]
  BY <1>2
<1>4. b \in Messages
  BY PlainType
<1> HIDE DEF b
<1>5. net \in Seq(Messages)
  <2>1. r.net \in Seq(Messages)
    BY <1>1, SeqFacts
  <2>2. i \in 1 .. Len(r.net)
    BY <2>1
  <2> QED BY <1>4, <2>1, <2>2, ExceptSeq
<1> HIDE DEF net
<1>6. q \in Sessions /\ SameStory(q, r)
  BY <1>1, <1>5 DEF Sessions, SameStory
<1> HIDE DEF q
<1>7. SessionOk(e, q)
  BY <1>1, <1>6, StoryKept
<1>8. /\ conf' = conf /\ appSent' = appSent /\ appGot' = appGot /\ garbled' = garbled + 1
  BY DEF Garble
<1>9. garbled' \in Nat /\ garbled' # 0
  BY <1>1, <1>8 DEF TypeInv
<1>10. appSent' \in [End -> Nat] /\ appGot' = [f \in End |-> appGot'[f]]
  BY <1>1, <1>8 DEF TypeInv
<1> QED BY <1>3, <1>6, <1>7, <1>8, <1>9, <1>10, OneEnd
LEMMA ApplicationOk ==
    ASSUME SessionInv, NEW e \in End, Stream(e)
    PROVE  SessionInv'
  BY StreamWriteOk, HugeWriteOk, StreamReadOk, StreamCloseWriteOk, StreamResetOk DEF Stream

----------------------------------------------------------------------------
(* The specification.                                                      *)

LEMMA InitialEndType == InitialEnd \in Sessions
<1> DEFINE nil == <<>>
           d   == [id |-> 0, open |-> FALSE, writeOpen |-> FALSE,
                   closeWritePending |-> FALSE, rx |-> nil]
           r   == [state |-> "TcpAccepted", stage |-> "NegotiatingProtocol",
                   hs |-> "Idle", socketOpen |-> TRUE, writeShutdown |-> FALSE,
                   rx |-> nil, tx |-> nil, net |-> nil, busy |-> FALSE,
                   remotePeer |-> FALSE, remoteMuxers |-> nil, muxer |-> "none",
                   yamux |-> FALSE, negotiation |-> nil, sendNonce |-> 0,
                   recvNonce |-> 0, stream |-> d, nextStreamId |-> 1,
                   createInbound |-> FALSE, pending |-> 0, opens |-> 0,
                   events |-> nil]
<1>1. /\ nil \in Seq(Texts) /\ nil \in Seq(Messages) /\ nil \in Seq(STRING)
      /\ nil \in Seq(Events)
  OBVIOUS
<1>2. InitialEnd = r
  BY DEF InitialEnd, NoStream
<1> HIDE DEF nil
<1>3. d \in Directs
  BY <1>1 DEF Directs
<1> HIDE DEF d
<1>4. "none" \in Names
  BY DEF Names
<1>5. r \in Sessions
  BY <1>1, <1>3, <1>4 DEF Sessions
<1> QED BY <1>2, <1>5

LEMMA InitOk == Init => SessionInv
<1> SUFFICES ASSUME Init PROVE SessionInv
  OBVIOUS
<1>1. ep = [e \in End |-> InitialEnd]
  BY DEF Init
<1>2. /\ InitialEnd.state = "TcpAccepted" /\ InitialEnd.stage = "NegotiatingProtocol"
      /\ InitialEnd.busy = FALSE /\ InitialEnd.events = <<>>
      /\ InitialEnd.rx = <<>> /\ InitialEnd.tx = <<>> /\ InitialEnd.net = <<>>
      /\ InitialEnd.sendNonce = 0 /\ InitialEnd.recvNonce = 0
  BY DEF InitialEnd
<1>3. TypeInv
  <2>1. conf \in [identity : [End -> BOOLEAN], muxers : [End -> Seq(STRING)],
                  expected : {"none", "match", "mismatch", "unreadable"}]
    <3>1. conf \in [identity : [End -> Identities], muxers : [End -> MuxerLists],
                    expected : Expectations]
      BY DEF Init
    <3>2. /\ Identities \subseteq BOOLEAN /\ MuxerLists \subseteq Seq(STRING)
          /\ Expectations \subseteq {"none", "match", "mismatch", "unreadable"}
      BY SessionAssumption
    <3> DEFINE L == Seq(STRING)
    <3> HIDE DEF L
    <3>3. MuxerLists \subseteq L
      BY <3>2 DEF L
    <3>4. conf \in [identity : [End -> BOOLEAN], muxers : [End -> L],
                    expected : {"none", "match", "mismatch", "unreadable"}]
      BY <3>1, <3>2, <3>3
    <3> QED BY <3>4 DEF L
  <2>2. ep \in [End -> Sessions]
    BY <1>1, InitialEndType
  <2>3. appSent = [e \in End |-> 0] /\ appGot = [e \in End |-> <<>>] /\ garbled = 0
    BY DEF Init
  <2>4. appSent \in [End -> Nat] /\ garbled \in Nat
    BY <2>3
  <2>5. appGot = [e \in End |-> appGot[e]]
    BY <2>3
  <2> QED BY <2>1, <2>2, <2>4, <2>5 DEF TypeInv
<1>4. StoryInv
  <2> SUFFICES ASSUME NEW e \in End PROVE SessionOk(e, ep[e])
    BY DEF StoryInv
  <2> DEFINE nil == <<>>
  <2>1. ep[e] = InitialEnd
    BY <1>1
  <2>2. DOMAIN nil = {}
    OBVIOUS
  <2> HIDE DEF nil
  <2>3. InitialEnd.events = nil
    BY <1>2 DEF nil
  <2>4. Story(InitialEnd.events)
    BY <2>2, <2>3 DEF Story
  <2>5. Told(InitialEnd)
    BY <1>2, <2>2, <2>3 DEF Told
  <2>6. SessionOk(e, InitialEnd)
    BY <1>2, <2>4, <2>5 DEF SessionOk
  <2> QED BY <2>1, <2>6
<1>5. NoncesInStep
  <2> SUFFICES ASSUME NEW e \in End
               PROVE  InStep(InTransit(e), ep[Other(e)].recvNonce, ep[e].sendNonce)
    BY DEF NoncesInStep
  <2> DEFINE nil == <<>>
  <2>1. ep[e] = InitialEnd /\ ep[Other(e)] = InitialEnd
    BY <1>1, OtherEnd
  <2>2. nil \in Seq(Messages) /\ DOMAIN nil = {}
    OBVIOUS
  <2>3. InTransit(e) = nil
    <3>1. InTransit(e) = (nil \o nil) \o nil
      BY <1>2, <2>1 DEF InTransit
    <3> HIDE DEF nil
    <3>2. nil \o nil = nil
      BY <2>2, ConcatEmptySeq DEF nil
    <3> QED BY <3>1, <3>2
  <2> HIDE DEF nil
  <2>4. Encrypted(nil) = {}
    BY <2>2 DEF Encrypted
  <2>5. InStep(nil, 0, 0)
    BY <2>4 DEF InStep
  <2> QED BY <1>2, <2>1, <2>3, <2>5
<1> QED BY <1>3, <1>4, <1>5 DEF SessionInv

\* Every step of either end, and every step outside, keeps the invariant.
LEMMA StepKeepsInv ==
    ASSUME SessionInv, [Next]_vars
    PROVE  SessionInv'
<1>1. CASE Next
  <2>1. PICK e \in End :
           Socket(e) \/ ProcessPendingInput(e) \/ Owner(e) \/ Stream(e) \/ Garble(e)
    BY <1>1 DEF Next
  <2>2. CASE Socket(e)
    BY <2>2, SocketOk
  <2>3. CASE ProcessPendingInput(e)
    BY <2>3, ProcessPendingInputOk
  <2>4. CASE Owner(e)
    BY <2>4, OwnerOk
  <2>5. CASE Stream(e)
    BY <2>5, ApplicationOk
  <2>6. CASE Garble(e)
    BY <2>6, GarbleOk
  <2> QED BY <2>1, <2>2, <2>3, <2>4, <2>5, <2>6
<1>2. CASE UNCHANGED vars
  <2>1. /\ conf' = conf /\ ep' = ep /\ appSent' = appSent /\ appGot' = appGot
        /\ garbled' = garbled
    BY <1>2 DEF vars
  <2>2. TypeInv'
    BY <2>1 DEF SessionInv, TypeInv
  <2>3. StoryInv'
    BY <2>1 DEF SessionInv, StoryInv, SessionOk, Told, ExpectedPeerOk
  <2>4. NoncesInStep'
    BY <2>1 DEF SessionInv, NoncesInStep, InTransit
  <2> QED BY <2>2, <2>3, <2>4 DEF SessionInv
<1> QED BY <1>1, <1>2

\* The invariant of a connection holds for every configuration of its ends,
\* compatible or not (process_pending_input, close, on_socket_readable,
\* queue_encrypted_write and the other methods of ConnectionSession).
THEOREM SessionInvariant == Spec => []SessionInv
<1>1. Init => SessionInv
  BY InitOk
<1>2. SessionInv /\ [Next]_vars => SessionInv'
  BY StepKeepsInv
<1> QED BY <1>1, <1>2, PTL DEF Spec

\* The events of each session come in an order that the Swarm can follow, and
\* Closed is the last of them and told exactly once (complete_ready_state,
\* emit_error, close).
THEOREM EventsTellOneStory == Spec => []EventStory
<1>1. SessionInv => EventStory
  <2> SUFFICES ASSUME SessionInv, NEW e \in End
               PROVE  /\ Story(ep[e].events)
                      /\ Happened(e, "Closed") <=> ep[e].state = "Closed"
    BY DEF EventStory, Story
  <2>1. SessionOk(e, ep[e])
    BY DEF SessionInv, StoryInv
  <2> QED BY <2>1 DEF SessionOk, Told, Happened
<1> QED BY <1>1, SessionInvariant, PTL

\* A dialing end whose target names a peer id is ready only with a peer that
\* has proved an identity, and it is the one that was dialed if the id can be
\* read (validate_expected_remote_peer before every way to
\* complete_ready_state).
THEOREM DialedPeerIsChecked == Spec => []ReadyWithDialedPeer
<1>1. SessionInv => ReadyWithDialedPeer
  <2> SUFFICES ASSUME SessionInv, ep["ini"].stage = "Ready", conf.expected # "none"
               PROVE  /\ ep["ini"].remotePeer
                      /\ conf.expected # "unreadable" => conf.expected = "match"
    BY DEF ReadyWithDialedPeer
  <2>1. SessionOk("ini", ep["ini"])
    BY DEF SessionInv, StoryInv, End
  <2> QED BY <2>1 DEF SessionOk, ExpectedPeerOk
<1> QED BY <1>1, SessionInvariant, PTL

\* Every frame on its way will decrypt, as long as nothing is damaged and no
\* oversized write uses up a nonce (encrypt, decrypt, flush_wire).
THEOREM CipherStatesInStep == Spec => []NoncesInStep
<1>1. SessionInv => NoncesInStep
  BY DEF SessionInv
<1> QED BY <1>1, SessionInvariant, PTL
----------------------------------------------------------------------------
(* The muxer.                                                              *)

\* All that MuxerInv says of a session, and what a method leaves of it.
Fine(e, r) == r \in Sessions /\ SaysOk(e, r) /\ MuxerOk(e, r)

SameMuxer(q, r) ==
    q.stage = r.stage /\ q.muxer = r.muxer /\ q.yamux = r.yamux
        /\ q.remoteMuxers = r.remoteMuxers

Keeps(e, q, r) == q \in Sessions /\ SaysOk(e, q) /\ SameMuxer(q, r)

LEMMA KeepsFine ==
    ASSUME NEW e, NEW r, NEW q, Fine(e, r), Keeps(e, q, r)
    PROVE  Fine(e, q)
  BY DEF Fine, Keeps, SameMuxer, MuxerOk

LEMMA KeepsTrans ==
    ASSUME NEW e, NEW p, NEW q, NEW r, Keeps(e, p, q), SameMuxer(q, r)
    PROVE  Keeps(e, p, r)
  BY DEF Keeps, SameMuxer

\* What both a session and its messages are made of.
LEMMA SaysFacts ==
    ASSUME NEW e, NEW r, SaysOk(e, r)
    PROVE  /\ r.tx \in Seq(MessagesOf(e)) /\ r.net \in Seq(MessagesOf(e))
           /\ r.rx \in Seq(MessagesOf(Other(e))) /\ r.negotiation \in Seq(TextsOf(Other(e)))
  BY DEF SaysOk

LEMMA PlainSaid ==
    ASSUME NEW e, NEW m \in Messages, m.kind # "enc"
    PROVE  m \in MessagesOf(e)
  BY DEF MessagesOf

LEMMA EncSaid ==
    ASSUME NEW e, NEW n \in Nat, NEW t \in {"app", "propose", "reply", "syn", "ack"},
           NEW m \in Names, NEW k \in Nat,
           t = "propose" => e = "ini" /\ m = Proposal,
           t = "reply" => e = "res" /\ m = Answer
    PROVE  Enc(n, Text(t, m, k)) \in MessagesOf(e)
<1> DEFINE x == Text(t, m, k)
<1>1. Enc(n, x) \in Messages /\ x \in Texts
  BY EncType
<1>2. x.t = t /\ x.m = m
  BY DEF Text
<1> HIDE DEF x
<1>3. x \in TextsOf(e)
  BY <1>1, <1>2 DEF TextsOf
<1>4. Enc(n, x).text = x
  BY DEF Enc
<1>5. Enc(n, x) \in MessagesOf(e)
  BY <1>1, <1>3, <1>4 DEF MessagesOf
<1> QED BY <1>5 DEF x

LEMMA QueueKeeps ==
    ASSUME NEW e, NEW r \in Sessions, SaysOk(e, r), NEW m \in MessagesOf(e)
    PROVE  Keeps(e, Queue(r, m), r)
<1> DEFINE t == Append(r.tx, m)
           q == [r EXCEPT !.tx = t]
<1>0. m \in Messages
  BY DEF MessagesOf
<1>1. t \in Seq(MessagesOf(e))
  BY SaysFacts
<1>2. Queue(r, m) = q /\ Queue(r, m) \in Sessions
  BY <1>0, QueueFields DEF Queue
<1> HIDE DEF t
<1>3. /\ q.tx = t /\ q.net = r.net /\ q.rx = r.rx /\ q.negotiation = r.negotiation
      /\ SameMuxer(q, r)
  BY DEF Sessions, SameMuxer
<1> HIDE DEF q
<1>4. SaysOk(e, q)
  BY <1>1, <1>3 DEF SaysOk
<1> QED BY <1>2, <1>3, <1>4 DEF Keeps

LEMMA UsedKeeps ==
    ASSUME NEW e, NEW r \in Sessions, SaysOk(e, r)
    PROVE  Keeps(e, Used(r), r)
<1> DEFINE q == Used(r)
<1>1. /\ q \in Sessions /\ q.tx = r.tx /\ q.net = r.net /\ q.rx = r.rx
      /\ q.negotiation = r.negotiation
  BY UsedFields
<1>2. SameMuxer(q, r)
  BY DEF Used, Sessions, SameMuxer
<1> HIDE DEF q
<1>3. SaysOk(e, q)
  BY <1>1 DEF SaysOk
<1> QED BY <1>1, <1>2, <1>3 DEF Keeps, q

LEMMA QueueEncryptedKeeps ==
    ASSUME NEW e, NEW r \in Sessions, SaysOk(e, r),
           NEW t \in {"app", "propose", "reply", "syn", "ack"}, NEW m \in Names, NEW k \in Nat,
           t = "propose" => e = "ini" /\ m = Proposal,
           t = "reply" => e = "res" /\ m = Answer
    PROVE  Keeps(e, QueueEncrypted(r, Text(t, m, k)), r)
<1> DEFINE x == Enc(r.sendNonce, Text(t, m, k))
           u == Used(r)
<1>1. x \in MessagesOf(e)
  BY SeqFacts, EncSaid
<1>2. Keeps(e, u, r)
  BY UsedKeeps
<1>3. QueueEncrypted(r, Text(t, m, k)) = Queue(u, x)
  BY DEF QueueEncrypted, Used
<1> HIDE DEF x, u
<1>4. Keeps(e, Queue(u, x), u)
  BY <1>1, <1>2, QueueKeeps DEF Keeps
<1> QED BY <1>2, <1>3, <1>4, KeepsTrans DEF Keeps

\* The kernel takes some of what is queued, the end of file after it.
LEMMA OutputKeeps ==
    ASSUME NEW e, NEW r \in Sessions, SaysOk(e, r),
           NEW net \in Seq(MessagesOf(e)), NEW tx \in Seq(MessagesOf(e)),
           NEW down \in BOOLEAN
    PROVE  /\ SaysOk(e, [r EXCEPT !.net = net, !.tx = tx])
           /\ SameMuxer([r EXCEPT !.net = net, !.tx = tx], r)
           /\ SaysOk(e, [r EXCEPT !.tx = tx]) /\ SameMuxer([r EXCEPT !.tx = tx], r)
           /\ SaysOk(e, [r EXCEPT !.net = net, !.writeShutdown = down])
           /\ SameMuxer([r EXCEPT !.net = net, !.writeShutdown = down], r)
<1> DEFINE a == [r EXCEPT !.net = net, !.tx = tx]
           b == [r EXCEPT !.tx = tx]
           c == [r EXCEPT !.net = net, !.writeShutdown = down]
<1>1. /\ a.net = net /\ a.tx = tx /\ a.rx = r.rx /\ a.negotiation = r.negotiation
      /\ SameMuxer(a, r)
  BY DEF Sessions, SameMuxer
<1>2. /\ b.net = r.net /\ b.tx = tx /\ b.rx = r.rx /\ b.negotiation = r.negotiation
      /\ SameMuxer(b, r)
  BY DEF Sessions, SameMuxer
<1>3. /\ c.net = net /\ c.tx = r.tx /\ c.rx = r.rx /\ c.negotiation = r.negotiation
      /\ SameMuxer(c, r)
  BY DEF Sessions, SameMuxer
<1> HIDE DEF a, b, c
<1>4. SaysOk(e, a) /\ SaysOk(e, b) /\ SaysOk(e, c)
  BY <1>1, <1>2, <1>3 DEF SaysOk
<1> QED BY <1>1, <1>2, <1>3, <1>4 DEF a, b, c

LEMMA SplitSaid ==
    ASSUME NEW S, NEW c \in Seq(S), NEW n \in 0 .. Len(c)
    PROVE  SubSeq(c, 1, n) \in Seq(S) /\ SubSeq(c, n + 1, Len(c)) \in Seq(S)
  BY SubSeqProperties

LEMMA FlushKeeps ==
    ASSUME TypeInv, NEW e \in End, NEW r \in Sessions, SaysOk(e, r)
    PROVE  Keeps(e, Flush(e, r), r)
<1> DEFINE q == Flush(e, r)
           o == ep[Other(e)]
<1>t. r.net \in Seq(MessagesOf(e)) /\ r.tx \in Seq(MessagesOf(e))
  BY SaysFacts
<1>q. q \in Sessions
  BY FlushStep
<1>1. CASE ~o.socketOpen
  <2> DEFINE nil == <<>>
  <2>1. nil \in Seq(MessagesOf(e))
    OBVIOUS
  <2>2. q = [r EXCEPT !.tx = nil]
    BY <1>1 DEF Flush
  <2> HIDE DEF nil, q
  <2>3. SaysOk(e, q) /\ SameMuxer(q, r)
    BY <1>t, <2>1, <2>2, OutputKeeps
  <2> QED BY <1>q, <2>3 DEF Keeps, q
<1>2. CASE o.socketOpen
  <2> DEFINE room == IF Len(r.net) < NetCap THEN NetCap - Len(r.net) ELSE 0
             n    == IF Len(r.tx) < room THEN Len(r.tx) ELSE room
             net  == r.net \o SubSeq(r.tx, 1, n)
             tx   == SubSeq(r.tx, n + 1, Len(r.tx))
  <2>1. q = [r EXCEPT !.net = net, !.tx = tx]
    BY <1>2 DEF Flush
  <2>2. n \in 0 .. Len(r.tx)
    <3>1. NetCap \in Nat /\ Len(r.net) \in Nat /\ Len(r.tx) \in Nat
      BY <1>t, SessionAssumption
    <3>2. room \in Nat
      BY <3>1
    <3> HIDE DEF room
    <3> QED BY <3>1, <3>2
  <2> HIDE DEF n, q
  <2>3. SubSeq(r.tx, 1, n) \in Seq(MessagesOf(e)) /\ tx \in Seq(MessagesOf(e))
    BY <1>t, <2>2, SplitSaid
  <2>4. net \in Seq(MessagesOf(e))
    BY <1>t, <2>3
  <2> HIDE DEF net, tx
  <2>5. SaysOk(e, q) /\ SameMuxer(q, r)
    BY <2>1, <2>3, <2>4, OutputKeeps
  <2> QED BY <1>q, <2>5 DEF Keeps, q
<1> QED BY <1>1, <1>2

LEMMA WithEofSaid ==
    ASSUME NEW e, NEW net \in Seq(MessagesOf(e))
    PROVE  WithEof(net) \in Seq(MessagesOf(e))
<1>1. Eof \in MessagesOf(e)
  BY EofType, PlainSaid
<1> QED BY <1>1 DEF WithEof

LEMMA FlushPendingKeeps ==
    ASSUME TypeInv, NEW e \in End, NEW r \in Sessions, SaysOk(e, r)
    PROVE  Keeps(e, FlushPending(e, r), r)
<1> DEFINE f == Flush(e, r)
           q == Shutdown(f)
           net == WithEof(f.net)
<1>1. Keeps(e, f, r)
  BY FlushKeeps
<1> HIDE DEF f
<1>2. q \in Sessions
  BY <1>1, ShutdownStep DEF Keeps
<1>3. net \in Seq(MessagesOf(e)) /\ f.tx \in Seq(MessagesOf(e))
  BY <1>1, SaysFacts, WithEofSaid DEF Keeps
<1>4. q = f \/ q = [f EXCEPT !.net = net, !.writeShutdown = TRUE]
  BY DEF Shutdown
<1> HIDE DEF q, net
<1>5. SaysOk(e, q) /\ SameMuxer(q, f)
  <2>1. CASE q = f
    BY <1>1, <2>1 DEF Keeps, SameMuxer
  <2>2. CASE q = [f EXCEPT !.net = net, !.writeShutdown = TRUE]
    BY <1>1, <1>3, <2>2, OutputKeeps DEF Keeps
  <2> QED BY <1>4, <2>1, <2>2
<1>6. Keeps(e, q, f)
  BY <1>2, <1>5 DEF Keeps
<1> QED BY <1>1, <1>6, KeepsTrans DEF Keeps, FlushPending, f, q
LEMMA PoppedKeeps ==
    ASSUME NEW e, NEW r \in Sessions, SaysOk(e, r), r.rx # <<>>
    PROVE  /\ Keeps(e, Popped(r), r) /\ Keeps(e, Deciphered(r), r)
           /\ Head(r.rx) \in MessagesOf(Other(e))
<1> DEFINE t == Tail(r.rx)
           p == Popped(r)
           d == Deciphered(r)
<1>1. t \in Seq(MessagesOf(Other(e))) /\ Head(r.rx) \in MessagesOf(Other(e))
  BY SaysFacts, HeadTailProperties
<1>2. /\ p \in Sessions /\ p.tx = r.tx /\ p.net = r.net /\ p.rx = t
      /\ p.negotiation = r.negotiation
  BY PoppedFields
<1>3. SameMuxer(p, r)
  BY DEF Popped, Sessions, SameMuxer
<1>4. /\ d \in Sessions /\ d.tx = r.tx /\ d.net = r.net /\ d.rx = t
      /\ d.negotiation = r.negotiation
  BY DecipheredFields
<1>5. SameMuxer(d, r)
  <2>1. SameMuxer([p EXCEPT !.recvNonce = @ + 1], p)
    BY <1>2 DEF Sessions, SameMuxer
  <2> QED BY <1>3, <2>1 DEF Deciphered, SameMuxer
<1> HIDE DEF p, d, t
<1>6. SaysOk(e, p) /\ SaysOk(e, d)
  BY <1>1, <1>2, <1>4 DEF SaysOk
<1> QED BY <1>1, <1>2, <1>3, <1>4, <1>5, <1>6 DEF Keeps, p, d

LEMMA CloseSocketKeeps ==
    ASSUME NEW e, NEW r \in Sessions, SaysOk(e, r)
    PROVE  Keeps(e, CloseSocket(r), r)
<1> DEFINE c == CloseSocket(r)
<1>c. c \in Sessions
  BY CloseSocketFields
<1>1. CASE ~r.socketOpen
  BY <1>1 DEF CloseSocket, Keeps, SameMuxer
<1>2. CASE r.socketOpen
  <2> DEFINE net == IF r.writeShutdown THEN r.net ELSE WithEof(r.net)
             nil == <<>>
             q == [r EXCEPT !.socketOpen = FALSE, !.writeShutdown = TRUE, !.rx = nil,
                            !.tx = nil, !.net = net]
  <2>1. net \in Seq(MessagesOf(e)) /\ r.negotiation \in Seq(TextsOf(Other(e)))
    BY SaysFacts, WithEofSaid
  <2>2. nil \in Seq(MessagesOf(e)) /\ nil \in Seq(MessagesOf(Other(e)))
    OBVIOUS
  <2>3. c = q
    BY <1>2 DEF CloseSocket
  <2> HIDE DEF net, nil, c
  <2>4. /\ q.net = net /\ q.tx = nil /\ q.rx = nil /\ q.negotiation = r.negotiation
        /\ SameMuxer(q, r)
    BY DEF Sessions, SameMuxer
  <2> HIDE DEF q
  <2>5. SaysOk(e, q)
    BY <2>1, <2>2, <2>4 DEF SaysOk
  <2> QED BY <1>c, <2>3, <2>4, <2>5 DEF Keeps, c
<1> QED BY <1>1, <1>2

\* Events, states and streams have nothing to do with the muxer.
LEMMA EventKeeps ==
    ASSUME NEW e, NEW r \in Sessions, SaysOk(e, r), NEW x \in Events
    PROVE  Keeps(e, Emit(r, x), r)
<1> DEFINE ev == Append(r.events, x)
           q  == [r EXCEPT !.events = ev]
<1>1. ev \in Seq(Events)
  BY SeqFacts
<1>2. Emit(r, x) = q
  BY DEF Emit
<1> HIDE DEF ev
<1>3. /\ q \in Sessions /\ q.tx = r.tx /\ q.net = r.net /\ q.rx = r.rx
      /\ q.negotiation = r.negotiation /\ SameMuxer(q, r)
  BY <1>1 DEF Sessions, SameMuxer
<1> HIDE DEF q
<1>4. SaysOk(e, q)
  BY <1>3 DEF SaysOk
<1> QED BY <1>2, <1>3, <1>4 DEF Keeps

LEMMA StateKeeps ==
    ASSUME NEW e, NEW r \in Sessions, SaysOk(e, r),
           NEW s \in {"Securing", "Failed", "Closed"}, NEW b \in BOOLEAN, NEW d \in Directs
    PROVE  /\ Keeps(e, [r EXCEPT !.state = s, !.busy = b, !.stream = d], r)
           /\ Keeps(e, [r EXCEPT !.state = s], r)
           /\ Keeps(e, [r EXCEPT !.busy = b], r)
           /\ Keeps(e, [r EXCEPT !.stream = d], r)
           /\ Keeps(e, [r EXCEPT !.state = s, !.createInbound = b], r)
<1> DEFINE q1 == [r EXCEPT !.state = s, !.busy = b, !.stream = d]
           q2 == [r EXCEPT !.state = s]
           q3 == [r EXCEPT !.busy = b]
           q4 == [r EXCEPT !.stream = d]
           q5 == [r EXCEPT !.state = s, !.createInbound = b]
<1>1. /\ q1 \in Sessions /\ q1.tx = r.tx /\ q1.net = r.net /\ q1.rx = r.rx
      /\ q1.negotiation = r.negotiation /\ SameMuxer(q1, r)
  BY DEF Sessions, SameMuxer
<1>2. /\ q2 \in Sessions /\ q2.tx = r.tx /\ q2.net = r.net /\ q2.rx = r.rx
      /\ q2.negotiation = r.negotiation /\ SameMuxer(q2, r)
  BY DEF Sessions, SameMuxer
<1>3. /\ q3 \in Sessions /\ q3.tx = r.tx /\ q3.net = r.net /\ q3.rx = r.rx
      /\ q3.negotiation = r.negotiation /\ SameMuxer(q3, r)
  BY DEF Sessions, SameMuxer
<1>4. /\ q4 \in Sessions /\ q4.tx = r.tx /\ q4.net = r.net /\ q4.rx = r.rx
      /\ q4.negotiation = r.negotiation /\ SameMuxer(q4, r)
  BY DEF Sessions, SameMuxer
<1>5. /\ q5 \in Sessions /\ q5.tx = r.tx /\ q5.net = r.net /\ q5.rx = r.rx
      /\ q5.negotiation = r.negotiation /\ SameMuxer(q5, r)
  BY DEF Sessions, SameMuxer
<1> HIDE DEF q1, q2, q3, q4, q5
<1>6. SaysOk(e, q1) /\ SaysOk(e, q2) /\ SaysOk(e, q3) /\ SaysOk(e, q4) /\ SaysOk(e, q5)
  BY <1>1, <1>2, <1>3, <1>4, <1>5 DEF SaysOk
<1>7. Keeps(e, q1, r) /\ Keeps(e, q2, r) /\ Keeps(e, q3, r) /\ Keeps(e, q4, r) /\ Keeps(e, q5, r)
  BY <1>1, <1>2, <1>3, <1>4, <1>5, <1>6 DEF Keeps
<1> QED BY <1>7 DEF q1, q2, q3, q4, q5

LEMMA CloseKeeps ==
    ASSUME NEW e, NEW r \in Sessions, SaysOk(e, r)
    PROVE  Keeps(e, Close(r), r)
<1> DEFINE c == CloseSocket(r)
           d == [c.stream EXCEPT !.open = FALSE, !.writeOpen = FALSE,
                                 !.closeWritePending = FALSE, !.rx = <<>>]
           s == [c EXCEPT !.state = "Closed", !.busy = FALSE, !.stream = d]
<1>1. CASE r.state = "Closed"
  BY <1>1 DEF Close, Keeps, SameMuxer
<1>2. CASE r.state # "Closed"
  <2>1. Keeps(e, c, r)
    BY CloseSocketKeeps
  <2>2. d \in Directs
    <3> DEFINE nil == <<>>
    <3>1. nil \in Seq(Texts) /\ c.stream \in Directs
      BY <2>1, SeqFacts DEF Keeps
    <3> HIDE DEF nil, c
    <3>2. [c.stream EXCEPT !.open = FALSE, !.writeOpen = FALSE,
                           !.closeWritePending = FALSE, !.rx = nil] \in Directs
      BY <3>1 DEF Directs
    <3> QED BY <3>2 DEF nil
  <2>3. Close(r) = Emit(s, "Closed")
    BY <1>2 DEF Close
  <2> HIDE DEF c, d
  <2>4. Keeps(e, s, c)
    BY <2>1, <2>2, StateKeeps DEF Keeps
  <2> HIDE DEF s
  <2>5. Keeps(e, Emit(s, "Closed"), s)
    BY <2>4, EventKeeps DEF Keeps, Events
  <2> QED BY <2>1, <2>3, <2>4, <2>5, KeepsTrans DEF Keeps, SameMuxer
<1> QED BY <1>1, <1>2

LEMMA FailKeeps ==
    ASSUME NEW e, NEW r \in Sessions, SaysOk(e, r)
    PROVE  Keeps(e, Fail(r), r)
<1> DEFINE s == [r EXCEPT !.state = "Failed"]
           q == EmitError(r)
<1>1. Keeps(e, q, r)
  <2>1. CASE r.state \in {"Failed", "Closed"}
    BY <2>1 DEF EmitError, Keeps, SameMuxer
  <2>2. CASE r.state \notin {"Failed", "Closed"}
    <3>1. q = Emit(s, "Error")
      BY <2>2 DEF EmitError
    <3>2. r.stream \in Directs
      BY SeqFacts
    <3>3. Keeps(e, s, r)
      BY <3>2, StateKeeps
    <3> HIDE DEF s
    <3>4. Keeps(e, Emit(s, "Error"), s)
      BY <3>3, EventKeeps DEF Keeps, Events
    <3> QED BY <3>1, <3>3, <3>4, KeepsTrans DEF Keeps
  <2> QED BY <2>1, <2>2
<1> HIDE DEF q
<1>2. Keeps(e, Close(q), q)
  BY <1>1, CloseKeeps DEF Keeps
<1> QED BY <1>1, <1>2, KeepsTrans DEF Keeps, Fail, q

LEMMA CreateStreamKeeps ==
    ASSUME NEW e, NEW r \in Sessions, SaysOk(e, r), NEW inbound \in BOOLEAN
    PROVE  Keeps(e, CreateStream(r, inbound), r)
<1> DEFINE d  == [id |-> r.nextStreamId, open |-> TRUE, writeOpen |-> TRUE,
                  closeWritePending |-> FALSE, rx |-> <<>>]
           i  == r.nextStreamId + 1
           p  == IF inbound THEN r.pending + 1 ELSE r.pending
           s  == [r EXCEPT !.stream = d, !.nextStreamId = i, !.pending = p]
           x  == IF inbound THEN "StreamAccepted" ELSE "StreamOpened"
<1>n. r.nextStreamId \in Nat /\ r.pending \in Nat
  BY DEF Sessions
<1>2. d \in Directs
  <2> DEFINE nil == <<>>
  <2>1. nil \in Seq(Texts)
    OBVIOUS
  <2> HIDE DEF nil
  <2>2. [id |-> r.nextStreamId, open |-> TRUE, writeOpen |-> TRUE,
         closeWritePending |-> FALSE, rx |-> nil] \in Directs
    BY <1>n, <2>1 DEF Directs
  <2> QED BY <2>2 DEF nil
<1>3. i \in Nat /\ p \in Nat
  BY <1>n
<1>4. CreateStream(r, inbound) = Emit(s, x)
  BY DEF CreateStream
<1>5. x \in Events
  BY DEF Events
<1> HIDE DEF d, i, p, x
<1>6. /\ s \in Sessions /\ s.tx = r.tx /\ s.net = r.net /\ s.rx = r.rx
      /\ s.negotiation = r.negotiation /\ SameMuxer(s, r)
  BY <1>2, <1>3 DEF Sessions, SameMuxer
<1> HIDE DEF s
<1>7. SaysOk(e, s)
  BY <1>6 DEF SaysOk
<1>8. Keeps(e, Emit(s, x), s)
  BY <1>5, <1>6, <1>7, EventKeeps
<1> QED BY <1>4, <1>6, <1>8, KeepsTrans
\* What a session must have decided when it becomes ready.
Decided(e, r) ==
    /\ r.muxer = IF Exchange(e) /\ Answer # "na" THEN Answer ELSE Selected(e)
    /\ r.yamux = IF Exchange(e) THEN Answer = "yamux" ELSE Selected(e) = "yamux"

LEMMA CompleteFine ==
    ASSUME NEW e, NEW r \in Sessions, SaysOk(e, r), Decided(e, r)
    PROVE  Fine(e, CompleteReadyState(r))
<1> DEFINE ev    == r.events \o ReadyEvents
           ready == [r EXCEPT !.stage = "Ready", !.state = "Ready", !.events = ev]
           t     == [ready EXCEPT !.createInbound = FALSE]
           c     == CreateStream(t, TRUE)
<1>1. ev \in Seq(Events)
  <2>1. ReadyEvents \in Seq(Events) /\ r.events \in Seq(Events)
    BY SeqFacts DEF ReadyEvents, Events
  <2> QED BY <2>1
<1>2. CompleteReadyState(r) \in {ready, c}
  BY DEF CompleteReadyState, ReadyEvents
<1> HIDE DEF ev
<1>3. /\ ready \in Sessions /\ ready.tx = r.tx /\ ready.net = r.net /\ ready.rx = r.rx
      /\ ready.negotiation = r.negotiation
      /\ ready.stage = "Ready" /\ ready.muxer = r.muxer /\ ready.yamux = r.yamux
  BY <1>1 DEF Sessions
<1> HIDE DEF ready
<1>4. /\ t \in Sessions /\ t.tx = r.tx /\ t.net = r.net /\ t.rx = r.rx
      /\ t.negotiation = r.negotiation
      /\ t.stage = "Ready" /\ t.muxer = r.muxer /\ t.yamux = r.yamux
  BY <1>3 DEF Sessions
<1> HIDE DEF t
<1>5. Fine(e, ready) /\ Fine(e, t)
  BY <1>3, <1>4 DEF Fine, SaysOk, MuxerOk, Decided
<1>6. Keeps(e, c, t)
  BY <1>5, CreateStreamKeeps DEF Fine
<1> HIDE DEF c
<1>7. Fine(e, c)
  BY <1>5, <1>6, KeepsFine
<1> QED BY <1>2, <1>5, <1>7

\* The choice of a muxer, and whether yamux is really started.
LEMMA ChosenMuxer ==
    ASSUME NEW e, NEW r \in Sessions, SaysOk(e, r), NEW m \in Names
    PROVE  LET q == [r EXCEPT !.muxer = m]
               y == ActivateYamux(q) IN
           /\ q \in Sessions /\ SaysOk(e, q) /\ q.muxer = m /\ q.yamux = r.yamux
           /\ y \in Sessions /\ SaysOk(e, y) /\ y.muxer = m /\ y.yamux = TRUE
<1> DEFINE q == [r EXCEPT !.muxer = m]
           y == [q EXCEPT !.yamux = TRUE, !.createInbound = FALSE]
<1>1. /\ q \in Sessions /\ q.tx = r.tx /\ q.net = r.net /\ q.rx = r.rx
      /\ q.negotiation = r.negotiation /\ q.muxer = m /\ q.yamux = r.yamux
  BY DEF Sessions
<1> HIDE DEF q
<1>2. /\ y \in Sessions /\ y.tx = r.tx /\ y.net = r.net /\ y.rx = r.rx
      /\ y.negotiation = r.negotiation /\ y.muxer = m /\ y.yamux = TRUE
  BY <1>1 DEF Sessions
<1>3. ActivateYamux(q) = y
  BY DEF ActivateYamux
<1> HIDE DEF y
<1>4. SaysOk(e, q) /\ SaysOk(e, y)
  BY <1>1, <1>2 DEF SaysOk
<1> QED BY <1>1, <1>2, <1>3, <1>4 DEF q

LEMMA MuxerChosenFine ==
    ASSUME NEW e, NEW r, Fine(e, r), r.stage = "MuxerNegotiation", r.negotiation # <<>>,
           NEW m \in Names, m = Answer
    PROVE  Fine(e, MuxerChosen(r, m))
<1> DEFINE t    == Tail(r.negotiation)
           done == [r EXCEPT !.negotiation = t]
           with == [done EXCEPT !.muxer = m]
           y    == ActivateYamux(with)
           s    == CASE m = "na" -> done [] m = "yamux" -> y [] OTHER -> with
<1>1. /\ r \in Sessions /\ SaysOk(e, r) /\ Exchange(e) /\ r.muxer = Selected(e) /\ ~r.yamux
  BY DEF Fine, MuxerOk
<1>2. t \in Seq(TextsOf(Other(e))) /\ t \in Seq(Texts)
  BY <1>1, SaysFacts, SeqFacts, HeadTailProperties
<1> HIDE DEF t
<1>3. /\ done \in Sessions /\ done.tx = r.tx /\ done.net = r.net /\ done.rx = r.rx
      /\ done.negotiation = t /\ done.muxer = r.muxer /\ done.yamux = r.yamux
  BY <1>1, <1>2 DEF Sessions
<1> HIDE DEF done
<1>4. SaysOk(e, done)
  BY <1>1, <1>2, <1>3 DEF SaysOk
<1>5. /\ with \in Sessions /\ SaysOk(e, with) /\ with.muxer = m /\ with.yamux = done.yamux
      /\ y \in Sessions /\ SaysOk(e, y) /\ y.muxer = m /\ y.yamux = TRUE
  BY <1>3, <1>4, ChosenMuxer
<1>6. MuxerChosen(r, m) = CompleteReadyState(s)
  BY DEF MuxerChosen, done, t
<1> HIDE DEF with, y
<1>7. r.yamux = FALSE
  BY <1>1 DEF Sessions
<1>8. CASE m = "na"
  <2>1. s = done
    BY <1>8
  <2>2. Decided(e, done)
    BY <1>1, <1>3, <1>7, <1>8 DEF Decided
  <2> QED BY <1>3, <1>4, <1>6, <2>1, <2>2, CompleteFine
<1>9. CASE m = "yamux"
  <2>1. s = y
    BY <1>9
  <2>2. Decided(e, y)
    BY <1>1, <1>5, <1>9 DEF Decided
  <2> QED BY <1>5, <1>6, <2>1, <2>2, CompleteFine
<1>10. CASE m # "na" /\ m # "yamux"
  <2>1. s = with
    BY <1>10
  <2>2. Decided(e, with)
    <3>1. with.yamux = FALSE /\ with.muxer = Answer
      BY <1>3, <1>5, <1>7
    <3>2. Exchange(e) /\ Answer # "na" /\ Answer # "yamux"
      BY <1>1, <1>10
    <3> QED BY <3>1, <3>2 DEF Decided
  <2> QED BY <1>5, <1>6, <2>1, <2>2, CompleteFine
<1> QED BY <1>8, <1>9, <1>10

\* What is learnt from the peer's payload.
LEMMA AuthenticatedKeeps ==
    ASSUME TypeInv, NEW e \in End, NEW r \in Sessions, SaysOk(e, r),
           NEW h \in {"Complete", "AwaitingMsg2", "AwaitingMsg3"}
    PROVE  LET q == [Authenticated(e, r) EXCEPT !.hs = h] IN
           /\ q \in Sessions /\ SaysOk(e, q) /\ q.stage = r.stage /\ q.muxer = r.muxer
           /\ q.yamux = r.yamux /\ q.remoteMuxers = Offered(e)
<1> DEFINE p == conf.identity[Other(e)]
           l == IF p THEN conf.muxers[Other(e)] ELSE <<>>
           q == [r EXCEPT !.remotePeer = p, !.remoteMuxers = l, !.hs = h]
<1>1. p \in BOOLEAN /\ conf.muxers[Other(e)] \in Seq(STRING)
  BY OtherEnd DEF TypeInv
<1>2. l \in Seq(STRING)
  <2> DEFINE nil == <<>>
  <2>1. nil \in Seq(STRING)
    OBVIOUS
  <2> HIDE DEF nil
  <2>2. (IF p THEN conf.muxers[Other(e)] ELSE nil) \in Seq(STRING)
    BY <1>1, <2>1
  <2> QED BY <2>2 DEF nil
<1>3. l = Offered(e)
  BY DEF Offered
<1>4. [Authenticated(e, r) EXCEPT !.hs = h] = q
  BY DEF Authenticated
<1> HIDE DEF p, l
<1>5. /\ q \in Sessions /\ q.tx = r.tx /\ q.net = r.net /\ q.rx = r.rx
      /\ q.negotiation = r.negotiation /\ q.stage = r.stage /\ q.muxer = r.muxer
      /\ q.yamux = r.yamux /\ q.remoteMuxers = l
  BY <1>1, <1>2 DEF Sessions
<1> HIDE DEF q
<1>6. SaysOk(e, q)
  BY <1>5 DEF SaysOk
<1> QED BY <1>3, <1>4, <1>5, <1>6

LEMMA FinishFine ==
    ASSUME TypeInv, NEW e \in End, NEW r, Fine(e, r), r.stage = "NoiseHandshake",
           r.remoteMuxers = Offered(e), NEW fail
    PROVE  Fine(e, FinishSecureUpgrade(e, r, fail))
<1> DEFINE sel   == SelectStreamMuxer(e, r)
           neg   == [r EXCEPT !.muxer = sel, !.stage = "MuxerNegotiation"]
           plain == [r EXCEPT !.muxer = sel]
           y     == ActivateYamux(plain)
           first == conf.muxers[e][1]
           out   == QueueEncrypted(neg, Text("propose", first, 0))
<1>1. r \in Sessions /\ SaysOk(e, r) /\ ~r.yamux /\ r.yamux = FALSE /\ sel \in Names
  BY SelectType DEF Fine, MuxerOk, Sessions
<1>2. sel = Selected(e)
  BY DEF Selected, SelectStreamMuxer
<1>3. CASE ~ExpectedPeerOk(e, r)
  <2>1. Keeps(e, Fail(r), r)
    BY <1>1, FailKeeps
  <2> QED BY <1>3, <2>1, KeepsFine DEF FinishSecureUpgrade
<1> HIDE DEF sel
<1>4. /\ plain \in Sessions /\ SaysOk(e, plain) /\ plain.muxer = sel /\ plain.yamux = r.yamux
      /\ y \in Sessions /\ SaysOk(e, y) /\ y.muxer = sel /\ y.yamux = TRUE
  BY <1>1, ChosenMuxer
<1>5. CASE ExpectedPeerOk(e, r) /\ sel = "yamux"
  <2>1. FinishSecureUpgrade(e, r, fail) = CompleteReadyState(y)
    BY <1>5 DEF FinishSecureUpgrade, sel
  <2> HIDE DEF plain, y
  <2>2. Decided(e, y)
    BY <1>2, <1>4, <1>5 DEF Decided, Exchange
  <2> QED BY <1>4, <2>1, <2>2, CompleteFine
<1>6. CASE ExpectedPeerOk(e, r) /\ sel # "yamux" /\ conf.muxers[e] = <<>>
  <2>1. FinishSecureUpgrade(e, r, fail) = CompleteReadyState(plain)
    BY <1>6 DEF FinishSecureUpgrade, sel
  <2> HIDE DEF plain, y
  <2>2. Decided(e, plain)
    <3>1. ~Exchange(e)
      BY <1>6 DEF Exchange
    <3>2. plain.muxer = Selected(e) /\ plain.yamux = FALSE /\ Selected(e) # "yamux"
      BY <1>1, <1>2, <1>4, <1>6
    <3> QED BY <3>1, <3>2 DEF Decided
  <2> QED BY <1>4, <2>1, <2>2, CompleteFine
<1>7. CASE ExpectedPeerOk(e, r) /\ sel # "yamux" /\ conf.muxers[e] # <<>>
  <2>1. FinishSecureUpgrade(e, r, fail) =
           IF e = "res" THEN neg ELSE IF fail THEN Fail(out) ELSE Flush(e, out)
    BY <1>7 DEF FinishSecureUpgrade, sel
  <2>2. /\ neg \in Sessions /\ neg.tx = r.tx /\ neg.net = r.net /\ neg.rx = r.rx
        /\ neg.negotiation = r.negotiation /\ neg.stage = "MuxerNegotiation"
        /\ neg.muxer = sel /\ neg.yamux = FALSE
    BY <1>1 DEF Sessions
  <2> HIDE DEF neg
  <2>3. SaysOk(e, neg)
    BY <1>1, <2>2 DEF SaysOk
  <2>4. Exchange(e)
    BY <1>2, <1>7 DEF Exchange
  <2>5. Fine(e, neg)
    BY <1>2, <2>2, <2>3, <2>4 DEF Fine, MuxerOk
  <2>6. CASE e = "res"
    BY <2>1, <2>5, <2>6
  <2>7. CASE e = "ini"
    <3>1. first \in Names
      <4> DEFINE local == conf.muxers[e]
      <4>1. local \in Seq(STRING) /\ local # <<>>
        BY <1>7 DEF TypeInv
      <4> HIDE DEF local
      <4>2. local[1] \in STRING
        BY <4>1
      <4> QED BY <4>2 DEF Names, local
    <3>2. first = Proposal
      BY <2>7 DEF Proposal
    <3> HIDE DEF first
    <3>3. Keeps(e, out, neg)
      BY <2>2, <2>3, <2>7, <3>1, <3>2, QueueEncryptedKeeps
    <3> HIDE DEF out
    <3>4. Fine(e, out)
      BY <2>5, <3>3, KeepsFine
    <3>5. Keeps(e, Fail(out), out) /\ Keeps(e, Flush(e, out), out)
      BY <3>4, FailKeeps, FlushKeeps DEF Fine
    <3>6. Fine(e, Fail(out)) /\ Fine(e, Flush(e, out))
      BY <3>4, <3>5, KeepsFine
    <3>7. FinishSecureUpgrade(e, r, fail) = IF fail THEN Fail(out) ELSE Flush(e, out)
      BY <2>1, <2>7
    <3> QED BY <3>6, <3>7
  <2> QED BY <2>6, <2>7 DEF End
<1> QED BY <1>3, <1>5, <1>6, <1>7

----------------------------------------------------------------------------
(* The muxer in every step.                                                *)

LEMMA SelfFine ==
    ASSUME TypeInv, MuxerInv, NEW e \in End
    PROVE  Fine(e, ep[e]) /\ ep[e] \in Sessions /\ SaysOk(e, ep[e]) /\ MuxerOk(e, ep[e])
  BY DEF TypeInv, MuxerInv, Fine

\* One end, or both, come out of a step in order.
LEMMA BothFine ==
    ASSUME conf' = conf, \A f \in End : Fine(f, ep'[f])
    PROVE  MuxerInv'
<1>1. Proposal' = Proposal /\ Answer' = Answer
  BY DEF Proposal, Answer
<1>2. ASSUME NEW f \in End
      PROVE  TextsOf(f)' = TextsOf(f) /\ MessagesOf(f)' = MessagesOf(f)
  BY <1>1 DEF TextsOf, MessagesOf
<1>3. ASSUME NEW f \in End
      PROVE  Selected(f)' = Selected(f) /\ Exchange(f)' = Exchange(f)
  <2>1. Offered(f)' = Offered(f)
    BY DEF Offered
  <2>2. Selected(f)' = Selected(f)
    BY <2>1 DEF Selected, SelectStreamMuxer
  <2> QED BY <2>2 DEF Exchange
<1>4. ASSUME NEW f \in End
      PROVE  SaysOk(f, ep[f])' /\ MuxerOk(f, ep[f])'
  <2>1. Other(f) \in End
    BY OtherEnd
  <2>2. SaysOk(f, ep'[f]) /\ MuxerOk(f, ep'[f])
    BY DEF Fine
  <2>3. SaysOk(f, ep[f])'
    BY <1>2, <2>1, <2>2 DEF SaysOk
  <2>4. MuxerOk(f, ep[f])'
    BY <1>1, <1>3, <2>2 DEF MuxerOk
  <2> QED BY <2>3, <2>4
<1> QED BY <1>4 DEF MuxerInv

LEMMA FineEnd ==
    ASSUME TypeInv, MuxerInv, NEW e \in End, NEW g, Fine(e, g),
           ep' = [ep EXCEPT ![e] = g], conf' = conf
    PROVE  MuxerInv'
<1>1. ep'[e] = g /\ \A f \in End : f # e => ep'[f] = ep[f]
  BY DEF TypeInv
<1>2. \A f \in End : Fine(f, ep'[f])
  BY <1>1, SelfFine
<1> QED BY <1>2, BothFine

LEMMA PutFine ==
    ASSUME TypeInv, MuxerInv, NEW e \in End, NEW g, Fine(e, g), Put(e, g)
    PROVE  MuxerInv'
  BY FineEnd DEF Put

LEMMA NegotiateProtocolFine ==
    ASSUME TypeInv, MuxerInv, NEW e \in End, NegotiateProtocol(e)
    PROVE  MuxerInv'
<1> DEFINE r == ep[e]
           m == Head(r.rx)
<1>1. r.stage = "NegotiatingProtocol" /\ r.rx # <<>>
  BY DEF NegotiateProtocol
<1>2. Fine(e, r) /\ r \in Sessions /\ SaysOk(e, r) /\ MuxerOk(e, r) /\ r.yamux = FALSE
  BY <1>1, SelfFine DEF MuxerOk, Sessions
<1>3. ASSUME NEW h \in {"AwaitingMsg1", "AwaitingMsg2"}, NEW p, Keeps(e, p, r)
      PROVE  Fine(e, [p EXCEPT !.stage = "NoiseHandshake", !.hs = h])
  <2> DEFINE q == [p EXCEPT !.stage = "NoiseHandshake", !.hs = h]
  <2>1. p \in Sessions /\ SaysOk(e, p) /\ p.yamux = FALSE
    BY <1>2, <1>3 DEF Keeps, SameMuxer
  <2>2. /\ q \in Sessions /\ q.tx = p.tx /\ q.net = p.net /\ q.rx = p.rx
        /\ q.negotiation = p.negotiation /\ q.stage = "NoiseHandshake" /\ q.yamux = FALSE
    BY <2>1 DEF Sessions
  <2> HIDE DEF q
  <2>3. SaysOk(e, q) /\ MuxerOk(e, q)
    BY <2>1, <2>2 DEF SaysOk, MuxerOk
  <2> QED BY <2>2, <2>3 DEF Fine, q
<1>4. CASE e = "res" /\ m.kind = "msPropose" /\ \E fail \in SendMayFail(e) :
              LET out == Queue(r, Plain("msAccept")) IN
              Put(e, IF fail THEN Fail(out)
                     ELSE [Popped(FlushPending(e, out)) EXCEPT
                              !.stage = "NoiseHandshake", !.hs = "AwaitingMsg1"])
  <2> DEFINE out == Queue(r, Plain("msAccept"))
             f   == FlushPending(e, out)
             p   == Popped(f)
             q   == [p EXCEPT !.stage = "NoiseHandshake", !.hs = "AwaitingMsg1"]
  <2>1. Plain("msAccept") \in Messages /\ Plain("msAccept").kind # "enc"
    BY PlainType
  <2>2. Put(e, Fail(out)) \/ Put(e, q)
    BY <1>4
  <2>3. Keeps(e, out, r)
    BY <1>2, <2>1, PlainSaid, QueueKeeps
  <2>4. out.rx = r.rx
    BY <1>2, <2>1, QueueFields
  <2> HIDE DEF out
  <2>5. Keeps(e, Fail(out), out) /\ Keeps(e, f, out)
    BY <2>3, FailKeeps, FlushPendingKeeps DEF Keeps
  <2>6. f.rx = out.rx
    BY <2>3, FlushPendingStep DEF SameInput, Keeps
  <2> HIDE DEF f
  <2>7. Keeps(e, p, f)
    BY <1>1, <2>4, <2>5, <2>6, PoppedKeeps DEF Keeps
  <2> HIDE DEF p
  <2>8. Fine(e, Fail(out))
    BY <1>2, <2>3, <2>5, KeepsFine
  <2>9. Keeps(e, p, r)
    BY <2>3, <2>5, <2>7, KeepsTrans DEF Keeps
  <2>10. Fine(e, q)
    BY <1>3, <2>9
  <2> QED BY <2>2, <2>8, <2>10, PutFine
<1>5. CASE e = "ini" /\ m.kind = "msAccept" /\ \E fail \in SendMayFail(e) :
              LET out == Queue([Popped(r) EXCEPT !.stage = "NoiseHandshake",
                                                 !.hs = "AwaitingMsg2"],
                               Plain("msg1"))
              IN Put(e, IF fail THEN Fail(out) ELSE FlushPending(e, out))
  <2> DEFINE p   == Popped(r)
             h   == [p EXCEPT !.stage = "NoiseHandshake", !.hs = "AwaitingMsg2"]
             out == Queue(h, Plain("msg1"))
  <2>1. Plain("msg1") \in Messages /\ Plain("msg1").kind # "enc"
    BY PlainType
  <2>2. Put(e, Fail(out)) \/ Put(e, FlushPending(e, out))
    BY <1>5
  <2>3. Keeps(e, p, r)
    BY <1>1, <1>2, PoppedKeeps
  <2> HIDE DEF p
  <2>4. Fine(e, h)
    BY <1>3, <2>3
  <2> HIDE DEF h
  <2>5. Keeps(e, out, h)
    BY <2>1, <2>4, PlainSaid, QueueKeeps DEF Fine
  <2> HIDE DEF out
  <2>6. Keeps(e, Fail(out), out) /\ Keeps(e, FlushPending(e, out), out) /\ Fine(e, out)
    BY <2>4, <2>5, FailKeeps, FlushPendingKeeps, KeepsFine DEF Keeps
  <2>7. Fine(e, Fail(out)) /\ Fine(e, FlushPending(e, out))
    BY <2>6, KeepsFine
  <2> QED BY <2>2, <2>7, PutFine
<1>6. CASE Put(e, Fail(r))
  <2>1. Fine(e, Fail(r))
    BY <1>2, FailKeeps, KeepsFine
  <2> QED BY <1>6, <2>1, PutFine
<1> QED BY <1>4, <1>5, <1>6 DEF NegotiateProtocol

LEMMA HandshakeFrameFine ==
    ASSUME TypeInv, MuxerInv, NEW e \in End, HandshakeFrame(e)
    PROVE  MuxerInv'
<1> DEFINE s == ep[e]
           r == Popped(s)
<1>1. s.stage = "NoiseHandshake" /\ s.rx # <<>>
  BY DEF HandshakeFrame
<1>2. Fine(e, s) /\ Keeps(e, r, s)
  BY <1>1, SelfFine, PoppedKeeps
<1>3. /\ Fine(e, r) /\ r \in Sessions /\ SaysOk(e, r) /\ r.stage = "NoiseHandshake"
      /\ r.yamux = FALSE
  BY <1>1, <1>2, KeepsFine DEF Keeps, SameMuxer, Fine, MuxerOk, Sessions
<1>4. Fine(e, Fail(r))
  BY <1>3, FailKeeps, KeepsFine
<1>5. ASSUME NEW out, out = Queue([r EXCEPT !.hs = "AwaitingMsg3"], Plain("msg2")),
             Put(e, Fail(out)) \/ Put(e, FlushPending(e, out))
      PROVE  MuxerInv'
  <2> DEFINE h == [r EXCEPT !.hs = "AwaitingMsg3"]
  <2>1. Plain("msg2") \in Messages /\ Plain("msg2").kind # "enc"
    BY PlainType
  <2> HIDE DEF r
  <2>2. /\ h \in Sessions /\ h.tx = r.tx /\ h.net = r.net /\ h.rx = r.rx
        /\ h.negotiation = r.negotiation /\ SameMuxer(h, r)
    BY <1>3 DEF Sessions, SameMuxer
  <2>3. out = Queue(h, Plain("msg2"))
    BY <1>5 DEF h
  <2> HIDE DEF h
  <2>4. Keeps(e, h, r)
    BY <1>3, <2>2 DEF Keeps, SaysOk
  <2>5. Fine(e, h)
    BY <1>3, <2>4, KeepsFine
  <2>6. Keeps(e, out, h)
    BY <2>1, <2>3, <2>5, PlainSaid, QueueKeeps DEF Fine
  <2>7. Keeps(e, Fail(out), out) /\ Keeps(e, FlushPending(e, out), out) /\ Fine(e, out)
    BY <2>5, <2>6, FailKeeps, FlushPendingKeeps, KeepsFine DEF Keeps
  <2>8. Fine(e, Fail(out)) /\ Fine(e, FlushPending(e, out))
    BY <2>7, KeepsFine
  <2> QED BY <1>5, <2>8, PutFine
<1> DEFINE a == [Authenticated(e, r) EXCEPT !.hs = "Complete"]
<1>6. /\ Fine(e, a) /\ a.stage = "NoiseHandshake" /\ a.remoteMuxers = Offered(e)
  <2> HIDE DEF r
  <2>1. /\ a \in Sessions /\ SaysOk(e, a) /\ a.stage = "NoiseHandshake" /\ a.yamux = FALSE
        /\ a.remoteMuxers = Offered(e)
    BY <1>3, AuthenticatedKeeps
  <2> HIDE DEF a
  <2> QED BY <2>1 DEF Fine, MuxerOk
<1>7. ASSUME NEW out, out = Queue(a, Plain("msg3")), NEW again,
             \/ Put(e, Fail(out))
             \/ Put(e, FinishSecureUpgrade(e, FlushPending(e, out), again))
      PROVE  MuxerInv'
  <2> DEFINE f == FlushPending(e, out)
  <2>1. Plain("msg3") \in Messages /\ Plain("msg3").kind # "enc"
    BY PlainType
  <2> HIDE DEF a
  <2>2. Keeps(e, out, a)
    BY <1>6, <1>7, <2>1, PlainSaid, QueueKeeps DEF Fine
  <2>3. Keeps(e, Fail(out), out) /\ Keeps(e, f, out) /\ Fine(e, out)
    BY <1>6, <2>2, FailKeeps, FlushPendingKeeps, KeepsFine DEF Keeps
  <2> HIDE DEF f
  <2>4. Fine(e, Fail(out)) /\ Fine(e, f)
    BY <2>3, KeepsFine
  <2>5. f.stage = "NoiseHandshake" /\ f.remoteMuxers = Offered(e)
    BY <1>6, <2>2, <2>3 DEF Keeps, SameMuxer
  <2>6. Fine(e, FinishSecureUpgrade(e, f, again))
    BY <2>4, <2>5, FinishFine
  <2> QED BY <1>7, <2>4, <2>6, PutFine DEF f
<1>8. ASSUME NEW fail, Put(e, FinishSecureUpgrade(e, a, fail))
      PROVE  MuxerInv'
  <2>1. Fine(e, FinishSecureUpgrade(e, a, fail))
    BY <1>6, FinishFine
  <2> QED BY <1>8, <2>1, PutFine
<1>9. ASSUME Put(e, Fail(r)) PROVE MuxerInv'
  BY <1>4, <1>9, PutFine
<1> QED BY <1>5, <1>7, <1>8, <1>9 DEF HandshakeFrame

LEMMA CollectNegotiationFine ==
    ASSUME TypeInv, MuxerInv, NEW e \in End, CollectNegotiation(e)
    PROVE  MuxerInv'
<1> DEFINE r == ep[e]
           m == Head(r.rx)
           p == Popped(r)
           d == Deciphered(r)
           t == Append(d.negotiation, m.text)
           q == [d EXCEPT !.negotiation = t]
<1>1. r.rx # <<>>
  BY DEF CollectNegotiation
<1>2. /\ Fine(e, r) /\ r \in Sessions /\ SaysOk(e, r)
      /\ Keeps(e, p, r) /\ Keeps(e, d, r) /\ m \in MessagesOf(Other(e))
  BY <1>1, SelfFine, PoppedKeeps
<1>3. CASE Put(e, Fail(p))
  <2>1. Keeps(e, Fail(p), p) /\ Fine(e, p)
    BY <1>2, FailKeeps, KeepsFine DEF Keeps
  <2>2. Fine(e, Fail(p))
    BY <2>1, KeepsFine
  <2> QED BY <1>3, <2>2, PutFine
<1>4. CASE Decrypts(p, m) /\ Put(e, [p EXCEPT !.recvNonce = @ + 1,
                                              !.negotiation = Append(@, m.text)])
  <2>1. p.negotiation = r.negotiation /\ p.recvNonce = r.recvNonce
    BY <1>1, <1>2, PoppedFields
  <2>2. d.negotiation = r.negotiation
    BY <1>1, <1>2, DecipheredFields
  <2>3. Put(e, [d EXCEPT !.negotiation = Append(p.negotiation, m.text)])
    BY <1>4 DEF Deciphered
  <2>4. Put(e, q)
    BY <2>1, <2>2, <2>3
  <2>5. m.text \in TextsOf(Other(e))
    BY <1>2, <1>4 DEF MessagesOf, Decrypts
  <2> HIDE DEF d
  <2>6. d.negotiation \in Seq(TextsOf(Other(e))) /\ d \in Sessions /\ SaysOk(e, d)
    BY <1>2, SaysFacts DEF Keeps
  <2>7. t \in Seq(TextsOf(Other(e)))
    BY <2>5, <2>6
  <2>8. t \in Seq(Texts)
    <3>1. d.negotiation \in Seq(Texts) /\ m.text \in Texts
      BY <2>5, <2>6, SeqFacts DEF TextsOf
    <3> QED BY <3>1
  <2> HIDE DEF t
  <2>9. /\ q \in Sessions /\ q.tx = d.tx /\ q.net = d.net /\ q.rx = d.rx
        /\ q.negotiation = t /\ SameMuxer(q, d)
    BY <2>6, <2>8 DEF Sessions, SameMuxer
  <2> HIDE DEF q
  <2>10. Keeps(e, q, d)
    BY <2>6, <2>7, <2>9 DEF Keeps, SaysOk
  <2>11. Fine(e, q)
    BY <1>2, <2>10, KeepsTrans, KeepsFine DEF Keeps
  <2> QED BY <2>4, <2>11, PutFine
<1> QED BY <1>3, <1>4 DEF CollectNegotiation

\* What is sent does not touch what was received.
LEMMA SaysNothing ==
    ASSUME NEW r \in Sessions, NEW x
    PROVE  QueueEncrypted(r, x).negotiation = r.negotiation
  BY DEF QueueEncrypted, Queue, Sessions

LEMMA InputDoneFine ==
    ASSUME TypeInv, MuxerInv, NEW e \in End, Put(e, [ep[e] EXCEPT !.busy = FALSE])
    PROVE  MuxerInv'
<1>1. Fine(e, ep[e]) /\ ep[e].stream \in Directs
  BY SelfFine, SeqFacts
<1>2. Fine(e, [ep[e] EXCEPT !.busy = FALSE])
  BY <1>1, StateKeeps, KeepsFine DEF Fine
<1> QED BY <1>2, PutFine

\* What the peer says in the exchange is its proposal or its answer.
LEMMA DecideMuxerFine ==
    ASSUME TypeInv, MuxerInv, NEW e \in End, DecideMuxer(e)
    PROVE  MuxerInv'
<1> DEFINE r   == ep[e]
           t   == Head(r.negotiation)
           has == {conf.muxers[e][i] : i \in DOMAIN conf.muxers[e]}
           ans == IF t.m \in has THEN t.m ELSE "na"
           out == QueueEncrypted(r, Text("reply", ans, 0))
<1>1. r.stage = "MuxerNegotiation" /\ r.negotiation # <<>>
  BY DEF DecideMuxer
<1>2. Fine(e, r) /\ r \in Sessions /\ SaysOk(e, r)
  BY SelfFine
<1>3. Fine(e, Fail(r))
  BY <1>2, FailKeeps, KeepsFine
<1>4. t \in TextsOf(Other(e)) /\ t.m \in Names
  <2>1. r.negotiation \in Seq(TextsOf(Other(e)))
    BY <1>2, SaysFacts
  <2>2. t \in TextsOf(Other(e))
    BY <1>1, <2>1, HeadTailProperties
  <2> QED BY <2>2 DEF TextsOf, Texts
<1>5. ASSUME e = "res", t.t = "propose",
             Put(e, Fail(out)) \/ Put(e, MuxerChosen(Flush(e, out), ans))
      PROVE  MuxerInv'
  <2> DEFINE f == Flush(e, out)
  <2>1. t.m = Proposal
    BY <1>4, <1>5 DEF TextsOf
  <2>2. ans = Answer /\ ans \in Names
    BY <1>4, <1>5, <2>1 DEF Answer, Names
  <2>3. Put(e, Fail(out)) \/ Put(e, MuxerChosen(f, ans))
    BY <1>5
  <2> HIDE DEF ans
  <2>4. Keeps(e, out, r)
    BY <1>2, <1>5, <2>2, QueueEncryptedKeeps
  <2>8. out.negotiation = r.negotiation
    BY <1>2, SaysNothing
  <2> HIDE DEF out
  <2>5. Fine(e, out) /\ Keeps(e, Fail(out), out) /\ Keeps(e, f, out)
    BY <1>2, <2>4, KeepsFine, FailKeeps, FlushKeeps DEF Keeps
  <2>6. f.negotiation = out.negotiation
    BY <2>5, FlushStep DEF SameInput, SameStory, Fine
  <2>7. f.stage = "MuxerNegotiation"
    BY <1>1, <2>4, <2>5 DEF Keeps, SameMuxer
  <2> HIDE DEF f
  <2>9. Fine(e, f) /\ Fine(e, Fail(out))
    BY <2>5, KeepsFine
  <2>10. f.negotiation # <<>>
    BY <1>1, <2>6, <2>8
  <2>11. Fine(e, MuxerChosen(f, ans))
    BY <2>2, <2>7, <2>9, <2>10, MuxerChosenFine
  <2> QED BY <2>3, <2>9, <2>11, PutFine
<1>6. ASSUME e = "ini", t.t = "reply", Put(e, MuxerChosen(r, t.m))
      PROVE  MuxerInv'
  <2>1. t.m = Answer
    BY <1>4, <1>6 DEF TextsOf
  <2>2. Fine(e, MuxerChosen(r, t.m))
    BY <1>1, <1>2, <1>4, <2>1, MuxerChosenFine
  <2> QED BY <1>6, <2>2, PutFine
<1>7. ASSUME Put(e, Fail(r)) PROVE MuxerInv'
  BY <1>3, <1>7, PutFine
<1>8. ASSUME Put(e, [r EXCEPT !.busy = FALSE]) PROVE MuxerInv'
  BY <1>8, InputDoneFine
<1> QED BY <1>5, <1>6, <1>7, <1>8 DEF DecideMuxer

\* Most methods leave the muxer alone.
LEMMA KeptFine ==
    ASSUME TypeInv, MuxerInv, NEW e \in End, NEW g, Keeps(e, g, ep[e]),
           ep' = [ep EXCEPT ![e] = g], conf' = conf
    PROVE  MuxerInv'
  BY SelfFine, KeepsFine, FineEnd

LEMMA KeepsBoth ==
    ASSUME NEW e, NEW p, NEW q, NEW r, Keeps(e, q, r), Keeps(e, p, q)
    PROVE  Keeps(e, p, r) /\ q \in Sessions /\ SaysOk(e, q)
  BY KeepsTrans DEF Keeps

LEMMA CountKeeps ==
    ASSUME NEW e, NEW r \in Sessions, SaysOk(e, r), NEW n \in Nat
    PROVE  Keeps(e, [r EXCEPT !.pending = n], r) /\ Keeps(e, [r EXCEPT !.opens = n], r)
<1> DEFINE p == [r EXCEPT !.pending = n]
           q == [r EXCEPT !.opens = n]
<1>1. /\ p \in Sessions /\ p.tx = r.tx /\ p.net = r.net /\ p.rx = r.rx
      /\ p.negotiation = r.negotiation /\ SameMuxer(p, r)
  BY DEF Sessions, SameMuxer
<1>2. /\ q \in Sessions /\ q.tx = r.tx /\ q.net = r.net /\ q.rx = r.rx
      /\ q.negotiation = r.negotiation /\ SameMuxer(q, r)
  BY DEF Sessions, SameMuxer
<1> HIDE DEF p, q
<1>3. SaysOk(e, p) /\ SaysOk(e, q)
  BY <1>1, <1>2 DEF SaysOk
<1> QED BY <1>1, <1>2, <1>3 DEF Keeps, p, q

LEMMA DirectKeeps ==
    ASSUME NEW e, NEW r \in Sessions, SaysOk(e, r), NEW d \in Directs
    PROVE  Keeps(e, [r EXCEPT !.stream = d], r)
<1>1. r.state \in {"TcpAccepted", "Securing", "Ready", "Failed", "Closed"}
  BY DEF Sessions
<1> QED BY StateKeeps

LEMMA DeliverFrameFine ==
    ASSUME TypeInv, MuxerInv, NEW e \in End, DeliverFrame(e)
    PROVE  MuxerInv'
<1> DEFINE s   == ep[e]
           m   == Head(s.rx)
           r   == Deciphered(s)
           d   == IF r.stream.open THEN r ELSE CreateStream(r, TRUE)
           n   == r.pending + 1
           u   == [r EXCEPT !.pending = n]
           syn == Emit(u, "StreamAccepted")
           out == QueueEncrypted(syn, Text("ack", "none", 0))
<1>1. s.rx # <<>>
  BY DEF DeliverFrame
<1>2. /\ Fine(e, s) /\ s \in Sessions /\ SaysOk(e, s)
      /\ Keeps(e, Popped(s), s) /\ Keeps(e, r, s) /\ m \in MessagesOf(Other(e))
  BY <1>1, SelfFine, PoppedKeeps
<1>3. ASSUME NEW g, Keeps(e, g, s), Put(e, g) PROVE MuxerInv'
  BY <1>3, KeptFine DEF Put
<1>4. CASE Put(e, Fail(Popped(s)))
  <2>1. Keeps(e, Fail(Popped(s)), Popped(s))
    BY <1>2, FailKeeps DEF Keeps
  <2>2. Keeps(e, Fail(Popped(s)), s)
    BY <1>2, <2>1, KeepsBoth
  <2> QED BY <1>3, <1>4, <2>2
<1>5. r \in Sessions /\ SaysOk(e, r) /\ r.pending \in Nat
  BY <1>2 DEF Keeps, Sessions
<1>6. CASE Put(e, [d EXCEPT !.stream.rx = Append(@, m.text)])
  <2>1. m.text \in Texts
    BY <1>2 DEF MessagesOf, Messages
  <2>2. Keeps(e, d, s)
    <3> HIDE DEF r
    <3>1. Keeps(e, CreateStream(r, TRUE), r)
      BY <1>5, CreateStreamKeeps
    <3>2. Keeps(e, CreateStream(r, TRUE), s)
      BY <1>2, <3>1, KeepsBoth
    <3> QED BY <1>2, <3>2
  <2> DEFINE x == Append(d.stream.rx, m.text)
             y == [d.stream EXCEPT !.rx = x]
             q == [d EXCEPT !.stream = y]
  <2>3. Put(e, q)
    BY <1>6
  <2> HIDE DEF d
  <2>4. d \in Sessions /\ SaysOk(e, d) /\ d.stream \in Directs /\ d.stream.rx \in Seq(Texts)
    BY <2>2, SeqFacts DEF Keeps, Directs
  <2>5. x \in Seq(Texts)
    BY <2>1, <2>4
  <2> HIDE DEF x
  <2>6. y \in Directs
    BY <2>4, <2>5 DEF Directs
  <2> HIDE DEF y
  <2>7. Keeps(e, q, d)
    BY <2>4, <2>6, DirectKeeps
  <2> HIDE DEF q
  <2>8. Keeps(e, q, s)
    BY <2>2, <2>7, KeepsBoth
  <2> QED BY <1>3, <2>3, <2>8
<1>7. CASE \E fail \in SendMayFail(e) : Put(e, IF fail THEN out ELSE Flush(e, out))
  <2>1. n \in Nat
    BY <1>5
  <2>2. Put(e, out) \/ Put(e, Flush(e, out))
    BY <1>7
  <2> HIDE DEF n, r
  <2>3. Keeps(e, u, r)
    BY <1>5, <2>1, CountKeeps
  <2> HIDE DEF u
  <2>4. Keeps(e, u, s) /\ u \in Sessions /\ SaysOk(e, u)
    BY <1>2, <2>3, KeepsBoth DEF Keeps
  <2>5. Keeps(e, syn, u)
    BY <2>4, EventKeeps DEF Events
  <2> HIDE DEF syn
  <2>6. Keeps(e, syn, s) /\ syn \in Sessions /\ SaysOk(e, syn)
    BY <2>4, <2>5, KeepsBoth DEF Keeps
  <2>7. Keeps(e, out, syn)
    BY <2>6, QueueEncryptedKeeps DEF Names
  <2> HIDE DEF out
  <2>8. Keeps(e, out, s) /\ out \in Sessions /\ SaysOk(e, out)
    BY <2>6, <2>7, KeepsBoth DEF Keeps
  <2>9. Keeps(e, Flush(e, out), out)
    BY <2>8, FlushKeeps
  <2>10. Keeps(e, Flush(e, out), s)
    BY <2>8, <2>9, KeepsBoth
  <2> QED BY <1>3, <2>2, <2>8, <2>10
<1>8. CASE Put(e, r)
  BY <1>2, <1>3, <1>8
<1> QED BY <1>4, <1>6, <1>7, <1>8 DEF DeliverFrame, Deciphered

LEMMA PendingInputFine ==
    ASSUME TypeInv, MuxerInv, NEW e \in End, ProcessPendingInput(e)
    PROVE  MuxerInv'
  BY NegotiateProtocolFine, HandshakeFrameFine, CollectNegotiationFine, DecideMuxerFine,
     DeliverFrameFine, InputDoneFine DEF ProcessPendingInput, InputDone

\* What arrives is what the peer has said.
LEMMA ReceiveFine ==
    ASSUME TypeInv, MuxerInv, NEW e \in End, Receive(e)
    PROVE  MuxerInv'
<1> DEFINE r == ep[e]
           o == Other(e)
           k == ep[o]
<1>1. /\ o \in End /\ o # e /\ Other(o) = e /\ \A f \in End : f = e \/ f = o
      /\ ep \in [End -> Sessions] /\ conf' = conf
  BY OtherEnd DEF TypeInv, End, Other, Receive
<1>2. /\ Fine(e, r) /\ r \in Sessions /\ SaysOk(e, r)
      /\ Fine(o, k) /\ k \in Sessions /\ SaysOk(o, k)
  BY <1>1, SelfFine
<1>3. PICK n \in DOMAIN k.net :
         LET batch == SubSeq(k.net, 1, n)
             rest  == [k EXCEPT !.net = SubSeq(@, n + 1, Len(@))]
             mine  == IF batch[n] = Eof THEN Close(r)
                      ELSE [r EXCEPT !.rx = @ \o batch, !.busy = TRUE]
         IN ep' = [ep EXCEPT ![e] = mine, ![o] = rest]
  BY DEF Receive
<1> DEFINE batch == SubSeq(k.net, 1, n)
           left  == SubSeq(k.net, n + 1, Len(k.net))
           rest  == [k EXCEPT !.net = left]
           rx    == r.rx \o batch
           more  == [r EXCEPT !.rx = rx, !.busy = TRUE]
           mine  == IF batch[n] = Eof THEN Close(r) ELSE more
<1>4. ep' = [ep EXCEPT ![e] = mine, ![o] = rest]
  BY <1>3
<1>5. /\ batch \in Seq(MessagesOf(o)) /\ left \in Seq(MessagesOf(o))
      /\ r.rx \in Seq(MessagesOf(o))
  <2>1. k.net \in Seq(MessagesOf(o)) /\ r.rx \in Seq(MessagesOf(o))
    BY <1>2, SaysFacts
  <2>2. n \in 0 .. Len(k.net)
    BY <2>1
  <2> QED BY <2>1, <2>2, SplitSaid
<1>6. batch \in Seq(Messages) /\ left \in Seq(Messages) /\ r.rx \in Seq(Messages)
  <2>1. k.net \in Seq(Messages) /\ r.rx \in Seq(Messages)
    BY <1>2, SeqFacts
  <2>2. n \in 0 .. Len(k.net)
    BY <2>1
  <2> QED BY <2>1, <2>2, SplitSaid
<1> HIDE DEF batch, left
<1>7. rx \in Seq(MessagesOf(o)) /\ rx \in Seq(Messages)
  BY <1>5, <1>6
<1> HIDE DEF rx
<1>8. /\ rest \in Sessions /\ SameMuxer(rest, k) /\ rest.net = left
      /\ rest.rx = k.rx /\ rest.tx = k.tx /\ rest.negotiation = k.negotiation
  BY <1>2, <1>6 DEF Sessions, SameMuxer
<1>9. /\ more \in Sessions /\ SameMuxer(more, r) /\ more.rx = rx
      /\ more.tx = r.tx /\ more.net = r.net /\ more.negotiation = r.negotiation
  BY <1>2, <1>7 DEF Sessions, SameMuxer
<1> HIDE DEF rest, more
<1>10. Keeps(o, rest, k)
  BY <1>2, <1>5, <1>8 DEF Keeps, SaysOk
<1>11. Keeps(e, more, r)
  BY <1>2, <1>7, <1>9 DEF Keeps, SaysOk
<1>12. Keeps(e, Close(r), r)
  BY <1>2, CloseKeeps
<1>13. Fine(o, rest) /\ Fine(e, mine)
  BY <1>2, <1>10, <1>11, <1>12, KeepsFine
<1> HIDE DEF mine
<1>14. ep'[e] = mine /\ ep'[o] = rest
  BY <1>1, <1>4
<1> QED BY <1>1, <1>13, <1>14, BothFine

LEMMA EndsFine ==
    ASSUME TypeInv, MuxerInv, NEW e \in End,
           \/ ep' = [ep EXCEPT ![e] = Close(ep[e])]
           \/ ep' = [ep EXCEPT ![e] = Fail(ep[e])]
           \/ ep' = [ep EXCEPT ![e] = FlushPending(e, ep[e])],
           conf' = conf
    PROVE  MuxerInv'
<1>1. ep[e] \in Sessions /\ SaysOk(e, ep[e])
  BY SelfFine
<1>2. /\ Keeps(e, Close(ep[e]), ep[e]) /\ Keeps(e, Fail(ep[e]), ep[e])
      /\ Keeps(e, FlushPending(e, ep[e]), ep[e])
  BY <1>1, CloseKeeps, FailKeeps, FlushPendingKeeps
<1> QED BY <1>2, KeptFine

LEMMA SocketFine ==
    ASSUME TypeInv, MuxerInv, NEW e \in End, Socket(e)
    PROVE  MuxerInv'
<1>1. CASE OnSocketReadable(e)
  BY <1>1, ReceiveFine, EndsFine DEF OnSocketReadable, RecvFails, Put
<1>2. CASE OnSocketWritable(e)
  <2>1. Put(e, Fail(ep[e])) \/ Put(e, FlushPending(e, ep[e]))
    BY <1>2 DEF OnSocketWritable
  <2> QED BY <2>1, EndsFine DEF Put
<1>3. CASE OnSocketError(e)
  BY <1>3, EndsFine DEF OnSocketError, Put
<1> QED BY <1>1, <1>2, <1>3 DEF Socket

LEMMA BeginFine ==
    ASSUME TypeInv, MuxerInv, NEW e \in End, Begin(e)
    PROVE  MuxerInv'
<1> DEFINE s   == ep[e]
           c   == e = "res"
           r   == [s EXCEPT !.state = "Securing", !.createInbound = c]
           out == Queue(r, Plain("msPropose"))
           f   == FlushPending(e, out)
<1>1. s \in Sessions /\ SaysOk(e, s) /\ s.stream \in Directs
  BY SelfFine, SeqFacts
<1>2. Put(e, r) \/ Put(e, Close(out)) \/ Put(e, f)
  BY DEF Begin
<1>3. c \in BOOLEAN
  OBVIOUS
<1> HIDE DEF c
<1>4. Keeps(e, r, s)
  BY <1>1, <1>3, StateKeeps
<1> HIDE DEF r
<1>5. Plain("msPropose") \in MessagesOf(e)
  BY PlainType, PlainSaid
<1>6. Keeps(e, out, r)
  BY <1>4, <1>5, QueueKeeps DEF Keeps
<1> HIDE DEF out
<1>7. Keeps(e, out, s) /\ out \in Sessions /\ SaysOk(e, out)
  BY <1>4, <1>6, KeepsBoth DEF Keeps
<1>8. Keeps(e, Close(out), out) /\ Keeps(e, f, out)
  BY <1>7, CloseKeeps, FlushPendingKeeps
<1> HIDE DEF f
<1>9. Keeps(e, Close(out), s) /\ Keeps(e, f, s)
  BY <1>7, <1>8, KeepsBoth
<1> QED BY <1>2, <1>4, <1>9, KeptFine DEF Put

LEMMA RequestOpenStreamFine ==
    ASSUME TypeInv, MuxerInv, NEW e \in End, RequestOpenStream(e)
    PROVE  MuxerInv'
<1> DEFINE s   == ep[e]
           i   == s.opens + 1
           r   == [s EXCEPT !.opens = i]
           out == QueueEncrypted(r, Text("syn", "none", 0))
           f   == Flush(e, out)
           g   == Emit(f, "StreamOpened")
           h   == CreateStream(r, FALSE)
<1>1. s \in Sessions /\ SaysOk(e, s) /\ i \in Nat
  BY SelfFine DEF Sessions
<1>2. Put(e, out) \/ Put(e, g) \/ Put(e, h)
  BY DEF RequestOpenStream
<1> HIDE DEF i
<1>3. Keeps(e, r, s)
  BY <1>1, CountKeeps
<1> HIDE DEF r
<1>4. r \in Sessions /\ SaysOk(e, r)
  BY <1>3 DEF Keeps
<1>5. Keeps(e, h, r) /\ Keeps(e, out, r)
  BY <1>4, CreateStreamKeeps, QueueEncryptedKeeps DEF Names
<1> HIDE DEF h, out
<1>6. Keeps(e, h, s) /\ Keeps(e, out, s) /\ out \in Sessions /\ SaysOk(e, out)
  BY <1>3, <1>5, KeepsBoth DEF Keeps
<1>7. Keeps(e, f, out)
  BY <1>6, FlushKeeps
<1> HIDE DEF f
<1>8. Keeps(e, f, s) /\ f \in Sessions /\ SaysOk(e, f)
  BY <1>6, <1>7, KeepsBoth DEF Keeps
<1>9. Keeps(e, g, f)
  BY <1>8, EventKeeps DEF Events
<1> HIDE DEF g
<1>10. Keeps(e, g, s)
  BY <1>8, <1>9, KeepsBoth
<1> QED BY <1>2, <1>6, <1>10, KeptFine DEF Put

LEMMA OwnerFine ==
    ASSUME TypeInv, MuxerInv, NEW e \in End, Owner(e)
    PROVE  MuxerInv'
<1>1. CASE Begin(e)
  BY <1>1, BeginFine
<1>2. CASE OwnerClose(e)
  BY <1>2, EndsFine DEF OwnerClose
<1>3. CASE OnTimeout(e)
  BY <1>3, EndsFine DEF OnTimeout
<1>4. CASE RequestOpenStream(e)
  BY <1>4, RequestOpenStreamFine
<1> QED BY <1>1, <1>2, <1>3, <1>4 DEF Owner

LEMMA StreamWriteFine ==
    ASSUME TypeInv, MuxerInv, NEW e \in End, StreamWrite(e)
    PROVE  MuxerInv'
<1> DEFINE r   == ep[e]
           k   == appSent[e] + 1
           out == QueueEncrypted(r, Text("app", "none", k))
           f   == FlushPending(e, out)
           d   == [out.stream EXCEPT !.open = FALSE]
           q   == [out EXCEPT !.stream = d]
<1>1. r \in Sessions /\ SaysOk(e, r) /\ k \in Nat
  BY SelfFine DEF TypeInv
<1>2. conf' = conf /\ (ep' = [ep EXCEPT ![e] = q] \/ ep' = [ep EXCEPT ![e] = f])
  BY DEF StreamWrite
<1> HIDE DEF k
<1>3. Keeps(e, out, r)
  BY <1>1, QueueEncryptedKeeps DEF Names
<1> HIDE DEF out
<1>4. out \in Sessions /\ SaysOk(e, out) /\ out.stream \in Directs
  BY <1>3, SeqFacts DEF Keeps
<1>5. d \in Directs
  BY <1>4 DEF Directs
<1> HIDE DEF d
<1>6. Keeps(e, q, out) /\ Keeps(e, f, out)
  BY <1>4, <1>5, DirectKeeps, FlushPendingKeeps
<1> HIDE DEF q, f
<1>7. Keeps(e, q, r) /\ Keeps(e, f, r)
  BY <1>3, <1>6, KeepsBoth
<1> QED BY <1>2, <1>7, KeptFine

LEMMA HugeWriteFine ==
    ASSUME TypeInv, MuxerInv, NEW e \in End, HugeWrite(e)
    PROVE  MuxerInv'
<1> DEFINE r    == ep[e]
           used == Used(r)
           d    == [used.stream EXCEPT !.open = FALSE]
           q    == [used EXCEPT !.stream = d]
<1>1. r \in Sessions /\ SaysOk(e, r)
  BY SelfFine
<1>2. Put(e, used) \/ Put(e, q)
  BY DEF HugeWrite, Used
<1>3. Keeps(e, used, r)
  BY <1>1, UsedKeeps
<1> HIDE DEF used
<1>4. used \in Sessions /\ SaysOk(e, used) /\ used.stream \in Directs
  BY <1>3, SeqFacts DEF Keeps
<1>5. d \in Directs
  BY <1>4 DEF Directs
<1> HIDE DEF d
<1>6. Keeps(e, q, used)
  BY <1>4, <1>5, DirectKeeps
<1> HIDE DEF q
<1>7. Keeps(e, q, r)
  BY <1>3, <1>6, KeepsBoth
<1> QED BY <1>2, <1>3, <1>7, KeptFine DEF Put

LEMMA StreamReadFine ==
    ASSUME TypeInv, MuxerInv, NEW e \in End, StreamRead(e)
    PROVE  MuxerInv'
<1> DEFINE r == ep[e]
           x == Tail(r.stream.rx)
           d == [r.stream EXCEPT !.rx = x]
           q == [r EXCEPT !.stream = d]
<1>1. r \in Sessions /\ SaysOk(e, r) /\ r.stream \in Directs
  BY SelfFine, SeqFacts
<1>2. ep' = [ep EXCEPT ![e] = q] /\ r.stream.rx # <<>> /\ conf' = conf
  BY DEF StreamRead
<1>3. x \in Seq(Texts)
  <2>1. r.stream.rx \in Seq(Texts)
    BY <1>1 DEF Directs
  <2> QED BY <1>2, <2>1, HeadTailProperties
<1> HIDE DEF x
<1>4. d \in Directs
  BY <1>1, <1>3 DEF Directs
<1> HIDE DEF d
<1>5. Keeps(e, q, r)
  BY <1>1, <1>4, DirectKeeps
<1> QED BY <1>2, <1>5, KeptFine

LEMMA StreamCloseWriteFine ==
    ASSUME TypeInv, MuxerInv, NEW e \in End, StreamCloseWrite(e)
    PROVE  MuxerInv'
<1> DEFINE s == ep[e]
           d == [s.stream EXCEPT !.writeOpen = FALSE, !.closeWritePending = TRUE]
           r == [s EXCEPT !.stream = d]
           f == FlushPending(e, r)
           b == [r.stream EXCEPT !.open = FALSE]
           q == [r EXCEPT !.stream = b]
<1>1. s \in Sessions /\ SaysOk(e, s) /\ s.stream \in Directs
  BY SelfFine, SeqFacts
<1>2. [s EXCEPT !.stream.writeOpen = FALSE, !.stream.closeWritePending = TRUE] = r
  BY <1>1 DEF Sessions, Directs
<1>3. Put(e, q) \/ Put(e, f)
  BY <1>2 DEF StreamCloseWrite
<1>4. d \in Directs
  BY <1>1 DEF Directs
<1> HIDE DEF d
<1>5. Keeps(e, r, s)
  BY <1>1, <1>4, DirectKeeps
<1> HIDE DEF r
<1>6. r \in Sessions /\ SaysOk(e, r) /\ r.stream \in Directs
  BY <1>5, SeqFacts DEF Keeps
<1>7. b \in Directs
  BY <1>6 DEF Directs
<1> HIDE DEF b
<1>8. Keeps(e, q, r) /\ Keeps(e, f, r)
  BY <1>6, <1>7, DirectKeeps, FlushPendingKeeps
<1> HIDE DEF q, f
<1>9. Keeps(e, q, s) /\ Keeps(e, f, s)
  BY <1>5, <1>8, KeepsBoth
<1> QED BY <1>3, <1>9, KeptFine DEF Put

LEMMA StreamResetFine ==
    ASSUME TypeInv, MuxerInv, NEW e \in End, StreamReset(e)
    PROVE  MuxerInv'
<1> DEFINE r   == ep[e]
           nil == <<>>
           d   == [r.stream EXCEPT !.open = FALSE, !.writeOpen = FALSE,
                                   !.closeWritePending = FALSE, !.rx = nil]
           s   == [r EXCEPT !.stream = d]
           q   == CloseSocket(s)
<1>1. r \in Sessions /\ SaysOk(e, r) /\ r.stream \in Directs
  BY SelfFine, SeqFacts
<1>2. Put(e, q)
  BY DEF StreamReset
<1>3. nil \in Seq(Texts)
  OBVIOUS
<1> HIDE DEF nil
<1>4. d \in Directs
  BY <1>1, <1>3 DEF Directs
<1> HIDE DEF d
<1>5. Keeps(e, s, r)
  BY <1>1, <1>4, DirectKeeps
<1> HIDE DEF s
<1>6. Keeps(e, q, s)
  BY <1>5, CloseSocketKeeps DEF Keeps
<1> HIDE DEF q
<1>7. Keeps(e, q, r)
  BY <1>5, <1>6, KeepsBoth
<1> QED BY <1>2, <1>7, KeptFine DEF Put

LEMMA ApplicationFine ==
    ASSUME TypeInv, MuxerInv, NEW e \in End, Stream(e)
    PROVE  MuxerInv'
  BY StreamWriteFine, HugeWriteFine, StreamReadFine, StreamCloseWriteFine,
     StreamResetFine DEF Stream

LEMMA GarbleFine ==
    ASSUME TypeInv, MuxerInv, NEW e \in End, Garble(e)
    PROVE  MuxerInv'
<1> DEFINE r == ep[e]
<1>1. r \in Sessions /\ SaysOk(e, r)
  BY SelfFine
<1>2. PICK i \in DOMAIN r.net : ep' = [ep EXCEPT ![e].net[i] = Plain("bad")]
  BY DEF Garble
<1> DEFINE b   == Plain("bad")
           net == [r.net EXCEPT ![i] = b]
           q   == [r EXCEPT !.net = net]
<1>3. ep' = [ep EXCEPT ![e] = q] /\ conf' = conf
  BY <1>2 DEF Garble
<1>4. b \in MessagesOf(e) /\ b \in Messages
  BY PlainType, PlainSaid
<1> HIDE DEF b
<1>5. net \in Seq(MessagesOf(e)) /\ net \in Seq(Messages)
  <2>1. r.net \in Seq(MessagesOf(e)) /\ r.net \in Seq(Messages)
    BY <1>1, SaysFacts, SeqFacts
  <2>2. i \in 1 .. Len(r.net)
    BY <2>1
  <2> QED BY <1>4, <2>1, <2>2, ExceptSeq
<1> HIDE DEF net
<1>6. /\ q \in Sessions /\ q.tx = r.tx /\ q.net = net /\ q.rx = r.rx
      /\ q.negotiation = r.negotiation /\ SameMuxer(q, r)
  BY <1>1, <1>5 DEF Sessions, SameMuxer
<1> HIDE DEF q
<1>7. Keeps(e, q, r)
  BY <1>1, <1>5, <1>6 DEF Keeps, SaysOk
<1> QED BY <1>3, <1>7, KeptFine

LEMMA InitFine == Init => MuxerInv
<1> SUFFICES ASSUME Init, NEW e \in End
             PROVE  SaysOk(e, ep[e]) /\ MuxerOk(e, ep[e])
  BY DEF MuxerInv
<1> DEFINE nil == <<>>
<1>1. ep[e] = InitialEnd
  BY DEF Init
<1>2. /\ InitialEnd.rx = nil /\ InitialEnd.tx = nil /\ InitialEnd.net = nil
      /\ InitialEnd.negotiation = nil
      /\ InitialEnd.stage = "NegotiatingProtocol" /\ InitialEnd.yamux = FALSE
  BY DEF InitialEnd
<1>3. /\ nil \in Seq(MessagesOf(e)) /\ nil \in Seq(MessagesOf(Other(e)))
      /\ nil \in Seq(TextsOf(Other(e)))
  OBVIOUS
<1> HIDE DEF nil
<1> QED BY <1>1, <1>2, <1>3 DEF SaysOk, MuxerOk

LEMMA StepFine ==
    ASSUME TypeInv, MuxerInv, [Next]_vars
    PROVE  MuxerInv'
<1>1. CASE Next
  <2>1. PICK e \in End :
           Socket(e) \/ ProcessPendingInput(e) \/ Owner(e) \/ Stream(e) \/ Garble(e)
    BY <1>1 DEF Next
  <2>2. CASE Socket(e)
    BY <2>2, SocketFine
  <2>3. CASE ProcessPendingInput(e)
    BY <2>3, PendingInputFine
  <2>4. CASE Owner(e)
    BY <2>4, OwnerFine
  <2>5. CASE Stream(e)
    BY <2>5, ApplicationFine
  <2>6. CASE Garble(e)
    BY <2>6, GarbleFine
  <2> QED BY <2>1, <2>2, <2>3, <2>4, <2>5, <2>6
<1>2. CASE UNCHANGED vars
  <2>1. conf' = conf /\ ep' = ep
    BY <1>2 DEF vars
  <2>2. \A f \in End : Fine(f, ep'[f])
    BY <2>1, SelfFine
  <2> QED BY <2>1, <2>2, BothFine
<1> QED BY <1>1, <1>2

\* What the configuration decides about the muxer is what a session says,
\* hears and selects, at every stage (select_stream_muxer,
\* finish_secure_upgrade, process_muxer_negotiation).
THEOREM MuxerInvariant == Spec => []MuxerInv
<1>1. Init => MuxerInv
  BY InitFine
<1>2. SessionInv /\ MuxerInv /\ [Next]_vars => MuxerInv'
  BY StepFine DEF SessionInv
<1> QED BY <1>1, <1>2, SessionInvariant, PTL DEF Spec

\* Two muxers that both ends know are in the same order at both: the first
\* that an end finds at its peer is the first that the peer finds.
LEMMA SameSelection ==
    ASSUME TypeInv, Compatible
    PROVE  Selected("ini") = Selected("res")
<1> DEFINE a  == conf.muxers["ini"]
           b  == conf.muxers["res"]
           A  == {i \in DOMAIN a : \E j \in DOMAIN b : b[j] = a[i]}
           B  == {j \in DOMAIN b : \E i \in DOMAIN a : a[i] = b[j]}
           i0 == CHOOSE i \in A : \A j \in A : i <= j
           j0 == CHOOSE i \in B : \A j \in B : i <= j
<1>1. conf.identity["ini"] = conf.identity["res"]
  BY DEF Compatible
<1>2. a \in Seq(STRING) /\ b \in Seq(STRING)
  BY DEF TypeInv, End
<1>3. CASE ~conf.identity["ini"]
  <2> DEFINE nil == <<>>
  <2>1. Offered("ini") = nil /\ Offered("res") = nil
    BY <1>1, <1>3 DEF Offered, Other
  <2>2. DOMAIN nil = {}
    OBVIOUS
  <2> HIDE DEF nil
  <2>3. ASSUME NEW e PROVE SelectStreamMuxer(e, [remoteMuxers |-> nil]) = "none"
    BY <2>2 DEF SelectStreamMuxer
  <2> QED BY <2>1, <2>3 DEF Selected
<1>4. CASE conf.identity["ini"]
  <2>1. Offered("ini") = b /\ Offered("res") = a
    BY <1>1, <1>4 DEF Offered, Other
  <2>2. /\ Selected("ini") = IF A = {} THEN "none" ELSE a[i0]
        /\ Selected("res") = IF B = {} THEN "none" ELSE b[j0]
    <3>1. Selected("ini") = IF A = {} THEN "none" ELSE a[i0]
      <4>1. [remoteMuxers |-> b].remoteMuxers = b
        OBVIOUS
      <4>2. Selected("ini") = SelectStreamMuxer("ini", [remoteMuxers |-> b])
        BY <2>1 DEF Selected
      <4> QED BY Zenon, <4>1, <4>2 DEF SelectStreamMuxer
    <3>2. Selected("res") = IF B = {} THEN "none" ELSE b[j0]
      <4>1. [remoteMuxers |-> a].remoteMuxers = a
        OBVIOUS
      <4>2. Selected("res") = SelectStreamMuxer("res", [remoteMuxers |-> a])
        BY <2>1 DEF Selected
      <4> QED BY Zenon, <4>1, <4>2 DEF SelectStreamMuxer
    <3> QED BY <3>1, <3>2
  <2>3. A \subseteq Nat /\ B \subseteq Nat
    BY <1>2
  <2>4. CASE A = {} \/ B = {}
    <3>1. A = {} /\ B = {}
      BY <2>4
    <3> QED BY <2>2, <3>1
  <2>5. CASE A # {} /\ B # {}
    <3>1. i0 \in A /\ j0 \in B /\ (\A i \in A : i0 <= i) /\ (\A j \in B : j0 <= j)
      BY <2>3, <2>5, LeastOne
    <3> HIDE DEF i0, j0
    <3>2. PICK k \in DOMAIN b : b[k] = a[i0]
      BY <3>1
    <3>3. PICK l \in DOMAIN a : a[l] = b[j0]
      BY <3>1
    <3>4. k \in B /\ l \in A /\ i0 \in DOMAIN a /\ j0 \in DOMAIN b
      BY <3>1, <3>2, <3>3
    <3>5. j0 <= k /\ i0 <= l /\ i0 \in Nat /\ j0 \in Nat /\ k \in Nat /\ l \in Nat
      BY <2>3, <3>1, <3>4
    <3>6. i0 < l => k < j0
      BY <3>2, <3>3, <3>4 DEF Compatible
    <3>7. i0 = l
      BY <3>5, <3>6
    <3>8. a[i0] = b[j0]
      BY <3>3, <3>7
    <3> QED BY <2>2, <2>5, <3>8
  <2> QED BY <2>4, <2>5
<1> QED BY <1>3, <1>4

\* Both ends of a connection between compatible ends run the same muxer
\* (select_stream_muxer, process_muxer_negotiation).
THEOREM MuxersAgree == Spec => []MuxerAgreement
<1>1. TypeInv /\ MuxerInv => MuxerAgreement
  <2> SUFFICES ASSUME TypeInv, MuxerInv, Compatible,
                      ep["ini"].stage = "Ready", ep["res"].stage = "Ready"
               PROVE  /\ ep["ini"].muxer = ep["res"].muxer
                      /\ ep["ini"].yamux = ep["res"].yamux
    BY DEF MuxerAgreement
  <2>1. MuxerOk("ini", ep["ini"]) /\ MuxerOk("res", ep["res"])
    BY DEF MuxerInv, End
  <2>2. Selected("ini") = Selected("res")
    BY SameSelection
  <2>3. conf.muxers["ini"] = <<>> <=> conf.muxers["res"] = <<>>
    BY DEF Compatible
  <2>4. Exchange("ini") <=> Exchange("res")
    BY <2>2, <2>3 DEF Exchange
  <2>5. ep["ini"].muxer = ep["res"].muxer
    BY <2>1, <2>2, <2>4 DEF MuxerOk
  <2>6. ep["ini"].yamux = ep["res"].yamux
    BY <2>1, <2>2, <2>4 DEF MuxerOk
  <2> QED BY <2>5, <2>6
<1> QED BY <1>1, SessionInvariant, MuxerInvariant, PTL DEF SessionInv

----------------------------------------------------------------------------
(* Direct streams: the frames on their way.                                *)

LEMMA EncMember ==
    ASSUME NEW a \in Seq(Messages)
    PROVE  \A m : m \in EncOf(a) <=> \E i \in 1 .. Len(a) : a[i] = m /\ a[i].kind = "enc"
<1>1. DOMAIN a = 1 .. Len(a)
  OBVIOUS
<1> QED BY <1>1 DEF EncOf, Encrypted

LEMMA EncType2 ==
    ASSUME NEW a \in Seq(Messages), NEW m \in EncOf(a)
    PROVE  m \in Messages /\ m.nonce \in Nat /\ m.text \in Texts
<1>1. m \in Messages
  BY EncMember
<1> QED BY <1>1 DEF Messages

LEMMA EncAppend ==
    ASSUME NEW a \in Seq(Messages), NEW x \in Messages
    PROVE  /\ EncOf(Append(a, x)) \subseteq EncOf(a) \cup {x}
           /\ x.kind # "enc" => EncOf(Append(a, x)) \subseteq EncOf(a)
<1> DEFINE b == Append(a, x)
<1>1. b \in Seq(Messages) /\ Len(b) = Len(a) + 1 /\ b[Len(a) + 1] = x
      /\ \A i \in 1 .. Len(a) : b[i] = a[i]
  OBVIOUS
<1> HIDE DEF b
<1>2. Len(a) \in Nat
  OBVIOUS
<1>3. \A i \in 1 .. Len(b) : i \in 1 .. Len(a) \/ b[i] = x
  BY <1>1, <1>2
<1>4. ASSUME NEW m \in EncOf(b) PROVE m \in EncOf(a) \/ (m = x /\ x.kind = "enc")
  <2>1. PICK i \in 1 .. Len(b) : b[i] = m /\ b[i].kind = "enc"
    BY <1>1, EncMember
  <2> QED BY <1>1, <1>3, <2>1, EncMember
<1> QED BY <1>4 DEF b

LEMMA EncConcat ==
    ASSUME NEW a \in Seq(Messages), NEW b \in Seq(Messages)
    PROVE  EncOf(a \o b) \subseteq EncOf(a) \cup EncOf(b)
<1> DEFINE c == a \o b
<1>1. /\ c \in Seq(Messages) /\ Len(c) = Len(a) + Len(b)
      /\ \A i \in 1 .. Len(c) : c[i] = IF i <= Len(a) THEN a[i] ELSE b[i - Len(a)]
  BY ConcatProperties
<1> HIDE DEF c
<1>2. Len(a) \in Nat /\ Len(b) \in Nat
  OBVIOUS
<1>3. ASSUME NEW m \in EncOf(c) PROVE m \in EncOf(a) \/ m \in EncOf(b)
  <2>1. PICK i \in 1 .. Len(c) : c[i] = m /\ c[i].kind = "enc"
    BY <1>1, EncMember
  <2>2. CASE i <= Len(a)
    BY <1>1, <1>2, <2>1, <2>2, EncMember
  <2>3. CASE ~(i <= Len(a))
    <3>1. i - Len(a) \in 1 .. Len(b)
      BY <1>1, <1>2, <2>1, <2>3
    <3>2. b[i - Len(a)] = m
      BY <1>1, <2>1, <2>3
    <3> QED BY <2>1, <3>1, <3>2, EncMember
  <2> QED BY <2>2, <2>3
<1> QED BY <1>3 DEF c

LEMMA EncSubSeq ==
    ASSUME NEW a \in Seq(Messages), NEW n \in 0 .. Len(a)
    PROVE  /\ EncOf(SubSeq(a, 1, n)) \subseteq EncOf(a)
           /\ EncOf(SubSeq(a, n + 1, Len(a))) \subseteq EncOf(a)
<1> DEFINE b == SubSeq(a, 1, n)
           c == SubSeq(a, n + 1, Len(a))
<1>1. Len(a) \in Nat /\ n \in Nat /\ n <= Len(a)
  OBVIOUS
<1>2. b \in Seq(Messages) /\ Len(b) = n /\ \A i \in 1 .. Len(b) : b[i] = a[i]
  BY <1>1, SubSeqProperties
<1>3. c \in Seq(Messages) /\ Len(c) = Len(a) - n /\ \A i \in 1 .. Len(c) : c[i] = a[n + i]
  BY <1>1, SubSeqProperties
<1> HIDE DEF b, c
<1>4. ASSUME NEW m \in EncOf(b) PROVE m \in EncOf(a)
  BY <1>1, <1>2, EncMember
<1>5. ASSUME NEW m \in EncOf(c) PROVE m \in EncOf(a)
  <2>1. PICK i \in 1 .. Len(c) : c[i] = m /\ c[i].kind = "enc"
    BY <1>3, EncMember
  <2>2. n + i \in 1 .. Len(a) /\ a[n + i] = m
    BY <1>1, <1>3, <2>1
  <2> QED BY <2>1, <2>2, EncMember
<1> QED BY <1>4, <1>5 DEF b, c

LEMMA EncTail ==
    ASSUME NEW a \in Seq(Messages), a # <<>>
    PROVE  /\ EncOf(Tail(a)) \subseteq EncOf(a)
           /\ Head(a).kind = "enc" => Head(a) \in EncOf(a)
<1> DEFINE b == Tail(a)
<1>1. Len(a) \in Nat /\ Len(a) >= 1 /\ Head(a) = a[1]
  OBVIOUS
<1>2. b \in Seq(Messages) /\ Len(b) = Len(a) - 1 /\ \A i \in 1 .. Len(b) : b[i] = a[i + 1]
  BY HeadTailProperties
<1> HIDE DEF b
<1>3. ASSUME NEW m \in EncOf(b) PROVE m \in EncOf(a)
  <2>1. PICK i \in 1 .. Len(b) : b[i] = m /\ b[i].kind = "enc"
    BY <1>2, EncMember
  <2>2. i + 1 \in 1 .. Len(a) /\ a[i + 1] = m
    BY <1>1, <1>2, <2>1
  <2> QED BY <2>1, <2>2, EncMember
<1>4. Head(a).kind = "enc" => Head(a) \in EncOf(a)
  <2>1. 1 \in 1 .. Len(a)
    BY <1>1
  <2> QED BY <1>1, <2>1, EncMember
<1> QED BY <1>3, <1>4 DEF b

LEMMA EncNone == EncOf(<<>>) = {}
<1> DEFINE nil == <<>>
<1>1. nil \in Seq(Messages) /\ Len(nil) = 0
  OBVIOUS
<1> HIDE DEF nil
<1>2. 1 .. Len(nil) = {}
  BY <1>1
<1>3. \A m : m \notin EncOf(nil)
  BY <1>1, <1>2, EncMember
<1>4. EncOf(nil) = {}
  BY <1>3
<1> QED BY <1>4 DEF nil

LEMMA EncDamaged ==
    ASSUME NEW a \in Seq(Messages), NEW i \in DOMAIN a, NEW x \in Messages, x.kind # "enc"
    PROVE  EncOf([a EXCEPT ![i] = x]) \subseteq EncOf(a)
<1> DEFINE b == [a EXCEPT ![i] = x]
<1>1. i \in 1 .. Len(a)
  OBVIOUS
<1>2. b \in Seq(Messages) /\ Len(b) = Len(a)
      /\ \A j \in 1 .. Len(b) : b[j] = IF j = i THEN x ELSE a[j]
  BY <1>1, ExceptSeq
<1> HIDE DEF b
<1>3. ASSUME NEW m \in EncOf(b) PROVE m \in EncOf(a)
  BY <1>2, EncMember
<1> QED BY <1>3 DEF b

----------------------------------------------------------------------------
(* The numbers of the frames of one direction.                             *)

LEMMA NonceType == \A m \in Messages : m.nonce \in Nat /\ m.text.n \in Nat
  BY DEF Messages, Texts

LEMMA BaseType == \A e : Base(e) \in Nat /\ Base(e) <= 1
  BY DEF Base

\* Fewer frames, or a frame damaged, change nothing.
LEMMA HoleLess ==
    ASSUME NEW F, NEW G, G \subseteq F, NEW lo, NEW hi, Hole(F, lo, hi)
    PROVE  Hole(G, lo, hi)
  BY DEF Hole

LEMMA NumberedLess ==
    ASSUME NEW e, NEW F, NEW G, G \subseteq F, NEW recv, NEW send, Numbered(e, F, recv, send)
    PROVE  Numbered(e, G, recv, send)
<1>1. \A m \in G : Hole(F, recv, m.nonce) => Hole(G, recv, m.nonce)
  BY HoleLess
<1> QED BY <1>1 DEF Numbered

LEMMA CountedLess ==
    ASSUME NEW e, NEW r, NEW q, q.stage = r.stage, q.sendNonce = r.sendNonce,
           NEW sent, NEW F, NEW G, G \subseteq F, NEW recv, Counted(e, r, sent, F, recv)
    PROVE  Counted(e, q, sent, G, recv)
<1>1. Hole(F, recv, r.sendNonce) => Hole(G, recv, r.sendNonce)
  BY HoleLess
<1> QED BY <1>1 DEF Counted

\* A frame with the next nonce is no hole's, and a used nonce makes one.
LEMMA HoleSend ==
    ASSUME NEW F, NEW G, NEW x, G \subseteq F \cup {x}, NEW recv \in Nat, NEW send \in Nat,
           x.nonce = send, NEW h \in Nat, h <= send, Hole(F, recv, h)
    PROVE  Hole(G, recv, h)
<1>1. PICK k \in recv .. h - 1 : \A m \in F : m.nonce # k
  BY DEF Hole
<1>2. k # send
  BY <1>1
<1>3. \A m \in G : m.nonce # k
  BY <1>1, <1>2
<1> QED BY <1>1, <1>3 DEF Hole

LEMMA HoleMore ==
    ASSUME NEW F, NEW recv \in Nat, NEW send \in Nat, Hole(F, recv, send)
    PROVE  Hole(F, recv, send + 1)
  BY DEF Hole

LEMMA NumberedSend ==
    ASSUME NEW e, NEW F \in SUBSET Messages, NEW G, NEW x \in Messages, G \subseteq F \cup {x},
           NEW recv \in Nat, NEW send \in Nat, x.nonce = send, Numbered(e, F, recv, send),
           (IsDirect(e) /\ send >= Base(e)) =>
                /\ x.text.t = "app"
                /\ Placed(e, x.text.n, send) \/ Hole(F, recv, send)
    PROVE  Numbered(e, G, recv, send + 1)
<1>1. recv <= send + 1
  BY DEF Numbered
<1>2. ASSUME NEW m \in G
      PROVE  /\ m.nonce < send + 1
             /\ (IsDirect(e) /\ m.nonce >= Base(e)) =>
                  /\ m.text.t = "app"
                  /\ Placed(e, m.text.n, m.nonce) \/ Hole(G, recv, m.nonce)
  <2>1. CASE m \in F
    <3>1. m.nonce \in Nat /\ m.nonce < send
      BY <2>1, NonceType DEF Numbered
    <3>2. Hole(F, recv, m.nonce) => Hole(G, recv, m.nonce)
      BY <3>1, HoleSend
    <3>3. (IsDirect(e) /\ m.nonce >= Base(e)) =>
             /\ m.text.t = "app"
             /\ Placed(e, m.text.n, m.nonce) \/ Hole(F, recv, m.nonce)
      BY <2>1 DEF Numbered
    <3> QED BY <3>1, <3>2, <3>3
  <2>2. CASE m = x
    <3>1. Hole(F, recv, send) => Hole(G, recv, send)
      BY HoleSend
    <3> QED BY <2>2, <3>1
  <2> QED BY <2>1, <2>2
<1> QED BY <1>1, <1>2 DEF Numbered

LEMMA NumberedUsed ==
    ASSUME NEW e, NEW F \in SUBSET Messages, NEW recv \in Nat, NEW send \in Nat,
           Numbered(e, F, recv, send)
    PROVE  Numbered(e, F, recv, send + 1) /\ Hole(F, recv, send + 1)
<1>1. recv <= send /\ \A m \in F : m.nonce \in Nat /\ m.nonce < send
  BY NonceType DEF Numbered
<1>2. send \in recv .. (send + 1) - 1 /\ \A m \in F : m.nonce # send
  BY <1>1
<1>3. Hole(F, recv, send + 1)
  BY <1>2 DEF Hole
<1>4. recv <= send + 1 /\ \A m \in F : m.nonce < send + 1
  BY <1>1
<1> QED BY <1>3, <1>4 DEF Numbered

\* The receiver takes the frame it expects.
LEMMA HoleTake ==
    ASSUME NEW F, NEW G, G \subseteq F, NEW m \in F, NEW recv \in Nat, m.nonce = recv,
           NEW h \in Nat, Hole(F, recv, h)
    PROVE  Hole(G, recv + 1, h)
<1>1. PICK k \in recv .. h - 1 : \A n \in F : n.nonce # k
  BY DEF Hole
<1>2. k # recv
  BY <1>1
<1>3. k \in recv + 1 .. h - 1
  BY <1>1, <1>2
<1> QED BY <1>1, <1>3 DEF Hole

LEMMA NumberedTake ==
    ASSUME NEW e, NEW F \in SUBSET Messages, NEW G, G \subseteq F, NEW m \in F,
           NEW recv \in Nat, NEW send \in Nat, m.nonce = recv, Numbered(e, F, recv, send)
    PROVE  /\ Numbered(e, G, recv + 1, send)
           /\ (IsDirect(e) /\ recv >= Base(e)) =>
                 m.text.t = "app" /\ Placed(e, m.text.n, recv)
<1>1. recv < send /\ recv + 1 <= send
  BY DEF Numbered
<1>2. ASSUME NEW n \in G
      PROVE  /\ n.nonce < send
             /\ (IsDirect(e) /\ n.nonce >= Base(e)) =>
                  /\ n.text.t = "app"
                  /\ Placed(e, n.text.n, n.nonce) \/ Hole(G, recv + 1, n.nonce)
  <2>1. n \in F /\ n.nonce \in Nat
    BY NonceType
  <2>2. Hole(F, recv, n.nonce) => Hole(G, recv + 1, n.nonce)
    BY <2>1, HoleTake
  <2> QED BY <2>1, <2>2 DEF Numbered
<1>3. ~Hole(F, recv, recv)
  BY DEF Hole
<1> QED BY <1>1, <1>2, <1>3 DEF Numbered

LEMMA CountedTake ==
    ASSUME NEW e, NEW r, r.sendNonce \in Nat, NEW sent, NEW F, NEW G, G \subseteq F, NEW m \in F,
           NEW recv \in Nat, m.nonce = recv, Counted(e, r, sent, F, recv)
    PROVE  Counted(e, r, sent, G, recv + 1)
<1>1. Hole(F, recv, r.sendNonce) => Hole(G, recv + 1, r.sendNonce)
  BY HoleTake
<1> QED BY <1>1 DEF Counted

----------------------------------------------------------------------------
(* What DirectInv says of a session g at e, whose peer is as it is.        *)

Outs(e, g) == Outgoing(g) \cup EncOf(ep[Other(e)].rx)
Ins(e, g)  == Outgoing(ep[Other(e)]) \cup EncOf(g.rx)

Near(e, g, sent, got) ==
    /\ g \in Sessions /\ sent \in Nat
    /\ Numbered(e, Outs(e, g), ep[Other(e)].recvNonce, g.sendNonce)
    /\ Numbered(Other(e), Ins(e, g), g.recvNonce, ep[Other(e)].sendNonce)
    /\ Counted(e, g, sent, Outs(e, g), ep[Other(e)].recvNonce)
    /\ Counted(Other(e), ep[Other(e)], appSent[Other(e)], Ins(e, g), g.recvNonce)
    /\ ReceivesOk(e, g, got)
    /\ g.stream.open => g.stage = "Ready" /\ ~g.yamux
    /\ g.stage # "Ready" => sent = 0

\* A session that is not ready has used the nonce of its proposal.
Quiet(e, g) ==
    (g.stage # "Ready" /\ g.state # "Closed") =>
        g.sendNonce = IF e = "ini" /\ g.stage = "MuxerNegotiation" THEN 1 ELSE 0

Well(e, g, sent, got) == Near(e, g, sent, got) /\ Quiet(e, g)

\* What one end has on its way to the other.
LEMMA OutgoingType ==
    ASSUME NEW r \in Sessions
    PROVE  /\ Outgoing(r) \subseteq Messages /\ EncOf(r.rx) \subseteq Messages
           /\ r.sendNonce \in Nat /\ r.recvNonce \in Nat
<1>1. r.rx \in Seq(Messages) /\ r.tx \in Seq(Messages) /\ r.net \in Seq(Messages)
  BY SeqFacts
<1>2. EncOf(r.rx) \subseteq Messages /\ EncOf(r.tx) \subseteq Messages
      /\ EncOf(r.net) \subseteq Messages
  BY <1>1, EncType2
<1> QED BY <1>2, SeqFacts DEF Outgoing

LEMMA WaysType ==
    ASSUME TypeInv, NEW e \in End, NEW g \in Sessions
    PROVE  /\ Outs(e, g) \in SUBSET Messages /\ Ins(e, g) \in SUBSET Messages
           /\ ep[Other(e)].recvNonce \in Nat /\ ep[Other(e)].sendNonce \in Nat
           /\ g.recvNonce \in Nat /\ g.sendNonce \in Nat
<1>1. ep[Other(e)] \in Sessions
  BY PeerFacts
<1> QED BY <1>1, OutgoingType DEF Outs, Ins

\* The same nonces, and of the frames no other than before.
Smaller(q, r) ==
    /\ q \in Sessions
    /\ Outgoing(q) \subseteq Outgoing(r) /\ EncOf(q.rx) \subseteq EncOf(r.rx)
    /\ q.sendNonce = r.sendNonce /\ q.recvNonce = r.recvNonce
    /\ q.stage = r.stage /\ q.yamux = r.yamux

SameStream(q, r) ==
    /\ q.stream.id = r.stream.id /\ q.stream.rx = r.stream.rx
    /\ q.stream.open => r.stream.open
    /\ q.nextStreamId = r.nextStreamId

\* A step of a session with no part in what it sends or receives.
Calm(q, r) ==
    /\ Smaller(q, r) /\ SameStream(q, r)
    /\ q.negotiation = r.negotiation
    /\ q.socketOpen = r.socketOpen
    /\ q.busy => (r.busy \/ r.socketOpen)
    /\ r.state = "Closed" => q.state = "Closed"

\* The socket is closed.
Shut(q, r) ==
    /\ Smaller(q, r)
    /\ q.stream.id = r.stream.id /\ q.stream.rx = <<>> /\ ~q.stream.open
    /\ q.nextStreamId = r.nextStreamId
    /\ q.negotiation = r.negotiation
    /\ ~q.socketOpen /\ ~q.busy
    /\ q.state = "Closed" \/ q.stage = "Ready"

LEMMA CalmTrans ==
    ASSUME NEW p, NEW q, NEW r, Calm(p, q), Calm(q, r)
    PROVE  Calm(p, r)
  BY DEF Calm, Smaller, SameStream

LEMMA CalmQuiet ==
    ASSUME NEW e, NEW q, NEW r, Calm(q, r), Quiet(e, r)
    PROVE  Quiet(e, q)
  BY DEF Calm, Smaller, Quiet

\* The frames of both directions.
LEMMA SmallerNear ==
    ASSUME NEW e, NEW q, NEW r, NEW sent, NEW was, NEW got, Smaller(q, r),
           Near(e, r, sent, was), ReceivesOk(e, q, got), q.stream.open => q.stage = "Ready" /\ ~q.yamux
    PROVE  Near(e, q, sent, got)
<1>1. Outs(e, q) \subseteq Outs(e, r) /\ Ins(e, q) \subseteq Ins(e, r)
  BY DEF Outs, Ins, Smaller
<1>2. Numbered(e, Outs(e, q), ep[Other(e)].recvNonce, q.sendNonce)
  BY <1>1, NumberedLess DEF Near, Smaller
<1>3. Numbered(Other(e), Ins(e, q), q.recvNonce, ep[Other(e)].sendNonce)
  BY <1>1, NumberedLess DEF Near, Smaller
<1>4. Counted(e, q, sent, Outs(e, q), ep[Other(e)].recvNonce)
  BY <1>1, CountedLess DEF Near, Smaller
<1>5. Counted(Other(e), ep[Other(e)], appSent[Other(e)], Ins(e, q), q.recvNonce)
  BY <1>1, CountedLess DEF Near, Smaller
<1> QED BY <1>2, <1>3, <1>4, <1>5 DEF Near, Smaller

LEMMA CalmNear ==
    ASSUME NEW e, NEW q, NEW r, NEW sent, NEW got, Calm(q, r), Near(e, r, sent, got)
    PROVE  Near(e, q, sent, got)
<1>1. ReceivesOk(e, r, got)
  BY DEF Near
<1>2. GotOk(e, q, got)
  BY <1>1 DEF ReceivesOk, GotOk, Calm, Smaller, SameStream
<1>f. FirstOk(e, q, got)
  BY <1>1 DEF ReceivesOk, FirstOk, Calm, Smaller, SameStream
<1>3. ReceivesOk(e, q, got)
  BY <1>1, <1>2, <1>f DEF ReceivesOk, Calm, Smaller, SameStream
<1>4. q.stream.open => q.stage = "Ready" /\ ~q.yamux
  BY DEF Near, Calm, Smaller, SameStream
<1> QED BY <1>3, <1>4, SmallerNear DEF Calm

LEMMA CalmWell ==
    ASSUME NEW e, NEW q, NEW r, NEW sent, NEW got, Calm(q, r), Well(e, r, sent, got)
    PROVE  Well(e, q, sent, got)
  BY CalmNear, CalmQuiet DEF Well

LEMMA LastType ==
    ASSUME NEW S, NEW s \in Seq(S), s # <<>>
    PROVE  s[Len(s)] \in S /\ Len(s) \in DOMAIN s /\ DOMAIN s = 1 .. Len(s) /\ Len(s) \in Nat
<1>1. Len(s) \in Nat /\ DOMAIN s = 1 .. Len(s) /\ Len(s) # 0
  BY EmptySeq
<1>2. Len(s) \in 1 .. Len(s)
  BY <1>1
<1> QED BY <1>1, <1>2, ElementOfSeq

LEMMA LenEmpty == \A s : s = <<>> => Len(s) = 0
  OBVIOUS

\* What has been got stays in order when nothing more is to come.
LEMMA GotLess ==
    ASSUME NEW e, NEW q, NEW r \in Sessions, NEW got \in Seq([sid : Nat, text : Texts]),
           GotOk(e, r, got), q.stream.rx = <<>>, q.nextStreamId \in Nat, r.nextStreamId \in Nat,
           r.nextStreamId <= q.nextStreamId, q.recvNonce = r.recvNonce,
           q.socketOpen => q.stream.id = r.nextStreamId
    PROVE  GotOk(e, q, got)
<1>1. CASE got = <<>>
  BY <1>1 DEF GotOk
<1>2. CASE got # <<>>
  <2> DEFINE last == got[Len(got)]
             x == last.text.n
             l == Len(r.stream.rx)
  <2>1. last \in [sid : Nat, text : Texts]
    BY <1>2, LastType
  <2>2. x \in Nat /\ last.sid \in Nat
    BY <2>1 DEF Texts
  <2>3. l \in Nat /\ r.recvNonce \in Nat
    <3>1. r.stream.rx \in Seq(Texts)
      BY SeqFacts DEF Directs
    <3> QED BY <3>1, SeqFacts
  <2>4. last.sid < r.nextStreamId /\ x + l + 1 + Base(e) <= r.recvNonce + 1
    BY <1>2 DEF GotOk
  <2>5. Len(q.stream.rx) = 0
    BY LenEmpty
  <2> HIDE DEF x, l, last
  <2>b. Base(e) \in Nat
    BY BaseType
  <2>6. last.sid < q.nextStreamId /\ x + 0 + 1 + Base(e) <= q.recvNonce + 1
    BY SMTT(30), <2>2, <2>3, <2>4, <2>b
  <2>7. last.sid # r.nextStreamId
    BY <2>2, <2>4
  <2> QED BY <1>2, <2>5, <2>6, <2>7 DEF GotOk, x, last
<1> QED BY <1>1, <1>2

LEMMA ShutNear ==
    ASSUME NEW e, NEW q, NEW r, NEW sent, NEW got, Shut(q, r), Near(e, r, sent, got)
    PROVE  Well(e, q, sent, got)
<1>1. ReceivesOk(e, r, got) /\ r \in Sessions
  BY DEF Near
<1>2. q.nextStreamId = r.nextStreamId /\ r.nextStreamId \in Nat
  BY <1>1 DEF Shut, Sessions
<1>3. GotOk(e, q, got)
  <2>1. /\ got \in Seq([sid : Nat, text : Texts]) /\ GotOk(e, r, got)
        /\ q.stream.rx = <<>> /\ q.recvNonce = r.recvNonce /\ ~q.socketOpen
    BY <1>1 DEF ReceivesOk, Shut, Smaller
  <2>2. q.nextStreamId \in Nat /\ r.nextStreamId <= q.nextStreamId
    BY <1>2
  <2> QED BY <1>1, <1>2, <2>1, <2>2, GotLess
<1>4. DOMAIN q.stream.rx = {}
  BY DEF Shut
<1>f. FirstOk(e, q, got)
  BY <1>1 DEF ReceivesOk, FirstOk, Shut, Smaller
<1>5. ReceivesOk(e, q, got)
  BY <1>1, <1>3, <1>4, <1>f DEF ReceivesOk, Shut, Smaller
<1>6. Near(e, q, sent, got)
  BY <1>5, SmallerNear DEF Shut
<1> QED BY <1>6 DEF Well, Quiet, Shut

\* A frame with the text x is queued, with the next nonce.
Sent(q, r, x) ==
    /\ q \in Sessions
    /\ Outgoing(q) \subseteq Outgoing(r) \cup {Enc(r.sendNonce, x)}
    /\ EncOf(q.rx) = EncOf(r.rx)
    /\ q.sendNonce = r.sendNonce + 1 /\ q.recvNonce = r.recvNonce
    /\ q.stage = r.stage /\ q.yamux = r.yamux /\ SameStream(q, r)
    /\ q.negotiation = r.negotiation /\ q.socketOpen = r.socketOpen
    /\ q.busy = r.busy /\ q.state = r.state

LEMMA SentReceives ==
    ASSUME NEW e, NEW q, NEW r, NEW x, NEW got, Sent(q, r, x), ReceivesOk(e, r, got)
    PROVE  ReceivesOk(e, q, got)
<1>1. GotOk(e, q, got)
  BY DEF ReceivesOk, GotOk, Sent, SameStream
<1>2. FirstOk(e, q, got)
  BY DEF ReceivesOk, FirstOk, Sent, SameStream
<1> QED BY <1>1, <1>2 DEF ReceivesOk, Sent, SameStream

\* The frames of a session that has sent one more.
LEMMA SentFrames ==
    ASSUME TypeInv, NEW e \in End, NEW r, NEW q, NEW x \in Texts, NEW sent, NEW got,
           Sent(q, r, x), Near(e, r, sent, got),
           (IsDirect(e) /\ r.sendNonce >= Base(e)) =>
                /\ x.t = "app"
                /\ \/ Placed(e, x.n, r.sendNonce)
                   \/ Hole(Outs(e, r), ep[Other(e)].recvNonce, r.sendNonce)
    PROVE  /\ Numbered(e, Outs(e, q), ep[Other(e)].recvNonce, q.sendNonce)
           /\ Numbered(Other(e), Ins(e, q), q.recvNonce, ep[Other(e)].sendNonce)
           /\ Counted(Other(e), ep[Other(e)], appSent[Other(e)], Ins(e, q), q.recvNonce)
           /\ Hole(Outs(e, r), ep[Other(e)].recvNonce, r.sendNonce) =>
                Hole(Outs(e, q), ep[Other(e)].recvNonce, q.sendNonce)
<1> DEFINE F == Outs(e, r)
           G == Outs(e, q)
           n == r.sendNonce
           m == Enc(n, x)
           recv == ep[Other(e)].recvNonce
<1>1. r \in Sessions /\ F \in SUBSET Messages /\ n \in Nat /\ recv \in Nat
  BY WaysType DEF Near
<1>2. G \subseteq F \cup {m}
  BY DEF Sent, Outs
<1>3. m = [kind |-> "enc", nonce |-> n, text |-> x]
  BY DEF Enc
<1>4. m \in Messages /\ m.nonce = n /\ m.text = x
  BY <1>1, <1>3 DEF Messages
<1>5. Numbered(e, F, recv, n) /\ q.sendNonce = n + 1
  BY DEF Near, Sent
<1>6. (IsDirect(e) /\ n >= Base(e)) =>
                /\ x.t = "app"
                /\ Placed(e, x.n, n) \/ Hole(F, recv, n)
  OBVIOUS
<1>a. Ins(e, q) = Ins(e, r) /\ q.recvNonce = r.recvNonce
  BY DEF Ins, Sent
<1> HIDE DEF F, G, n, m, recv
<1>7. Numbered(e, G, recv, n + 1)
  BY <1>1, <1>2, <1>4, <1>5, <1>6, NumberedSend
<1>8. Hole(F, recv, n) => Hole(G, recv, n + 1)
  <2>1. ASSUME Hole(F, recv, n) PROVE Hole(G, recv, n)
    <3>1. n <= n
      BY <1>1
    <3> QED BY <1>1, <1>2, <1>4, <2>1, <3>1, HoleSend
  <2> QED BY <1>1, <2>1, HoleMore
<1>9. /\ Numbered(Other(e), Ins(e, q), q.recvNonce, ep[Other(e)].sendNonce)
      /\ Counted(Other(e), ep[Other(e)], appSent[Other(e)], Ins(e, q), q.recvNonce)
  BY <1>a DEF Near
<1> QED BY <1>5, <1>7, <1>8, <1>9 DEF F, G, n, recv

\* What the upgrade and yamux send.
LEMMA SentNear ==
    ASSUME TypeInv, NEW e \in End, NEW r, NEW q, NEW x \in Texts, NEW sent, NEW got,
           Sent(q, r, x), Near(e, r, sent, got),
           ~IsDirect(e) \/ (r.stage # "Ready" /\ r.sendNonce < Base(e))
    PROVE  Near(e, q, sent, got)
<1>1. r.sendNonce \in Nat /\ Base(e) \in Nat
  BY BaseType DEF Near, Sessions
<1>2. ~(IsDirect(e) /\ r.sendNonce >= Base(e))
  BY <1>1
<1>3. /\ Numbered(e, Outs(e, q), ep[Other(e)].recvNonce, q.sendNonce)
      /\ Numbered(Other(e), Ins(e, q), q.recvNonce, ep[Other(e)].sendNonce)
      /\ Counted(Other(e), ep[Other(e)], appSent[Other(e)], Ins(e, q), q.recvNonce)
  BY <1>2, SentFrames
<1>4. ReceivesOk(e, q, got)
  BY SentReceives DEF Near
<1>5. Counted(e, q, sent, Outs(e, q), ep[Other(e)].recvNonce)
  BY DEF Counted, Sent
<1> QED BY <1>3, <1>4, <1>5 DEF Near, Sent, SameStream

\* try_write: one more message of the application.
LEMMA AppNear ==
    ASSUME TypeInv, NEW e \in End, NEW r, NEW q, NEW x \in Texts, NEW sent, NEW got,
           x.t = "app", x.n = sent + 1, Sent(q, r, x), Near(e, r, sent, got),
           r.stage = "Ready", IsDirect(e)
    PROVE  Near(e, q, sent + 1, got)
<1> DEFINE F == Outs(e, r)
           recv == ep[Other(e)].recvNonce
           n == r.sendNonce
<1>1. n \in Nat /\ Base(e) \in Nat /\ sent \in Nat
  BY BaseType DEF Near, Sessions
<1>2. Placed(e, x.n, n) \/ Hole(F, recv, n)
  BY DEF Near, Counted
<1> HIDE DEF F, recv, n
<1>3. /\ Numbered(e, Outs(e, q), ep[Other(e)].recvNonce, q.sendNonce)
      /\ Numbered(Other(e), Ins(e, q), q.recvNonce, ep[Other(e)].sendNonce)
      /\ Counted(Other(e), ep[Other(e)], appSent[Other(e)], Ins(e, q), q.recvNonce)
      /\ Hole(F, recv, n) => Hole(Outs(e, q), recv, q.sendNonce)
  BY <1>2, SentFrames DEF F, recv, n
<1>4. ReceivesOk(e, q, got)
  BY SentReceives DEF Near
<1>5. q.sendNonce = n + 1
  BY DEF Sent, n
<1>6. Placed(e, x.n, n) => Placed(e, (sent + 1) + 1, q.sendNonce)
  BY <1>1, <1>5 DEF Placed
<1>7. Counted(e, q, sent + 1, Outs(e, q), ep[Other(e)].recvNonce)
  BY <1>2, <1>3, <1>6 DEF Counted, recv
<1>8. sent + 1 \in Nat /\ q.stage = "Ready"
  BY <1>1 DEF Sent
<1> QED BY <1>3, <1>4, <1>7, <1>8 DEF Near, Sent, SameStream

\* A nonce is used and nothing sent.
Spent(q, r) ==
    /\ q \in Sessions /\ Outgoing(q) = Outgoing(r) /\ q.rx = r.rx /\ SameStream(q, r)
    /\ q.sendNonce = r.sendNonce + 1 /\ q.recvNonce = r.recvNonce
    /\ q.stage = r.stage /\ q.yamux = r.yamux /\ q.negotiation = r.negotiation
    /\ q.socketOpen = r.socketOpen /\ q.busy = r.busy /\ q.state = r.state

LEMMA SpentNear ==
    ASSUME TypeInv, NEW e \in End, NEW r, NEW q, NEW sent, NEW got, Near(e, r, sent, got),
           Spent(q, r)
    PROVE  Near(e, q, sent, got)
<1>1. Outs(e, q) = Outs(e, r) /\ Ins(e, q) = Ins(e, r)
  BY DEF Outs, Ins, Spent
<1>2. Numbered(e, Outs(e, r), ep[Other(e)].recvNonce, r.sendNonce) /\ r \in Sessions
  BY DEF Near
<1>3. /\ Numbered(e, Outs(e, q), ep[Other(e)].recvNonce, q.sendNonce)
      /\ Hole(Outs(e, q), ep[Other(e)].recvNonce, q.sendNonce)
  BY <1>1, <1>2, WaysType, NumberedUsed DEF Spent
<1>4. Counted(e, q, sent, Outs(e, q), ep[Other(e)].recvNonce)
  BY <1>3 DEF Counted
<1>5. GotOk(e, q, got)
  BY DEF Near, ReceivesOk, GotOk, SameStream, Spent
<1>f. FirstOk(e, q, got)
  BY DEF Near, ReceivesOk, FirstOk, SameStream, Spent
<1>6. ReceivesOk(e, q, got)
  BY <1>5, <1>f DEF Near, ReceivesOk, SameStream, Spent
<1> QED BY <1>1, <1>3, <1>4, <1>6 DEF Near, SameStream, Spent

\* The frame that is expected is decrypted.
Took(q, r) ==
    /\ q \in Sessions
    /\ Outgoing(q) = Outgoing(r) /\ EncOf(q.rx) \subseteq EncOf(r.rx)
    /\ Head(r.rx) \in EncOf(r.rx) /\ Head(r.rx).nonce = r.recvNonce
    /\ q.sendNonce = r.sendNonce /\ q.recvNonce = r.recvNonce + 1
    /\ q.stage = r.stage /\ q.yamux = r.yamux
    /\ q.socketOpen = r.socketOpen /\ q.busy = r.busy /\ q.state = r.state

LEMMA TookFrames ==
    ASSUME TypeInv, NEW e \in End, NEW r, NEW q, NEW sent, NEW got,
           Took(q, r), Near(e, r, sent, got)
    PROVE  /\ Numbered(e, Outs(e, q), ep[Other(e)].recvNonce, q.sendNonce)
           /\ Numbered(Other(e), Ins(e, q), q.recvNonce, ep[Other(e)].sendNonce)
           /\ Counted(e, q, sent, Outs(e, q), ep[Other(e)].recvNonce)
           /\ Counted(Other(e), ep[Other(e)], appSent[Other(e)], Ins(e, q), q.recvNonce)
           /\ (IsDirect(Other(e)) /\ r.recvNonce >= Base(Other(e))) =>
                 /\ Head(r.rx).text.t = "app"
                 /\ Placed(Other(e), Head(r.rx).text.n, r.recvNonce)
<1> DEFINE o == Other(e)
           F == Ins(e, r)
           G == Ins(e, q)
           m == Head(r.rx)
           recv == r.recvNonce
           send == ep[o].sendNonce
<1>1. F \in SUBSET Messages /\ recv \in Nat /\ send \in Nat
  BY WaysType DEF Near
<1>2. G \subseteq F /\ m \in F /\ m.nonce = recv
  BY DEF Ins, Took
<1>3. Numbered(o, F, recv, send) /\ Counted(o, ep[o], appSent[o], F, recv)
  BY DEF Near
<1>4. Outs(e, q) = Outs(e, r) /\ q.recvNonce = recv + 1
  BY DEF Outs, Took
<1>5. /\ Numbered(e, Outs(e, q), ep[o].recvNonce, q.sendNonce)
      /\ Counted(e, q, sent, Outs(e, q), ep[o].recvNonce)
  BY <1>4 DEF Near, Took, Counted
<1> HIDE DEF F, G, m, recv, o
<1>6. /\ Numbered(o, G, recv + 1, send)
      /\ (IsDirect(o) /\ recv >= Base(o)) => m.text.t = "app" /\ Placed(o, m.text.n, recv)
  BY <1>1, <1>2, <1>3, NumberedTake
<1>7. Counted(o, ep[o], appSent[o], G, recv + 1)
  BY <1>1, <1>2, <1>3, CountedTake
<1> QED BY <1>4, <1>5, <1>6, <1>7 DEF F, G, m, recv, o

\* What the upgrade and yamux receive.
LEMMA TookNear ==
    ASSUME TypeInv, NEW e \in End, NEW r, NEW q, NEW sent, NEW got,
           Took(q, r), Near(e, r, sent, got), SameStream(q, r), r.stage # "Ready" \/ r.yamux,
           r.stage # "Ready" => Len(q.negotiation) = Len(r.negotiation) + 1
    PROVE  Near(e, q, sent, got)
<1>1. ReceivesOk(e, r, got) /\ r \in Sessions
  BY DEF Near
<1>2. got = <<>> /\ r.stream.rx = <<>>
  BY <1>1 DEF ReceivesOk
<1>3. q.recvNonce >= Base(e)
  <2>1. r.recvNonce \in Nat /\ Base(e) \in Nat /\ Base(e) <= 1
    BY <1>1, BaseType DEF Sessions
  <2> QED BY <2>1 DEF Took
<1>4. GotOk(e, q, got)
  BY <1>1, <1>2 DEF GotOk
<1>5. DOMAIN q.stream.rx = {}
  BY <1>2 DEF SameStream
<1>f. FirstOk(e, q, got)
  BY <1>1, <1>2 DEF ReceivesOk, FirstOk, Took, SameStream
<1>6. ReceivesOk(e, q, got)
  BY <1>1, <1>2, <1>3, <1>4, <1>5, <1>f DEF ReceivesOk, Took, SameStream
<1> QED BY <1>6, TookFrames DEF Near, Took, SameStream

\* A new direct stream takes the place of the old one.
Renewed(q, r) ==
    /\ Smaller(q, r)
    /\ q.stream.id = r.nextStreamId /\ q.stream.rx = <<>>
    /\ q.nextStreamId = r.nextStreamId + 1
    /\ q.negotiation = r.negotiation /\ q.socketOpen = r.socketOpen
    /\ q.busy = r.busy /\ q.state = r.state

LEMMA RenewedNear ==
    ASSUME NEW e, NEW r, NEW q, NEW sent, NEW got, Renewed(q, r), Near(e, r, sent, got),
           r.stage = "Ready", ~r.yamux
    PROVE  Near(e, q, sent, got)
<1>1. ReceivesOk(e, r, got) /\ r \in Sessions
  BY DEF Near
<1>2. r.nextStreamId \in Nat /\ q.nextStreamId = r.nextStreamId + 1
  BY <1>1 DEF Renewed, Sessions
<1>3. GotOk(e, q, got)
  <2>1. /\ got \in Seq([sid : Nat, text : Texts]) /\ GotOk(e, r, got)
        /\ q.stream.rx = <<>> /\ q.recvNonce = r.recvNonce /\ q.stream.id = r.nextStreamId
    BY <1>1 DEF ReceivesOk, Renewed, Smaller
  <2>2. q.nextStreamId \in Nat /\ r.nextStreamId <= q.nextStreamId
    BY <1>2
  <2> QED BY <1>1, <1>2, <2>1, <2>2, GotLess
<1>4. DOMAIN q.stream.rx = {}
  BY DEF Renewed
<1>5. FirstOk(e, q, got)
  <2> DEFINE a == r.stream.rx
             b == q.stream.rx
             n == Len(r.negotiation)
  <2>1. FirstOk(e, r, got) /\ r.stream.id \in Nat /\ Base(e) \in Nat /\ n \in Nat
    BY <1>1, SeqFacts, BaseType DEF ReceivesOk, Directs
  <2>2. r.nextStreamId = r.stream.id + 1 /\ q.stream.id = r.nextStreamId
        /\ q.nextStreamId = q.stream.id + 1 /\ q.stream.id # 0 /\ q.negotiation = r.negotiation
    BY <2>1 DEF FirstOk, Renewed
  <2>3. q.stage = "Ready" /\ q.recvNonce = r.recvNonce /\ q.socketOpen = r.socketOpen
    BY DEF Renewed, Smaller
  <2>4. ASSUME q.socketOpen, got = <<>>, q.stream.id <= 1
        PROVE  q.recvNonce = Base(e) + n + Len(b)
    <3>1. r.stream.id = 0
      BY <2>1, <2>2, <2>4
    <3>2. a = <<>> /\ b = <<>>
      BY <2>1, <3>1 DEF FirstOk, Renewed
    <3>3. Len(a) = Len(b)
      BY <3>2
    <3>4. r.recvNonce = Base(e) + n + Len(a)
      BY <2>1, <2>3, <2>4, <3>1 DEF FirstOk
    <3> QED BY <2>3, <3>3, <3>4
  <2>5. (got # <<>> /\ got[1].sid = 1) => got[1].text.n = n + 1
    BY <2>1 DEF FirstOk
  <2> QED BY <2>2, <2>3, <2>4, <2>5 DEF FirstOk
<1>6. ReceivesOk(e, q, got)
  BY <1>1, <1>3, <1>4, <1>5 DEF ReceivesOk, Renewed, Smaller
<1> QED BY <1>6, SmallerNear DEF Renewed, Smaller

\* Both ends of a direct stream know it is one.
Matched(e) ==
    /\ IsDirect(Other(e)) <=> IsDirect(e)
    /\ Exchange(Other(e)) <=> Exchange(e)

\* A direct stream takes the message x.
Filled(q, r, x) ==
    /\ q.stream.id = r.stream.id /\ q.nextStreamId = r.nextStreamId
    /\ q.stream.rx = Append(r.stream.rx, x) /\ q.negotiation = r.negotiation

LEMMA FilledGot ==
    ASSUME NEW e, NEW q, NEW r, NEW x \in Texts, NEW got, r.stream.rx \in Seq(Texts),
           r.recvNonce \in Nat,
           got \in Seq([sid : Nat, text : Texts]), GotOk(e, r, got), Filled(q, r, x),
           q.recvNonce = r.recvNonce + 1, q.socketOpen = r.socketOpen
    PROVE  GotOk(e, q, got)
<1>1. CASE got = <<>>
  BY <1>1 DEF GotOk
<1>2. CASE got # <<>>
  <2> DEFINE last == got[Len(got)]
             n == last.text.n
             l == Len(r.stream.rx)
  <2>1. last \in [sid : Nat, text : Texts]
    BY <1>2, LastType
  <2>2. n \in Nat
    BY <2>1 DEF Texts
  <2>3. l \in Nat /\ Len(q.stream.rx) = l + 1
    BY DEF Filled
  <2>4. /\ last.sid < r.nextStreamId /\ n + l + 1 + Base(e) <= r.recvNonce + 1
        /\ (last.sid = r.stream.id /\ r.socketOpen) => Placed(e, n + l + 1, r.recvNonce)
    BY <1>2 DEF GotOk
  <2>5. Base(e) \in Nat
    BY BaseType
  <2> HIDE DEF n, l, last
  <2>6. n + (l + 1) + 1 + Base(e) <= q.recvNonce + 1
    BY <2>2, <2>3, <2>4, <2>5
  <2>7. Placed(e, n + l + 1, r.recvNonce) => Placed(e, n + (l + 1) + 1, q.recvNonce)
    BY <2>2, <2>3, <2>5 DEF Placed
  <2> QED BY <1>2, <2>3, <2>4, <2>6, <2>7 DEF GotOk, Filled, last, n
<1> QED BY <1>1, <1>2

LEMMA PlacedMove ==
    ASSUME NEW e, NEW n \in Nat, NEW l \in Nat, NEW c \in Nat, NEW i \in Nat
    PROVE  /\ Placed(e, n, c) => Placed(e, n + (l + 1), (c + 1) + (l + 1) - 1)
           /\ Placed(e, n + l, c + i - 1) => Placed(e, n + (l + 1), (c + 1) + i - 1)
<1>1. Base(e) \in Nat
  BY BaseType
<1> QED BY <1>1 DEF Placed

LEMMA FilledReceives ==
    ASSUME NEW e, NEW q, NEW r \in Sessions, NEW got, NEW x \in Texts, ReceivesOk(e, r, got),
           x.t = "app", Placed(e, x.n, r.recvNonce), Filled(q, r, x),
           r.recvNonce >= Base(e), r.stage = "Ready", ~r.yamux,
           q.recvNonce = r.recvNonce + 1, q.socketOpen = r.socketOpen, q.busy = r.busy,
           q.socketOpen, r.stream.open, q.stage = r.stage, q.yamux = r.yamux
    PROVE  ReceivesOk(e, q, got)
<1> DEFINE a == r.stream.rx
           b == q.stream.rx
           l == Len(a)
           recv == r.recvNonce
<1>1. a \in Seq(Texts) /\ recv \in Nat /\ Base(e) \in Nat /\ l \in Nat
  <2>1. a \in Seq(Texts)
    BY SeqFacts DEF Directs
  <2> QED BY <2>1, SeqFacts, BaseType
<1>2. b = Append(a, x)
  BY DEF Filled
<1>3. GotOk(e, q, got)
  BY <1>1, FilledGot DEF ReceivesOk
<1>4. /\ DOMAIN b = 1 .. l + 1 /\ Len(b) = l + 1 /\ b[l + 1] = x
      /\ \A i \in 1 .. l : b[i] = a[i] /\ a[i] \in Texts
  BY <1>1, <1>2
<1>5. \A i \in 1 .. l : a[i].t = "app" /\ Placed(e, a[i].n + l, recv + i - 1)
  BY <1>1 DEF ReceivesOk
<1>6. ASSUME NEW i \in DOMAIN b
      PROVE  b[i].t = "app" /\ Placed(e, b[i].n + Len(b), q.recvNonce + i - 1)
  <2>1. CASE i = l + 1
    <3>1. x.n \in Nat
      BY DEF Texts
    <3>2. b[i] = x /\ q.recvNonce = recv + 1
      BY <1>4, <2>1
    <3>3. Placed(e, x.n + (l + 1), (recv + 1) + (l + 1) - 1)
      BY <1>1, <3>1, PlacedMove
    <3> HIDE DEF b, a, l, recv
    <3> QED BY <1>4, <2>1, <3>2, <3>3
  <2>2. CASE i \in 1 .. l
    <3>1. b[i] = a[i] /\ a[i].n \in Nat /\ q.recvNonce = recv + 1
      BY <1>4, <2>2 DEF Texts
    <3>2. a[i].t = "app" /\ Placed(e, a[i].n + l, recv + i - 1)
      BY <1>5, <2>2
    <3>4. i \in Nat
      BY <2>2
    <3> HIDE DEF b, a, l, recv
    <3>3. Placed(e, a[i].n + (l + 1), (recv + 1) + i - 1)
      BY <1>1, <3>1, <3>2, <3>4, PlacedMove
    <3> QED BY <1>4, <3>1, <3>2, <3>3
  <2> HIDE DEF b, a, l
  <2> QED BY <1>1, <1>4, <2>1, <2>2
<1>7. q.recvNonce >= Base(e)
  BY <1>1
<1>8. FirstOk(e, q, got)
  <2> DEFINE n == Len(r.negotiation)
  <2>1. FirstOk(e, r, got) /\ n \in Nat /\ r.stream.id \in Nat
    BY SeqFacts DEF ReceivesOk, Directs
  <2>2. q.nextStreamId = q.stream.id + 1 /\ q.stream.id # 0 /\ q.stream.id = r.stream.id
    BY <2>1 DEF FirstOk, Filled
  <2>3. ASSUME got = <<>>, q.stream.id <= 1
        PROVE  q.recvNonce = Base(e) + n + Len(b)
    <3>1. recv = Base(e) + n + l
      BY <2>1, <2>2, <2>3 DEF FirstOk
    <3>2. q.recvNonce = recv + 1 /\ Len(b) = l + 1
      BY <1>4
    <3> HIDE DEF b, l, n, recv
    <3> QED BY <1>1, <2>1, <3>1, <3>2
  <2>4. (got # <<>> /\ got[1].sid = 1) => got[1].text.n = n + 1
    BY <2>1 DEF FirstOk
  <2>5. q.negotiation = r.negotiation
    BY DEF Filled
  <2> QED BY <2>2, <2>3, <2>4, <2>5 DEF FirstOk
<1> QED BY <1>3, <1>6, <1>7, <1>8 DEF ReceivesOk, Filled

\* process_pending_input on a direct stream.
LEMMA FilledNear ==
    ASSUME TypeInv, NEW e \in End, NEW r, NEW q, NEW sent, NEW got, Matched(e),
           Took(q, r), Near(e, r, sent, got), Filled(q, r, Head(r.rx).text),
           r.stage = "Ready", ~r.yamux, IsDirect(e), r.socketOpen, r.stream.open
    PROVE  Near(e, q, sent, got)
<1> DEFINE x == Head(r.rx).text
<1>1. r \in Sessions /\ ReceivesOk(e, r, got)
  BY DEF Near
<1>2. r.recvNonce >= Base(e) /\ Base(Other(e)) = Base(e)
  BY <1>1 DEF ReceivesOk, Matched, Base
<1>3. x \in Texts
  <2>1. Head(r.rx) \in Messages
    BY <1>1, OutgoingType DEF Took
  <2> QED BY <2>1 DEF Messages
<1>4. x.t = "app" /\ Placed(e, x.n, r.recvNonce)
  BY <1>2, TookFrames DEF Matched, Placed
<1> HIDE DEF x
<1>5. ReceivesOk(e, q, got)
  BY <1>1, <1>2, <1>3, <1>4, FilledReceives DEF Took, x
<1> QED BY <1>5, TookFrames DEF Near, Took

\* The application reads the next message.
Read(q, r) ==
    /\ Smaller(q, r)
    /\ q.stream.id = r.stream.id /\ q.stream.rx = Tail(r.stream.rx)
    /\ q.stream.open => r.stream.open
    /\ q.nextStreamId = r.nextStreamId
    /\ q.negotiation = r.negotiation /\ q.socketOpen = r.socketOpen
    /\ q.busy = r.busy /\ q.state = r.state

LEMMA ReadGot ==
    ASSUME NEW e, NEW q, NEW r \in Sessions, NEW got, r.stream.rx # <<>>, Read(q, r),
           ReceivesOk(e, r, got)
    PROVE  LET to == Append(got, Got(r)) IN
           to \in Seq([sid : Nat, text : Texts]) /\ GotOk(e, q, to)
<1> DEFINE a == r.stream.rx
           b == Got(r)
           to == Append(got, b)
           recv == r.recvNonce
           l == Len(a)
           k == Len(got)
           c == Base(e)
<1>1. /\ a \in Seq(Texts) /\ recv \in Nat /\ c \in Nat /\ r.stream.id \in Nat
      /\ r.nextStreamId \in Nat
  <2>1. r.stream \in Directs /\ r.nextStreamId \in Nat
    BY DEF Sessions
  <2> QED BY <2>1, SeqFacts, BaseType DEF Directs
<1>2. l \in Nat /\ l >= 1 /\ a[1] \in Texts /\ Head(a) = a[1] /\ 1 \in DOMAIN a
      /\ Len(Tail(a)) = l - 1
  BY <1>1
<1>3. b = [sid |-> r.stream.id, text |-> a[1]]
  BY <1>2 DEF Got
<1>4. b \in [sid : Nat, text : Texts] /\ b.sid = r.stream.id /\ b.text = a[1]
  BY <1>1, <1>2, <1>3
<1>5. b.text.t = "app" /\ b.text.n \in Nat /\ b.text.n + l + c = recv + 1
  <2>1. a[1].t = "app" /\ Placed(e, a[1].n + l, recv + 1 - 1)
    BY <1>2 DEF ReceivesOk
  <2>2. a[1].n \in Nat
    BY <1>2 DEF Texts
  <2>3. recv + 1 - 1 = recv
    BY <1>1
  <2> HIDE DEF a, recv, l, b, c
  <2> QED BY <1>1, <1>2, <1>4, <2>1, <2>2, <2>3 DEF Placed, c
<1>f. r.nextStreamId = r.stream.id + 1
  BY DEF ReceivesOk, FirstOk
<1>6. got \in Seq([sid : Nat, text : Texts]) /\ GotOk(e, r, got) /\ r.socketOpen
      /\ r.stream.id < r.nextStreamId
  BY <1>1, <1>f DEF ReceivesOk
<1> HIDE DEF b
<1>7. /\ to \in Seq([sid : Nat, text : Texts]) /\ k \in Nat /\ Len(to) = k + 1
      /\ DOMAIN to = 1 .. k + 1 /\ DOMAIN got = 1 .. k /\ to[k + 1] = b
      /\ \A i \in 1 .. k : to[i] = got[i]
  BY <1>4, <1>6
<1> HIDE DEF to, k
<1>8. k # 0 => Follows(got[k], b)
  <2> SUFFICES ASSUME k # 0 PROVE Follows(got[k], b)
    OBVIOUS
  <2> DEFINE last == got[k]
             n == last.text.n
             x == b.text.n
  <2>1. got # <<>>
    BY DEF k
  <2>2. last \in [sid : Nat, text : Texts]
    BY <1>6, <2>1, LastType DEF k
  <2>3. n \in Nat
    BY <2>2 DEF Texts
  <2>4. /\ n + l + 1 + c <= recv + 1
        /\ last.sid = r.stream.id => (n + l + 1) + c = recv + 1
    BY <1>6, <2>1 DEF GotOk, Placed, k
  <2>5. x \in Nat /\ x + l + c = recv + 1
    BY <1>5
  <2> HIDE DEF last, n, l, c, recv, a, x
  <2>6. x > n /\ (last.sid = r.stream.id => x = n + 1)
    BY <1>1, <1>2, <2>3, <2>4, <2>5
  <2>7. Follows(last, b)
    BY <1>4, <2>6 DEF Follows, n, x
  <2> QED BY <2>7 DEF last
<1>9. \A i \in DOMAIN to : to[i].text.t = "app"
  <2>1. \A i \in DOMAIN got : got[i].text.t = "app"
    BY <1>6 DEF GotOk
  <2> QED BY <1>5, <1>7, <2>1
<1>10. ASSUME NEW i \in DOMAIN to, i + 1 \in DOMAIN to PROVE Follows(to[i], to[i + 1])
  <2>1. CASE i = k
    <3>1. k # 0 /\ to[i] = got[k] /\ to[i + 1] = b
      BY <1>7, <2>1
    <3> QED BY <1>8, <3>1
  <2>2. CASE i # k
    <3>1. i \in DOMAIN got /\ i + 1 \in DOMAIN got
      BY <1>7, <1>10, <2>2
    <3>2. Follows(got[i], got[i + 1])
      BY <1>6, <3>1 DEF GotOk
    <3> QED BY <1>7, <3>1, <3>2
  <2> QED BY <2>1, <2>2
<1>11. /\ to[Len(to)] = b /\ to # <<>>
       /\ Len(q.stream.rx) = l - 1 /\ q.recvNonce = recv /\ q.nextStreamId = r.nextStreamId
  <2>1. to[Len(to)] = b /\ Len(to) # 0
    BY <1>7
  <2>2. to # <<>>
    BY <2>1, LenEmpty
  <2> QED BY <1>2, <2>1, <2>2 DEF Read, Smaller
<1>12. /\ b.text.n + (l - 1) + 1 + Base(e) <= recv + 1
       /\ Placed(e, b.text.n + (l - 1) + 1, recv)
  <2> DEFINE x == b.text.n
  <2>1. x \in Nat /\ x + l + c = recv + 1
    BY <1>5
  <2> HIDE DEF x, l, c, recv, a
  <2>2. x + (l - 1) + 1 + c <= recv + 1 /\ (x + (l - 1) + 1) + c = recv + 1
    BY <1>1, <1>2, <2>1
  <2> QED BY <2>2 DEF Placed, c, x
<1>13. GotOk(e, q, to)
  <2> HIDE DEF l, recv, a
  <2> QED BY <1>4, <1>6, <1>9, <1>10, <1>11, <1>12 DEF GotOk
<1> QED BY <1>7, <1>13 DEF to, b

LEMMA PlacedBack ==
    ASSUME NEW e, NEW n \in Nat, NEW l \in Nat, NEW c \in Nat, NEW i \in Nat, l >= 1
    PROVE  Placed(e, n + l, c + (i + 1) - 1) => Placed(e, n + (l - 1), c + i - 1)
<1>1. Base(e) \in Nat
  BY BaseType
<1> QED BY <1>1 DEF Placed

LEMMA ReadNear ==
    ASSUME NEW e, NEW q, NEW r, NEW sent, NEW got, r.stream.rx # <<>>, Read(q, r),
           Near(e, r, sent, got)
    PROVE  Near(e, q, sent, Append(got, Got(r)))
<1> DEFINE a == r.stream.rx
           b == q.stream.rx
           l == Len(a)
           recv == r.recvNonce
           to == Append(got, Got(r))
<1>1. r \in Sessions /\ ReceivesOk(e, r, got)
  BY DEF Near
<1>2. a \in Seq(Texts) /\ recv \in Nat /\ l \in Nat /\ l >= 1
  <2>1. a \in Seq(Texts)
    BY <1>1, SeqFacts DEF Directs
  <2> QED BY <1>1, <2>1, SeqFacts
<1>3. to \in Seq([sid : Nat, text : Texts]) /\ GotOk(e, q, to)
  BY <1>1, ReadGot
<1>4. /\ DOMAIN b = 1 .. l - 1 /\ Len(b) = l - 1
      /\ \A i \in 1 .. l - 1 : b[i] = a[i + 1] /\ i + 1 \in DOMAIN a /\ a[i + 1] \in Texts
  <2>1. b = Tail(a)
    BY DEF Read
  <2> QED BY <1>2, <2>1
<1>5. ASSUME NEW i \in DOMAIN b
      PROVE  b[i].t = "app" /\ Placed(e, b[i].n + Len(b), q.recvNonce + i - 1)
  <2>0. i \in 1 .. l - 1
    BY <1>4
  <2>t. i + 1 \in DOMAIN a /\ b[i] = a[i + 1] /\ a[i + 1] \in Texts
    BY <1>4, <2>0
  <2>1. i \in Nat /\ i + 1 \in DOMAIN a /\ b[i] = a[i + 1] /\ a[i + 1].n \in Nat
    BY <2>0, <2>t DEF Texts
  <2>2. a[i + 1].t = "app" /\ Placed(e, a[i + 1].n + l, recv + (i + 1) - 1)
    BY <1>1, <2>1 DEF ReceivesOk
  <2>3. q.recvNonce = recv
    BY DEF Read, Smaller
  <2> DEFINE n == a[i + 1].n
  <2> HIDE DEF n, a, l, recv, b
  <2>4. Placed(e, n + (l - 1), recv + i - 1)
    <3>1. n \in Nat
      BY <2>1 DEF n
    <3>2. Placed(e, n + l, recv + (i + 1) - 1)
      BY <2>2 DEF n
    <3> QED BY <1>2, <2>1, <3>1, <3>2, PlacedBack
  <2> QED BY <1>4, <2>1, <2>2, <2>3, <2>4 DEF n
<1>6. r.stage = "Ready" /\ ~r.yamux /\ r.socketOpen
  BY <1>1 DEF ReceivesOk
<1>8. FirstOk(e, q, to)
  <2> DEFINE n == Len(r.negotiation)
             x == a[1].n
  <2>1. FirstOk(e, r, got) /\ got \in Seq([sid : Nat, text : Texts]) /\ n \in Nat
        /\ Base(e) \in Nat /\ r.stream.id \in Nat
    BY <1>1, SeqFacts, BaseType DEF ReceivesOk, Directs
  <2>2. /\ q.stream.id = r.stream.id /\ q.nextStreamId = r.nextStreamId
        /\ q.negotiation = r.negotiation /\ q.stage = "Ready"
    BY <1>6 DEF Read, Smaller
  <2>3. q.stream.id # 0 /\ q.nextStreamId = q.stream.id + 1
    BY <2>1, <2>2 DEF FirstOk
  <2>4. to # <<>> /\ to[1] = IF got = <<>> THEN Got(r) ELSE got[1]
    BY <2>1
  <2>5. ASSUME to[1].sid = 1 PROVE to[1].text.n = n + 1
    <3>1. CASE got # <<>>
      BY <2>1, <2>4, <2>5, <3>1 DEF FirstOk
    <3>2. CASE got = <<>>
      <4>1. Got(r) = [sid |-> r.stream.id, text |-> Head(a)] /\ Head(a) = a[1] /\ 1 \in DOMAIN a
            /\ a[1] \in Texts
        BY <1>2 DEF Got
      <4>2. to[1].sid = r.stream.id /\ to[1].text.n = x /\ x \in Nat
        BY <2>4, <3>2, <4>1 DEF Texts
      <4>3. recv = Base(e) + n + l
        BY <1>6, <2>1, <2>5, <3>2, <4>2 DEF FirstOk
      <4>4. Placed(e, x + l, recv + 1 - 1)
        BY <1>1, <4>1 DEF ReceivesOk
      <4> HIDE DEF x, l, n, recv, to
      <4>5. x + l + Base(e) = (recv + 1 - 1) + 1
        BY <4>4 DEF Placed
      <4>6. x = n + 1
        BY <1>2, <2>1, <4>2, <4>3, <4>5
      <4> QED BY <4>2, <4>6
    <3> QED BY <3>1, <3>2
  <2> QED BY <2>2, <2>3, <2>4, <2>5 DEF FirstOk
<1> HIDE DEF to, b, a
<1>7. ReceivesOk(e, q, to)
  BY <1>1, <1>3, <1>5, <1>6, <1>8 DEF ReceivesOk, Read, Smaller, b
<1> QED BY <1>6, <1>7, SmallerNear DEF Read, Smaller, to

----------------------------------------------------------------------------
(* What the methods of a session have to do with its direct stream.        *)

\* Nothing at all.
Apart(q, r) ==
    /\ q \in Sessions
    /\ q.net = r.net /\ q.tx = r.tx /\ q.rx = r.rx
    /\ q.sendNonce = r.sendNonce /\ q.recvNonce = r.recvNonce
    /\ q.stage = r.stage /\ q.state = r.state /\ q.yamux = r.yamux
    /\ q.stream = r.stream /\ q.nextStreamId = r.nextStreamId
    /\ q.negotiation = r.negotiation /\ q.socketOpen = r.socketOpen /\ q.busy = r.busy

LEMMA ApartCalm ==
    ASSUME NEW q, NEW r, Apart(q, r)
    PROVE  Calm(q, r)
  BY DEF Apart, Calm, Smaller, SameStream, Outgoing

LEMMA ApartTrans ==
    ASSUME NEW p, NEW q, NEW r, Apart(p, q), Apart(q, r)
    PROVE  Apart(p, r)
  BY DEF Apart

LEMMA EmitApart ==
    ASSUME NEW r \in Sessions, NEW x \in Events
    PROVE  Apart(Emit(r, x), r)
<1> DEFINE ev == Append(r.events, x)
           q  == [r EXCEPT !.events = ev]
<1>1. ev \in Seq(Events)
  BY SeqFacts
<1>2. Emit(r, x) = q
  BY DEF Emit
<1> HIDE DEF ev
<1>3. Apart(q, r)
  BY <1>1 DEF Sessions, Apart
<1> QED BY <1>2, <1>3

LEMMA FieldApart ==
    ASSUME NEW r \in Sessions, NEW m \in Names, NEW b \in BOOLEAN, NEW n \in Nat,
           NEW h \in {"Idle", "AwaitingMsg1", "AwaitingMsg2", "AwaitingMsg3", "Complete"},
           NEW l \in Seq(STRING)
    PROVE  /\ Apart([r EXCEPT !.muxer = m], r) /\ Apart([r EXCEPT !.createInbound = b], r)
           /\ Apart([r EXCEPT !.pending = n], r) /\ Apart([r EXCEPT !.opens = n], r)
           /\ Apart([r EXCEPT !.hs = h], r)
           /\ Apart([r EXCEPT !.remotePeer = b, !.remoteMuxers = l], r)
  BY ZenonT(30) DEF Sessions, Apart

LEMMA QueueCalm ==
    ASSUME NEW r \in Sessions, NEW m \in Messages, m.kind # "enc"
    PROVE  Calm(Queue(r, m), r)
<1> DEFINE t == Append(r.tx, m)
           q == [r EXCEPT !.tx = t]
<1>1. EncOf(t) \subseteq EncOf(r.tx)
  BY SeqFacts, EncAppend
<1>2. t \in Seq(Messages)
  BY SeqFacts
<1> HIDE DEF t
<1>3. /\ q \in Sessions /\ q.tx = t /\ q.net = r.net /\ q.rx = r.rx
      /\ q.sendNonce = r.sendNonce /\ q.recvNonce = r.recvNonce
      /\ q.stage = r.stage /\ q.state = r.state /\ q.yamux = r.yamux
      /\ q.stream = r.stream /\ q.nextStreamId = r.nextStreamId
      /\ q.negotiation = r.negotiation /\ q.socketOpen = r.socketOpen /\ q.busy = r.busy
  BY <1>2 DEF Sessions
<1>4. Queue(r, m) = q
  BY DEF Queue, t
<1> HIDE DEF q
<1>5. Outgoing(q) \subseteq Outgoing(r)
  BY <1>1, <1>3 DEF Outgoing
<1> QED BY <1>3, <1>4, <1>5 DEF Calm, Smaller, SameStream

LEMMA UsedSpent ==
    ASSUME NEW r \in Sessions
    PROVE  Spent(Used(r), r)
<1> DEFINE n == r.sendNonce + 1
           q == [r EXCEPT !.sendNonce = n]
<1>1. n \in Nat
  BY SeqFacts
<1>2. Used(r) = q
  BY DEF Used
<1> HIDE DEF n
<1>3. /\ q \in Sessions /\ q.tx = r.tx /\ q.net = r.net /\ q.rx = r.rx
      /\ q.sendNonce = n /\ q.recvNonce = r.recvNonce
      /\ q.stage = r.stage /\ q.state = r.state /\ q.yamux = r.yamux
      /\ q.stream = r.stream /\ q.nextStreamId = r.nextStreamId
      /\ q.negotiation = r.negotiation /\ q.socketOpen = r.socketOpen /\ q.busy = r.busy
  BY <1>1 DEF Sessions
<1> HIDE DEF q
<1> QED BY <1>2, <1>3 DEF Spent, SameStream, Outgoing, n

LEMMA QueueEncryptedSent ==
    ASSUME NEW r \in Sessions, NEW x \in Texts
    PROVE  Sent(QueueEncrypted(r, x), r, x)
<1> DEFINE u == Used(r)
           m == Enc(r.sendNonce, x)
           t == Append(u.tx, m)
           q == [u EXCEPT !.tx = t]
<1>1. Spent(u, r)
  BY UsedSpent
<1>2. m = [kind |-> "enc", nonce |-> r.sendNonce, text |-> x]
  BY DEF Enc
<1>3. m \in Messages
  BY <1>2, SeqFacts DEF Messages
<1>4. QueueEncrypted(r, x) = q
  BY DEF QueueEncrypted, Used, Queue
<1>5. u \in Sessions
  BY <1>1 DEF Spent
<1> HIDE DEF u, m
<1>6. t \in Seq(Messages) /\ EncOf(t) \subseteq EncOf(u.tx) \cup {m}
  BY <1>3, <1>5, SeqFacts, EncAppend
<1> HIDE DEF t
<1>7. /\ q \in Sessions /\ q.tx = t /\ q.net = u.net /\ q.rx = u.rx
      /\ q.sendNonce = u.sendNonce /\ q.recvNonce = u.recvNonce
      /\ q.stage = u.stage /\ q.state = u.state /\ q.yamux = u.yamux
      /\ q.stream = u.stream /\ q.nextStreamId = u.nextStreamId
      /\ q.negotiation = u.negotiation /\ q.socketOpen = u.socketOpen /\ q.busy = u.busy
  BY <1>5, <1>6 DEF Sessions
<1> HIDE DEF q
<1>8. Outgoing(q) \subseteq Outgoing(u) \cup {m}
  BY <1>6, <1>7 DEF Outgoing
<1>9. Outgoing(u) = Outgoing(r) /\ u.rx = r.rx
  BY <1>1 DEF Spent
<1> QED BY <1>1, <1>4, <1>7, <1>8, <1>9 DEF Spent, Sent, SameStream, m

\* flush_wire and flush_stream.
LEMMA FlushCalm ==
    ASSUME NEW e \in End, NEW r \in Sessions
    PROVE  Calm(Flush(e, r), r)
<1> DEFINE q == Flush(e, r)
           o == ep[Other(e)]
<1>t. r.net \in Seq(Messages) /\ r.tx \in Seq(Messages)
  BY SeqFacts
<1>1. CASE ~o.socketOpen
  <2> DEFINE nil == <<>>
  <2>1. nil \in Seq(Messages) /\ EncOf(nil) = {}
    BY EncNone
  <2>2. q = [r EXCEPT !.tx = nil]
    BY <1>1 DEF Flush
  <2> HIDE DEF nil, q
  <2>3. /\ q \in Sessions /\ q.tx = nil /\ q.net = r.net /\ q.rx = r.rx
        /\ q.sendNonce = r.sendNonce /\ q.recvNonce = r.recvNonce
        /\ q.stage = r.stage /\ q.state = r.state /\ q.yamux = r.yamux
        /\ q.stream = r.stream /\ q.nextStreamId = r.nextStreamId
        /\ q.negotiation = r.negotiation /\ q.socketOpen = r.socketOpen /\ q.busy = r.busy
    BY <2>1, <2>2 DEF Sessions
  <2>4. Outgoing(q) \subseteq Outgoing(r)
    BY <2>1, <2>3 DEF Outgoing
  <2> QED BY <2>3, <2>4 DEF q, Calm, Smaller, SameStream
<1>2. CASE o.socketOpen
  <2> DEFINE room == IF Len(r.net) < NetCap THEN NetCap - Len(r.net) ELSE 0
             n    == IF Len(r.tx) < room THEN Len(r.tx) ELSE room
             head == SubSeq(r.tx, 1, n)
             net  == r.net \o head
             tx   == SubSeq(r.tx, n + 1, Len(r.tx))
  <2>1. q = [r EXCEPT !.net = net, !.tx = tx]
    BY <1>2 DEF Flush
  <2>2. n \in 0 .. Len(r.tx)
    <3>1. NetCap \in Nat /\ Len(r.net) \in Nat /\ Len(r.tx) \in Nat
      BY <1>t, SessionAssumption
    <3>2. room \in Nat
      BY <3>1
    <3> HIDE DEF room
    <3> QED BY <3>1, <3>2
  <2> HIDE DEF n, q
  <2>3. head \in Seq(Messages) /\ tx \in Seq(Messages)
    BY <1>t, <2>2, WaySplit
  <2>4. EncOf(head) \subseteq EncOf(r.tx) /\ EncOf(tx) \subseteq EncOf(r.tx)
    BY <1>t, <2>2, EncSubSeq
  <2> HIDE DEF head
  <2>5. net \in Seq(Messages) /\ EncOf(net) \subseteq EncOf(r.net) \cup EncOf(head)
    BY <1>t, <2>3, EncConcat
  <2> HIDE DEF net, tx
  <2>6. /\ q \in Sessions /\ q.tx = tx /\ q.net = net /\ q.rx = r.rx
        /\ q.sendNonce = r.sendNonce /\ q.recvNonce = r.recvNonce
        /\ q.stage = r.stage /\ q.state = r.state /\ q.yamux = r.yamux
        /\ q.stream = r.stream /\ q.nextStreamId = r.nextStreamId
        /\ q.negotiation = r.negotiation /\ q.socketOpen = r.socketOpen /\ q.busy = r.busy
    BY <2>1, <2>3, <2>5 DEF Sessions
  <2>7. Outgoing(q) \subseteq Outgoing(r)
    BY <2>4, <2>5, <2>6 DEF Outgoing
  <2> QED BY <2>6, <2>7 DEF q, Calm, Smaller, SameStream
<1> QED BY <1>1, <1>2

LEMMA EncEof ==
    ASSUME NEW net \in Seq(Messages)
    PROVE  WithEof(net) \in Seq(Messages) /\ EncOf(WithEof(net)) \subseteq EncOf(net)
  BY WithEofStep, EofType, EncAppend

LEMMA ShutdownCalm ==
    ASSUME NEW r \in Sessions
    PROVE  Calm(Shutdown(r), r)
<1> DEFINE net == WithEof(r.net)
           down == TRUE
           q == [r EXCEPT !.net = net, !.writeShutdown = down]
<1>1. net \in Seq(Messages) /\ EncOf(net) \subseteq EncOf(r.net) /\ down \in BOOLEAN
  BY SeqFacts, EncEof
<1>2. Shutdown(r) = r \/ Shutdown(r) = q
  BY DEF Shutdown
<1> HIDE DEF net, down
<1>3. /\ q \in Sessions /\ q.tx = r.tx /\ q.net = net /\ q.rx = r.rx
      /\ q.sendNonce = r.sendNonce /\ q.recvNonce = r.recvNonce
      /\ q.stage = r.stage /\ q.state = r.state /\ q.yamux = r.yamux
      /\ q.stream = r.stream /\ q.nextStreamId = r.nextStreamId
      /\ q.negotiation = r.negotiation /\ q.socketOpen = r.socketOpen /\ q.busy = r.busy
  BY <1>1 DEF Sessions
<1> HIDE DEF q
<1>4. Outgoing(q) \subseteq Outgoing(r)
  BY <1>1, <1>3 DEF Outgoing
<1>5. Calm(q, r)
  BY <1>3, <1>4 DEF Calm, Smaller, SameStream
<1>6. Calm(r, r)
  BY ApartCalm DEF Apart
<1> QED BY <1>2, <1>5, <1>6

LEMMA FlushPendingCalm ==
    ASSUME NEW e \in End, NEW r \in Sessions
    PROVE  Calm(FlushPending(e, r), r)
<1> DEFINE f == Flush(e, r)
<1>1. Calm(f, r)
  BY FlushCalm
<1>2. f \in Sessions
  BY <1>1 DEF Calm, Smaller
<1> HIDE DEF f
<1>3. Calm(Shutdown(f), f)
  BY <1>2, ShutdownCalm
<1> QED BY <1>1, <1>3, CalmTrans DEF FlushPending, f

LEMMA PoppedCalm ==
    ASSUME NEW r \in Sessions, r.rx # <<>>
    PROVE  Calm(Popped(r), r)
<1> DEFINE t == Tail(r.rx)
           q == [r EXCEPT !.rx = t]
<1>1. t \in Seq(Messages) /\ EncOf(t) \subseteq EncOf(r.rx)
  BY SeqFacts, EncTail, RestFacts
<1>2. Popped(r) = q
  BY DEF Popped
<1> HIDE DEF t
<1>3. /\ q \in Sessions /\ q.tx = r.tx /\ q.net = r.net /\ q.rx = t
      /\ q.sendNonce = r.sendNonce /\ q.recvNonce = r.recvNonce
      /\ q.stage = r.stage /\ q.state = r.state /\ q.yamux = r.yamux
      /\ q.stream = r.stream /\ q.nextStreamId = r.nextStreamId
      /\ q.negotiation = r.negotiation /\ q.socketOpen = r.socketOpen /\ q.busy = r.busy
  BY <1>1 DEF Sessions
<1> HIDE DEF q
<1> QED BY <1>1, <1>2, <1>3 DEF Calm, Smaller, SameStream, Outgoing

LEMMA DecipheredTook ==
    ASSUME NEW r \in Sessions, r.rx # <<>>, Decrypts(r, Head(r.rx))
    PROVE  LET q == Deciphered(r) IN
           /\ Took(q, r) /\ SameStream(q, r) /\ q.stream = r.stream
           /\ q.negotiation = r.negotiation
<1> DEFINE t == Tail(r.rx)
           n == r.recvNonce + 1
           q == [r EXCEPT !.rx = t, !.recvNonce = n]
<1>1. t \in Seq(Messages) /\ EncOf(t) \subseteq EncOf(r.rx) /\ n \in Nat
  BY SeqFacts, EncTail, RestFacts
<1>2. Head(r.rx) \in EncOf(r.rx) /\ Head(r.rx).nonce = r.recvNonce
  BY SeqFacts, EncTail DEF Decrypts
<1>3. Deciphered(r) = q
  BY DEF Deciphered, Popped
<1> HIDE DEF t, n
<1>4. /\ q \in Sessions /\ q.tx = r.tx /\ q.net = r.net /\ q.rx = t
      /\ q.sendNonce = r.sendNonce /\ q.recvNonce = n
      /\ q.stage = r.stage /\ q.state = r.state /\ q.yamux = r.yamux
      /\ q.stream = r.stream /\ q.nextStreamId = r.nextStreamId
      /\ q.negotiation = r.negotiation /\ q.socketOpen = r.socketOpen /\ q.busy = r.busy
  BY <1>1 DEF Sessions
<1> HIDE DEF q
<1> QED BY <1>1, <1>2, <1>3, <1>4 DEF Took, SameStream, Outgoing, n

\* The end of a session.
Down(q, r) ==
    /\ q \in Sessions /\ q.socketOpen = FALSE
    /\ Outgoing(q) \subseteq Outgoing(r) /\ EncOf(q.rx) \subseteq EncOf(r.rx)
    /\ q.sendNonce = r.sendNonce /\ q.recvNonce = r.recvNonce
    /\ q.stage = r.stage /\ q.state = r.state /\ q.yamux = r.yamux
    /\ q.stream = r.stream /\ q.nextStreamId = r.nextStreamId
    /\ q.negotiation = r.negotiation /\ q.busy = r.busy

LEMMA CloseSocketDown ==
    ASSUME NEW r \in Sessions
    PROVE  Down(CloseSocket(r), r)
<1> DEFINE c == CloseSocket(r)
<1>1. CASE ~r.socketOpen
  BY <1>1 DEF CloseSocket, Down, Sessions
<1>2. CASE r.socketOpen
  <2> DEFINE net == IF r.writeShutdown THEN r.net ELSE WithEof(r.net)
             nil == <<>>
             no  == FALSE
             yes == TRUE
             q == [r EXCEPT !.socketOpen = no, !.writeShutdown = yes, !.rx = nil,
                            !.tx = nil, !.net = net]
  <2>1. /\ net \in Seq(Messages) /\ EncOf(net) \subseteq EncOf(r.net)
        /\ nil \in Seq(Messages) /\ EncOf(nil) = {} /\ no \in BOOLEAN /\ yes \in BOOLEAN
    BY SeqFacts, EncEof, EncNone
  <2>2. c = q
    BY <1>2 DEF CloseSocket
  <2> HIDE DEF net, nil, c, yes
  <2>n. no = FALSE
    OBVIOUS
  <2> HIDE DEF no
  <2>3. /\ q \in Sessions /\ q.tx = nil /\ q.net = net /\ q.rx = nil
        /\ q.sendNonce = r.sendNonce /\ q.recvNonce = r.recvNonce
        /\ q.stage = r.stage /\ q.state = r.state /\ q.yamux = r.yamux
        /\ q.stream = r.stream /\ q.nextStreamId = r.nextStreamId
        /\ q.negotiation = r.negotiation /\ q.socketOpen = no /\ q.busy = r.busy
    BY ZenonT(30), <2>1 DEF Sessions
  <2> HIDE DEF q
  <2>4. Outgoing(q) \subseteq Outgoing(r) /\ EncOf(q.rx) \subseteq EncOf(r.rx)
    BY <2>1, <2>3 DEF Outgoing
  <2> QED BY <2>2, <2>3, <2>4, <2>n DEF Down, c
<1> QED BY <1>1, <1>2

\* A stream that is closed and has nothing to read.
LEMMA ClosedStream ==
    ASSUME NEW d \in Directs
    PROVE  LET s == [d EXCEPT !.open = FALSE, !.writeOpen = FALSE,
                              !.closeWritePending = FALSE, !.rx = <<>>] IN
           s \in Directs /\ s.id = d.id /\ ~s.open /\ s.rx = <<>>
<1> DEFINE nil == <<>>
           no  == FALSE
           s   == [d EXCEPT !.open = no, !.writeOpen = no, !.closeWritePending = no, !.rx = nil]
<1>1. nil \in Seq(Texts) /\ no \in BOOLEAN
  OBVIOUS
<1> HIDE DEF nil, no
<1>2. s \in Directs /\ s.id = d.id /\ s.open = no /\ s.rx = nil
  BY <1>1 DEF Directs
<1> QED BY <1>2 DEF no, nil

LEMMA CloseShut ==
    ASSUME NEW r \in Sessions, r.state # "Closed"
    PROVE  Shut(Close(r), r)
<1> DEFINE c == CloseSocket(r)
           d == [c.stream EXCEPT !.open = FALSE, !.writeOpen = FALSE,
                                 !.closeWritePending = FALSE, !.rx = <<>>]
           shut == "Closed"
           no == FALSE
           s == [c EXCEPT !.state = shut, !.busy = no, !.stream = d]
<1>1. Down(c, r) /\ c \in Sessions /\ c.stream \in Directs
  BY CloseSocketDown, SeqFacts DEF Down
<1>2. d \in Directs /\ d.id = c.stream.id /\ ~d.open /\ d.rx = <<>>
  BY <1>1, ClosedStream
<1>3. Close(r) = Emit(s, "Closed")
  BY DEF Close
<1>4. no \in BOOLEAN /\ ~no
  OBVIOUS
<1> HIDE DEF c, d, no
<1>5. /\ s \in Sessions /\ s.tx = c.tx /\ s.net = c.net /\ s.rx = c.rx
      /\ s.sendNonce = c.sendNonce /\ s.recvNonce = c.recvNonce
      /\ s.stage = c.stage /\ s.state = "Closed" /\ s.yamux = c.yamux
      /\ s.stream = d /\ s.nextStreamId = c.nextStreamId
      /\ s.negotiation = c.negotiation /\ s.socketOpen = c.socketOpen /\ s.busy = no
  BY <1>1, <1>2, <1>4 DEF Sessions
<1> HIDE DEF s
<1>6. Apart(Emit(s, "Closed"), s)
  BY <1>5, EmitApart DEF Events
<1> QED BY <1>1, <1>2, <1>3, <1>4, <1>5, <1>6 DEF Apart, Down, Shut, Smaller, Outgoing

LEMMA FailShut ==
    ASSUME NEW r \in Sessions, r.state \notin {"Failed", "Closed"}
    PROVE  Shut(Fail(r), r)
<1> DEFINE s == [r EXCEPT !.state = "Failed"]
           q == Emit(s, "Error")
<1>1. EmitError(r) = q
  BY DEF EmitError
<1>2. /\ s \in Sessions /\ s.tx = r.tx /\ s.net = r.net /\ s.rx = r.rx
      /\ s.sendNonce = r.sendNonce /\ s.recvNonce = r.recvNonce
      /\ s.stage = r.stage /\ s.state = "Failed" /\ s.yamux = r.yamux
      /\ s.stream = r.stream /\ s.nextStreamId = r.nextStreamId
      /\ s.negotiation = r.negotiation /\ s.socketOpen = r.socketOpen /\ s.busy = r.busy
  BY DEF Sessions
<1> HIDE DEF s
<1>3. Apart(q, s)
  BY <1>2, EmitApart DEF Events
<1> HIDE DEF q
<1>4. q \in Sessions /\ q.state # "Closed"
  BY <1>2, <1>3 DEF Apart
<1>5. Shut(Close(q), q)
  BY <1>4, CloseShut
<1> QED BY <1>1, <1>2, <1>3, <1>5 DEF Fail, Apart, Shut, Smaller, Outgoing

LEMMA CreateStreamRenewed ==
    ASSUME NEW r \in Sessions, NEW inbound \in BOOLEAN
    PROVE  LET q == CreateStream(r, inbound) IN
           /\ Renewed(q, r) /\ q.stream.open = TRUE
           /\ q.tx = r.tx /\ q.net = r.net /\ q.rx = r.rx
<1> DEFINE d  == [id |-> r.nextStreamId, open |-> TRUE, writeOpen |-> TRUE,
                  closeWritePending |-> FALSE, rx |-> <<>>]
           i  == r.nextStreamId + 1
           p  == IF inbound THEN r.pending + 1 ELSE r.pending
           s  == [r EXCEPT !.stream = d, !.nextStreamId = i, !.pending = p]
           x  == IF inbound THEN "StreamAccepted" ELSE "StreamOpened"
<1>n. r.nextStreamId \in Nat /\ r.pending \in Nat
  BY DEF Sessions
<1>2. d \in Directs /\ d.id = r.nextStreamId /\ d.open = TRUE /\ d.rx = <<>>
  <2> DEFINE nil == <<>>
             w == [id |-> r.nextStreamId, open |-> TRUE, writeOpen |-> TRUE,
                   closeWritePending |-> FALSE, rx |-> nil]
  <2>1. nil \in Seq(Texts)
    OBVIOUS
  <2> HIDE DEF nil
  <2>2. w \in Directs
    BY <1>n, <2>1 DEF Directs
  <2>3. w.id = r.nextStreamId /\ w.open = TRUE /\ w.rx = nil
    OBVIOUS
  <2> QED BY <2>2, <2>3 DEF nil
<1>3. i \in Nat /\ p \in Nat
  BY <1>n
<1>4. CreateStream(r, inbound) = Emit(s, x)
  BY DEF CreateStream
<1>5. x \in Events
  BY DEF Events
<1>i. i = r.nextStreamId + 1
  OBVIOUS
<1> HIDE DEF d, i, p, x
<1>6. /\ s \in Sessions /\ s.tx = r.tx /\ s.net = r.net /\ s.rx = r.rx
      /\ s.sendNonce = r.sendNonce /\ s.recvNonce = r.recvNonce
      /\ s.stage = r.stage /\ s.state = r.state /\ s.yamux = r.yamux
      /\ s.stream = d /\ s.nextStreamId = i
      /\ s.negotiation = r.negotiation /\ s.socketOpen = r.socketOpen /\ s.busy = r.busy
  BY <1>2, <1>3 DEF Sessions
<1> HIDE DEF s
<1>7. Apart(Emit(s, x), s)
  BY <1>5, <1>6, EmitApart
<1> QED BY <1>2, <1>4, <1>6, <1>7, <1>i DEF Apart, Renewed, Smaller, Outgoing

\* A session becomes ready.
Becomes(q, r) ==
    /\ q \in Sessions
    /\ Outgoing(q) \subseteq Outgoing(r) /\ EncOf(q.rx) \subseteq EncOf(r.rx)
    /\ q.sendNonce = r.sendNonce /\ q.recvNonce = r.recvNonce
    /\ q.stage = "Ready" /\ q.socketOpen = r.socketOpen /\ q.busy = r.busy
    /\ q.stream.rx = <<>> /\ q.nextStreamId = q.stream.id + 1
    /\ q.stream.open => ~q.yamux /\ q.stream.id # 0

LEMMA BecomesWell ==
    ASSUME TypeInv, NEW e \in End, NEW q, NEW r, NEW sent, NEW got,
           Becomes(q, r), Near(e, r, sent, got), r.stage # "Ready",
           IsDirect(e) => r.sendNonce = Base(e), r.recvNonce = Base(e) + Len(q.negotiation)
    PROVE  Well(e, q, sent, got)
<1>1. ReceivesOk(e, r, got) /\ r \in Sessions /\ sent = 0
  BY DEF Near
<1>2. got = <<>> /\ r.stream.rx = <<>>
  BY <1>1 DEF ReceivesOk
<1>3. Outs(e, q) \subseteq Outs(e, r) /\ Ins(e, q) \subseteq Ins(e, r)
  BY DEF Outs, Ins, Becomes
<1>4. /\ Numbered(e, Outs(e, q), ep[Other(e)].recvNonce, q.sendNonce)
      /\ Numbered(Other(e), Ins(e, q), q.recvNonce, ep[Other(e)].sendNonce)
  BY <1>3, NumberedLess DEF Near, Becomes
<1>5. Counted(Other(e), ep[Other(e)], appSent[Other(e)], Ins(e, q), q.recvNonce)
  BY <1>3, CountedLess DEF Near, Becomes
<1>6. Counted(e, q, sent, Outs(e, q), ep[Other(e)].recvNonce)
  <2>1. Base(e) \in Nat
    BY BaseType
  <2>2. IsDirect(e) => Placed(e, sent + 1, q.sendNonce)
    BY <1>1, <2>1 DEF Placed, Becomes
  <2> QED BY <2>2 DEF Counted
<1>7. GotOk(e, q, got)
  BY <1>1, <1>2 DEF GotOk
<1>8. DOMAIN q.stream.rx = {}
  BY DEF Becomes
<1>f. FirstOk(e, q, got) /\ q.recvNonce >= Base(e)
  <2> DEFINE n == Len(q.negotiation)
             b == q.stream.rx
  <2>1. n \in Nat /\ Base(e) \in Nat /\ Len(b) = 0
    BY SeqFacts, BaseType, LenEmpty DEF Becomes
  <2>2. q.recvNonce = Base(e) + n + Len(b) /\ q.recvNonce >= Base(e)
    BY <2>1 DEF Becomes
  <2> QED BY <1>2, <2>2 DEF FirstOk, Becomes
<1>9. ReceivesOk(e, q, got)
  BY <1>1, <1>2, <1>7, <1>8, <1>f DEF ReceivesOk, Becomes
<1>10. Near(e, q, sent, got)
  BY <1>1, <1>4, <1>5, <1>6, <1>9 DEF Near, Becomes
<1> QED BY <1>10 DEF Well, Quiet, Becomes

\* complete_ready_state, with the muxer chosen.
Prepared(q, r) ==
    /\ q \in Sessions
    /\ q.net = r.net /\ q.tx = r.tx /\ q.rx = r.rx
    /\ q.sendNonce = r.sendNonce /\ q.recvNonce = r.recvNonce
    /\ q.stream = r.stream /\ q.nextStreamId = r.nextStreamId
    /\ q.socketOpen = r.socketOpen /\ q.busy = r.busy

LEMMA CompleteBecomes ==
    ASSUME NEW r, NEW s, Prepared(s, r), r.stream.rx = <<>>, ~r.stream.open,
           r.nextStreamId = r.stream.id + 1
    PROVE  /\ Becomes(CompleteReadyState(s), r)
           /\ CompleteReadyState(s).negotiation = s.negotiation
<1> DEFINE ev    == s.events \o ReadyEvents
           no    == FALSE
           ready == [s EXCEPT !.stage = "Ready", !.state = "Ready", !.events = ev]
           t     == [ready EXCEPT !.createInbound = no]
           c     == CreateStream(t, TRUE)
<1>0. s \in Sessions
  BY DEF Prepared
<1>1. ev \in Seq(Events) /\ no \in BOOLEAN
  <2>1. ReadyEvents \in Seq(Events) /\ s.events \in Seq(Events)
    BY <1>0, SeqFacts DEF ReadyEvents, Events
  <2> QED BY <2>1
<1>2. CompleteReadyState(s) = ready \/ (CompleteReadyState(s) = c /\ ~s.yamux)
  BY DEF CompleteReadyState, ReadyEvents
<1> HIDE DEF ev, no
<1>3. /\ ready \in Sessions /\ ready.stage = "Ready" /\ ready.yamux = s.yamux
      /\ ready.net = s.net /\ ready.tx = s.tx /\ ready.rx = s.rx
      /\ ready.sendNonce = s.sendNonce /\ ready.recvNonce = s.recvNonce
      /\ ready.stream = s.stream /\ ready.nextStreamId = s.nextStreamId
      /\ ready.socketOpen = s.socketOpen /\ ready.busy = s.busy
      /\ ready.negotiation = s.negotiation
  BY <1>0, <1>1 DEF Sessions
<1> HIDE DEF ready
<1>4. Apart(t, ready)
  BY <1>1, <1>3 DEF Sessions, Apart
<1> HIDE DEF t
<1>5. t \in Sessions
  BY <1>4 DEF Apart
<1>6. Renewed(c, t) /\ c.stream.open = TRUE
  BY <1>5, CreateStreamRenewed
<1> HIDE DEF c
<1>7. Becomes(ready, r)
  BY <1>3 DEF Becomes, Prepared, Outgoing
<1>n. ready.negotiation = s.negotiation /\ c.negotiation = s.negotiation
  BY <1>3, <1>4, <1>6 DEF Apart, Renewed
<1>8. ASSUME ~s.yamux PROVE Becomes(c, r)
  <2>1. /\ c.stream.id = t.nextStreamId /\ c.nextStreamId = t.nextStreamId + 1
        /\ t.nextStreamId = t.stream.id + 1 /\ t.stream.id \in Nat
    BY <1>3, <1>4, <1>5, <1>6, SeqFacts DEF Renewed, Directs, Apart, Prepared
  <2>2. c.nextStreamId = c.stream.id + 1 /\ c.stream.id # 0
    BY <2>1
  <2>3. /\ c \in Sessions /\ Outgoing(c) \subseteq Outgoing(t) /\ EncOf(c.rx) \subseteq EncOf(t.rx)
        /\ c.sendNonce = t.sendNonce /\ c.recvNonce = t.recvNonce /\ c.stage = t.stage
        /\ c.yamux = t.yamux /\ c.socketOpen = t.socketOpen /\ c.busy = t.busy
        /\ c.stream.rx = <<>>
    BY <1>6 DEF Renewed, Smaller
  <2>4. Outgoing(t) = Outgoing(r) /\ t.rx = r.rx
    BY <1>3, <1>4 DEF Apart, Prepared, Outgoing
  <2> QED BY <1>3, <1>4, <1>8, <2>2, <2>3, <2>4 DEF Becomes, Apart, Prepared
<1> QED BY <1>2, <1>7, <1>8, <1>n

LEMMA CompleteWell ==
    ASSUME TypeInv, NEW e \in End, NEW s, NEW r, NEW sent, NEW got,
           Prepared(s, r), Near(e, r, sent, got), r.stage # "Ready",
           IsDirect(e) => r.sendNonce = Base(e), r.recvNonce = Base(e) + Len(s.negotiation)
    PROVE  Well(e, CompleteReadyState(s), sent, got)
<1>1. ReceivesOk(e, r, got) /\ ~r.stream.open
  BY DEF Near
<1>2. r.stream.rx = <<>> /\ r.nextStreamId = r.stream.id + 1
  BY <1>1 DEF ReceivesOk, FirstOk
<1> DEFINE q == CompleteReadyState(s)
<1>3. Becomes(q, r) /\ q.negotiation = s.negotiation
  BY <1>1, <1>2, CompleteBecomes
<1> HIDE DEF q
<1>4. r.recvNonce = Base(e) + Len(q.negotiation)
  BY <1>3
<1>5. Well(e, q, sent, got)
  BY <1>3, <1>4, BecomesWell
<1> QED BY <1>5 DEF q

\* A muxer is chosen from what has been received.
LEMMA MuxerChosenWell ==
    ASSUME TypeInv, NEW e \in End, NEW r, NEW sent, NEW got, NEW m \in Names,
           Near(e, r, sent, got), r.stage # "Ready", r.negotiation # <<>>,
           Base(e) = 1, IsDirect(e) => r.sendNonce = Base(e)
    PROVE  Well(e, MuxerChosen(r, m), sent, got)
<1> DEFINE t    == Tail(r.negotiation)
           yes  == TRUE
           no   == FALSE
           done == [r EXCEPT !.negotiation = t]
           with == [done EXCEPT !.muxer = m]
           y    == [with EXCEPT !.yamux = yes, !.createInbound = no]
           s    == CASE m = "na" -> done [] m = "yamux" -> y [] OTHER -> with
<1>1. r \in Sessions /\ ReceivesOk(e, r, got)
  BY DEF Near
<1>2. t \in Seq(Texts) /\ yes \in BOOLEAN /\ no \in BOOLEAN
  BY <1>1, SeqFacts, HeadTailProperties
<1>3. MuxerChosen(r, m) = CompleteReadyState(s)
  BY DEF MuxerChosen, ActivateYamux
<1>l. Len(r.negotiation) \in Nat /\ Len(t) = Len(r.negotiation) - 1
  BY <1>1, SeqFacts, HeadTailProperties
<1> HIDE DEF t, yes, no
<1>4. Prepared(done, r) /\ done.negotiation = t
  BY <1>1, <1>2 DEF Prepared, Sessions
<1> HIDE DEF done
<1>5. Prepared(with, done) /\ with.negotiation = t
  BY <1>4 DEF Prepared, Sessions
<1> HIDE DEF with
<1>6. Prepared(y, with) /\ y.negotiation = t
  BY <1>2, <1>5 DEF Prepared, Sessions
<1> HIDE DEF y
<1>7. Prepared(s, r) /\ s.negotiation = t
  BY <1>4, <1>5, <1>6 DEF Prepared
<1> HIDE DEF s
<1>8. r.recvNonce = Base(e) + Len(s.negotiation)
  <2>1. r.recvNonce = Len(r.negotiation)
    BY <1>1 DEF ReceivesOk, FirstOk
  <2> QED BY <1>7, <1>l, <2>1
<1> QED BY <1>3, <1>7, <1>8, CompleteWell

----------------------------------------------------------------------------
(* Direct streams in every step.                                           *)

LEMMA SelfWell ==
    ASSUME SessionInv, DirectInv, Compatible, NEW e \in End
    PROVE  Well(e, ep[e], appSent[e], appGot[e])
<1>1. Other(e) \in End /\ Other(Other(e)) = e
  BY OtherEnd
<1>2. ep[e] \in Sessions /\ appSent[e] \in Nat
  BY DEF SessionInv, TypeInv
<1>3. Frames(e) = Outs(e, ep[e]) /\ Frames(Other(e)) = Ins(e, ep[e])
  BY <1>1 DEF Frames, Outs, Ins
<1>4. /\ Numbered(e, Outs(e, ep[e]), ep[Other(e)].recvNonce, ep[e].sendNonce)
      /\ Counted(e, ep[e], appSent[e], Outs(e, ep[e]), ep[Other(e)].recvNonce)
      /\ SendsOk(e, ep[e], appSent[e]) /\ ReceivesOk(e, ep[e], appGot[e])
  BY <1>3 DEF DirectInv
<1>5. /\ Numbered(Other(e), Ins(e, ep[e]), ep[e].recvNonce, ep[Other(e)].sendNonce)
      /\ Counted(Other(e), ep[Other(e)], appSent[Other(e)], Ins(e, ep[e]), ep[e].recvNonce)
  BY <1>1, <1>3 DEF DirectInv
<1>6. /\ ep[e].stream.open => ep[e].stage = "Ready" /\ ~ep[e].yamux
      /\ ep[e].stage # "Ready" => appSent[e] = 0
      /\ Quiet(e, ep[e])
  BY <1>4 DEF SendsOk, Quiet
<1> QED BY <1>2, <1>4, <1>5, <1>6 DEF Well, Near

LEMMA BothMatched ==
    ASSUME TypeInv, Compatible, NEW e \in End
    PROVE  Matched(e)
<1>1. Selected("ini") = Selected("res")
  BY SameSelection
<1>2. conf.muxers["ini"] = <<>> <=> conf.muxers["res"] = <<>>
  BY DEF Compatible
<1>3. Exchange("ini") <=> Exchange("res")
  BY <1>1, <1>2 DEF Exchange
<1>4. IsDirect("ini") <=> IsDirect("res")
  BY <1>1, <1>3 DEF IsDirect
<1> QED BY <1>3, <1>4 DEF Matched, Other, End

\* A step of the session g at e, after which the peer has perhaps sent less.
LEMMA TwoEnds ==
    ASSUME SessionInv, DirectInv, NEW e \in End, NEW g, NEW k, conf' = conf,
           Compatible => Well(e, g, appSent'[e], appGot'[e]),
           ep'[e] = g, ep'[Other(e)] = k, Calm(k, ep[Other(e)]), k.rx = ep[Other(e)].rx,
           appSent'[Other(e)] = appSent[Other(e)], appGot'[Other(e)] = appGot[Other(e)]
    PROVE  DirectInv'
<1> DEFINE o == Other(e)
           a == Outgoing(g) \cup EncOf(k.rx)
           b == Outgoing(k) \cup EncOf(g.rx)
<1>1. /\ o \in End /\ o # e /\ Other(o) = e /\ \A f \in End : f = e \/ f = o
  BY OtherEnd DEF End, Other
<1>2. ASSUME NEW f
      PROVE  (IsDirect(f)' <=> IsDirect(f)) /\ Base(f)' = Base(f)
  <2>1. Selected(f)' = Selected(f)
    BY DEF Selected, SelectStreamMuxer, Offered
  <2>2. Exchange(f)' <=> Exchange(f)
    BY <2>1 DEF Exchange
  <2>3. Answer' = Answer
    BY DEF Answer, Proposal
  <2> QED BY <2>1, <2>2, <2>3 DEF IsDirect, Base
<1>3. SUFFICES ASSUME Compatible
               PROVE  \A f \in End :
                        /\ Numbered(f, Frames(f), ep[Other(f)].recvNonce, ep[f].sendNonce)'
                        /\ Counted(f, ep[f], appSent[f], Frames(f), ep[Other(f)].recvNonce)'
                        /\ SendsOk(f, ep[f], appSent[f])'
                        /\ ReceivesOk(f, ep[f], appGot[f])'
  <2>1. Compatible' <=> Compatible
    BY DEF Compatible
  <2> QED BY <2>1 DEF DirectInv
<1>4. Well(o, ep[o], appSent[o], appGot[o]) /\ Well(e, g, appSent'[e], appGot'[e])
  BY <1>1, <1>3, SelfWell
<1>5. Well(o, k, appSent[o], appGot[o])
  BY <1>4, CalmWell
<1>6. a = Outs(e, g) /\ b \subseteq Ins(e, g)
      /\ k.recvNonce = ep[o].recvNonce /\ k.sendNonce = ep[o].sendNonce
      /\ k.stage = ep[o].stage
  BY DEF Outs, Ins, Calm, Smaller
<1>7. /\ Numbered(e, a, k.recvNonce, g.sendNonce)
      /\ Counted(e, g, appSent'[e], a, k.recvNonce)
  BY <1>4, <1>6 DEF Well, Near
<1>8. Numbered(o, b, g.recvNonce, k.sendNonce)
  BY <1>4, <1>6, NumberedLess DEF Well, Near
<1>9. Counted(o, k, appSent[o], b, g.recvNonce)
  BY <1>4, <1>6, CountedLess DEF Well, Near
<1>10. /\ SendsOk(e, g, appSent'[e]) /\ ReceivesOk(e, g, appGot'[e])
       /\ SendsOk(o, k, appSent[o]) /\ ReceivesOk(o, k, appGot[o])
  BY <1>4, <1>5 DEF Well, Near, Quiet, SendsOk
<1>11. Frames(e)' = a /\ Frames(o)' = b
  BY <1>1 DEF Frames, Outgoing
<1> HIDE DEF a, b
<1>12. /\ Numbered(e, Frames(e), ep[Other(e)].recvNonce, ep[e].sendNonce)'
       /\ Numbered(o, Frames(o), ep[Other(o)].recvNonce, ep[o].sendNonce)'
  BY <1>1, <1>2, <1>7, <1>8, <1>11 DEF Numbered, Placed
<1>13. /\ Counted(e, ep[e], appSent[e], Frames(e), ep[Other(e)].recvNonce)'
       /\ Counted(o, ep[o], appSent[o], Frames(o), ep[Other(o)].recvNonce)'
  BY <1>1, <1>2, <1>7, <1>9, <1>11 DEF Counted, Placed
<1>14. SendsOk(e, ep[e], appSent[e])' /\ SendsOk(o, ep[o], appSent[o])'
  BY <1>1, <1>10 DEF SendsOk
<1>15. /\ ReceivesOk(e, ep[e], appGot[e])'
  BY <1>2, <1>10 DEF ReceivesOk, FirstOk, GotOk, Placed
<1>16. /\ ReceivesOk(o, ep[o], appGot[o])'
  BY <1>2, <1>10 DEF ReceivesOk, FirstOk, GotOk, Placed
<1> HIDE DEF o
<1> QED BY <1>1, <1>12, <1>13, <1>14, <1>15, <1>16

LEMMA PutWell ==
    ASSUME SessionInv, DirectInv, NEW e \in End, NEW g, Put(e, g),
           Well(e, g, appSent[e], appGot[e])
    PROVE  DirectInv'
<1>1. Other(e) \in End /\ Other(e) # e
  BY OtherEnd
<1>2. /\ ep'[e] = g /\ ep'[Other(e)] = ep[Other(e)] /\ conf' = conf
      /\ appSent' = appSent /\ appGot' = appGot
  BY <1>1 DEF Put, SessionInv, TypeInv
<1>3. Calm(ep[Other(e)], ep[Other(e)])
  BY <1>1, ApartCalm DEF Apart, SessionInv, TypeInv
<1> QED BY <1>2, <1>3, TwoEnds

\* The session that takes the step.
LEMMA SelfDirect ==
    ASSUME SessionInv, MuxerInv, DirectInv, Compatible, NEW e \in End
    PROVE  LET r == ep[e] IN
           /\ r \in Sessions /\ TypeInv /\ Matched(e)
           /\ Well(e, r, appSent[e], appGot[e]) /\ Near(e, r, appSent[e], appGot[e])
           /\ Quiet(e, r)
           /\ SaysOk(e, r) /\ MuxerOk(e, r) /\ r.state # "Failed"
           /\ r.busy => r.state \notin {"Closed", "TcpAccepted", "Failed"}
           /\ r.state = "Ready" => r.stage = "Ready"
           /\ (r.stage = "Ready" /\ ~r.yamux) => IsDirect(e)
           /\ (r.stage = "Ready" /\ r.yamux) => ~IsDirect(e)
           /\ r.stage = "MuxerNegotiation" => Exchange(e)
<1>1. TypeInv /\ ep[e] \in Sessions /\ SessionOk(e, ep[e])
  BY DEF SessionInv, StoryInv, TypeInv
<1>2. Well(e, ep[e], appSent[e], appGot[e])
  BY SelfWell
<1>3. SaysOk(e, ep[e]) /\ MuxerOk(e, ep[e])
  BY DEF MuxerInv
<1>4. Matched(e)
  BY <1>1, BothMatched
<1>5. ep[e].stage = "Ready" => (ep[e].yamux <=> ~IsDirect(e))
  BY <1>3 DEF MuxerOk, IsDirect
<1>6. ep[e].stage = "MuxerNegotiation" => Exchange(e)
  BY <1>3 DEF MuxerOk
<1> QED BY <1>1, <1>2, <1>3, <1>4, <1>5, <1>6 DEF SessionOk, Well

LEMMA FailedWell ==
    ASSUME NEW e, NEW r, NEW sent, NEW got, Near(e, r, sent, got),
           r.state \notin {"Failed", "Closed"}
    PROVE  Well(e, Fail(r), sent, got)
<1>1. r \in Sessions
  BY DEF Near
<1> QED BY <1>1, FailShut, ShutNear

LEMMA ClosedWell ==
    ASSUME NEW e, NEW r, NEW sent, NEW got, Near(e, r, sent, got), r.state # "Closed"
    PROVE  Well(e, Close(r), sent, got)
<1>1. r \in Sessions
  BY DEF Near
<1> QED BY <1>1, CloseShut, ShutNear

\* A later stage of the upgrade.
Staged(q, r) ==
    /\ q \in Sessions
    /\ q.net = r.net /\ q.tx = r.tx /\ q.rx = r.rx
    /\ q.sendNonce = r.sendNonce /\ q.recvNonce = r.recvNonce
    /\ q.stream = r.stream /\ q.nextStreamId = r.nextStreamId /\ q.yamux = r.yamux
    /\ q.negotiation = r.negotiation /\ q.socketOpen = r.socketOpen /\ q.busy = r.busy
    /\ q.state = r.state

LEMMA StagedNear ==
    ASSUME NEW e, NEW r, NEW q, NEW sent, NEW got, Staged(q, r), Near(e, r, sent, got),
           r.stage # "Ready", q.stage # "Ready"
    PROVE  Near(e, q, sent, got)
<1>1. Outs(e, q) = Outs(e, r) /\ Ins(e, q) = Ins(e, r)
  BY DEF Outs, Ins, Outgoing, Staged
<1>2. GotOk(e, q, got)
  BY DEF Near, ReceivesOk, GotOk, Staged
<1>f. FirstOk(e, q, got)
  BY DEF Near, ReceivesOk, FirstOk, Staged
<1>3. ReceivesOk(e, q, got)
  BY <1>2, <1>f DEF Near, ReceivesOk, Staged
<1>4. Counted(e, q, sent, Outs(e, q), ep[Other(e)].recvNonce)
  BY DEF Counted
<1>5. ~q.stream.open /\ sent = 0
  BY DEF Near, Staged
<1> QED BY <1>1, <1>3, <1>4, <1>5 DEF Near, Staged

LEMMA HandshakeWell ==
    ASSUME NEW e, NEW r, NEW sent, NEW got, Near(e, r, sent, got),
           r.stage # "Ready", r.sendNonce = 0,
           NEW h \in {"AwaitingMsg1", "AwaitingMsg2"}
    PROVE  LET q == [r EXCEPT !.stage = "NoiseHandshake", !.hs = h] IN
           Well(e, q, sent, got) /\ q.state = r.state
<1> DEFINE q == [r EXCEPT !.stage = "NoiseHandshake", !.hs = h]
<1>1. r \in Sessions
  BY DEF Near
<1>2. Staged(q, r) /\ q.stage = "NoiseHandshake"
  BY <1>1 DEF Staged, Sessions
<1> HIDE DEF q
<1>3. Near(e, q, sent, got)
  BY <1>2, StagedNear
<1>4. Quiet(e, q)
  BY <1>2 DEF Quiet, Staged
<1> QED BY <1>2, <1>3, <1>4 DEF Well, Staged, q

\* A message of the upgrade is queued and sent, or the session fails.
LEMMA PlainWell ==
    ASSUME TypeInv, NEW e \in End, NEW r, NEW sent, NEW got, Well(e, r, sent, got),
           r.state \notin {"Failed", "Closed"},
           NEW kind \in {"msPropose", "msAccept", "msg1", "msg2", "msg3"}
    PROVE  LET out == Queue(r, Plain(kind))
               f   == FlushPending(e, out) IN
           /\ Well(e, Fail(out), sent, got) /\ Well(e, Close(out), sent, got)
           /\ Well(e, f, sent, got)
           /\ f.rx = r.rx /\ f.state = r.state /\ f.stage = r.stage
           /\ f.sendNonce = r.sendNonce
<1> DEFINE m   == Plain(kind)
           out == Queue(r, m)
           f   == FlushPending(e, out)
<1>1. m \in Messages /\ m.kind # "enc"
  BY PlainType
<1>2. r \in Sessions
  BY DEF Well, Near
<1> HIDE DEF m
<1>3. /\ Calm(out, r) /\ out \in Sessions /\ out.state = r.state /\ out.rx = r.rx
      /\ out.stage = r.stage
  BY <1>1, <1>2, QueueCalm, QueueFields DEF SameStory
<1> HIDE DEF out
<1>4. Well(e, out, sent, got)
  BY <1>3, CalmWell
<1>5. Well(e, Fail(out), sent, got) /\ Well(e, Close(out), sent, got)
  BY <1>3, <1>4, FailedWell, ClosedWell DEF Well
<1>6. Calm(f, out) /\ SameInput(f, out)
  BY <1>3, FlushPendingCalm, FlushPendingStep
<1> HIDE DEF f
<1>7. Well(e, f, sent, got)
  BY <1>4, <1>6, CalmWell
<1>8. f.rx = r.rx /\ f.state = r.state /\ f.stage = r.stage /\ f.sendNonce = r.sendNonce
  BY <1>3, <1>6 DEF SameInput, SameStory, Calm, Smaller
<1> QED BY <1>5, <1>7, <1>8 DEF f, out, m

LEMMA NegotiateProtocolWell ==
    ASSUME SessionInv, MuxerInv, DirectInv, Compatible, NEW e \in End, NegotiateProtocol(e)
    PROVE  DirectInv'
<1> DEFINE r    == ep[e]
           m    == Head(r.rx)
           sent == appSent[e]
           got  == appGot[e]
<1>1. r.busy /\ r.stage = "NegotiatingProtocol" /\ r.rx # <<>>
  BY DEF NegotiateProtocol
<1>2. /\ TypeInv /\ r \in Sessions /\ Well(e, r, sent, got) /\ Quiet(e, r)
      /\ r.state \notin {"Closed", "TcpAccepted", "Failed"}
  BY <1>1, SelfDirect
<1>3. r.sendNonce = 0
  BY <1>1, <1>2 DEF Quiet
<1> HIDE DEF sent, got
<1>p. ASSUME NEW g, Well(e, g, sent, got), Put(e, g) PROVE DirectInv'
  BY <1>p, PutWell DEF sent, got
<1>4. CASE \E fail \in SendMayFail(e) :
              LET out == Queue(r, Plain("msAccept")) IN
              Put(e, IF fail THEN Fail(out)
                     ELSE [Popped(FlushPending(e, out)) EXCEPT
                              !.stage = "NoiseHandshake", !.hs = "AwaitingMsg1"])
  <2> DEFINE out == Queue(r, Plain("msAccept"))
             f   == FlushPending(e, out)
             p   == Popped(f)
             q   == [p EXCEPT !.stage = "NoiseHandshake", !.hs = "AwaitingMsg1"]
  <2>1. Put(e, Fail(out)) \/ Put(e, q)
    BY <1>4
  <2>2. /\ Well(e, Fail(out), sent, got) /\ Well(e, f, sent, got)
        /\ f.rx = r.rx /\ f.state = r.state /\ f.stage = r.stage /\ f.sendNonce = r.sendNonce
    BY <1>2, PlainWell
  <2> HIDE DEF f, out
  <2>3. f \in Sessions /\ f.rx # <<>>
    BY <1>1, <2>2 DEF Well, Near
  <2>4. Calm(p, f)
    BY <2>3, PoppedCalm
  <2> HIDE DEF p
  <2>5. Near(e, p, sent, got) /\ p.stage # "Ready" /\ p.sendNonce = 0
    BY <1>1, <1>3, <2>2, <2>4, CalmNear DEF Well, Calm, Smaller
  <2>6. Well(e, q, sent, got)
    BY <2>5, HandshakeWell
  <2> QED BY <1>p, <2>1, <2>2, <2>6
<1>5. CASE \E fail \in SendMayFail(e) :
              LET out == Queue([Popped(r) EXCEPT !.stage = "NoiseHandshake",
                                                 !.hs = "AwaitingMsg2"],
                               Plain("msg1"))
              IN Put(e, IF fail THEN Fail(out) ELSE FlushPending(e, out))
  <2> DEFINE p   == Popped(r)
             h   == [p EXCEPT !.stage = "NoiseHandshake", !.hs = "AwaitingMsg2"]
             out == Queue(h, Plain("msg1"))
  <2>1. Put(e, Fail(out)) \/ Put(e, FlushPending(e, out))
    BY <1>5
  <2>2. Calm(p, r) /\ p.state = r.state
    BY <1>1, <1>2, PoppedCalm, PoppedFields DEF SameStory
  <2> HIDE DEF p
  <2>3. Near(e, p, sent, got) /\ p.stage # "Ready" /\ p.sendNonce = 0
    BY <1>1, <1>2, <1>3, <2>2, CalmNear DEF Well, Calm, Smaller
  <2>4. Well(e, h, sent, got) /\ h.state = r.state
    BY <2>2, <2>3, HandshakeWell
  <2> HIDE DEF h
  <2>5. Well(e, Fail(out), sent, got) /\ Well(e, FlushPending(e, out), sent, got)
    BY <1>2, <2>4, PlainWell
  <2> QED BY <1>p, <2>1, <2>5
<1>6. CASE Put(e, Fail(r))
  <2>1. Well(e, Fail(r), sent, got)
    BY <1>2, FailedWell DEF Well
  <2> QED BY <1>6, <1>p, <2>1
<1> QED BY <1>4, <1>5, <1>6 DEF NegotiateProtocol

LEMMA AuthApart ==
    ASSUME TypeInv, NEW e \in End, NEW r \in Sessions
    PROVE  LET q == [Authenticated(e, r) EXCEPT !.hs = "Complete"] IN
           Apart(q, r) /\ q.remoteMuxers = Offered(e)
<1> DEFINE p == conf.identity[Other(e)]
           l == IF p THEN conf.muxers[Other(e)] ELSE <<>>
           h == "Complete"
           q == [r EXCEPT !.remotePeer = p, !.remoteMuxers = l, !.hs = h]
<1>1. p \in BOOLEAN /\ conf.muxers[Other(e)] \in Seq(STRING)
  BY OtherEnd DEF TypeInv
<1>2. l \in Seq(STRING)
  <2> DEFINE nil == <<>>
  <2>1. nil \in Seq(STRING)
    OBVIOUS
  <2> HIDE DEF nil
  <2>2. (IF p THEN conf.muxers[Other(e)] ELSE nil) \in Seq(STRING)
    BY <1>1, <2>1
  <2> QED BY <2>2 DEF nil
<1>3. l = Offered(e)
  BY DEF Offered
<1>4. [Authenticated(e, r) EXCEPT !.hs = "Complete"] = q
  BY DEF Authenticated
<1> HIDE DEF p, l
<1>5. q \in Sessions /\ q.remoteMuxers = l
  BY <1>1, <1>2 DEF Sessions
<1>6. Apart(q, r)
  BY <1>5 DEF Sessions, Apart
<1> HIDE DEF q
<1> QED BY <1>3, <1>4, <1>5, <1>6

\* A muxer is written down, and perhaps yamux started.
LEMMA ChosenPrepared ==
    ASSUME NEW r \in Sessions, NEW m \in Names
    PROVE  LET q == [r EXCEPT !.muxer = m] IN
           /\ Prepared(q, r) /\ q.negotiation = r.negotiation
           /\ Prepared(ActivateYamux(q), r) /\ ActivateYamux(q).negotiation = r.negotiation
<1> DEFINE yes == TRUE
           no  == FALSE
           q   == [r EXCEPT !.muxer = m]
           y   == [q EXCEPT !.yamux = yes, !.createInbound = no]
<1>1. yes \in BOOLEAN /\ no \in BOOLEAN
  OBVIOUS
<1>2. ActivateYamux(q) = y
  BY DEF ActivateYamux
<1> HIDE DEF yes, no
<1>3. Prepared(q, r) /\ q.negotiation = r.negotiation
  BY DEF Prepared, Sessions
<1> HIDE DEF q
<1>4. Prepared(y, q) /\ y.negotiation = q.negotiation
  BY ZenonT(30), <1>1, <1>3 DEF Prepared, Sessions
<1> HIDE DEF y
<1>5. Prepared(y, r) /\ y.negotiation = r.negotiation
  BY <1>3, <1>4 DEF Prepared
<1> QED BY <1>2, <1>3, <1>5 DEF q

LEMMA FinishWell ==
    ASSUME TypeInv, NEW e \in End, NEW r, NEW sent, NEW got, Near(e, r, sent, got),
           r.stage = "NoiseHandshake", r.sendNonce = 0, r.remoteMuxers = Offered(e),
           r.state \notin {"Failed", "Closed"}, NEW fail
    PROVE  Well(e, FinishSecureUpgrade(e, r, fail), sent, got)
<1> DEFINE sel   == SelectStreamMuxer(e, r)
           neg   == [r EXCEPT !.muxer = sel, !.stage = "MuxerNegotiation"]
           plain == [r EXCEPT !.muxer = sel]
           y     == ActivateYamux(plain)
           first == conf.muxers[e][1]
           x     == Text("propose", first, 0)
           out   == QueueEncrypted(neg, x)
<1>1. r \in Sessions /\ sel \in Names /\ r.recvNonce \in Nat /\ r.recvNonce >= 0
  BY SelectType, SeqFacts DEF Near
<1>2. sel = Selected(e)
  BY DEF Selected, SelectStreamMuxer
<1>3. CASE ~ExpectedPeerOk(e, r)
  <2>1. Well(e, Fail(r), sent, got)
    BY FailedWell
  <2> QED BY <1>3, <2>1 DEF FinishSecureUpgrade
<1> HIDE DEF sel
<1>4. /\ Prepared(plain, r) /\ plain.negotiation = r.negotiation
      /\ Prepared(y, r) /\ y.negotiation = r.negotiation
  BY <1>1, ChosenPrepared
<1>n. r.recvNonce = Len(r.negotiation)
  BY DEF Near, ReceivesOk, FirstOk
<1>5. CASE ExpectedPeerOk(e, r) /\ sel = "yamux"
  <2>1. FinishSecureUpgrade(e, r, fail) = CompleteReadyState(y)
    BY <1>5 DEF FinishSecureUpgrade, sel
  <2> HIDE DEF plain, y
  <2>2. ~IsDirect(e) /\ Base(e) = 0
    BY <1>2, <1>5 DEF IsDirect, Exchange, Base
  <2>n. r.recvNonce = Base(e) + Len(y.negotiation)
    BY <1>1, <1>4, <1>n, <2>2
  <2>3. Well(e, CompleteReadyState(y), sent, got)
    BY <1>1, <1>4, <2>2, <2>n, CompleteWell
  <2> QED BY <2>1, <2>3
<1>6. CASE ExpectedPeerOk(e, r) /\ sel # "yamux" /\ conf.muxers[e] = <<>>
  <2>1. FinishSecureUpgrade(e, r, fail) = CompleteReadyState(plain)
    BY <1>6 DEF FinishSecureUpgrade, sel
  <2> HIDE DEF plain, y
  <2>2. Base(e) = 0
    BY <1>6 DEF Exchange, Base
  <2>n. r.recvNonce = Base(e) + Len(plain.negotiation)
    BY <1>1, <1>4, <1>n, <2>2
  <2>3. Well(e, CompleteReadyState(plain), sent, got)
    BY <1>1, <1>4, <2>2, <2>n, CompleteWell
  <2> QED BY <2>1, <2>3
<1>7. CASE ExpectedPeerOk(e, r) /\ sel # "yamux" /\ conf.muxers[e] # <<>>
  <2>1. FinishSecureUpgrade(e, r, fail) =
           IF e = "res" THEN neg ELSE IF fail THEN Fail(out) ELSE Flush(e, out)
    BY <1>7 DEF FinishSecureUpgrade, sel
  <2>2. Staged(neg, r) /\ neg.stage = "MuxerNegotiation"
    BY <1>1 DEF Staged, Sessions
  <2> HIDE DEF neg
  <2>3. Near(e, neg, sent, got)
    BY <2>2, StagedNear
  <2>4. Base(e) = 1
    BY <1>2, <1>7 DEF Exchange, Base
  <2>5. neg \in Sessions /\ neg.sendNonce = 0 /\ neg.state = r.state
    BY <2>2 DEF Staged
  <2>6. CASE e = "res"
    <3>1. Quiet(e, neg)
      BY <2>5, <2>6 DEF Quiet
    <3> QED BY <2>1, <2>3, <2>6, <3>1 DEF Well
  <2>7. CASE e = "ini"
    <3>1. first \in Names
      <4> DEFINE local == conf.muxers[e]
      <4>1. local \in Seq(STRING) /\ local # <<>>
        BY <1>7 DEF TypeInv
      <4> HIDE DEF local
      <4>2. local[1] \in STRING
        BY <4>1
      <4> QED BY <4>2 DEF Names, local
    <3> HIDE DEF first
    <3>2. x \in Texts
      BY <3>1 DEF Text, Texts
    <3> HIDE DEF x
    <3>3. Sent(out, neg, x)
      BY <2>5, <3>2, QueueEncryptedSent
    <3> HIDE DEF out
    <3>4. Near(e, out, sent, got)
      BY <2>2, <2>3, <2>4, <2>5, <3>2, <3>3, SentNear
    <3>5. out.sendNonce = 1 /\ out.state = r.state /\ out.stage = "MuxerNegotiation"
      BY <2>2, <2>5, <3>3 DEF Sent
    <3>6. Well(e, out, sent, got)
      BY <2>7, <3>4, <3>5 DEF Well, Quiet
    <3>7. Well(e, Fail(out), sent, got)
      BY <3>4, <3>5, FailedWell
    <3>8. Calm(Flush(e, out), out)
      BY <3>4, FlushCalm DEF Near
    <3>9. Well(e, Flush(e, out), sent, got)
      BY <3>6, <3>8, CalmWell
    <3>10. FinishSecureUpgrade(e, r, fail) = IF fail THEN Fail(out) ELSE Flush(e, out)
      BY <2>1, <2>7
    <3> QED BY <3>7, <3>9, <3>10
  <2> QED BY <2>6, <2>7 DEF End
<1> QED BY <1>3, <1>5, <1>6, <1>7

LEMMA HandshakeFrameWell ==
    ASSUME SessionInv, MuxerInv, DirectInv, Compatible, NEW e \in End, HandshakeFrame(e)
    PROVE  DirectInv'
<1> DEFINE s    == ep[e]
           r    == Popped(s)
           sent == appSent[e]
           got  == appGot[e]
<1>1. s.busy /\ s.stage = "NoiseHandshake" /\ s.rx # <<>>
  BY DEF HandshakeFrame
<1>2. /\ TypeInv /\ s \in Sessions /\ Well(e, s, sent, got) /\ Quiet(e, s) /\ SaysOk(e, s)
      /\ s.state \notin {"Closed", "TcpAccepted", "Failed"}
  BY <1>1, SelfDirect
<1>3. s.sendNonce = 0
  BY <1>1, <1>2 DEF Quiet
<1> HIDE DEF sent, got
<1>p. ASSUME NEW g, Well(e, g, sent, got), Put(e, g) PROVE DirectInv'
  BY <1>p, PutWell DEF sent, got
<1>4. /\ r \in Sessions /\ r.state = s.state /\ r.stage = "NoiseHandshake"
      /\ r.sendNonce = 0 /\ SaysOk(e, r)
  BY <1>1, <1>2, <1>3, PoppedFields, PoppedKeeps DEF SameStory, Keeps
<1>5. Well(e, r, sent, got)
  BY <1>1, <1>2, PoppedCalm, CalmWell
<1> HIDE DEF r
<1>6. ASSUME NEW out, out = Queue([r EXCEPT !.hs = "AwaitingMsg3"], Plain("msg2")),
             Put(e, Fail(out)) \/ Put(e, FlushPending(e, out))
      PROVE  DirectInv'
  <2> DEFINE h == [r EXCEPT !.hs = "AwaitingMsg3"]
  <2>1. Apart(h, r)
    BY <1>4 DEF Apart, Sessions
  <2>2. out = Queue(h, Plain("msg2"))
    BY <1>6 DEF h
  <2> HIDE DEF h
  <2>3. Well(e, h, sent, got) /\ h.state = r.state
    BY <1>5, <2>1, ApartCalm, CalmWell DEF Apart
  <2>4. Well(e, Fail(out), sent, got) /\ Well(e, FlushPending(e, out), sent, got)
    BY <1>2, <1>4, <2>2, <2>3, PlainWell
  <2> QED BY <1>6, <1>p, <2>4
<1> DEFINE a == [Authenticated(e, r) EXCEPT !.hs = "Complete"]
<1>7. /\ Well(e, a, sent, got) /\ a.remoteMuxers = Offered(e) /\ a \in Sessions
      /\ a.state = r.state /\ a.stage = "NoiseHandshake" /\ a.sendNonce = 0
  <2>1. Apart(a, r) /\ a.remoteMuxers = Offered(e)
    BY <1>2, <1>4, AuthApart
  <2> HIDE DEF a
  <2> QED BY <1>4, <1>5, <2>1, ApartCalm, CalmWell DEF Apart
<1>8. SaysOk(e, a)
  BY <1>2, <1>4, AuthenticatedKeeps
<1> HIDE DEF a
<1>9. ASSUME NEW out, out = Queue(a, Plain("msg3")), NEW again,
             \/ Put(e, Fail(out))
             \/ Put(e, FinishSecureUpgrade(e, FlushPending(e, out), again))
      PROVE  DirectInv'
  <2> DEFINE f == FlushPending(e, out)
  <2>1. Plain("msg3") \in Messages /\ Plain("msg3") \in MessagesOf(e)
    BY PlainType, PlainSaid
  <2>2. Keeps(e, out, a)
    BY <1>7, <1>8, <1>9, <2>1, QueueKeeps
  <2>3. Keeps(e, f, out)
    BY <1>2, <2>2, FlushPendingKeeps DEF Keeps
  <2>4. /\ Well(e, Fail(out), sent, got) /\ Well(e, f, sent, got)
        /\ f.state = a.state /\ f.stage = a.stage /\ f.sendNonce = a.sendNonce
    BY <1>2, <1>4, <1>7, <1>9, PlainWell
  <2> HIDE DEF f
  <2>5. f.remoteMuxers = Offered(e)
    BY <1>7, <2>2, <2>3 DEF Keeps, SameMuxer
  <2>6. Well(e, FinishSecureUpgrade(e, f, again), sent, got)
    BY <1>2, <1>4, <1>7, <2>4, <2>5, FinishWell DEF Well
  <2> QED BY <1>9, <1>p, <2>4, <2>6 DEF f
<1>10. ASSUME NEW fail, Put(e, FinishSecureUpgrade(e, a, fail)) PROVE DirectInv'
  <2>1. Well(e, FinishSecureUpgrade(e, a, fail), sent, got)
    BY <1>2, <1>4, <1>7, FinishWell DEF Well
  <2> QED BY <1>10, <1>p, <2>1
<1>11. ASSUME Put(e, Fail(r)) PROVE DirectInv'
  <2>1. Well(e, Fail(r), sent, got)
    BY <1>2, <1>4, <1>5, FailedWell DEF Well
  <2> QED BY <1>11, <1>p, <2>1
<1> QED BY <1>6, <1>9, <1>10, <1>11 DEF HandshakeFrame, r, a

LEMMA CollectNegotiationWell ==
    ASSUME SessionInv, MuxerInv, DirectInv, Compatible, NEW e \in End, CollectNegotiation(e)
    PROVE  DirectInv'
<1> DEFINE r    == ep[e]
           m    == Head(r.rx)
           p    == Popped(r)
           d    == Deciphered(r)
           t    == Append(d.negotiation, m.text)
           q    == [d EXCEPT !.negotiation = t]
           sent == appSent[e]
           got  == appGot[e]
<1>1. r.busy /\ r.stage = "MuxerNegotiation" /\ r.rx # <<>>
  BY DEF CollectNegotiation
<1>2. /\ TypeInv /\ r \in Sessions /\ Well(e, r, sent, got) /\ Near(e, r, sent, got)
      /\ Quiet(e, r) /\ r.state \notin {"Closed", "TcpAccepted", "Failed"}
  BY <1>1, SelfDirect
<1> HIDE DEF sent, got
<1>p. ASSUME NEW g, Well(e, g, sent, got), Put(e, g) PROVE DirectInv'
  BY <1>p, PutWell DEF sent, got
<1>3. /\ p.state = r.state /\ p.recvNonce = r.recvNonce /\ p.negotiation = r.negotiation
  BY <1>1, <1>2, PoppedFields DEF SameStory
<1>4. CASE Put(e, Fail(p))
  <2>1. Near(e, p, sent, got)
    BY <1>1, <1>2, PoppedCalm, CalmNear
  <2>2. Well(e, Fail(p), sent, got)
    BY <1>2, <1>3, <2>1, FailedWell
  <2> QED BY <1>4, <1>p, <2>2
<1>5. CASE Decrypts(p, m) /\ Put(e, [p EXCEPT !.recvNonce = @ + 1,
                                              !.negotiation = Append(@, m.text)])
  <2>1. d.negotiation = r.negotiation /\ d.stage = r.stage /\ d.state = r.state
        /\ d \in Sessions /\ m \in Messages
    BY <1>1, <1>2, DecipheredFields DEF SameStory
  <2>2. Put(e, [d EXCEPT !.negotiation = Append(p.negotiation, m.text)])
    BY <1>5 DEF Deciphered
  <2>3. Put(e, q)
    BY <1>3, <2>1, <2>2
  <2>4. Decrypts(r, m)
    BY <1>3, <1>5 DEF Decrypts
  <2>5. Took(d, r) /\ SameStream(d, r)
    BY <1>1, <1>2, <2>4, DecipheredTook
  <2> HIDE DEF d
  <2>6. t \in Seq(Texts)
    <3>1. d.negotiation \in Seq(Texts) /\ m.text \in Texts
      BY <2>1, SeqFacts DEF Messages
    <3> QED BY <3>1
  <2>a. Len(t) = Len(r.negotiation) + 1
    <3>1. d.negotiation \in Seq(Texts) /\ m.text \in Texts
      BY <2>1, SeqFacts DEF Messages
    <3> QED BY <2>1, <3>1
  <2> HIDE DEF t
  <2>7. /\ q \in Sessions /\ q.negotiation = t /\ q.net = d.net /\ q.tx = d.tx /\ q.rx = d.rx
        /\ q.sendNonce = d.sendNonce /\ q.recvNonce = d.recvNonce
        /\ q.stage = d.stage /\ q.state = d.state /\ q.yamux = d.yamux
        /\ q.stream = d.stream /\ q.nextStreamId = d.nextStreamId
        /\ q.socketOpen = d.socketOpen /\ q.busy = d.busy
    BY <2>1, <2>6 DEF Sessions
  <2> HIDE DEF q
  <2>8. Took(q, r) /\ SameStream(q, r)
    BY <2>5, <2>7 DEF Took, SameStream, Outgoing
  <2>n. Len(q.negotiation) = Len(r.negotiation) + 1
    BY <2>a, <2>7
  <2>9. Near(e, q, sent, got)
    BY <1>1, <1>2, <2>8, <2>n, TookNear
  <2>10. Quiet(e, q)
    BY <1>2, <2>8 DEF Quiet, Took
  <2> QED BY <1>p, <2>3, <2>9, <2>10 DEF Well
<1> QED BY <1>4, <1>5 DEF CollectNegotiation

\* process_pending_input comes to its end.
LEMMA DoneCalm ==
    ASSUME NEW r \in Sessions
    PROVE  Calm([r EXCEPT !.busy = FALSE], r)
<1> DEFINE no == FALSE
           q  == [r EXCEPT !.busy = no]
<1>1. no \in BOOLEAN /\ ~no
  OBVIOUS
<1> HIDE DEF no
<1>2. /\ q \in Sessions /\ q.net = r.net /\ q.tx = r.tx /\ q.rx = r.rx
      /\ q.sendNonce = r.sendNonce /\ q.recvNonce = r.recvNonce
      /\ q.stage = r.stage /\ q.state = r.state /\ q.yamux = r.yamux
      /\ q.stream = r.stream /\ q.nextStreamId = r.nextStreamId
      /\ q.negotiation = r.negotiation /\ q.socketOpen = r.socketOpen /\ q.busy = no
  BY <1>1 DEF Sessions
<1> HIDE DEF q
<1>3. Calm(q, r)
  BY <1>1, <1>2 DEF Calm, Smaller, SameStream, Outgoing
<1> QED BY <1>3 DEF q, no

LEMMA InputDoneWell ==
    ASSUME SessionInv, MuxerInv, DirectInv, Compatible, NEW e \in End,
           Put(e, [ep[e] EXCEPT !.busy = FALSE])
    PROVE  DirectInv'
<1>1. ep[e] \in Sessions /\ Well(e, ep[e], appSent[e], appGot[e])
  BY SelfDirect
<1>2. Well(e, [ep[e] EXCEPT !.busy = FALSE], appSent[e], appGot[e])
  BY <1>1, DoneCalm, CalmWell
<1> QED BY <1>2, PutWell

LEMMA DecideMuxerWell ==
    ASSUME SessionInv, MuxerInv, DirectInv, Compatible, NEW e \in End, DecideMuxer(e)
    PROVE  DirectInv'
<1> DEFINE r    == ep[e]
           t    == Head(r.negotiation)
           has  == {conf.muxers[e][i] : i \in DOMAIN conf.muxers[e]}
           ans  == IF t.m \in has THEN t.m ELSE "na"
           x    == Text("reply", ans, 0)
           out  == QueueEncrypted(r, x)
           sent == appSent[e]
           got  == appGot[e]
<1>1. r.busy /\ r.stage = "MuxerNegotiation" /\ r.negotiation # <<>>
  BY DEF DecideMuxer
<1>2. /\ TypeInv /\ r \in Sessions /\ Well(e, r, sent, got) /\ Near(e, r, sent, got)
      /\ Quiet(e, r) /\ r.state \notin {"Closed", "TcpAccepted", "Failed"} /\ Exchange(e)
  BY <1>1, SelfDirect
<1> HIDE DEF sent, got
<1>p. ASSUME NEW g, Well(e, g, sent, got), Put(e, g) PROVE DirectInv'
  BY <1>p, PutWell DEF sent, got
<1>3. Base(e) = 1 /\ r.sendNonce = IF e = "ini" THEN 1 ELSE 0
  BY <1>1, <1>2 DEF Base, Quiet
<1>4. t.m \in Names
  <2>1. r.negotiation \in Seq(Texts)
    BY <1>2, SeqFacts
  <2>2. t \in Texts
    BY <1>1, <2>1, HeadTailProperties
  <2> QED BY <2>2 DEF Texts
<1>5. ASSUME e = "res", Put(e, Fail(out)) \/ Put(e, MuxerChosen(Flush(e, out), ans))
      PROVE  DirectInv'
  <2> DEFINE f == Flush(e, out)
  <2>1. ans \in Names
    BY <1>4 DEF Names
  <2>2. Put(e, Fail(out)) \/ Put(e, MuxerChosen(f, ans))
    BY <1>5
  <2> HIDE DEF ans
  <2>3. x \in Texts
    BY <2>1 DEF Text, Texts
  <2> HIDE DEF x
  <2>4. Sent(out, r, x)
    BY <1>2, <2>3, QueueEncryptedSent
  <2> HIDE DEF out
  <2>5. r.sendNonce = 0 /\ r.sendNonce < Base(e)
    BY <1>3, <1>5
  <2>6. Near(e, out, sent, got)
    BY <1>1, <1>2, <2>3, <2>4, <2>5, SentNear
  <2>7. /\ out \in Sessions /\ out.sendNonce = 1 /\ out.state = r.state
        /\ out.stage = r.stage /\ out.negotiation = r.negotiation
    BY <2>4, <2>5 DEF Sent
  <2>8. Well(e, Fail(out), sent, got)
    BY <1>2, <2>6, <2>7, FailedWell
  <2>9. Calm(f, out) /\ f.negotiation = out.negotiation
    BY <1>2, <2>7, FlushCalm, FlushStep DEF SameInput
  <2> HIDE DEF f
  <2>10. Near(e, f, sent, got) /\ f.stage # "Ready" /\ f.sendNonce = Base(e)
    BY <1>1, <1>3, <2>6, <2>7, <2>9, CalmNear DEF Calm, Smaller
  <2>11. f.negotiation # <<>>
    BY <1>1, <2>7, <2>9
  <2>12. Well(e, MuxerChosen(f, ans), sent, got)
    BY <1>2, <1>3, <2>1, <2>10, <2>11, MuxerChosenWell
  <2> QED BY <1>p, <2>2, <2>8, <2>12
<1>6. ASSUME e = "ini", Put(e, MuxerChosen(r, t.m)) PROVE DirectInv'
  <2>1. r.sendNonce = Base(e)
    BY <1>3, <1>6
  <2>2. Well(e, MuxerChosen(r, t.m), sent, got)
    BY <1>1, <1>2, <1>3, <1>4, <2>1, MuxerChosenWell
  <2> QED BY <1>6, <1>p, <2>2
<1>7. ASSUME Put(e, Fail(r)) PROVE DirectInv'
  <2>1. Well(e, Fail(r), sent, got)
    BY <1>2, FailedWell
  <2> QED BY <1>7, <1>p, <2>1
<1>8. ASSUME Put(e, [r EXCEPT !.busy = FALSE]) PROVE DirectInv'
  BY <1>8, InputDoneWell
<1> QED BY <1>5, <1>6, <1>7, <1>8 DEF DecideMuxer

LEMMA DeliverFrameWell ==
    ASSUME SessionInv, MuxerInv, DirectInv, Compatible, NEW e \in End, DeliverFrame(e)
    PROVE  DirectInv'
<1> DEFINE s    == ep[e]
           m    == Head(s.rx)
           r    == Deciphered(s)
           d    == IF r.stream.open THEN r ELSE CreateStream(r, TRUE)
           n    == r.pending + 1
           u    == [r EXCEPT !.pending = n]
           syn  == Emit(u, "StreamAccepted")
           x    == Text("ack", "none", 0)
           out  == QueueEncrypted(syn, x)
           sent == appSent[e]
           got  == appGot[e]
<1>1. s.busy /\ s.stage = "Ready" /\ s.rx # <<>>
  BY DEF DeliverFrame
<1>2. /\ TypeInv /\ s \in Sessions /\ Near(e, s, sent, got) /\ Matched(e)
      /\ s.state \notin {"Closed", "TcpAccepted", "Failed"}
      /\ (~s.yamux => IsDirect(e)) /\ (s.yamux => ~IsDirect(e))
  BY <1>1, SelfDirect
<1> HIDE DEF sent, got
<1>p. ASSUME NEW g, Near(e, g, sent, got), g.stage = "Ready", Put(e, g) PROVE DirectInv'
  <2>1. Well(e, g, sent, got)
    BY <1>p DEF Well, Quiet
  <2> QED BY <1>p, <2>1, PutWell DEF sent, got
<1>3. CASE Put(e, Fail(Popped(s)))
  <2>1. Near(e, Popped(s), sent, got) /\ Popped(s).state = s.state
    BY <1>1, <1>2, PoppedCalm, CalmNear, PoppedFields DEF SameStory
  <2>2. Well(e, Fail(Popped(s)), sent, got)
    BY <1>2, <2>1, FailedWell
  <2> QED BY <1>3, <2>2, PutWell DEF sent, got
<1>4. m.text \in Texts /\ r \in Sessions /\ r.pending \in Nat
  <2>1. m \in Messages /\ r \in Sessions
    BY <1>1, <1>2, DecipheredFields
  <2> QED BY <2>1 DEF Messages, Sessions
<1>5. ASSUME Decrypts(s, m) PROVE Took(r, s) /\ SameStream(r, s) /\ r.stream = s.stream
  BY <1>1, <1>2, <1>5, DecipheredTook
<1>w. ASSUME Decrypts(s, m)
      PROVE  /\ r.yamux = s.yamux /\ r.stage = "Ready" /\ r.net = s.net /\ r.tx = s.tx
             /\ r.negotiation = s.negotiation
  BY <1>1, <1>2, <1>5, <1>w, DecipheredFields DEF Took
<1> HIDE DEF r
<1>6. CASE Decrypts(s, m) /\ ~r.yamux /\ Put(e, [d EXCEPT !.stream.rx = Append(@, m.text)])
  <2>1. Took(r, s) /\ SameStream(r, s) /\ r.stream = s.stream /\ ~s.yamux
    BY <1>5, <1>6, <1>w
  <2> DEFINE c == d.stream
             a == c.rx
             i == d.nextStreamId
             p == [s EXCEPT !.stream = c, !.nextStreamId = i]
             b == Append(a, m.text)
             y == [c EXCEPT !.rx = b]
             q == [d EXCEPT !.stream = y]
  <2>2. Put(e, q)
    BY <1>6
  <2>3. /\ d \in Sessions /\ d.net = r.net /\ d.tx = r.tx /\ d.rx = r.rx
        /\ d.sendNonce = r.sendNonce /\ d.recvNonce = r.recvNonce
        /\ d.stage = r.stage /\ d.state = r.state /\ d.yamux = r.yamux
        /\ d.negotiation = r.negotiation /\ d.socketOpen = r.socketOpen /\ d.busy = r.busy
        /\ d.stream.open = TRUE
        /\ \/ c = s.stream /\ i = s.nextStreamId
           \/ c.id = s.nextStreamId /\ a = <<>> /\ i = s.nextStreamId + 1
    <3>1. CASE r.stream.open
      <4>1. d = r
        BY <3>1
      <4>2. r.stream.open = TRUE
        BY <1>4, <3>1, SeqFacts DEF Directs
      <4>3. r.nextStreamId = s.nextStreamId
        BY <2>1 DEF SameStream
      <4> QED BY <1>4, <2>1, <4>1, <4>2, <4>3
    <3>2. CASE ~r.stream.open
      <4>1. d = CreateStream(r, TRUE)
        BY <3>2
      <4>2. /\ Renewed(d, r) /\ d.stream.open = TRUE
            /\ d.tx = r.tx /\ d.net = r.net /\ d.rx = r.rx
        BY <1>4, <4>1, CreateStreamRenewed
      <4>3. r.nextStreamId = s.nextStreamId
        BY <2>1 DEF SameStream
      <4> HIDE DEF d
      <4> QED BY <4>2, <4>3 DEF Renewed, Smaller
    <3> QED BY <3>1, <3>2
  <2> HIDE DEF d
  <2>4. c \in Directs /\ i \in Nat
    BY <2>3, SeqFacts DEF Sessions
  <2> HIDE DEF c, i
  <2>5. /\ p \in Sessions /\ p.net = s.net /\ p.tx = s.tx /\ p.rx = s.rx
        /\ p.sendNonce = s.sendNonce /\ p.recvNonce = s.recvNonce
        /\ p.stage = s.stage /\ p.state = s.state /\ p.yamux = s.yamux
        /\ p.negotiation = s.negotiation /\ p.socketOpen = s.socketOpen /\ p.busy = s.busy
        /\ p.stream = c /\ p.nextStreamId = i
    BY <1>2, <2>4 DEF Sessions
  <2> HIDE DEF p
  <2>6. Near(e, p, sent, got)
    <3>1. CASE c = s.stream /\ i = s.nextStreamId
      <4>1. Apart(p, s)
        BY <2>5, <3>1 DEF Apart
      <4> QED BY <1>2, <4>1, ApartCalm, CalmNear
    <3>2. CASE c.id = s.nextStreamId /\ a = <<>> /\ i = s.nextStreamId + 1
      <4>1. Renewed(p, s)
        BY <2>5, <3>2 DEF Renewed, Smaller, Outgoing
      <4> QED BY <1>1, <1>2, <2>1, <4>1, RenewedNear
    <3>3. \/ c = s.stream /\ i = s.nextStreamId
          \/ c.id = s.nextStreamId /\ a = <<>> /\ i = s.nextStreamId + 1
      BY <2>3 DEF c, i
    <3> QED BY <3>1, <3>2, <3>3
  <2>7. a \in Seq(Texts)
    BY <2>4 DEF Directs
  <2>8. b \in Seq(Texts)
    BY <1>4, <2>7
  <2>9. b = Append(p.stream.rx, m.text)
    BY <2>5
  <2> HIDE DEF a, b
  <2>10. y \in Directs /\ y.id = c.id /\ y.rx = b /\ y.open = c.open
    BY <2>4, <2>8 DEF Directs
  <2> HIDE DEF y
  <2>11. /\ q \in Sessions /\ q.net = d.net /\ q.tx = d.tx /\ q.rx = d.rx
         /\ q.sendNonce = d.sendNonce /\ q.recvNonce = d.recvNonce
         /\ q.stage = d.stage /\ q.state = d.state /\ q.yamux = d.yamux
         /\ q.negotiation = d.negotiation /\ q.socketOpen = d.socketOpen /\ q.busy = d.busy
         /\ q.stream = y /\ q.nextStreamId = d.nextStreamId
    BY <2>3, <2>10 DEF Sessions
  <2> HIDE DEF q
  <2>12. Filled(q, p, Head(p.rx).text)
    BY <1>w, <1>6, <2>3, <2>5, <2>9, <2>10, <2>11 DEF Filled, i
  <2>13. Took(q, p)
    BY <1>w, <1>6, <2>1, <2>3, <2>5, <2>11 DEF Took, Outgoing
  <2>14. s.socketOpen /\ p.socketOpen /\ p.stream.open
    BY <1>1, <1>2, <2>3, <2>5 DEF Near, ReceivesOk, c
  <2>15. Near(e, q, sent, got)
    BY <1>1, <1>2, <2>1, <2>5, <2>6, <2>12, <2>13, <2>14, FilledNear
  <2>16. q.stage = "Ready"
    BY <1>6, <1>w, <2>3, <2>11
  <2> QED BY <1>p, <2>2, <2>15, <2>16
<1>7. ASSUME Decrypts(s, m), r.yamux PROVE Near(e, r, sent, got) /\ ~IsDirect(e) /\ r.stage = "Ready"
  BY <1>1, <1>2, <1>5, <1>7, <1>w, TookNear
<1>8. CASE Decrypts(s, m) /\ r.yamux
           /\ \E fail \in SendMayFail(e) : Put(e, IF fail THEN out ELSE Flush(e, out))
  <2>1. Near(e, r, sent, got) /\ ~IsDirect(e) /\ n \in Nat /\ r.stage = "Ready"
    BY <1>4, <1>7, <1>8
  <2>2. Put(e, out) \/ Put(e, Flush(e, out))
    BY <1>8
  <2> HIDE DEF n
  <2>3. Apart(u, r)
    BY <1>4, <2>1 DEF Apart, Sessions
  <2> HIDE DEF u
  <2>4. Apart(syn, u)
    BY <2>3, EmitApart DEF Apart, Events
  <2> HIDE DEF syn
  <2>5. Near(e, syn, sent, got) /\ syn \in Sessions /\ syn.stage = "Ready"
    BY <2>1, <2>3, <2>4, ApartCalm, CalmNear DEF Apart
  <2>6. x \in Texts
    BY DEF Text, Texts, Names
  <2> HIDE DEF x
  <2>7. Sent(out, syn, x)
    BY <2>5, <2>6, QueueEncryptedSent
  <2> HIDE DEF out
  <2>8. Near(e, out, sent, got) /\ out \in Sessions /\ out.stage = "Ready"
    BY <1>2, <2>1, <2>5, <2>6, <2>7, SentNear DEF Sent
  <2>9. Calm(Flush(e, out), out)
    BY <2>8, FlushCalm
  <2>10. Near(e, Flush(e, out), sent, got) /\ Flush(e, out).stage = "Ready"
    BY <2>8, <2>9, CalmNear DEF Calm, Smaller
  <2> QED BY <1>p, <2>2, <2>8, <2>10
<1>9. CASE Decrypts(s, m) /\ r.yamux /\ Put(e, r)
  BY <1>7, <1>9, <1>p
<1> QED BY <1>3, <1>6, <1>8, <1>9 DEF DeliverFrame, Deciphered, r

LEMMA PendingInputWell ==
    ASSUME SessionInv, MuxerInv, DirectInv, Compatible, NEW e \in End, ProcessPendingInput(e)
    PROVE  DirectInv'
  BY NegotiateProtocolWell, HandshakeFrameWell, CollectNegotiationWell, DecideMuxerWell,
     DeliverFrameWell, InputDoneWell DEF ProcessPendingInput, InputDone

\* What one end takes, the other has no longer on its way.
LEMMA ReceiveWell ==
    ASSUME SessionInv, MuxerInv, DirectInv, Compatible, NEW e \in End, Receive(e)
    PROVE  DirectInv'
<1> DEFINE r    == ep[e]
           o    == Other(e)
           k    == ep[o]
           sent == appSent[e]
           got  == appGot[e]
<1>1. /\ o \in End /\ o # e /\ conf' = conf /\ appSent' = appSent /\ appGot' = appGot
      /\ IsActive(r)
  BY OtherEnd DEF Receive
<1>2. /\ TypeInv /\ r \in Sessions /\ k \in Sessions /\ Well(e, r, sent, got)
  BY <1>1, SelfDirect DEF TypeInv
<1> HIDE DEF sent, got
<1>3. PICK n \in DOMAIN k.net :
         LET batch == SubSeq(k.net, 1, n)
             rest  == [k EXCEPT !.net = SubSeq(@, n + 1, Len(@))]
             mine  == IF batch[n] = Eof THEN Close(r)
                      ELSE [r EXCEPT !.rx = @ \o batch, !.busy = TRUE]
         IN ep' = [ep EXCEPT ![e] = mine, ![o] = rest]
  BY DEF Receive
<1> DEFINE batch == SubSeq(k.net, 1, n)
           left  == SubSeq(k.net, n + 1, Len(k.net))
           rest  == [k EXCEPT !.net = left]
           rx    == r.rx \o batch
           yes   == TRUE
           more  == [r EXCEPT !.rx = rx, !.busy = yes]
           mine  == IF batch[n] = Eof THEN Close(r) ELSE more
<1>4. ep' = [ep EXCEPT ![e] = mine, ![o] = rest]
  BY <1>3
<1>5. /\ batch \in Seq(Messages) /\ left \in Seq(Messages) /\ r.rx \in Seq(Messages)
      /\ EncOf(batch) \subseteq EncOf(k.net) /\ EncOf(left) \subseteq EncOf(k.net)
      /\ yes \in BOOLEAN
  <2>1. k.net \in Seq(Messages) /\ r.rx \in Seq(Messages)
    BY <1>2, SeqFacts
  <2>2. n \in 0 .. Len(k.net)
    BY <2>1
  <2>3. EncOf(batch) \subseteq EncOf(k.net) /\ EncOf(left) \subseteq EncOf(k.net)
    BY <2>1, <2>2, EncSubSeq
  <2>4. batch \in Seq(Messages) /\ left \in Seq(Messages)
    BY <2>1, <2>2, SplitSaid
  <2> QED BY <2>1, <2>3, <2>4
<1> HIDE DEF batch, left
<1>6. rx \in Seq(Messages) /\ EncOf(rx) \subseteq EncOf(r.rx) \cup EncOf(k.net)
  <2>1. EncOf(rx) \subseteq EncOf(r.rx) \cup EncOf(batch)
    BY <1>5, EncConcat
  <2> QED BY <1>5, <2>1
<1> HIDE DEF rx, yes
<1>7. /\ rest \in Sessions /\ rest.net = left /\ rest.tx = k.tx /\ rest.rx = k.rx
      /\ rest.sendNonce = k.sendNonce /\ rest.recvNonce = k.recvNonce
      /\ rest.stage = k.stage /\ rest.state = k.state /\ rest.yamux = k.yamux
      /\ rest.stream = k.stream /\ rest.nextStreamId = k.nextStreamId
      /\ rest.negotiation = k.negotiation /\ rest.socketOpen = k.socketOpen
      /\ rest.busy = k.busy
  BY <1>2, <1>5 DEF Sessions
<1>8. /\ more \in Sessions /\ more.net = r.net /\ more.tx = r.tx /\ more.rx = rx
      /\ more.sendNonce = r.sendNonce /\ more.recvNonce = r.recvNonce
      /\ more.stage = r.stage /\ more.state = r.state /\ more.yamux = r.yamux
      /\ more.stream = r.stream /\ more.nextStreamId = r.nextStreamId
      /\ more.negotiation = r.negotiation /\ more.socketOpen = r.socketOpen
  BY <1>2, <1>5, <1>6 DEF Sessions
<1> HIDE DEF rest, more
<1>9. Calm(rest, k)
  BY <1>5, <1>7 DEF Calm, Smaller, SameStream, Outgoing
<1>10. Well(e, Close(r), sent, got)
  BY <1>1, <1>2, ClosedWell DEF IsActive, Well
<1>11. Well(e, more, sent, got)
  <2>1. Outs(e, more) = Outs(e, r) /\ Ins(e, more) \subseteq Ins(e, r)
    BY <1>6, <1>8 DEF Outs, Ins, Outgoing
  <2>2. Near(e, r, sent, got) /\ Quiet(e, r)
    BY <1>2 DEF Well
  <2>3. /\ Numbered(e, Outs(e, more), k.recvNonce, more.sendNonce)
        /\ Numbered(o, Ins(e, more), more.recvNonce, k.sendNonce)
    BY <1>8, <2>1, <2>2, NumberedLess DEF Near
  <2>4. /\ Counted(e, more, sent, Outs(e, more), k.recvNonce)
        /\ Counted(o, k, appSent[o], Ins(e, more), more.recvNonce)
    BY <1>8, <2>1, <2>2, CountedLess DEF Near
  <2>5. GotOk(e, more, got)
    BY <1>8, <2>2 DEF Near, ReceivesOk, GotOk
  <2>f. FirstOk(e, more, got)
    BY <1>8, <2>2 DEF Near, ReceivesOk, FirstOk
  <2>6. ReceivesOk(e, more, got)
    BY <1>1, <1>8, <2>2, <2>5, <2>f DEF Near, ReceivesOk, IsActive
  <2>7. Near(e, more, sent, got)
    BY <1>8, <2>2, <2>3, <2>4, <2>6 DEF Near
  <2>8. Quiet(e, more)
    BY <1>8, <2>2 DEF Quiet
  <2> QED BY <2>7, <2>8 DEF Well
<1>12. Well(e, mine, sent, got)
  BY <1>10, <1>11
<1> HIDE DEF mine
<1>13. ep'[e] = mine /\ ep'[o] = rest
  BY <1>1, <1>2, <1>4 DEF TypeInv
<1> QED BY <1>1, <1>7, <1>9, <1>12, <1>13, TwoEnds DEF sent, got

LEMMA SocketWell ==
    ASSUME SessionInv, MuxerInv, DirectInv, Compatible, NEW e \in End, Socket(e)
    PROVE  DirectInv'
<1> DEFINE r    == ep[e]
           sent == appSent[e]
           got  == appGot[e]
<1>1. r \in Sessions /\ Well(e, r, sent, got) /\ Near(e, r, sent, got) /\ r.state # "Failed"
  BY SelfDirect
<1> HIDE DEF sent, got
<1>2. CASE OnSocketReadable(e)
  <2>1. CASE Receive(e)
    BY <2>1, ReceiveWell
  <2>2. CASE RecvFails(e)
    <3>1. Put(e, Fail(r)) /\ r.state # "Closed"
      BY <2>2 DEF RecvFails, IsActive
    <3>2. Well(e, Fail(r), sent, got)
      BY <1>1, <3>1, FailedWell
    <3> QED BY <3>1, <3>2, PutWell DEF sent, got
  <2> QED BY <1>2, <2>1, <2>2 DEF OnSocketReadable
<1>3. CASE OnSocketWritable(e)
  <2>1. (Put(e, Fail(r)) \/ Put(e, FlushPending(e, r))) /\ r.state # "Closed"
    BY <1>3 DEF OnSocketWritable, IsActive
  <2>2. Well(e, Fail(r), sent, got)
    BY <1>1, <2>1, FailedWell
  <2>3. Well(e, FlushPending(e, r), sent, got)
    BY <1>1, FlushPendingCalm, CalmWell
  <2> QED BY <2>1, <2>2, <2>3, PutWell DEF sent, got
<1>4. CASE OnSocketError(e)
  <2>1. Put(e, Close(r)) /\ r.state # "Closed"
    BY <1>4 DEF OnSocketError, IsActive
  <2>2. Well(e, Close(r), sent, got)
    BY <1>1, <2>1, ClosedWell
  <2> QED BY <2>1, <2>2, PutWell DEF sent, got
<1> QED BY <1>2, <1>3, <1>4 DEF Socket

LEMMA BeginWell ==
    ASSUME SessionInv, MuxerInv, DirectInv, Compatible, NEW e \in End, Begin(e)
    PROVE  DirectInv'
<1> DEFINE s    == ep[e]
           c    == e = "res"
           r    == [s EXCEPT !.state = "Securing", !.createInbound = c]
           out  == Queue(r, Plain("msPropose"))
           sent == appSent[e]
           got  == appGot[e]
<1>1. TypeInv /\ s \in Sessions /\ Well(e, s, sent, got) /\ s.state # "Closed"
  BY SelfDirect DEF Begin
<1> HIDE DEF sent, got
<1>2. Put(e, r) \/ Put(e, Close(out)) \/ Put(e, FlushPending(e, out))
  BY DEF Begin
<1>3. c \in BOOLEAN
  OBVIOUS
<1> HIDE DEF c
<1>4. /\ r \in Sessions /\ r.net = s.net /\ r.tx = s.tx /\ r.rx = s.rx
      /\ r.sendNonce = s.sendNonce /\ r.recvNonce = s.recvNonce
      /\ r.stage = s.stage /\ r.state = "Securing" /\ r.yamux = s.yamux
      /\ r.stream = s.stream /\ r.nextStreamId = s.nextStreamId
      /\ r.negotiation = s.negotiation /\ r.socketOpen = s.socketOpen /\ r.busy = s.busy
  BY <1>1, <1>3 DEF Sessions
<1> HIDE DEF r
<1>5. Calm(r, s)
  BY <1>1, <1>4 DEF Calm, Smaller, SameStream, Outgoing
<1>6. Well(e, r, sent, got)
  BY <1>1, <1>5, CalmWell
<1>7. Well(e, Close(out), sent, got) /\ Well(e, FlushPending(e, out), sent, got)
  BY <1>1, <1>4, <1>6, PlainWell
<1> HIDE DEF out
<1> QED BY <1>2, <1>6, <1>7, PutWell DEF sent, got

LEMMA RequestOpenStreamWell ==
    ASSUME SessionInv, MuxerInv, DirectInv, Compatible, NEW e \in End, RequestOpenStream(e)
    PROVE  DirectInv'
<1> DEFINE s    == ep[e]
           i    == s.opens + 1
           r    == [s EXCEPT !.opens = i]
           x    == Text("syn", "none", 0)
           out  == QueueEncrypted(r, x)
           f    == Flush(e, out)
           g    == Emit(f, "StreamOpened")
           h    == CreateStream(r, FALSE)
           sent == appSent[e]
           got  == appGot[e]
<1>1. s \in Sessions /\ i \in Nat
  BY SelfDirect DEF Sessions
<1>2. (r.yamux /\ (Put(e, out) \/ Put(e, g))) \/ (~r.yamux /\ Put(e, h))
  BY DEF RequestOpenStream
<1> HIDE DEF i
<1>3. Apart(r, s)
  BY <1>1 DEF Apart, Sessions
<1>4. r.state = "Ready"
  BY DEF RequestOpenStream, i
<1> HIDE DEF r
<1>5. /\ TypeInv /\ Near(e, s, sent, got) /\ s.stage = "Ready"
      /\ (s.yamux => ~IsDirect(e))
  BY <1>3, <1>4, SelfDirect DEF Apart
<1> HIDE DEF sent, got
<1>p. ASSUME NEW q, Near(e, q, sent, got), q.stage = "Ready", Put(e, q) PROVE DirectInv'
  <2>1. Well(e, q, sent, got)
    BY <1>p DEF Well, Quiet
  <2> QED BY <1>p, <2>1, PutWell DEF sent, got
<1>6. /\ Near(e, r, sent, got) /\ r.stage = "Ready" /\ r \in Sessions
      /\ (r.yamux => ~IsDirect(e))
  BY <1>3, <1>5, ApartCalm, CalmNear DEF Apart
<1>7. CASE r.yamux /\ (Put(e, out) \/ Put(e, g))
  <2>1. x \in Texts
    BY DEF Text, Texts, Names
  <2> HIDE DEF x
  <2>2. Sent(out, r, x)
    BY <1>6, <2>1, QueueEncryptedSent
  <2> HIDE DEF out
  <2>3. Near(e, out, sent, got) /\ out \in Sessions /\ out.stage = "Ready"
    BY <1>5, <1>6, <1>7, <2>1, <2>2, SentNear DEF Sent
  <2>4. Calm(f, out)
    BY <2>3, FlushCalm
  <2> HIDE DEF f
  <2>5. Near(e, f, sent, got) /\ f.stage = "Ready" /\ f \in Sessions
    BY <2>3, <2>4, CalmNear DEF Calm, Smaller
  <2>6. Apart(g, f)
    BY <2>5, EmitApart DEF Events
  <2> HIDE DEF g
  <2>7. Near(e, g, sent, got) /\ g.stage = "Ready"
    BY <2>5, <2>6, ApartCalm, CalmNear DEF Apart
  <2> QED BY <1>7, <1>p, <2>3, <2>7
<1>8. CASE ~r.yamux /\ Put(e, h)
  <2>1. Renewed(h, r)
    BY <1>6, CreateStreamRenewed
  <2> HIDE DEF h
  <2>2. Near(e, h, sent, got) /\ h.stage = "Ready"
    BY <1>6, <1>8, <2>1, RenewedNear DEF Renewed, Smaller
  <2> QED BY <1>8, <1>p, <2>2
<1> QED BY <1>2, <1>7, <1>8

LEMMA OwnerWell ==
    ASSUME SessionInv, MuxerInv, DirectInv, Compatible, NEW e \in End, Owner(e)
    PROVE  DirectInv'
<1> DEFINE r    == ep[e]
           sent == appSent[e]
           got  == appGot[e]
<1>1. r \in Sessions /\ Near(e, r, sent, got) /\ r.state # "Failed"
  BY SelfDirect
<1> HIDE DEF sent, got
<1>2. CASE Begin(e)
  BY <1>2, BeginWell
<1>3. CASE OwnerClose(e)
  <2>1. Put(e, Close(r)) /\ r.state # "Closed"
    BY <1>3 DEF OwnerClose, Put
  <2>2. Well(e, Close(r), sent, got)
    BY <1>1, <2>1, ClosedWell
  <2> QED BY <2>1, <2>2, PutWell DEF sent, got
<1>4. CASE OnTimeout(e)
  <2>1. Put(e, Fail(r)) /\ r.state # "Closed"
    BY <1>4 DEF OnTimeout, Put, IsActive
  <2>2. Well(e, Fail(r), sent, got)
    BY <1>1, <2>1, FailedWell
  <2> QED BY <2>1, <2>2, PutWell DEF sent, got
<1>5. CASE RequestOpenStream(e)
  BY <1>5, RequestOpenStreamWell
<1> QED BY <1>2, <1>3, <1>4, <1>5 DEF Owner

\* The stream is given up after a failed write.
LEMMA StreamDoneCalm ==
    ASSUME NEW r \in Sessions
    PROVE  LET q == [r EXCEPT !.stream.open = FALSE] IN Calm(q, r) /\ q.stage = r.stage
<1> DEFINE no == FALSE
           d  == [r.stream EXCEPT !.open = no]
           q  == [r EXCEPT !.stream = d]
<1>1. r.stream \in Directs /\ no \in BOOLEAN /\ ~no
  BY SeqFacts
<1>2. [r EXCEPT !.stream.open = FALSE] = q
  OBVIOUS
<1> HIDE DEF no
<1>3. d \in Directs /\ d.id = r.stream.id /\ d.rx = r.stream.rx /\ d.open = no
  BY <1>1 DEF Directs
<1> HIDE DEF d
<1>4. /\ q \in Sessions /\ q.net = r.net /\ q.tx = r.tx /\ q.rx = r.rx
      /\ q.sendNonce = r.sendNonce /\ q.recvNonce = r.recvNonce
      /\ q.stage = r.stage /\ q.state = r.state /\ q.yamux = r.yamux
      /\ q.stream = d /\ q.nextStreamId = r.nextStreamId
      /\ q.negotiation = r.negotiation /\ q.socketOpen = r.socketOpen /\ q.busy = r.busy
  BY <1>1, <1>3 DEF Sessions
<1> HIDE DEF q
<1>5. Calm(q, r)
  BY <1>1, <1>3, <1>4 DEF Calm, Smaller, SameStream, Outgoing
<1> QED BY <1>2, <1>4, <1>5

LEMMA CanWriteFacts ==
    ASSUME SessionInv, MuxerInv, DirectInv, Compatible, NEW e \in End, CanWrite(e)
    PROVE  ep[e].stage = "Ready" /\ ~ep[e].yamux /\ IsDirect(e)
<1>1. Near(e, ep[e], appSent[e], appGot[e])
  BY SelfDirect
<1>2. ep[e].stage = "Ready" /\ ~ep[e].yamux
  BY <1>1 DEF CanWrite, Near
<1> QED BY <1>2, SelfDirect

LEMMA StreamWriteWell ==
    ASSUME SessionInv, MuxerInv, DirectInv, Compatible, NEW e \in End, StreamWrite(e)
    PROVE  DirectInv'
<1> DEFINE r    == ep[e]
           sent == appSent[e]
           got  == appGot[e]
           n    == sent + 1
           x    == Text("app", "none", n)
           out  == QueueEncrypted(r, x)
           f    == FlushPending(e, out)
           q    == [out EXCEPT !.stream.open = FALSE]
<1>1. /\ TypeInv /\ r \in Sessions /\ Near(e, r, sent, got) /\ sent \in Nat
      /\ r.stage = "Ready" /\ IsDirect(e)
  BY SelfDirect, CanWriteFacts DEF StreamWrite, Near
<1>2. /\ conf' = conf /\ appGot' = appGot /\ Other(e) # e /\ Other(e) \in End
      /\ appSent'[e] = n /\ appSent'[Other(e)] = appSent[Other(e)]
      /\ ep'[Other(e)] = ep[Other(e)] /\ (ep'[e] = q \/ ep'[e] = f)
  BY <1>1, OtherEnd DEF StreamWrite, TypeInv
<1>3. n \in Nat
  BY <1>1
<1>4. x \in Texts /\ x.t = "app" /\ x.n = n
  <2>1. x = [t |-> "app", m |-> "none", n |-> n]
    BY DEF Text
  <2> HIDE DEF x, n
  <2> QED BY <1>3, <2>1 DEF Texts, Names
<1> HIDE DEF x
<1>5. Sent(out, r, x)
  BY <1>1, <1>4, QueueEncryptedSent
<1> HIDE DEF out
<1>6. Near(e, out, n, got) /\ out \in Sessions /\ out.stage = "Ready"
  BY <1>1, <1>4, <1>5, AppNear DEF Sent
<1>7. Calm(q, out) /\ Calm(f, out)
  BY <1>6, StreamDoneCalm, FlushPendingCalm
<1> HIDE DEF q, f
<1>8. /\ Near(e, q, n, got) /\ q.stage = "Ready"
      /\ Near(e, f, n, got) /\ f.stage = "Ready"
  BY <1>6, <1>7, CalmNear DEF Calm, Smaller
<1>9. Well(e, q, n, got) /\ Well(e, f, n, got)
  BY <1>8 DEF Well, Quiet
<1>10. Well(e, ep'[e], appSent'[e], appGot'[e])
  BY <1>2, <1>9
<1>11. Calm(ep[Other(e)], ep[Other(e)])
  BY <1>1, <1>2, ApartCalm DEF Apart, TypeInv
<1>12. PICK g : g = ep'[e]
  OBVIOUS
<1>13. Well(e, g, appSent'[e], appGot'[e])
  BY <1>10, <1>12
<1> HIDE DEF sent, got, n
<1> QED BY <1>2, <1>11, <1>12, <1>13, TwoEnds

LEMMA HugeWriteWell ==
    ASSUME SessionInv, MuxerInv, DirectInv, Compatible, NEW e \in End, HugeWrite(e)
    PROVE  DirectInv'
<1> DEFINE r    == ep[e]
           used == Used(r)
           q    == [used EXCEPT !.stream.open = FALSE]
           sent == appSent[e]
           got  == appGot[e]
<1>1. /\ TypeInv /\ r \in Sessions /\ Near(e, r, sent, got) /\ r.stage = "Ready"
  BY SelfDirect DEF HugeWrite
<1>2. Put(e, used) \/ Put(e, q)
  BY DEF HugeWrite, Used
<1> HIDE DEF sent, got
<1>p. ASSUME NEW g, Near(e, g, sent, got), g.stage = "Ready", Put(e, g) PROVE DirectInv'
  <2>1. Well(e, g, sent, got)
    BY <1>p DEF Well, Quiet
  <2> QED BY <1>p, <2>1, PutWell DEF sent, got
<1>3. Spent(used, r)
  BY <1>1, UsedSpent
<1> HIDE DEF used
<1>4. Near(e, used, sent, got) /\ used \in Sessions /\ used.stage = "Ready"
  BY <1>1, <1>3, SpentNear DEF Spent
<1>5. Calm(q, used)
  BY <1>4, StreamDoneCalm
<1> HIDE DEF q
<1>6. Near(e, q, sent, got) /\ q.stage = "Ready"
  BY <1>4, <1>5, CalmNear DEF Calm, Smaller
<1> QED BY <1>2, <1>4, <1>6, <1>p

LEMMA StreamReadWell ==
    ASSUME SessionInv, MuxerInv, DirectInv, Compatible, NEW e \in End, StreamRead(e)
    PROVE  DirectInv'
<1> DEFINE r    == ep[e]
           sent == appSent[e]
           got  == appGot[e]
           to   == Append(got, Got(r))
           t    == Tail(r.stream.rx)
           d    == [r.stream EXCEPT !.rx = t]
           q    == [r EXCEPT !.stream = d]
<1>1. /\ TypeInv /\ r \in Sessions /\ Near(e, r, sent, got) /\ Quiet(e, r)
      /\ r.stream \in Directs /\ r.stream.rx \in Seq(Texts) /\ r.stream.rx # <<>>
  <2>1. TypeInv /\ r \in Sessions /\ Near(e, r, sent, got) /\ Quiet(e, r)
    BY SelfDirect
  <2>2. r.stream \in Directs
    BY <2>1, SeqFacts
  <2> QED BY <2>1, <2>2 DEF Directs, StreamRead
<1>2. /\ conf' = conf /\ appSent' = appSent /\ Other(e) # e /\ Other(e) \in End
      /\ ep' = [ep EXCEPT ![e].stream.rx = Tail(@)]
      /\ appGot' = [appGot EXCEPT ![e] = Append(@, Got(r))]
  BY OtherEnd DEF StreamRead
<1>3. ep'[e] = q /\ ep'[Other(e)] = ep[Other(e)]
  BY <1>1, <1>2 DEF TypeInv
<1>4. appGot'[e] = to /\ appGot'[Other(e)] = appGot[Other(e)]
  <2>1. appGot = [f \in End |-> appGot[f]]
    BY <1>1 DEF TypeInv
  <2> QED BY <1>2, <2>1
<1>5. t \in Seq(Texts)
  BY <1>1, HeadTailProperties
<1> HIDE DEF t
<1>6. d \in Directs /\ d.id = r.stream.id /\ d.rx = t /\ d.open = r.stream.open
  BY <1>1, <1>5 DEF Directs
<1> HIDE DEF d
<1>7. /\ q \in Sessions /\ q.net = r.net /\ q.tx = r.tx /\ q.rx = r.rx
      /\ q.sendNonce = r.sendNonce /\ q.recvNonce = r.recvNonce
      /\ q.stage = r.stage /\ q.state = r.state /\ q.yamux = r.yamux
      /\ q.stream = d /\ q.nextStreamId = r.nextStreamId
      /\ q.negotiation = r.negotiation /\ q.socketOpen = r.socketOpen /\ q.busy = r.busy
  BY <1>1, <1>6 DEF Sessions
<1> HIDE DEF q
<1>8. Read(q, r)
  BY <1>6, <1>7 DEF Read, Smaller, Outgoing, t
<1>9. Near(e, q, sent, to)
  BY <1>1, <1>8, ReadNear
<1>10. Quiet(e, q)
  BY <1>1, <1>7 DEF Quiet
<1>11. Calm(ep[Other(e)], ep[Other(e)])
  BY <1>1, <1>2, ApartCalm DEF Apart, TypeInv
<1>12. Well(e, q, appSent'[e], appGot'[e])
  BY <1>2, <1>4, <1>9, <1>10 DEF Well
<1> HIDE DEF sent, got, to
<1> QED BY <1>2, <1>3, <1>4, <1>11, <1>12, TwoEnds

LEMMA StreamCloseWriteWell ==
    ASSUME SessionInv, MuxerInv, DirectInv, Compatible, NEW e \in End, StreamCloseWrite(e)
    PROVE  DirectInv'
<1> DEFINE s    == ep[e]
           no   == FALSE
           yes  == TRUE
           d    == [s.stream EXCEPT !.writeOpen = no, !.closeWritePending = yes]
           r    == [s EXCEPT !.stream = d]
           f    == FlushPending(e, r)
           q    == [r EXCEPT !.stream.open = FALSE]
           sent == appSent[e]
           got  == appGot[e]
<1>1. /\ TypeInv /\ s \in Sessions /\ Well(e, s, sent, got) /\ s.stream \in Directs
      /\ no \in BOOLEAN /\ yes \in BOOLEAN
  BY SelfDirect, SeqFacts
<1> HIDE DEF sent, got
<1>2. [s EXCEPT !.stream.writeOpen = FALSE, !.stream.closeWritePending = TRUE] = r
  BY <1>1 DEF Sessions, Directs
<1>3. Put(e, q) \/ Put(e, f)
  BY <1>2 DEF StreamCloseWrite
<1> HIDE DEF no, yes
<1>4. d \in Directs /\ d.id = s.stream.id /\ d.rx = s.stream.rx /\ d.open = s.stream.open
  BY <1>1 DEF Directs
<1> HIDE DEF d
<1>5. /\ r \in Sessions /\ r.net = s.net /\ r.tx = s.tx /\ r.rx = s.rx
      /\ r.sendNonce = s.sendNonce /\ r.recvNonce = s.recvNonce
      /\ r.stage = s.stage /\ r.state = s.state /\ r.yamux = s.yamux
      /\ r.stream = d /\ r.nextStreamId = s.nextStreamId
      /\ r.negotiation = s.negotiation /\ r.socketOpen = s.socketOpen /\ r.busy = s.busy
  BY <1>1, <1>4 DEF Sessions
<1> HIDE DEF r
<1>6. Calm(r, s)
  BY <1>4, <1>5 DEF Calm, Smaller, SameStream, Outgoing
<1>7. Calm(q, r) /\ Calm(f, r)
  BY <1>5, StreamDoneCalm, FlushPendingCalm
<1> HIDE DEF q, f
<1>8. Well(e, q, sent, got) /\ Well(e, f, sent, got)
  BY <1>1, <1>6, <1>7, CalmWell
<1> QED BY <1>3, <1>8, PutWell DEF sent, got

LEMMA StreamResetWell ==
    ASSUME SessionInv, MuxerInv, DirectInv, Compatible, NEW e \in End, StreamReset(e)
    PROVE  DirectInv'
<1> DEFINE r    == ep[e]
           d    == [r.stream EXCEPT !.open = FALSE, !.writeOpen = FALSE,
                                    !.closeWritePending = FALSE, !.rx = <<>>]
           s    == [r EXCEPT !.stream = d]
           q    == CloseSocket(s)
           sent == appSent[e]
           got  == appGot[e]
<1>1. /\ r \in Sessions /\ Near(e, r, sent, got) /\ r.stream \in Directs
  BY SelfDirect, SeqFacts
<1>2. Put(e, q) /\ ~r.busy /\ r.stream.id # 0
  BY DEF StreamReset
<1>3. r.stage = "Ready"
  BY <1>1, <1>2 DEF Near, ReceivesOk, FirstOk
<1> HIDE DEF sent, got
<1>4. d \in Directs /\ d.id = r.stream.id /\ ~d.open /\ d.rx = <<>>
  BY <1>1, ClosedStream
<1> HIDE DEF d
<1>5. /\ s \in Sessions /\ s.net = r.net /\ s.tx = r.tx /\ s.rx = r.rx
      /\ s.sendNonce = r.sendNonce /\ s.recvNonce = r.recvNonce
      /\ s.stage = r.stage /\ s.state = r.state /\ s.yamux = r.yamux
      /\ s.stream = d /\ s.nextStreamId = r.nextStreamId
      /\ s.negotiation = r.negotiation /\ s.busy = r.busy
  BY <1>1, <1>4 DEF Sessions
<1> HIDE DEF s
<1>6. Down(q, s)
  BY <1>5, CloseSocketDown
<1> HIDE DEF q
<1>7. Shut(q, r)
  BY <1>2, <1>3, <1>4, <1>5, <1>6 DEF Down, Shut, Smaller, Outgoing
<1>8. Well(e, q, sent, got)
  BY <1>1, <1>7, ShutNear
<1> QED BY <1>2, <1>8, PutWell DEF sent, got

LEMMA ApplicationWell ==
    ASSUME SessionInv, MuxerInv, DirectInv, Compatible, NEW e \in End, Stream(e)
    PROVE  DirectInv'
  BY StreamWriteWell, HugeWriteWell, StreamReadWell, StreamCloseWriteWell,
     StreamResetWell DEF Stream

LEMMA GarbleWell ==
    ASSUME SessionInv, MuxerInv, DirectInv, Compatible, NEW e \in End, Garble(e)
    PROVE  DirectInv'
<1> DEFINE r    == ep[e]
           sent == appSent[e]
           got  == appGot[e]
<1>1. TypeInv /\ r \in Sessions /\ Well(e, r, sent, got)
  BY SelfDirect
<1> HIDE DEF sent, got
<1>2. PICK i \in DOMAIN r.net : ep' = [ep EXCEPT ![e].net[i] = Plain("bad")]
  BY DEF Garble
<1> DEFINE b   == Plain("bad")
           net == [r.net EXCEPT ![i] = b]
           q   == [r EXCEPT !.net = net]
<1>3. ep' = [ep EXCEPT ![e] = q] /\ conf' = conf /\ appSent' = appSent /\ appGot' = appGot
  BY <1>2 DEF Garble
<1>4. b \in Messages /\ b.kind # "enc"
  BY PlainType
<1> HIDE DEF b
<1>5. net \in Seq(Messages) /\ EncOf(net) \subseteq EncOf(r.net)
  <2>1. r.net \in Seq(Messages)
    BY <1>1, SeqFacts
  <2>2. i \in 1 .. Len(r.net)
    BY <2>1
  <2> QED BY <1>4, <2>1, <2>2, ExceptSeq, EncDamaged
<1> HIDE DEF net
<1>6. /\ q \in Sessions /\ q.net = net /\ q.tx = r.tx /\ q.rx = r.rx
      /\ q.sendNonce = r.sendNonce /\ q.recvNonce = r.recvNonce
      /\ q.stage = r.stage /\ q.state = r.state /\ q.yamux = r.yamux
      /\ q.stream = r.stream /\ q.nextStreamId = r.nextStreamId
      /\ q.negotiation = r.negotiation /\ q.socketOpen = r.socketOpen /\ q.busy = r.busy
  BY <1>1, <1>5 DEF Sessions
<1> HIDE DEF q
<1>7. Calm(q, r)
  BY <1>5, <1>6 DEF Calm, Smaller, SameStream, Outgoing
<1>8. Well(e, q, sent, got)
  BY <1>1, <1>7, CalmWell
<1>9. /\ Other(e) \in End /\ Other(e) # e
  BY OtherEnd
<1>10. ep'[e] = q /\ ep'[Other(e)] = ep[Other(e)]
  BY <1>1, <1>3, <1>9 DEF TypeInv
<1>11. Calm(ep[Other(e)], ep[Other(e)])
  BY <1>1, <1>9, ApartCalm DEF Apart, TypeInv
<1> QED BY <1>3, <1>8, <1>10, <1>11, TwoEnds DEF sent, got

LEMMA InitWell == Init => DirectInv
<1> SUFFICES ASSUME Init, NEW e \in End
             PROVE  /\ Numbered(e, Frames(e), ep[Other(e)].recvNonce, ep[e].sendNonce)
                    /\ Counted(e, ep[e], appSent[e], Frames(e), ep[Other(e)].recvNonce)
                    /\ SendsOk(e, ep[e], appSent[e])
                    /\ ReceivesOk(e, ep[e], appGot[e])
  BY DEF DirectInv
<1> DEFINE nil == <<>>
           r   == ep[e]
           k   == ep[Other(e)]
<1>1. r = InitialEnd /\ k = InitialEnd /\ appSent[e] = 0 /\ appGot[e] = nil
  BY OtherEnd DEF Init
<1>2. /\ InitialEnd.rx = nil /\ InitialEnd.tx = nil /\ InitialEnd.net = nil
      /\ InitialEnd.negotiation = nil /\ InitialEnd.sendNonce = 0 /\ InitialEnd.recvNonce = 0
      /\ InitialEnd.stage = "NegotiatingProtocol" /\ InitialEnd.busy = FALSE
      /\ InitialEnd.socketOpen = TRUE /\ InitialEnd.nextStreamId = 1
      /\ InitialEnd.stream.id = 0 /\ InitialEnd.stream.open = FALSE
      /\ InitialEnd.stream.rx = nil
  BY DEF InitialEnd, NoStream
<1>3. EncOf(nil) = {} /\ DOMAIN nil = {} /\ nil \in Seq([sid : Nat, text : Texts])
  BY EncNone
<1>n. InitialEnd.negotiation = <<>> /\ appGot[e] = <<>> /\ InitialEnd.stream.rx = <<>>
  BY <1>1, <1>2
<1> HIDE DEF nil
<1>4. Frames(e) = {}
  BY <1>1, <1>2, <1>3 DEF Frames, Outgoing
<1>5. Numbered(e, Frames(e), ep[Other(e)].recvNonce, ep[e].sendNonce)
  BY <1>1, <1>2, <1>4 DEF Numbered
<1>6. Counted(e, ep[e], appSent[e], Frames(e), ep[Other(e)].recvNonce)
  BY <1>1, <1>2 DEF Counted
<1>7. SendsOk(e, ep[e], appSent[e])
  BY <1>1, <1>2 DEF SendsOk
<1>8. GotOk(e, r, appGot[e])
  BY <1>1, <1>3, <1>n DEF GotOk
<1>f. FirstOk(e, r, appGot[e])
  <2>1. Len(r.negotiation) = 0
    BY <1>1, <1>n
  <2> QED BY <1>1, <1>2, <1>n, <2>1 DEF FirstOk
<1>9. ReceivesOk(e, ep[e], appGot[e])
  BY <1>1, <1>2, <1>3, <1>8, <1>n, <1>f DEF ReceivesOk
<1> QED BY <1>5, <1>6, <1>7, <1>9

LEMMA StepWell ==
    ASSUME SessionInv, MuxerInv, DirectInv, [Next]_vars
    PROVE  DirectInv'
<1>1. CASE Next /\ Compatible
  <2>1. PICK e \in End :
           Socket(e) \/ ProcessPendingInput(e) \/ Owner(e) \/ Stream(e) \/ Garble(e)
    BY <1>1 DEF Next
  <2>2. CASE Socket(e)
    BY <1>1, <2>2, SocketWell
  <2>3. CASE ProcessPendingInput(e)
    BY <1>1, <2>3, PendingInputWell
  <2>4. CASE Owner(e)
    BY <1>1, <2>4, OwnerWell
  <2>5. CASE Stream(e)
    BY <1>1, <2>5, ApplicationWell
  <2>6. CASE Garble(e)
    BY <1>1, <2>6, GarbleWell
  <2> QED BY <2>1, <2>2, <2>3, <2>4, <2>5, <2>6
<1>2. CASE Next /\ ~Compatible
  <2>1. conf' = conf
    <3>1. PICK e \in End :
             Socket(e) \/ ProcessPendingInput(e) \/ Owner(e) \/ Stream(e) \/ Garble(e)
      BY <1>2 DEF Next
    <3>2. Socket(e) => conf' = conf
      BY DEF Socket, OnSocketReadable, Receive, RecvFails, OnSocketWritable, OnSocketError, Put
    <3>3. ProcessPendingInput(e) => conf' = conf
      <4>1. NegotiateProtocol(e) => conf' = conf
        BY DEF NegotiateProtocol, Put
      <4>2. HandshakeFrame(e) => conf' = conf
        BY DEF HandshakeFrame, Put
      <4>3. CollectNegotiation(e) => conf' = conf
        BY DEF CollectNegotiation, Put
      <4>4. DecideMuxer(e) => conf' = conf
        BY DEF DecideMuxer, Put
      <4>5. DeliverFrame(e) \/ InputDone(e) => conf' = conf
        BY DEF DeliverFrame, InputDone, Put
      <4> QED BY <4>1, <4>2, <4>3, <4>4, <4>5 DEF ProcessPendingInput
    <3>4. Owner(e) => conf' = conf
      BY DEF Owner, Begin, OwnerClose, OnTimeout, RequestOpenStream, Put
    <3>5. Stream(e) \/ Garble(e) => conf' = conf
      BY DEF Stream, StreamWrite, HugeWrite, StreamRead, StreamCloseWrite, StreamReset,
         Garble, Put
    <3> QED BY <3>1, <3>2, <3>3, <3>4, <3>5
  <2>2. ~Compatible'
    BY <1>2, <2>1 DEF Compatible
  <2> QED BY <2>2 DEF DirectInv
<1>3. CASE UNCHANGED vars
  <2>1. conf' = conf /\ ep' = ep /\ appSent' = appSent /\ appGot' = appGot
    BY <1>3 DEF vars
  <2>2. CASE Compatible
    <3>2. "ini" \in End /\ Other("ini") \in End
      BY OtherEnd DEF End
    <3>3. Well("ini", ep["ini"], appSent["ini"], appGot["ini"])
      BY <2>2, <3>2, SelfWell
    <3>4. Calm(ep[Other("ini")], ep[Other("ini")])
      BY <3>2, ApartCalm DEF Apart, SessionInv, TypeInv
    <3> QED BY <2>1, <3>2, <3>3, <3>4, TwoEnds
  <2>3. CASE ~Compatible
    BY <2>1, <2>3 DEF DirectInv, Compatible
  <2> QED BY <2>2, <2>3
<1> QED BY <1>1, <1>2, <1>3

\* With direct streams, the nonce of a frame gives the place of its message
\* among all that the application has written, in every state that two
\* compatible ends reach: through the upgrade, across oversized writes that
\* use a nonce up, damaged frames, failed writes, resets and closed sockets
\* (queue_encrypted_write, process_pending_input, ensure_inbound_stream).
THEOREM DirectInvariant == Spec => []DirectInv
<1>1. Init => DirectInv
  BY InitWell
<1>2. SessionInv /\ MuxerInv /\ DirectInv /\ [Next]_vars => DirectInv'
  BY StepWell
<1> QED BY <1>1, <1>2, SessionInvariant, MuxerInvariant, PTL DEF Spec

\* Between compatible ends, an application reads from the first direct stream
\* what the other one wrote from the first message on, but for the messages
\* left behind in the buffer of the muxer negotiation, then one message after
\* the other, and after a second stream has taken the first one's place none
\* again (process_muxer_negotiation, queue_encrypted_write,
\* process_pending_input, DirectMuxedStream).
THEOREM DirectMessagesInOrder == Spec => []DirectInOrder
<1>1. DirectInv => DirectInOrder
  <2> SUFFICES ASSUME DirectInv, Compatible, NEW e \in End,
                      NEW i \in DOMAIN appGot[e], NEW j \in DOMAIN appGot[e]
               PROVE  LET a == appGot[e][i] b == appGot[e][j] IN
                      /\ a.text.t = "app"
                      /\ (i = 1 /\ a.sid = 1) => a.text.n = LeftBehind(e) + 1
                      /\ j = i + 1 => IF a.sid = b.sid THEN b.text.n = a.text.n + 1
                                      ELSE b.text.n > a.text.n
    BY DEF DirectInOrder
  <2>1. /\ ReceivesOk(e, ep[e], appGot[e])
        /\ GotOk(e, ep[e], appGot[e]) /\ FirstOk(e, ep[e], appGot[e])
    BY DEF DirectInv, ReceivesOk
  <2>2. appGot[e][i].text.t = "app"
    BY <2>1 DEF GotOk
  <2>3. ASSUME j = i + 1 PROVE Follows(appGot[e][i], appGot[e][j])
    BY <2>1, <2>3 DEF GotOk
  <2>4. ASSUME i = 1, appGot[e][1].sid = 1 PROVE appGot[e][1].text.n = LeftBehind(e) + 1
    <3>1. appGot[e] # <<>>
      OBVIOUS
    <3>2. ep[e].stage = "Ready"
      BY <2>1, <3>1 DEF ReceivesOk
    <3> QED BY <2>1, <2>4, <3>1, <3>2 DEF FirstOk, LeftBehind
  <2> QED BY <2>2, <2>3, <2>4 DEF Follows
<1> QED BY <1>1, DirectInvariant, PTL
=============================================================================
