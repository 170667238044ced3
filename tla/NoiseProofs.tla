---------------------------- MODULE NoiseProofs ----------------------------
(***************************************************************************)
(* What the Noise handshake of Noise promises, for every number of texts,  *)
(* every last nonce and any damage on the way: two ends that complete have *)
(* seen the same and speak with each other, a failure has a cause and no   *)
(* key meets a nonce twice.  All of it follows from TranscriptInv.         *)
(***************************************************************************)
EXTENDS NoiseTranscript, Integers, SequenceTheorems, TLAPS

----------------------------------------------------------------------------
(* Short sequences.                                                        *)

LEMMA Append0 == ASSUME NEW a PROVE Append(Nil, a) = <<a>>
  BY DEF Nil

LEMMA Append1 == ASSUME NEW a, NEW b PROVE Append(<<a>>, b) = <<a, b>>
<1> DEFINE s == <<a>>
           t == Append(s, b)
           u == <<a, b>>
<1>1. s \in Seq({a, b}) /\ Len(s) = 1 /\ s[1] = a
  OBVIOUS
<1>2. u \in Seq({a, b}) /\ Len(u) = 2 /\ u[1] = a /\ u[2] = b
  OBVIOUS
<1> HIDE DEF s
<1>3. t \in Seq({a, b}) /\ Len(t) = 2 /\ t[1] = a /\ t[2] = b
  BY <1>1 DEF s
<1> HIDE DEF t, u
<1>4. \A i \in 1 .. 2 : t[i] = u[i]
  BY <1>2, <1>3
<1>5. t = u
  BY <1>2, <1>3, <1>4, SeqEqual
<1> QED BY <1>5 DEF s, t, u

LEMMA Append2 == ASSUME NEW a, NEW b, NEW c PROVE Append(<<a, b>>, c) = <<a, b, c>>
<1> DEFINE s == <<a, b>>
           t == Append(s, c)
           u == <<a, b, c>>
<1>1. s \in Seq({a, b, c}) /\ Len(s) = 2 /\ s[1] = a /\ s[2] = b
  OBVIOUS
<1>2. u \in Seq({a, b, c}) /\ Len(u) = 3 /\ u[1] = a /\ u[2] = b /\ u[3] = c
  OBVIOUS
<1> HIDE DEF s
<1>3. t \in Seq({a, b, c}) /\ Len(t) = 3 /\ t[1] = a /\ t[2] = b /\ t[3] = c
  BY <1>1 DEF s
<1> HIDE DEF t, u
<1>4. \A i \in 1 .. 3 : t[i] = u[i]
  BY <1>2, <1>3
<1>5. t = u
  BY <1>2, <1>3, <1>4, SeqEqual
<1> QED BY <1>5 DEF s, t, u

LEMMA Append3 ==
  ASSUME NEW a, NEW b, NEW c, NEW d
  PROVE  Append(<<a, b, c>>, d) = <<a, b, c, d>>
<1> DEFINE s == <<a, b, c>>
           t == Append(s, d)
           u == <<a, b, c, d>>
<1>1. s \in Seq({a, b, c, d}) /\ Len(s) = 3 /\ s[1] = a /\ s[2] = b /\ s[3] = c
  OBVIOUS
<1>2. /\ u \in Seq({a, b, c, d}) /\ Len(u) = 4
      /\ u[1] = a /\ u[2] = b /\ u[3] = c /\ u[4] = d
  OBVIOUS
<1> HIDE DEF s
<1>3. /\ t \in Seq({a, b, c, d}) /\ Len(t) = 4
      /\ t[1] = a /\ t[2] = b /\ t[3] = c /\ t[4] = d
  BY <1>1 DEF s
<1> HIDE DEF t, u
<1>4. \A i \in 1 .. 4 : t[i] = u[i]
  BY <1>2, <1>3
<1>5. t = u
  BY <1>2, <1>3, <1>4, SeqEqual
<1> QED BY <1>5 DEF s, t, u

\* Two appends leave the sequence in front, and they are not empty.
LEMMA TwoAppends ==
  ASSUME NEW S, NEW s \in Seq(S), NEW a \in S, NEW b \in S
  PROVE  LET t == Append(Append(s, a), b) IN
         /\ t \in Seq(S) /\ Len(t) = Len(s) + 2
         /\ \A i \in 1 .. Len(s) : t[i] = s[i]
         /\ SubSeq(t, 1, Len(s)) = s
<1> DEFINE u == Append(s, a)
           t == Append(u, b)
           v == SubSeq(t, 1, Len(s))
<1>1. u \in Seq(S) /\ Len(u) = Len(s) + 1 /\ \A i \in 1 .. Len(s) : u[i] = s[i]
  OBVIOUS
<1> HIDE DEF u
<1>2. t \in Seq(S) /\ Len(t) = Len(u) + 1 /\ \A i \in 1 .. Len(u) : t[i] = u[i]
  BY <1>1
<1> HIDE DEF t
<1>3. Len(s) \in Nat /\ Len(s) <= Len(t)
  BY <1>1, <1>2
<1>4. v \in Seq(S) /\ Len(v) = Len(s) /\ \A i \in 1 .. Len(s) : v[i] = t[i]
  BY <1>2, <1>3
<1> HIDE DEF v
<1>5. \A i \in 1 .. Len(s) : t[i] = s[i]
  BY <1>1, <1>2, <1>3
<1>6. \A i \in 1 .. Len(s) : v[i] = s[i]
  BY <1>4, <1>5
<1>7. v = s
  BY <1>4, <1>6, SeqEqual
<1> QED BY <1>1, <1>2, <1>5, <1>7 DEF t, u, v

----------------------------------------------------------------------------
(* The symmetric state on a session of the handshake.                      *)

\* Assignments to its members.
SetKeys(x, u, v, w)    == [x EXCEPT !.ck = u, !.key = v, !.n = w]
SetNonce(x, u)         == [x EXCEPT !.n = u]
SetPeer(x, u, v)       == [x EXCEPT !.peer = u, !.ext = v]
SetCiphers(x, u, v, w) == [x EXCEPT !.send = u, !.recv = v, !.complete = w]
SetSend(x, u, v)       == [x EXCEPT !.send = u, !.sealed = v]
SetRecv(x, u)          == [x EXCEPT !.recv = u]
SetStage(x, u)         == [x EXCEPT !.stage = u]
SetRe(x, u)            == [x EXCEPT !.re = u]
SetRs(x, u)            == [x EXCEPT !.rs = u]

LEMMA AssignKeys ==
  ASSUME NEW stage, NEW ck, NEW h, NEW key, NEW n, NEW re, NEW rs, NEW send, NEW recv,
         NEW peer, NEW ext, NEW complete, NEW sealed, NEW u, NEW v, NEW w
  PROVE  SetKeys(Session(stage, ck, h, key, n, re, rs, send, recv, peer, ext, complete, sealed), u, v, w)
         = Session(stage, u, h, v, w, re, rs, send, recv, peer, ext, complete, sealed)
<1> DEFINE x == Session(stage, ck, h, key, n, re, rs, send, recv, peer, ext, complete, sealed)
           y == [x EXCEPT !.ck = u]
           z == [y EXCEPT !.key = v]
<1>1. y = Session(stage, u, h, key, n, re, rs, send, recv, peer, ext, complete, sealed)
  BY DEF Session
<1> HIDE DEF y
<1>2. z = Session(stage, u, h, v, n, re, rs, send, recv, peer, ext, complete, sealed)
  BY <1>1 DEF Session
<1> HIDE DEF z
<1>3. [z EXCEPT !.n = w]
      = Session(stage, u, h, v, w, re, rs, send, recv, peer, ext, complete, sealed)
  BY <1>2 DEF Session
<1>4. [x EXCEPT !.ck = u, !.key = v, !.n = w] = [z EXCEPT !.n = w]
  BY DEF y, z
<1> QED BY <1>3, <1>4 DEF SetKeys

LEMMA AssignNonce ==
  ASSUME NEW stage, NEW ck, NEW h, NEW key, NEW n, NEW re, NEW rs, NEW send, NEW recv,
         NEW peer, NEW ext, NEW complete, NEW sealed, NEW u
  PROVE  SetNonce(Session(stage, ck, h, key, n, re, rs, send, recv, peer, ext, complete, sealed), u)
         = Session(stage, ck, h, key, u, re, rs, send, recv, peer, ext, complete, sealed)
  BY DEF Session, SetNonce

LEMMA AssignPeer ==
  ASSUME NEW stage, NEW ck, NEW h, NEW key, NEW n, NEW re, NEW rs, NEW send, NEW recv,
         NEW peer, NEW ext, NEW complete, NEW sealed, NEW u, NEW v
  PROVE  SetPeer(Session(stage, ck, h, key, n, re, rs, send, recv, peer, ext, complete, sealed), u, v)
         = Session(stage, ck, h, key, n, re, rs, send, recv, u, v, complete, sealed)
<1> DEFINE x == Session(stage, ck, h, key, n, re, rs, send, recv, peer, ext, complete, sealed)
           y == [x EXCEPT !.peer = u]
<1>1. y = Session(stage, ck, h, key, n, re, rs, send, recv, u, ext, complete, sealed)
  BY DEF Session
<1> HIDE DEF y
<1>2. [y EXCEPT !.ext = v]
      = Session(stage, ck, h, key, n, re, rs, send, recv, u, v, complete, sealed)
  BY <1>1 DEF Session
<1>3. [x EXCEPT !.peer = u, !.ext = v] = [y EXCEPT !.ext = v]
  BY DEF y
<1> QED BY <1>2, <1>3 DEF SetPeer

LEMMA AssignCiphers ==
  ASSUME NEW stage, NEW ck, NEW h, NEW key, NEW n, NEW re, NEW rs, NEW send, NEW recv,
         NEW peer, NEW ext, NEW complete, NEW sealed, NEW u, NEW v, NEW w
  PROVE  SetCiphers(Session(stage, ck, h, key, n, re, rs, send, recv, peer, ext, complete, sealed), u, v, w)
         = Session(stage, ck, h, key, n, re, rs, u, v, peer, ext, w, sealed)
<1> DEFINE x == Session(stage, ck, h, key, n, re, rs, send, recv, peer, ext, complete, sealed)
           y == [x EXCEPT !.send = u]
           z == [y EXCEPT !.recv = v]
<1>1. y = Session(stage, ck, h, key, n, re, rs, u, recv, peer, ext, complete, sealed)
  BY DEF Session
<1> HIDE DEF y
<1>2. z = Session(stage, ck, h, key, n, re, rs, u, v, peer, ext, complete, sealed)
  BY <1>1 DEF Session
<1> HIDE DEF z
<1>3. [z EXCEPT !.complete = w]
      = Session(stage, ck, h, key, n, re, rs, u, v, peer, ext, w, sealed)
  BY <1>2 DEF Session
<1>4. [x EXCEPT !.send = u, !.recv = v, !.complete = w] = [z EXCEPT !.complete = w]
  BY DEF y, z
<1> QED BY <1>3, <1>4 DEF SetCiphers

LEMMA AssignSend ==
  ASSUME NEW stage, NEW ck, NEW h, NEW key, NEW n, NEW re, NEW rs, NEW send, NEW recv,
         NEW peer, NEW ext, NEW complete, NEW sealed, NEW u, NEW v
  PROVE  SetSend(Session(stage, ck, h, key, n, re, rs, send, recv, peer, ext, complete, sealed), u, v)
         = Session(stage, ck, h, key, n, re, rs, u, recv, peer, ext, complete, v)
<1> DEFINE x == Session(stage, ck, h, key, n, re, rs, send, recv, peer, ext, complete, sealed)
           y == [x EXCEPT !.send = u]
<1>1. y = Session(stage, ck, h, key, n, re, rs, u, recv, peer, ext, complete, sealed)
  BY DEF Session
<1> HIDE DEF y
<1>2. [y EXCEPT !.sealed = v]
      = Session(stage, ck, h, key, n, re, rs, u, recv, peer, ext, complete, v)
  BY <1>1 DEF Session
<1>3. [x EXCEPT !.send = u, !.sealed = v] = [y EXCEPT !.sealed = v]
  BY DEF y
<1> QED BY <1>2, <1>3 DEF SetSend

LEMMA AssignRecv ==
  ASSUME NEW stage, NEW ck, NEW h, NEW key, NEW n, NEW re, NEW rs, NEW send, NEW recv,
         NEW peer, NEW ext, NEW complete, NEW sealed, NEW u
  PROVE  SetRecv(Session(stage, ck, h, key, n, re, rs, send, recv, peer, ext, complete, sealed), u)
         = Session(stage, ck, h, key, n, re, rs, send, u, peer, ext, complete, sealed)
  BY DEF Session, SetRecv

LEMMA AssignStage ==
  ASSUME NEW stage, NEW ck, NEW h, NEW key, NEW n, NEW re, NEW rs, NEW send, NEW recv,
         NEW peer, NEW ext, NEW complete, NEW sealed, NEW u
  PROVE  SetStage(Session(stage, ck, h, key, n, re, rs, send, recv, peer, ext, complete, sealed), u)
         = Session(u, ck, h, key, n, re, rs, send, recv, peer, ext, complete, sealed)
  BY DEF Session, SetStage

LEMMA AssignRe ==
  ASSUME NEW stage, NEW ck, NEW h, NEW key, NEW n, NEW re, NEW rs, NEW send, NEW recv,
         NEW peer, NEW ext, NEW complete, NEW sealed, NEW u
  PROVE  SetRe(Session(stage, ck, h, key, n, re, rs, send, recv, peer, ext, complete, sealed), u)
         = Session(stage, ck, h, key, n, u, rs, send, recv, peer, ext, complete, sealed)
  BY DEF Session, SetRe

LEMMA AssignRs ==
  ASSUME NEW stage, NEW ck, NEW h, NEW key, NEW n, NEW re, NEW rs, NEW send, NEW recv,
         NEW peer, NEW ext, NEW complete, NEW sealed, NEW u
  PROVE  SetRs(Session(stage, ck, h, key, n, re, rs, send, recv, peer, ext, complete, sealed), u)
         = Session(stage, ck, h, key, n, re, u, send, recv, peer, ext, complete, sealed)
  BY DEF Session, SetRs

LEMMA FieldOf ==
  ASSUME NEW stage, NEW ck, NEW h, NEW key, NEW n, NEW re, NEW rs, NEW send, NEW recv,
         NEW peer, NEW ext, NEW complete, NEW sealed
  PROVE  LET x == Session(stage, ck, h, key, n, re, rs, send, recv, peer, ext, complete, sealed) IN
         /\ x.stage = stage /\ x.ck = ck /\ x.h = h /\ x.key = key /\ x.n = n
         /\ x.re = re /\ x.rs = rs /\ x.send = send /\ x.recv = recv
         /\ x.peer = peer /\ x.ext = ext /\ x.sealed = sealed /\ x.complete = complete
  BY DEF Session

LEMMA MixHashOf ==
  ASSUME NEW stage, NEW ck, NEW h, NEW key, NEW n, NEW re, NEW rs, NEW send,
         NEW recv, NEW peer, NEW ext, NEW complete, NEW sealed, NEW d
  PROVE  MixHash(Session(stage, ck, h, key, n, re, rs, send, recv, peer, ext, complete, sealed), d)
         = Session(stage, ck, Append(h, d), key, n, re, rs, send, recv, peer, ext, complete, sealed)
  BY SMTT(30) DEF MixHash, Session

LEMMA MixKeyOf ==
  ASSUME NEW stage, NEW ck, NEW h, NEW key, NEW n, NEW re, NEW rs, NEW send, NEW recv,
         NEW peer, NEW ext, NEW complete, NEW sealed, NEW secret
  PROVE  MixKey(Session(stage, ck, h, key, n, re, rs, send, recv, peer, ext, complete, sealed), secret)
         = Session(stage, Append(ck, secret), h, Output(Append(ck, secret), 2), 0, re, rs, send,
                   recv, peer, ext, complete, sealed)
<1> DEFINE x == Session(stage, ck, h, key, n, re, rs, send, recv, peer, ext, complete, sealed)
           next == Append(ck, secret)
<1>1. x.ck = ck
  BY FieldOf
<1>2. MixKey(x, secret) = SetKeys(x, next, Output(next, 2), 0)
  BY <1>1 DEF MixKey, SetKeys
<1> HIDE DEF next
<1>3. SetKeys(x, next, Output(next, 2), 0)
      = Session(stage, next, h, Output(next, 2), 0, re, rs, send, recv, peer, ext, complete, sealed)
  BY AssignKeys
<1> QED BY <1>2, <1>3 DEF next

LEMMA EncryptOf ==
  ASSUME NEW stage, NEW ck, NEW h, NEW key, NEW n, NEW re, NEW rs, NEW send,
         NEW recv, NEW peer, NEW ext, NEW complete, NEW sealed, NEW text, key # NoKey
  PROVE  LET x == Session(stage, ck, h, key, n, re, rs, send, recv, peer, ext, complete, sealed)
             c == Seal(key, n, h, text)
         IN /\ Sealed(x, text) = c
            /\ EncryptAndHash(x, text)
               = Session(stage, ck, Append(h, c), key, n + 1, re, rs, send, recv, peer, ext,
                      complete, Append(sealed, <<key, n>>))
  BY ZenonT(60) DEF MixHash, Session, EncryptAndHash, Sealed

LEMMA OpensOf ==
  ASSUME NEW stage, NEW ck, NEW h, NEW key, NEW n, NEW re, NEW rs, NEW send, NEW recv,
         NEW peer, NEW ext, NEW complete, NEW sealed, NEW c, key # NoKey
  PROVE  Opens(Session(stage, ck, h, key, n, re, rs, send, recv, peer, ext, complete, sealed), c)
         <=> c.key = key /\ c.n = n /\ c.ad = h
  BY FieldOf DEF Opens

LEMMA DecryptOf ==
  ASSUME NEW stage, NEW ck, NEW h, NEW key, NEW n, NEW re, NEW rs, NEW send, NEW recv,
         NEW peer, NEW ext, NEW complete, NEW sealed, NEW c, key # NoKey
  PROVE  DecryptAndHash(Session(stage, ck, h, key, n, re, rs, send, recv, peer, ext, complete, sealed), c)
         = Session(stage, ck, Append(h, c), key, n + 1, re, rs, send, recv, peer, ext, complete, sealed)
<1> DEFINE x == Session(stage, ck, h, key, n, re, rs, send, recv, peer, ext, complete, sealed)
           y == Session(stage, ck, Append(h, c), key, n, re, rs, send, recv, peer, ext, complete, sealed)
<1>1. DecryptAndHash(x, c) = SetNonce(y, n + 1)
  BY MixHashOf, FieldOf DEF DecryptAndHash, SetNonce
<1>2. SetNonce(y, n + 1)
      = Session(stage, ck, Append(h, c), key, n + 1, re, rs, send, recv, peer, ext, complete, sealed)
  BY AssignNonce
<1> QED BY <1>1, <1>2

LEMMA ClearOf ==
  ASSUME NEW stage, NEW ck, NEW h, NEW n, NEW re, NEW rs, NEW send,
         NEW recv, NEW peer, NEW ext, NEW complete, NEW sealed, NEW c
  PROVE  LET x == Session(stage, ck, h, NoKey, n, re, rs, send, recv, peer, ext, complete, sealed) IN
         /\ DecryptAndHash(x, c)
            = Session(stage, ck, Append(h, c), NoKey, n, re, rs, send, recv, peer, ext, complete, sealed)
         /\ Sealed(x, c) = Seal(NoKey, 0, <<>>, c)
         /\ EncryptAndHash(x, c)
            = Session(stage, ck, Append(h, Seal(NoKey, 0, <<>>, c)), NoKey, n, re, rs, send,
                   recv, peer, ext, complete, sealed)
<1> DEFINE x == Session(stage, ck, h, NoKey, n, re, rs, send, recv, peer, ext, complete, sealed)
           y == Session(stage, ck, Append(h, c), NoKey, n, re, rs, send, recv, peer, ext, complete, sealed)
<1>1. DecryptAndHash(x, c) = SetNonce(y, n)
  BY MixHashOf, FieldOf DEF DecryptAndHash, SetNonce
<1>2. SetNonce(y, n) = y
  BY AssignNonce
<1>3. Sealed(x, c) = Seal(NoKey, 0, <<>>, c)
  BY FieldOf DEF Sealed
<1>4. EncryptAndHash(x, c) = MixHash(x, Sealed(x, c))
  BY FieldOf DEF EncryptAndHash
<1> QED BY <1>1, <1>2, <1>3, <1>4, MixHashOf

\* The name and the extensions of the peer; a failure.
LEMMA IdentifiedOf ==
  ASSUME NEW stage, NEW ck, NEW h, NEW key, NEW n, NEW re, NEW rs, NEW send, NEW recv,
         NEW peer, NEW ext, NEW complete, NEW sealed, NEW payload
  PROVE  Identified(Session(stage, ck, h, key, n, re, rs, send, recv, peer, ext, complete, sealed), payload)
         = Session(stage, ck, h, key, n, re, rs, send, recv, payload.id, payload.ext, complete, sealed)
<1> DEFINE x == Session(stage, ck, h, key, n, re, rs, send, recv, peer, ext, complete, sealed)
<1>1. Identified(x, payload) = SetPeer(x, payload.id, payload.ext)
  BY DEF Identified, SetPeer
<1> QED BY <1>1, AssignPeer

LEMMA VerifiesOf ==
  ASSUME NEW stage, NEW ck, NEW h, NEW key, NEW n, NEW re, NEW rs, NEW send, NEW recv,
         NEW peer, NEW ext, NEW complete, NEW sealed, NEW payload
  PROVE  Verifies(Session(stage, ck, h, key, n, re, rs, send, recv, peer, ext, complete, sealed), payload)
         <=> payload = NoPayload \/ payload.over = rs
  BY FieldOf DEF Verifies

LEMMA FailOf ==
  ASSUME NEW stage, NEW ck, NEW h, NEW key, NEW n, NEW re, NEW rs, NEW send, NEW recv,
         NEW peer, NEW ext, NEW complete, NEW sealed
  PROVE  Fail(Session(stage, ck, h, key, n, re, rs, send, recv, peer, ext, complete, sealed))
         = Session("Failed", ck, h, key, n, re, rs, send, recv, peer, ext, complete, sealed)
  BY AssignStage DEF Fail, SetStage

LEMMA OutputIsKey == ASSUME NEW ck, NEW i, i # 0 PROVE Output(ck, i) # NoKey
  BY DEF Output, NoKey

LEMMA DhSymmetric == \A a, b : Dh(a, b) = Dh(b, a)
  BY DEF Dh

----------------------------------------------------------------------------
(* What each handler of the handshake makes of the session.                *)

LEMMA FreshIs == ASSUME NEW stage PROVE Fresh(stage) = Begin(stage)
  BY DEF Fresh, Begin, Half, Session, Nil, No

\* write_msg1.
LEMMA FirstMessage ==
  LET x == MixHash(Fresh("AwaitingMsg2"), E) IN
  /\ EncryptAndHash(x, NoPayload) = Waiting2("AwaitingMsg2")
  /\ Sealed(x, NoPayload) = FirstPayload
<1> DEFINE x == MixHash(Fresh("AwaitingMsg2"), E)
<1>1. x = Half("AwaitingMsg2", Nil, <<E>>, NoKey, 0, JunkKey, Nil)
  <2>1. x = Half("AwaitingMsg2", Nil, Append(Nil, E), NoKey, 0, JunkKey, Nil)
    BY FreshIs, MixHashOf DEF Begin, Half
  <2> QED BY <2>1, Append0
<1> HIDE DEF x
<1>2. /\ EncryptAndHash(x, NoPayload)
         = Half("AwaitingMsg2", Nil, Append(<<E>>, FirstPayload), NoKey, 0, JunkKey, Nil)
      /\ Sealed(x, NoPayload) = FirstPayload
  BY <1>1, ClearOf DEF Half, FirstPayload
<1> QED BY <1>2, Append1 DEF Waiting2, x

\* process_msg1: the responder's session and its answer.
LEMMA SecondMessage ==
  ASSUME NEW m, NEW k, NEW c, k = m[1], c = m[2]
  PROVE  AfterMsg1(m).x = Waiting3("AwaitingMsg3", k, c) /\ AfterMsg1(m).out = Msg2(k, c)
<1> DEFINE w == "AwaitingMsg3"
           a1 == MixHash(Fresh(w), m[1])
           a2 == [a1 EXCEPT !.re = m[1]]
           b1 == DecryptAndHash(a2, m[2])
           b2 == MixHash(b1, Ephemeral(R))
           c1 == MixKey(b2, Dh(Ephemeral(R), m[1]))
           d1 == EncryptAndHash(c1, Static(R))
           e1 == MixKey(d1, Dh(Static(R), m[1]))
           f1 == EncryptAndHash(e1, MakeLocalPayload(R))
           key1 == Output(Ck1(k), 2)
           key2 == Output(Ck2(k), 2)
<1>1. AfterMsg1(m)
      = [x |-> f1, out |-> <<Ephemeral(R), Sealed(c1, Static(R)), Sealed(e1, MakeLocalPayload(R))>>]
  BY DEF AfterMsg1, R
<1>2. a1 = Half(w, Nil, <<k>>, NoKey, 0, JunkKey, Nil)
  <2>1. a1 = Half(w, Nil, Append(Nil, k), NoKey, 0, JunkKey, Nil)
    BY FreshIs, MixHashOf DEF Begin, Half
  <2> QED BY <2>1, Append0
<1> HIDE DEF a1
<1>3. a2 = Half(w, Nil, <<k>>, NoKey, 0, k, Nil)
  BY <1>2, AssignRe DEF Half, SetRe
<1> HIDE DEF a2
<1>4. b1 = Half(w, Nil, <<k, c>>, NoKey, 0, k, Nil)
  <2>1. b1 = Half(w, Nil, Append(<<k>>, c), NoKey, 0, k, Nil)
    BY <1>3, ClearOf DEF Half
  <2> QED BY <2>1, Append1
<1> HIDE DEF b1
<1>5. b2 = Half(w, Nil, H3(k, c), NoKey, 0, k, Nil)
  <2>1. b2 = Half(w, Nil, Append(<<k, c>>, Ephemeral(R)), NoKey, 0, k, Nil)
    BY <1>4, MixHashOf DEF Half
  <2> QED BY <2>1, Append2 DEF H3
<1> HIDE DEF b2
<1>6. Ck1(k) = Append(Nil, Dh(Ephemeral(R), k))
  BY Append0 DEF Ck1
<1>7. c1 = Half(w, Ck1(k), H3(k, c), key1, 0, k, Nil)
  BY <1>5, <1>6, MixKeyOf DEF Half
<1> HIDE DEF c1
<1>8. key1 # NoKey /\ key2 # NoKey
  BY OutputIsKey
<1> HIDE DEF key1, key2
<1>9. /\ Sealed(c1, Static(R)) = Seal(key1, 0, H3(k, c), Static(R))
      /\ d1 = Half(w, Ck1(k), Append(H3(k, c), Seal(key1, 0, H3(k, c), Static(R))), key1,
                   0 + 1, k, Append(Nil, <<key1, 0>>))
  BY <1>7, <1>8, EncryptOf DEF Half
<1>10. /\ Sealed(c1, Static(R)) = SealedKey2(k, c)
       /\ d1 = Half(w, Ck1(k), H4(k, c), key1, 0 + 1, k, << <<key1, 0>> >>)
  BY <1>9, Append0 DEF SealedKey2, H4, key1
<1> HIDE DEF d1
<1>11. Ck2(k) = Append(Ck1(k), Dh(Static(R), k))
  BY Append1 DEF Ck1, Ck2
<1>12. e1 = Half(w, Ck2(k), H4(k, c), key2, 0, k, << <<key1, 0>> >>)
  BY <1>10, <1>11, MixKeyOf DEF Half, key2
<1> HIDE DEF e1
<1> DEFINE p == MakeLocalPayload(R)
<1> HIDE DEF p
<1>13. /\ Sealed(e1, p) = Seal(key2, 0, H4(k, c), p)
       /\ EncryptAndHash(e1, p)
          = Half(w, Ck2(k), Append(H4(k, c), Seal(key2, 0, H4(k, c), p)), key2,
                 0 + 1, k, Append(<< <<key1, 0>> >>, <<key2, 0>>))
  BY <1>12, <1>8, EncryptOf DEF Half
<1>14. Append(<< <<key1, 0>> >>, <<key2, 0>>) = FirstUses(R, k)
  BY Append1 DEF FirstUses, key1, key2, R, I
<1>15. Sealed(e1, p) = SealedPayload2(k, c)
  BY <1>13 DEF SealedPayload2, key2, p
<1>16. f1 = Half(w, Ck2(k), H5(k, c), key2, 0 + 1, k, FirstUses(R, k))
  BY <1>13, <1>14, <1>15 DEF H5, p
<1>17. f1 = Waiting3(w, k, c)
  BY <1>16 DEF Waiting3, key2
<1> HIDE DEF f1
<1> QED BY <1>1, <1>10, <1>15, <1>17 DEF p, Msg2

\* What an end checks of the sealed static key and payload of its peer, and
\* its session after that.
Checks(key, n, h, next, c1, c2) ==
    /\ c1.key = key /\ c1.n = n /\ c1.ad = h
    /\ c2.key = Output(next, 2) /\ c2.n = 0 /\ c2.ad = Append(h, c1)
    /\ c2.text = NoPayload \/ c2.text.over = c1.text

NextCk(r, ck, c1) == Append(ck, Dh(Ephemeral(r), c1.text))

LEMMA Identity ==
  ASSUME NEW r, NEW stage, NEW ck, NEW h, NEW key, NEW n, NEW re, NEW rs, NEW send, NEW recv,
         NEW peer, NEW ext, NEW complete, NEW sealed, NEW c1, NEW c2, key # NoKey
  PROVE  LET x == Session(stage, ck, h, key, n, re, rs, send, recv, peer, ext, complete, sealed)
             next == NextCk(r, ck, c1)
         IN /\ TakesIdentity(r, x, c1, c2) <=> Checks(key, n, h, next, c1, c2)
            /\ AfterIdentity(r, x, c1, c2)
               = Session(stage, next, Append(Append(h, c1), c2), Output(next, 2), 0 + 1, re,
                         c1.text, send, recv, c2.text.id, c2.text.ext, complete, sealed)
<1> DEFINE next == NextCk(r, ck, c1)
<1> DEFINE x == Session(stage, ck, h, key, n, re, rs, send, recv, peer, ext, complete, sealed)
           x1 == DecryptAndHash(x, c1)
           x2 == [x1 EXCEPT !.rs = c1.text]
           y == MixKey(x2, Dh(Ephemeral(r), c1.text))
           k2 == Output(next, 2)
           y2 == DecryptAndHash(y, c2)
<1>1. /\ TakesIdentity(r, x, c1, c2) <=> Opens(x, c1) /\ Opens(y, c2) /\ Verifies(y, c2.text)
      /\ AfterIdentity(r, x, c1, c2) = Identified(y2, c2.text)
  BY DEF TakesIdentity, AfterIdentity
<1>2. Opens(x, c1) <=> c1.key = key /\ c1.n = n /\ c1.ad = h
  BY OpensOf
<1>3. x1 = Session(stage, ck, Append(h, c1), key, n + 1, re, rs, send, recv, peer, ext,
                   complete, sealed)
  BY DecryptOf
<1> HIDE DEF x1
<1>4. x2 = SetRs(x1, c1.text)
  BY DEF SetRs
<1>5. x2 = Session(stage, ck, Append(h, c1), key, n + 1, re, c1.text, send, recv, peer, ext,
                   complete, sealed)
  BY <1>3, <1>4, AssignRs
<1> HIDE DEF x2
<1>6. y = Session(stage, next, Append(h, c1), k2, 0, re, c1.text, send, recv, peer, ext,
                  complete, sealed)
  BY <1>5, MixKeyOf DEF NextCk
<1> HIDE DEF y, next
<1>7. k2 # NoKey
  BY OutputIsKey
<1> HIDE DEF k2
<1>8. Opens(y, c2) <=> c2.key = k2 /\ c2.n = 0 /\ c2.ad = Append(h, c1)
  <2> DEFINE h2 == Append(h, c1)
             zero == 0
  <2> HIDE DEF h2, zero
  <2>1. y = Session(stage, next, h2, k2, zero, re, c1.text, send, recv, peer, ext, complete, sealed)
    BY <1>6 DEF h2, zero
  <2>2. Opens(y, c2) <=> c2.key = k2 /\ c2.n = zero /\ c2.ad = h2
    BY <2>1, <1>7, OpensOf
  <2> QED BY <2>2 DEF h2, zero
<1>9. Verifies(y, c2.text) <=> c2.text = NoPayload \/ c2.text.over = c1.text
  BY <1>6, VerifiesOf
<1>10. y2 = Session(stage, next, Append(Append(h, c1), c2), k2, 0 + 1, re, c1.text, send, recv,
                    peer, ext, complete, sealed)
  BY <1>6, <1>7, DecryptOf
<1> HIDE DEF y2
<1>11. Identified(y2, c2.text)
       = Session(stage, next, Append(Append(h, c1), c2), k2, 0 + 1, re, c1.text, send, recv,
                 c2.text.id, c2.text.ext, complete, sealed)
  BY <1>10, IdentifiedOf
<1>12. TakesIdentity(r, x, c1, c2) <=> Checks(key, n, h, next, c1, c2)
  BY <1>1, <1>2, <1>8, <1>9 DEF k2, Checks
<1> HIDE DEF x
<1> QED BY <1>1, <1>11, <1>12 DEF k2, x, next

LEMMA IdentityChecks ==
  ASSUME NEW r, NEW stage, NEW ck, NEW h, NEW key, NEW n, NEW re, NEW rs, NEW send, NEW recv,
         NEW peer, NEW ext, NEW complete, NEW sealed, NEW c1, NEW c2, key # NoKey
  PROVE  TakesIdentity(r, Session(stage, ck, h, key, n, re, rs, send, recv, peer, ext, complete,
                                  sealed), c1, c2)
         <=> Checks(key, n, h, NextCk(r, ck, c1), c1, c2)
  BY Identity

LEMMA IdentityAfter ==
  ASSUME NEW r, NEW stage, NEW ck, NEW h, NEW key, NEW n, NEW re, NEW rs, NEW send, NEW recv,
         NEW peer, NEW ext, NEW complete, NEW sealed, NEW c1, NEW c2, key # NoKey
  PROVE  AfterIdentity(r, Session(stage, ck, h, key, n, re, rs, send, recv, peer, ext, complete,
                                  sealed), c1, c2)
         = Session(stage, NextCk(r, ck, c1), Append(Append(h, c1), c2),
                   Output(NextCk(r, ck, c1), 2), 0 + 1, re, c1.text, send, recv, c2.text.id,
                   c2.text.ext, complete, sealed)
  BY Identity

\* An altered part opens under no key.
LEMMA AlteredParts ==
  ASSUME NEW key, NEW n, NEW ad, NEW text, NEW kind, NEW owner
  PROVE  /\ Altered(Seal(key, n, ad, text)) = Seal(NoKey, 0, <<>>, JunkText)
         /\ Altered(Key(kind, owner)) = JunkKey
<1>1. Altered(Seal(key, n, ad, text)) = Seal(NoKey, 0, <<>>, JunkText)
  BY DEF Altered, Seal
<1>2. Altered(Key(kind, owner)) = JunkKey
  BY DEF Altered, Key
<1> QED BY <1>1, <1>2

LEMMA OpenedAsSealed ==
  ASSUME NEW p, NEW key, NEW n, NEW ad, NEW text,
         p = Seal(key, n, ad, text) \/ p = Altered(Seal(key, n, ad, text)),
         p.key # NoKey
  PROVE  p = Seal(key, n, ad, text)
<1>1. Seal(NoKey, 0, <<>>, JunkText).key = NoKey
  BY DEF Seal
<1> QED BY <1>1, AlteredParts

LEMMA SealFields ==
  ASSUME NEW key, NEW n, NEW ad, NEW text
  PROVE  LET p == Seal(key, n, ad, text) IN
         p.key = key /\ p.n = n /\ p.ad = ad /\ p.text = text
  BY DEF Seal

\* split_transport, at the end of the handshake.
LEMMA SplitOf ==
  ASSUME NEW r \in Role, NEW stage, NEW h, NEW key, NEW n, NEW re, NEW rs, NEW peer,
         NEW ext, NEW sealed
  PROVE  LET x == Session(stage, Ck3, h, key, n, re, rs, NoCipher, NoCipher, peer, ext, No, sealed)
         IN [SplitTransport(x, r) EXCEPT !.stage = "Complete"]
            = Session("Complete", Ck3, h, key, n, re, rs, Cipher(SendKey(r), 0),
                      Cipher(SendKey(Remote(r)), 0), peer, ext, Yes, sealed)
<1> DEFINE x == Session(stage, Ck3, h, key, n, re, rs, NoCipher, NoCipher, peer, ext, No, sealed)
           y == SplitTransport(x, r)
<1>1. Append(Ck3, {}) = Ck4
  BY Append3 DEF Ck3, Ck4
<1>2. x.ck = Ck3
  BY FieldOf
<1>3. /\ SendKey(r) = Output(Ck4, IF r = "initiator" THEN 1 ELSE 2)
      /\ SendKey(Remote(r)) = Output(Ck4, IF r = "initiator" THEN 2 ELSE 1)
  BY DEF SendKey, Remote, I, Role
<1>4. y = SetCiphers(x, IF r = "initiator" THEN Cipher(Output(Ck4, 1), 0) ELSE Cipher(Output(Ck4, 2), 0),
                     IF r = "initiator" THEN Cipher(Output(Ck4, 2), 0) ELSE Cipher(Output(Ck4, 1), 0),
                     TRUE)
  BY <1>1, <1>2 DEF SplitTransport, SetCiphers, Cipher
<1> DEFINE s1 == Cipher(SendKey(r), 0)
           s2 == Cipher(SendKey(Remote(r)), 0)
<1>5. y = SetCiphers(x, s1, s2, Yes)
  <2>1. CASE r = "initiator"
    BY <1>3, <1>4, <2>1 DEF Yes
  <2>2. CASE r # "initiator"
    BY <1>3, <1>4, <2>2 DEF Yes
  <2> QED BY <2>1, <2>2
<1> HIDE DEF s1, s2, y
<1>6. y = Session(stage, Ck3, h, key, n, re, rs, s1, s2, peer, ext, Yes, sealed)
  BY <1>5, AssignCiphers
<1>7. SetStage(y, "Complete")
      = Session("Complete", Ck3, h, key, n, re, rs, s1, s2, peer, ext, Yes, sealed)
  BY <1>6, AssignStage
<1> QED BY <1>7 DEF SetStage, s1, s2, y

\* process_msg2: the initiator's session when it comes to the sealed key of
\* a message m.
Second(m) ==
    MixKey([MixHash(Waiting2("AwaitingMsg2"), m[1]) EXCEPT !.re = m[1]],
           Dh(Ephemeral(I), m[1]))

LEMMA SecondIs ==
  ASSUME NEW m
  PROVE  LET ck == <<Dh(E, m[1])>> IN
         Second(m) = Half("AwaitingMsg2", ck, <<E, FirstPayload, m[1]>>, Output(ck, 2), 0, m[1], Nil)
<1> DEFINE w == "AwaitingMsg2"
           k == m[1]
           x1 == MixHash(Waiting2(w), k)
           x2 == [x1 EXCEPT !.re = k]
           y == MixKey(x2, Dh(E, k))
<1>1. Second(m) = y
  BY DEF Second, E
<1> HIDE DEF k
<1>2. x1 = Half(w, Nil, <<E, FirstPayload, k>>, NoKey, 0, JunkKey, Nil)
  <2>1. x1 = Half(w, Nil, Append(<<E, FirstPayload>>, k), NoKey, 0, JunkKey, Nil)
    BY MixHashOf DEF Waiting2, Half
  <2> QED BY <2>1, Append2
<1> HIDE DEF x1
<1>3. x2 = SetRe(x1, k)
  BY DEF SetRe
<1>4. x2 = Half(w, Nil, <<E, FirstPayload, k>>, NoKey, 0, k, Nil)
  BY <1>2, <1>3, AssignRe DEF Half
<1> HIDE DEF x2
<1> DEFINE ck == Append(Nil, Dh(E, k))
<1>5. y = Half(w, ck, <<E, FirstPayload, k>>, Output(ck, 2), 0, k, Nil)
  BY <1>4, MixKeyOf DEF Half
<1>6. ck = <<Dh(E, k)>>
  BY Append0
<1> HIDE DEF ck, y
<1> QED BY <1>1, <1>5, <1>6 DEF k

\* The parts of m are those of message o, perhaps altered.
PartsOf(m, o) == \A i \in 1 .. Len(o) : m[i] = o[i] \/ m[i] = Altered(o[i])

\* process_msg2 accepts only what the responder made of the initiator's own
\* first message: the associated data of the sealed key is its hash.
LEMMA SecondAccepted ==
  ASSUME NEW m, NEW k, NEW c, PartsOf(m, Msg2(k, c)),
         TakesIdentity(I, Second(m), m[2], m[3])
  PROVE  /\ k = E /\ c = FirstPayload
         /\ m[1] = Ephemeral(R)
         /\ m[2] = SealedKey2(E, FirstPayload)
         /\ m[3] = SealedPayload2(E, FirstPayload)
<1> DEFINE ck == <<Dh(E, m[1])>>
           next == NextCk(I, ck, m[2])
           p == MakeLocalPayload(R)
<1>1. Second(m) = Half("AwaitingMsg2", ck, <<E, FirstPayload, m[1]>>, Output(ck, 2), 0, m[1], Nil)
  BY SecondIs
<1>2. Output(ck, 2) # NoKey /\ Output(next, 2) # NoKey /\ Output(Ck1(k), 2) # NoKey
  BY OutputIsKey
<1> HIDE DEF ck, next, p
<1>3. /\ m[2].key = Output(ck, 2) /\ m[2].ad = <<E, FirstPayload, m[1]>>
      /\ m[3].key = Output(next, 2)
  <2> DEFINE zero == 0
             h2 == <<E, FirstPayload, m[1]>>
  <2> HIDE DEF zero, h2
  <2>1. Second(m) = Session("AwaitingMsg2", ck, h2, Output(ck, 2), zero, m[1], JunkKey, NoCipher,
                            NoCipher, "none", Nil, No, Nil)
    BY <1>1 DEF Half, zero, h2
  <2>2. Checks(Output(ck, 2), zero, h2, next, m[2], m[3])
    BY <1>2, <2>1, IdentityChecks DEF next
  <2> QED BY <2>2 DEF Checks, h2
<1>4. /\ Len(Msg2(k, c)) = 3
      /\ Msg2(k, c)[2] = SealedKey2(k, c) /\ Msg2(k, c)[3] = SealedPayload2(k, c)
  BY DEF Msg2
<1>5. /\ m[2] = SealedKey2(k, c) \/ m[2] = Altered(SealedKey2(k, c))
      /\ m[3] = SealedPayload2(k, c) \/ m[3] = Altered(SealedPayload2(k, c))
  BY <1>4 DEF PartsOf
<1>6. m[2] = SealedKey2(k, c)
  BY <1>2, <1>3, <1>5, OpenedAsSealed DEF SealedKey2
<1>7. m[3] = SealedPayload2(k, c)
  BY <1>2, <1>3, <1>5, OpenedAsSealed DEF SealedPayload2
<1>8. m[2].ad = H3(k, c)
  BY <1>6, SealFields DEF SealedKey2
<1>9. <<k, c, Ephemeral(R)>> = <<E, FirstPayload, m[1]>>
  BY <1>3, <1>8 DEF H3
<1>10. k = E /\ c = FirstPayload /\ m[1] = Ephemeral(R)
  BY <1>9
<1> QED BY <1>6, <1>7, <1>10

\* The message as the responder made it is accepted, unless its identity has
\* signed another key.
LEMMA SecondIdentity ==
  ASSUME NEW m, m[1] = Ephemeral(R), m[2] = SealedKey2(E, FirstPayload),
         m[3] = SealedPayload2(E, FirstPayload)
  PROVE  LET p == MakeLocalPayload(R) IN
         /\ TakesIdentity(I, Second(m), m[2], m[3]) <=> p = NoPayload \/ p.over = Static(R)
         /\ AfterIdentity(I, Second(m), m[2], m[3])
            = Session("AwaitingMsg2", Ck2(E), Hash, Output(Ck2(E), 2), 0 + 1, Ephemeral(R),
                      Static(R), NoCipher, NoCipher, p.id, p.ext, No, Nil)
<1> DEFINE p == MakeLocalPayload(R)
           c1 == m[2]
           c2 == m[3]
           h3 == H3(E, FirstPayload)
           key1 == Output(Ck1(E), 2)
           key2 == Output(Ck2(E), 2)
<1>1. Ck1(E) = <<Dh(E, m[1])>>
  BY DhSymmetric DEF Ck1
<1>2. Second(m) = Half("AwaitingMsg2", Ck1(E), h3, key1, 0, Ephemeral(R), Nil)
  BY SecondIs, <1>1 DEF H3
<1>3. key1 # NoKey /\ key2 # NoKey
  BY OutputIsKey
<1>4. c1.key = key1 /\ c1.n = 0 /\ c1.ad = h3 /\ c1.text = Static(R)
  BY SealFields DEF SealedKey2
<1>5. c2.key = key2 /\ c2.n = 0 /\ c2.ad = H4(E, FirstPayload) /\ c2.text = p
  BY SealFields DEF SealedPayload2
<1>6. Append(h3, c1) = H4(E, FirstPayload) /\ Append(H4(E, FirstPayload), c2) = Hash
  BY DEF H4, H5, Hash
<1>7. Ck2(E) = Append(Ck1(E), Dh(Ephemeral(I), Static(R)))
  <2>1. Ck2(E) = Append(Ck1(E), Dh(Static(R), E))
    BY Append1 DEF Ck1, Ck2
  <2> QED BY <2>1, DhSymmetric DEF E
<1>8. Ck2(E) = NextCk(I, Ck1(E), c1)
  BY <1>7, <1>4 DEF NextCk
<1> HIDE DEF p, c1, c2, h3, key1
<1> DEFINE zero == 0
<1> HIDE DEF zero
<1>9. Second(m) = Session("AwaitingMsg2", Ck1(E), h3, key1, zero, Ephemeral(R), JunkKey,
                          NoCipher, NoCipher, "none", Nil, No, Nil)
  BY <1>2 DEF Half, zero
<1>10. TakesIdentity(I, Second(m), c1, c2) <=> Checks(key1, zero, h3, Ck2(E), c1, c2)
  BY <1>3, <1>8, <1>9, IdentityChecks
<1>11. AfterIdentity(I, Second(m), c1, c2)
       = Session("AwaitingMsg2", Ck2(E), Append(Append(h3, c1), c2), Output(Ck2(E), 2), 0 + 1,
                 Ephemeral(R), c1.text, NoCipher, NoCipher, c2.text.id, c2.text.ext, No, Nil)
  BY <1>3, <1>8, <1>9, IdentityAfter
<1>12. Checks(key1, zero, h3, Ck2(E), c1, c2) <=> p = NoPayload \/ p.over = Static(R)
  BY <1>4, <1>5, <1>6 DEF Checks, zero
<1>13. AfterIdentity(I, Second(m), c1, c2)
       = Session("AwaitingMsg2", Ck2(E), Hash, Output(Ck2(E), 2), 0 + 1, Ephemeral(R),
                 Static(R), NoCipher, NoCipher, p.id, p.ext, No, Nil)
  BY <1>4, <1>5, <1>6, <1>11
<1> QED BY <1>10, <1>12, <1>13 DEF p, c1, c2

\* A session that has just completed.
Finished(r) ==
    LET o == Remote(r) IN
    Session("Complete", Ck3, H7, Output(Ck3, 2), 0 + 1, Ephemeral(o), Static(o),
            Cipher(SendKey(r), 0), Cipher(SendKey(o), 0),
            MakeLocalPayload(o).id, MakeLocalPayload(o).ext, Yes, FirstUses(r, E))

\* process_msg2: the initiator's answer, and its session after it.
LEMMA ThirdMessage ==
  ASSUME NEW m, m[1] = Ephemeral(R), m[2] = SealedKey2(E, FirstPayload),
         m[3] = SealedPayload2(E, FirstPayload)
  PROVE  LET a == AfterIdentity(I, Second(m), m[2], m[3])
             b == MixKey(EncryptAndHash(a, Static(I)), Dh(Static(I), m[1]))
             c == EncryptAndHash(b, MakeLocalPayload(I))
         IN /\ <<Sealed(a, Static(I)), Sealed(b, MakeLocalPayload(I))>> = Msg3
            /\ [SplitTransport(c, I) EXCEPT !.stage = "Complete"] = Finished(I)
<1> DEFINE a == AfterIdentity(I, Second(m), m[2], m[3])
           a2 == EncryptAndHash(a, Static(I))
           b == MixKey(a2, Dh(Static(I), m[1]))
           c == EncryptAndHash(b, MakeLocalPayload(I))
           w == "AwaitingMsg2"
           one == 0 + 1
           eR == Ephemeral(R)
           sR == Static(R)
           id == MakeLocalPayload(R).id
           ext == MakeLocalPayload(R).ext
           key2 == Output(Ck2(E), 2)
           key3 == Output(Ck3, 2)
           p == MakeLocalPayload(I)
<1>1. a = Session(w, Ck2(E), Hash, key2, one, eR, sR, NoCipher, NoCipher, id, ext, No, Nil)
  BY SecondIdentity
<1>2. key2 # NoKey /\ key3 # NoKey
  BY OutputIsKey
<1>3. one = 1
  OBVIOUS
<1> HIDE DEF a, one, eR, sR, id, ext, key2, key3, p
<1>4. /\ Sealed(a, Static(I)) = Seal(key2, one, Hash, Static(I))
      /\ a2 = Session(w, Ck2(E), Append(Hash, Seal(key2, one, Hash, Static(I))), key2, one + 1,
                      eR, sR, NoCipher, NoCipher, id, ext, No, Append(Nil, <<key2, one>>))
  BY <1>1, <1>2, EncryptOf
<1>5. Seal(key2, one, Hash, Static(I)) = SealedKey3
  BY <1>3 DEF SealedKey3, key2
<1>6. Append(Hash, SealedKey3) = H6
  BY DEF H6
<1>7. Append(Nil, <<key2, one>>) = << <<key2, one>> >>
  BY Append0
<1>8. a2 = Session(w, Ck2(E), H6, key2, one + 1, eR, sR, NoCipher, NoCipher, id, ext, No,
                   << <<key2, one>> >>)
  BY <1>4, <1>5, <1>6, <1>7
<1> HIDE DEF a2
<1>9. Ck3 = Append(Ck2(E), Dh(Static(I), Ephemeral(R)))
  BY Append2 DEF Ck2, Ck3
<1>10. b = Session(w, Ck3, H6, key3, 0, eR, sR, NoCipher, NoCipher, id, ext, No,
                   << <<key2, one>> >>)
  BY <1>8, <1>9, MixKeyOf DEF key3
<1> HIDE DEF b
<1>11. /\ Sealed(b, p) = Seal(key3, 0, H6, p)
       /\ EncryptAndHash(b, p)
          = Session(w, Ck3, Append(H6, Seal(key3, 0, H6, p)), key3, 0 + 1, eR, sR,
                    NoCipher, NoCipher, id, ext, No, Append(<< <<key2, one>> >>, <<key3, 0>>))
  BY <1>2, <1>10, EncryptOf
<1>12. Seal(key3, 0, H6, p) = SealedPayload3
  BY DEF SealedPayload3, key3, p
<1>13. Append(H6, SealedPayload3) = H7
  BY DEF H7
<1>14. Append(<< <<key2, one>> >>, <<key3, 0>>) = FirstUses(I, E)
  BY <1>3, Append1 DEF FirstUses, key2, key3
<1>15. c = Session(w, Ck3, H7, key3, 0 + 1, eR, sR, NoCipher, NoCipher, id, ext, No,
                   FirstUses(I, E))
  BY <1>11, <1>12, <1>13, <1>14 DEF p
<1> HIDE DEF c
<1>16. I \in Role /\ Remote(I) = R
  BY DEF I, R, Role, Remote
<1>17. [SplitTransport(c, I) EXCEPT !.stage = "Complete"]
       = Session("Complete", Ck3, H7, key3, 0 + 1, eR, sR, Cipher(SendKey(I), 0),
                 Cipher(SendKey(Remote(I)), 0), id, ext, Yes, FirstUses(I, E))
  BY <1>15, <1>16, SplitOf
<1>18. [SplitTransport(c, I) EXCEPT !.stage = "Complete"] = Finished(I)
  BY <1>16, <1>17 DEF Finished, key3, eR, sR, id, ext
<1>19. <<Sealed(a, Static(I)), Sealed(b, MakeLocalPayload(I))>> = Msg3
  BY <1>4, <1>5, <1>11, <1>12 DEF p, Msg3
<1> QED BY <1>18, <1>19 DEF a, a2, b, c

\* process_msg3 accepts the initiator's answer as it was made, unless its
\* identity has signed another key.
LEMMA ThirdIdentity ==
  ASSUME NEW m, PartsOf(m, Msg3)
  PROVE  LET x == Waiting3("AwaitingMsg3", E, FirstPayload)
             p == MakeLocalPayload(I)
         IN /\ TakesIdentity(R, x, m[1], m[2]) => m[1] = SealedKey3 /\ m[2] = SealedPayload3
            /\ m[1] = SealedKey3 /\ m[2] = SealedPayload3
               => /\ TakesIdentity(R, x, m[1], m[2]) <=> p = NoPayload \/ p.over = Static(I)
                  /\ [SplitTransport(AfterIdentity(R, x, m[1], m[2]), R) EXCEPT !.stage = "Complete"]
                     = Finished(R)
<1> DEFINE x == Waiting3("AwaitingMsg3", E, FirstPayload)
           p == MakeLocalPayload(I)
           w == "AwaitingMsg3"
           key2 == Output(Ck2(E), 2)
           c1 == m[1]
           c2 == m[2]
           next == NextCk(R, Ck2(E), c1)
           one == 1
           uses == FirstUses(R, E)
           a == AfterIdentity(R, x, c1, c2)
<1>1. key2 # NoKey /\ Output(next, 2) # NoKey
  BY OutputIsKey
<1>2. x = Session(w, Ck2(E), Hash, key2, one, E, JunkKey, NoCipher, NoCipher, "none", Nil, No, uses)
  BY DEF Waiting3, Half, Hash
<1> HIDE DEF x, p, key2, c1, c2, next, one, uses, a
<1>3. TakesIdentity(R, x, c1, c2) <=> Checks(key2, one, Hash, next, c1, c2)
  BY <1>1, <1>2, IdentityChecks DEF next
<1>4. TakesIdentity(R, x, c1, c2) => c1.key # NoKey /\ c2.key # NoKey
  BY <1>1, <1>3 DEF Checks
<1>5. Len(Msg3) = 2 /\ Msg3[1] = SealedKey3 /\ Msg3[2] = SealedPayload3
  BY DEF Msg3
<1>6. /\ c1 = SealedKey3 \/ c1 = Altered(SealedKey3)
      /\ c2 = SealedPayload3 \/ c2 = Altered(SealedPayload3)
  BY <1>5 DEF PartsOf, c1, c2
<1>7. c1.key # NoKey => c1 = SealedKey3
  BY <1>6, OpenedAsSealed DEF SealedKey3
<1>8. c2.key # NoKey => c2 = SealedPayload3
  BY <1>6, OpenedAsSealed DEF SealedPayload3
<1>9. ASSUME c1 = SealedKey3, c2 = SealedPayload3
      PROVE  /\ TakesIdentity(R, x, c1, c2) <=> p = NoPayload \/ p.over = Static(I)
             /\ [SplitTransport(a, R) EXCEPT !.stage = "Complete"] = Finished(R)
  <2>1. c1.key = key2 /\ c1.n = 1 /\ c1.ad = Hash /\ c1.text = Static(I)
    BY <1>9, SealFields DEF SealedKey3, key2
  <2>2. c2.key = Output(Ck3, 2) /\ c2.n = 0 /\ c2.ad = H6 /\ c2.text = p
    BY <1>9, SealFields DEF SealedPayload3, p
  <2>3. Append(Hash, c1) = H6 /\ Append(H6, c2) = H7
    BY <1>9 DEF H6, H7
  <2>4. next = Ck3
    <3>1. Ck3 = Append(Ck2(E), Dh(Static(I), Ephemeral(R)))
      BY Append2 DEF Ck2, Ck3
    <3> QED BY <3>1, <2>1, DhSymmetric DEF next, NextCk
  <2>5. Checks(key2, one, Hash, next, c1, c2) <=> p = NoPayload \/ p.over = Static(I)
    BY <2>1, <2>2, <2>3, <2>4 DEF Checks, one
  <2>6. a = Session(w, next, Append(Append(Hash, c1), c2), Output(next, 2), 0 + 1, E, c1.text,
                    NoCipher, NoCipher, c2.text.id, c2.text.ext, No, uses)
    BY <1>1, <1>2, IdentityAfter DEF next, a
  <2>7. a = Session(w, Ck3, H7, Output(Ck3, 2), 0 + 1, E, Static(I), NoCipher, NoCipher,
                    p.id, p.ext, No, uses)
    BY <2>1, <2>2, <2>3, <2>4, <2>6
  <2>8. R \in Role /\ Remote(R) = I
    BY DEF I, R, Role, Remote
  <2>9. [SplitTransport(a, R) EXCEPT !.stage = "Complete"]
        = Session("Complete", Ck3, H7, Output(Ck3, 2), 0 + 1, E, Static(I), Cipher(SendKey(R), 0),
                  Cipher(SendKey(Remote(R)), 0), p.id, p.ext, Yes, uses)
    BY <2>7, <2>8, SplitOf
  <2>10. [SplitTransport(a, R) EXCEPT !.stage = "Complete"] = Finished(R)
    BY <2>8, <2>9 DEF Finished, p, uses, E
  <2> QED BY <1>3, <2>5, <2>10
<1> QED BY <1>4, <1>7, <1>8, <1>9 DEF x, p, c1, c2, a

----------------------------------------------------------------------------
(* Sequences of messages.                                                  *)

LEMMA SequenceOf == ASSUME NEW S, NEW s \in Seq(S) PROVE IsSequence(s)
<1>1. s \in [1 .. Len(s) -> S] /\ DOMAIN s = 1 .. Len(s) /\ Len(s) \in Nat
  OBVIOUS
<1>2. s \in [1 .. Len(s) -> {s[i] : i \in DOMAIN s}]
  BY <1>1
<1> DEFINE V == {s[i] : i \in DOMAIN s}
<1> HIDE DEF V
<1>3. s \in Seq(V)
  BY <1>1, <1>2, SeqDef DEF V
<1> QED BY <1>3 DEF IsSequence, V

LEMMA SequenceIs ==
  ASSUME NEW s, IsSequence(s)
  PROVE  /\ Len(s) \in Nat /\ DOMAIN s = 1 .. Len(s)
         /\ s # <<>> <=> Len(s) > 0
<1> DEFINE S == {s[i] : i \in DOMAIN s}
<1>1. s \in Seq(S)
  BY DEF IsSequence
<1> HIDE DEF S
<1> QED BY <1>1, EmptySeq

LEMMA SequenceAppend ==
  ASSUME NEW s, IsSequence(s), NEW a
  PROVE  LET t == Append(s, a) IN
         /\ IsSequence(t) /\ Len(t) = Len(s) + 1 /\ DOMAIN t = 1 .. Len(s) + 1
         /\ \A i \in 1 .. Len(s) : t[i] = s[i]
         /\ t[Len(s) + 1] = a
         /\ s \o <<>> = s /\ s \o <<a>> = t
<1> DEFINE S == {s[i] : i \in DOMAIN s} \cup {a}
           t == Append(s, a)
<1>1. s \in Seq({s[i] : i \in DOMAIN s})
  BY DEF IsSequence
<1>2. s \in Seq(S)
  BY <1>1
<1>3. a \in S
  OBVIOUS
<1> HIDE DEF S
<1>4. t \in Seq(S) /\ Len(t) = Len(s) + 1 /\ \A i \in 1 .. Len(s) : t[i] = s[i]
  BY <1>2, <1>3
<1>5. t[Len(s) + 1] = a
  BY <1>2, <1>3
<1>6. s \o <<>> = s
  BY <1>2, ConcatEmptySeq
<1>7. s \o <<a>> = t
  BY <1>2, <1>3, AppendIsConcat
<1> HIDE DEF t
<1>8. IsSequence(t) /\ DOMAIN t = 1 .. Len(s) + 1
  BY <1>4, SequenceOf
<1> QED BY <1>4, <1>5, <1>6, <1>7, <1>8 DEF t

LEMMA SequenceTail ==
  ASSUME NEW s, IsSequence(s), s # <<>>
  PROVE  LET t == Tail(s) IN
         /\ IsSequence(t) /\ Len(t) = Len(s) - 1 /\ DOMAIN t = 1 .. Len(s) - 1
         /\ \A i \in 1 .. Len(s) - 1 : t[i] = s[i + 1]
         /\ Head(s) = s[1]
<1> DEFINE S == {s[i] : i \in DOMAIN s}
           t == Tail(s)
<1>1. s \in Seq(S)
  BY DEF IsSequence
<1> HIDE DEF S
<1>2. t \in Seq(S) /\ Len(t) = Len(s) - 1 /\ \A i \in 1 .. Len(s) - 1 : t[i] = s[i + 1]
  BY <1>1
<1>3. Head(s) = s[1]
  BY <1>1
<1> HIDE DEF t
<1>4. IsSequence(t) /\ DOMAIN t = 1 .. Len(s) - 1
  BY <1>2, SequenceOf
<1> QED BY <1>2, <1>3, <1>4 DEF t

----------------------------------------------------------------------------
(* The hashes, the sessions and the messages of the transcript.            *)

LEMMA Names == /\ I = "initiator" /\ R = "responder" /\ I # R /\ Role = {I, R}
               /\ Remote(I) = R /\ Remote(R) = I
  BY DEF I, R, Role, Remote

\* A hash keeps the payload that was mixed into it second.
LEMMA HashFacts ==
  /\ \A k, c : H5(k, c) # <<>> /\ H5(k, c)[2] = c
  /\ H7 # <<>> /\ H7[2] = FirstPayload
  /\ IsSequence(Hash) /\ Hash = SubSeq(H7, 1, Len(Hash)) /\ Len(Hash) <= Len(H7)
<1>1. ASSUME NEW k, NEW c
      PROVE  LET S == {k, c, Ephemeral(R), SealedKey2(k, c), SealedPayload2(k, c)} IN
             H5(k, c) \in Seq(S) /\ Len(H5(k, c)) = 5 /\ H5(k, c)[2] = c
  <2> DEFINE a == SealedKey2(k, c)
             b == SealedPayload2(k, c)
             e == Ephemeral(R)
             s == H3(k, c)
             S == {k, c, e, a, b}
  <2>1. s \in Seq(S) /\ Len(s) = 3 /\ s[2] = c /\ a \in S /\ b \in S
    BY DEF H3
  <2>2. H5(k, c) = Append(Append(s, a), b)
    BY DEF H5, H4
  <2> HIDE DEF a, b, e, s, S
  <2>3. H5(k, c) \in Seq(S) /\ Len(H5(k, c)) = 5 /\ H5(k, c)[2] = c
    BY <2>1, <2>2, TwoAppends
  <2> QED BY <2>3 DEF S, a, b, e
<1>2. ASSUME NEW k, NEW c
      PROVE  H5(k, c) # <<>> /\ H5(k, c)[2] = c /\ IsSequence(H5(k, c)) /\ Len(H5(k, c)) = 5
  <2> DEFINE S == {k, c, Ephemeral(R), SealedKey2(k, c), SealedPayload2(k, c)}
  <2> HIDE DEF S
  <2>1. H5(k, c) \in Seq(S) /\ Len(H5(k, c)) = 5 /\ H5(k, c)[2] = c
    BY <1>1 DEF S
  <2>2. IsSequence(H5(k, c))
    BY <2>1, SequenceOf
  <2>3. H5(k, c) # <<>>
    BY <2>1
  <2> QED BY <2>1, <2>2, <2>3
<1>3. /\ H7 # <<>> /\ H7[2] = FirstPayload
      /\ IsSequence(Hash) /\ Hash = SubSeq(H7, 1, Len(Hash)) /\ Len(Hash) <= Len(H7)
  <2> DEFINE T == {Hash[i] : i \in DOMAIN Hash} \cup {SealedKey3, SealedPayload3}
             a == SealedKey3
             b == SealedPayload3
  <2>1. IsSequence(Hash) /\ Len(Hash) = 5 /\ Hash[2] = FirstPayload
    BY <1>2 DEF Hash
  <2>2. Hash \in Seq({Hash[i] : i \in DOMAIN Hash})
    BY <2>1 DEF IsSequence
  <2>3. Hash \in Seq(T) /\ a \in T /\ b \in T
    BY <2>2
  <2>4. H7 = Append(Append(Hash, a), b)
    BY DEF H7, H6
  <2> HIDE DEF T, a, b
  <2>5. /\ H7 \in Seq(T) /\ Len(H7) = 7 /\ H7[2] = FirstPayload
        /\ SubSeq(H7, 1, Len(Hash)) = Hash
    BY <2>1, <2>3, <2>4, TwoAppends
  <2>6. H7 # <<>>
    <3>1. Len(H7) = 7
      BY <2>5
    <3>2. Len(<<>>) = 0
      OBVIOUS
    <3> QED BY <3>1, <3>2
  <2> QED BY <2>1, <2>5, <2>6
<1> QED BY <1>2, <1>3

LEMMA HashesNotEmpty == H7 # <<>> /\ \A k, c : H5(k, c) # <<>>
  BY HashFacts

\* Fields of the sessions at each stage.
LEMMA HalfFields ==
  /\ \A stage : LET x == Begin(stage) IN
        x.stage = stage /\ x.h = <<>> /\ ~x.complete /\ x.re = JunkKey /\ x.sealed = <<>>
  /\ \A stage : LET x == Waiting2(stage) IN
        /\ x.stage = stage /\ x.h = <<E, FirstPayload>> /\ ~x.complete /\ x.sealed = <<>>
        /\ x.h # <<>>
  /\ \A stage, k, c : LET x == Waiting3(stage, k, c) IN
        /\ x.stage = stage /\ x.h = H5(k, c) /\ ~x.complete /\ x.re = k
        /\ x.sealed = FirstUses(R, k)
<1>1. ASSUME NEW stage
      PROVE  LET x == Begin(stage) IN
             x.stage = stage /\ x.h = <<>> /\ ~x.complete /\ x.re = JunkKey /\ x.sealed = <<>>
  <2>1. LET x == Begin(stage) IN
        x.stage = stage /\ x.h = Nil /\ x.complete = No /\ x.re = JunkKey /\ x.sealed = Nil
    BY FieldOf DEF Begin, Half
  <2> QED BY <2>1 DEF Nil, No
<1>2. ASSUME NEW stage
      PROVE  LET x == Waiting2(stage) IN
             /\ x.stage = stage /\ x.h = <<E, FirstPayload>> /\ ~x.complete
             /\ x.sealed = <<>>
  <2>1. LET x == Waiting2(stage) IN
        x.stage = stage /\ x.h = <<E, FirstPayload>> /\ x.complete = No /\ x.sealed = Nil
    BY FieldOf DEF Waiting2, Half
  <2> QED BY <2>1 DEF Nil, No
<1>3. <<E, FirstPayload>> # <<>>
  OBVIOUS
<1>4. ASSUME NEW stage, NEW k, NEW c
      PROVE  LET x == Waiting3(stage, k, c) IN
             /\ x.stage = stage /\ x.h = H5(k, c) /\ ~x.complete /\ x.re = k
             /\ x.sealed = FirstUses(R, k)
  <2>1. LET x == Waiting3(stage, k, c) IN
        /\ x.stage = stage /\ x.h = H5(k, c) /\ x.complete = No /\ x.re = k
        /\ x.sealed = FirstUses(R, k)
    BY FieldOf DEF Waiting3, Half
  <2> QED BY <2>1 DEF No
<1> QED BY <1>1, <1>2, <1>3, <1>4

LEMMA DoneFields ==
  ASSUME NEW r, NEW stage
  PROVE  LET x == Done(r, stage) o == Remote(r) IN
         /\ x.stage = stage /\ x.h = H7 /\ x.complete
         /\ x.re = Ephemeral(o) /\ x.rs = Static(o)
         /\ x.send = Cipher(SendKey(r), texts[r])
         /\ x.recv = Cipher(SendKey(o), Len(received[r]))
         /\ x.peer = MakeLocalPayload(o).id /\ x.ext = MakeLocalPayload(o).ext
         /\ x.sealed = Uses(r, texts[r])
<1>1. LET x == Done(r, stage) o == Remote(r) IN
      /\ x.stage = stage /\ x.h = H7 /\ x.complete = Yes
      /\ x.re = Ephemeral(o) /\ x.rs = Static(o)
      /\ x.send = Cipher(SendKey(r), texts[r])
      /\ x.recv = Cipher(SendKey(o), Len(received[r]))
      /\ x.peer = MakeLocalPayload(o).id /\ x.ext = MakeLocalPayload(o).ext
      /\ x.sealed = Uses(r, texts[r])
  BY FieldOf DEF Done
<1> QED BY <1>1 DEF Yes

LEMMA FailedSessions ==
  /\ \A stage : Fail(Begin(stage)) = Begin("Failed")
  /\ \A stage : Fail(Waiting2(stage)) = Waiting2("Failed")
  /\ \A stage, k, c : Fail(Waiting3(stage, k, c)) = Waiting3("Failed", k, c)
  /\ \A r, stage : Fail(Done(r, stage)) = Done(r, "Failed")
<1>1. ASSUME NEW stage PROVE Fail(Begin(stage)) = Begin("Failed")
  BY FailOf DEF Begin, Half
<1>2. ASSUME NEW stage PROVE Fail(Waiting2(stage)) = Waiting2("Failed")
  BY FailOf DEF Waiting2, Half
<1>3. ASSUME NEW stage, NEW k, NEW c PROVE Fail(Waiting3(stage, k, c)) = Waiting3("Failed", k, c)
  BY FailOf DEF Waiting3, Half
<1>4. ASSUME NEW r, NEW stage PROVE Fail(Done(r, stage)) = Done(r, "Failed")
  BY FailOf DEF Done
<1> QED BY <1>1, <1>2, <1>3, <1>4

\* The stage of a session tells its shape.
InitiatorFacts(x) ==
    /\ x.stage \in {"Idle", "AwaitingMsg2", "Complete", "Failed"}
    /\ x.stage = "Idle" <=> x = Begin("Idle")
    /\ x.stage = "AwaitingMsg2" <=> x = Waiting2("AwaitingMsg2")
    /\ x.stage = "Complete" <=> x = Done(I, "Complete")
    /\ x.complete <=> \E stage \in {"Complete", "Failed"} : x = Done(I, stage)
    /\ x.h = <<>> <=> x.stage = "Idle"

LEMMA InitiatorAt == ASSUME InitiatorShape PROVE InitiatorFacts(session[I])
<1> DEFINE x == session[I]
<1>1. /\ Begin("Idle").stage = "Idle" /\ ~Begin("Idle").complete
      /\ Begin("Idle").h = <<>>
  BY HalfFields
<1>2. ASSUME NEW stage
      PROVE  /\ Waiting2(stage).stage = stage /\ ~Waiting2(stage).complete
             /\ Waiting2(stage).h # <<>>
  BY HalfFields
<1>3. ASSUME NEW stage
      PROVE  /\ Done(I, stage).stage = stage /\ Done(I, stage).complete
             /\ Done(I, stage).h # <<>>
  BY DoneFields, HashesNotEmpty
<1>4. ASSUME x = Begin("Idle") PROVE InitiatorFacts(x)
  <2>1. x.stage = "Idle" /\ ~x.complete /\ x.h = <<>>
    BY <1>1, <1>4
  <2>2. \A t : x # Done(I, t) /\ x # Waiting2(t)
    BY <1>2, <1>3, <2>1
  <2> HIDE DEF x
  <2> QED BY <1>4, <2>1, <2>2 DEF InitiatorFacts
<1>5. ASSUME NEW stage \in {"AwaitingMsg2", "Failed"}, x = Waiting2(stage)
      PROVE  InitiatorFacts(x)
  <2>1. x.stage = stage /\ ~x.complete /\ x.h # <<>>
    BY <1>2, <1>5
  <2>2. \A t : x # Done(I, t)
    BY <1>3, <2>1
  <2>3. x # Begin("Idle")
    BY <1>1, <2>1
  <2> HIDE DEF x
  <2> QED BY <1>2, <1>5, <2>1, <2>2, <2>3 DEF InitiatorFacts
<1>6. ASSUME NEW stage \in {"Complete", "Failed"}, x = Done(I, stage)
      PROVE  InitiatorFacts(x)
  <2>1. x.stage = stage /\ x.complete /\ x.h # <<>>
    BY <1>3, <1>6
  <2>2. \A t : x # Waiting2(t)
    BY <1>2, <2>1
  <2>3. x # Begin("Idle")
    BY <1>1, <2>1
  <2> HIDE DEF x
  <2> QED BY <1>3, <1>6, <2>1, <2>2, <2>3 DEF InitiatorFacts
<1> QED BY <1>4, <1>5, <1>6 DEF InitiatorShape

ResponderFacts(y) ==
    /\ y.stage \in {"AwaitingMsg1", "AwaitingMsg3", "Complete", "Failed"}
    /\ y.stage = "AwaitingMsg1" <=> y = Begin("AwaitingMsg1")
    /\ y.stage = "AwaitingMsg3"
       => \E k \in Keys1, c \in Payloads1 : y = Waiting3("AwaitingMsg3", k, c)
    /\ y.stage = "Complete" <=> y = Done(R, "Complete")
    /\ y.complete <=> \E stage \in {"Complete", "Failed"} : y = Done(R, stage)
    /\ y.h = <<>> <=> y \in {Begin("AwaitingMsg1"), Begin("Failed")}
    /\ y.h # <<>> /\ ~y.complete
       => \E stage \in {"AwaitingMsg3", "Failed"}, k \in Keys1, c \in Payloads1 :
              y = Waiting3(stage, k, c)

LEMMA ResponderAt ==
  ASSUME NEW y, y = session[R], ResponderShape
  PROVE  ResponderFacts(y)
<1>1. ASSUME NEW stage
      PROVE  /\ Begin(stage).stage = stage /\ ~Begin(stage).complete
             /\ Begin(stage).h = <<>>
  BY HalfFields
<1>2. ASSUME NEW stage, NEW k, NEW c
      PROVE  /\ Waiting3(stage, k, c).stage = stage /\ ~Waiting3(stage, k, c).complete
             /\ Waiting3(stage, k, c).h # <<>>
  BY HalfFields, HashesNotEmpty
<1>3. ASSUME NEW stage
      PROVE  /\ Done(R, stage).stage = stage /\ Done(R, stage).complete
             /\ Done(R, stage).h # <<>>
  BY DoneFields, HashesNotEmpty
<1>4. ASSUME NEW stage \in {"AwaitingMsg1", "Failed"}, y = Begin(stage)
      PROVE  ResponderFacts(y)
  <2>1. y.stage = stage /\ ~y.complete /\ y.h = <<>>
    BY <1>1, <1>4
  <2>2. \A t : y # Done(R, t)
    BY <1>3, <2>1
  <2> QED BY <1>1, <1>4, <2>1, <2>2 DEF ResponderFacts
<1>5. ASSUME NEW stage, NEW k, NEW c, y = Waiting3(stage, k, c),
             stage \in {"AwaitingMsg3", "Failed"}, k \in Keys1, c \in Payloads1
      PROVE  ResponderFacts(y)
  <2>1. y.stage = stage /\ ~y.complete /\ y.h # <<>>
    BY <1>2, <1>5
  <2>2. \A t : y # Done(R, t) /\ y # Begin(t)
    BY <1>1, <1>3, <2>1
  <2>3. y.stage = "AwaitingMsg3" => y = Waiting3("AwaitingMsg3", k, c)
    BY <1>5, <2>1
  <2> QED BY <1>5, <2>1, <2>2, <2>3 DEF ResponderFacts
<1>6. ASSUME NEW stage \in {"Complete", "Failed"}, y = Done(R, stage)
      PROVE  ResponderFacts(y)
  <2>1. y.stage = stage /\ y.complete /\ y.h # <<>>
    BY <1>3, <1>6
  <2>2. \A t : y # Begin(t)
    BY <1>1, <2>1
  <2> QED BY <1>3, <1>6, <2>1, <2>2 DEF ResponderFacts
<1> QED BY <1>4, <1>5, <1>6 DEF ResponderShape

\* Every message of the transcript is a sequence of keys and ciphertexts.
LEMMA MessageIs ==
  ASSUME NEW r \in Role, NEW j \in Nat \ {0}
  PROVE  LET o == SentMsg(r, j) IN
         /\ IsSequence(o) /\ Len(o) \in 1 .. 3
         /\ \A i \in 1 .. Len(o) : Altered(Altered(o[i])) = Altered(o[i])
<1>1. /\ \A key, n, ad, text : LET p == Seal(key, n, ad, text) IN Altered(Altered(p)) = Altered(p)
      /\ \A kind, owner : LET p == Key(kind, owner) IN Altered(Altered(p)) = Altered(p)
  BY AlteredParts DEF JunkKey
<1>2. ASSUME NEW a, Altered(Altered(a)) = Altered(a)
      PROVE  LET o == <<a>> IN
             /\ IsSequence(o) /\ Len(o) \in 1 .. 3
             /\ \A i \in 1 .. Len(o) : Altered(Altered(o[i])) = Altered(o[i])
  <2>1. <<a>> \in Seq({a}) /\ Len(<<a>>) = 1 /\ <<a>>[1] = a
    OBVIOUS
  <2>2. IsSequence(<<a>>)
    BY <2>1, SequenceOf
  <2> QED BY <1>2, <2>1, <2>2
<1>3. ASSUME NEW a, NEW b, Altered(Altered(a)) = Altered(a), Altered(Altered(b)) = Altered(b)
      PROVE  LET o == <<a, b>> IN
             /\ IsSequence(o) /\ Len(o) \in 1 .. 3
             /\ \A i \in 1 .. Len(o) : Altered(Altered(o[i])) = Altered(o[i])
  <2>1. LET o == <<a, b>> IN o \in Seq({a, b}) /\ Len(o) = 2 /\ o[1] = a /\ o[2] = b
    OBVIOUS
  <2>2. IsSequence(<<a, b>>)
    BY <2>1, SequenceOf
  <2> QED BY <1>3, <2>1, <2>2
<1>4. ASSUME NEW a, NEW b, NEW c, Altered(Altered(a)) = Altered(a),
             Altered(Altered(b)) = Altered(b), Altered(Altered(c)) = Altered(c)
      PROVE  LET o == <<a, b, c>> IN
             /\ IsSequence(o) /\ Len(o) \in 1 .. 3
             /\ \A i \in 1 .. Len(o) : Altered(Altered(o[i])) = Altered(o[i])
  <2>1. LET o == <<a, b, c>> IN
        o \in Seq({a, b, c}) /\ Len(o) = 3 /\ o[1] = a /\ o[2] = b /\ o[3] = c
    OBVIOUS
  <2>2. IsSequence(<<a, b, c>>)
    BY <2>1, SequenceOf
  <2> QED BY <1>4, <2>1, <2>2
<1>5. CASE r = I
  <2>1. CASE j = 1
    <3>1. SentMsg(r, j) = <<E, FirstPayload>>
      BY <1>5, <2>1 DEF SentMsg
    <3> QED BY <3>1, <1>1, <1>3 DEF E, Ephemeral, FirstPayload
  <2>2. CASE j = 2
    <3>1. SentMsg(r, j) = <<SealedKey3, SealedPayload3>>
      BY <1>5, <2>2 DEF SentMsg, Msg3
    <3> QED BY <3>1, <1>1, <1>3 DEF SealedKey3, SealedPayload3
  <2>3. CASE j # 1 /\ j # 2
    <3>1. SentMsg(r, j) = <<Seal(SendKey(I), j - 3, <<>>, j - 2)>>
      BY <1>5, <2>3 DEF SentMsg
    <3> QED BY <3>1, <1>1, <1>2
  <2> QED BY <2>1, <2>2, <2>3
<1>6. CASE r = R
  <2>1. CASE j = 1
    <3> DEFINE k == session[R].re
               c == session[R].h[2]
    <3>1. SentMsg(r, j) = <<Ephemeral(R), SealedKey2(k, c), SealedPayload2(k, c)>>
      BY <1>6, <2>1, Names DEF SentMsg, Msg2
    <3> QED BY <3>1, <1>1, <1>4 DEF Ephemeral, SealedKey2, SealedPayload2
  <2>2. CASE j # 1
    <3>1. SentMsg(r, j) = <<Seal(SendKey(R), j - 2, <<>>, j - 1)>>
      BY <1>6, <2>2, Names DEF SentMsg
    <3> QED BY <3>1, <1>1, <1>2
  <2> QED BY <2>1, <2>2
<1> QED BY <1>5, <1>6, Names

LEMMA NearItself == ASSUME NEW o, IsSequence(o) PROVE Near(o, o)
  BY SequenceIs DEF Near

\* Messages sent and taken.
LEMMA CarriesSent ==
  ASSUME NEW r \in Role, NEW w, IsSequence(w), NEW n \in Nat, NEW s \in Nat, n <= s,
         Carries(r, w, n, s)
  PROVE  LET v == Append(w, SentMsg(r, s + 1)) IN
         IsSequence(v) /\ Carries(r, v, n, s + 1)
<1> DEFINE a == SentMsg(r, s + 1)
           v == Append(w, a)
<1>1. /\ IsSequence(v) /\ Len(v) = Len(w) + 1 /\ DOMAIN v = 1 .. Len(w) + 1
      /\ v[Len(w) + 1] = a /\ \A i \in 1 .. Len(w) : v[i] = w[i]
  BY SequenceAppend
<1>2. Len(w) \in Nat /\ Len(w) = s - n /\ DOMAIN w = 1 .. Len(w)
  BY SequenceIs DEF Carries
<1>3. Near(a, a)
  BY MessageIs, NearItself
<1> HIDE DEF a, v
<1>4. Len(v) = s + 1 - n
  BY <1>1, <1>2
<1>5. Len(w) = 0 => s + 1 = n + 1
  BY <1>2
<1>6. n + (Len(w) + 1) = s + 1
  BY <1>2
<1>7. ASSUME Len(w) = 0 PROVE Near(v[1], SentMsg(r, n + 1))
  BY <1>1, <1>3, <1>5, <1>7 DEF a
<1>8. ASSUME Len(w) > 0 PROVE Near(v[1], SentMsg(r, n + 1))
  BY <1>1, <1>2, <1>8 DEF Carries
<1>9. ASSUME NEW j \in DOMAIN v, j > 1 PROVE v[j] = SentMsg(r, n + j)
  <2>1. CASE j = Len(w) + 1
    BY <1>1, <1>6, <2>1 DEF a
  <2>2. CASE j # Len(w) + 1
    <3>1. j \in 1 .. Len(w)
      BY <1>1, <1>2, <2>2
    <3> QED BY <1>1, <1>2, <1>9, <3>1 DEF Carries
  <2> QED BY <2>1, <2>2
<1>10. Carries(r, v, n, s + 1)
  BY <1>2, <1>4, <1>7, <1>8, <1>9 DEF Carries
<1> QED BY <1>1, <1>10 DEF a, v

LEMMA CarriesTaken ==
  ASSUME NEW r \in Role, NEW w, IsSequence(w), w # <<>>, NEW n \in Nat, NEW s \in Nat,
         Carries(r, w, n, s)
  PROVE  LET v == Tail(w) IN
         /\ IsSequence(v) /\ Carries(r, v, n + 1, s)
         /\ Near(Head(w), SentMsg(r, n + 1)) /\ n < s
<1> DEFINE v == Tail(w)
<1>1. /\ IsSequence(v) /\ Len(v) = Len(w) - 1 /\ DOMAIN v = 1 .. Len(w) - 1
      /\ \A i \in 1 .. Len(w) - 1 : v[i] = w[i + 1]
      /\ Head(w) = w[1]
  BY SequenceTail
<1>2. Len(w) \in Nat /\ Len(w) > 0 /\ Len(w) = s - n /\ DOMAIN w = 1 .. Len(w)
  BY SequenceIs DEF Carries
<1> HIDE DEF v
<1>3. Near(w[1], SentMsg(r, n + 1))
  BY <1>2 DEF Carries
<1>4. ASSUME NEW j \in DOMAIN v
      PROVE  v[j] = SentMsg(r, n + 1 + j) /\ Near(v[j], SentMsg(r, n + 1 + j))
  <2>1. v[j] = w[j + 1] /\ j + 1 \in DOMAIN w /\ j + 1 > 1 /\ j \in Nat
    BY <1>1, <1>2
  <2>2. v[j] = SentMsg(r, n + (j + 1))
    BY <2>1 DEF Carries
  <2>3. n + (j + 1) = n + 1 + j /\ n + 1 + j \in Nat \ {0}
    BY <2>1
  <2> QED BY <2>2, <2>3, MessageIs, NearItself
<1>5. Len(v) = s - (n + 1) /\ n < s
  BY <1>1, <1>2
<1>6. Carries(r, v, n + 1, s)
  BY <1>4, <1>5 DEF Carries
<1> QED BY <1>1, <1>3, <1>5, <1>6 DEF v

----------------------------------------------------------------------------
(* What a step leaves as it is.                                            *)

LEMMA LocalKept ==
  ASSUME local' = local
  PROVE  /\ \A r : MakeLocalPayload(r)' = MakeLocalPayload(r)
         /\ \A k, c : H5(k, c)' = H5(k, c) /\ Msg2(k, c)' = Msg2(k, c)
         /\ Hash' = Hash /\ H7' = H7 /\ Msg3' = Msg3
<1>1. \A r : MakeLocalPayload(r)' = MakeLocalPayload(r)
  BY DEF MakeLocalPayload
<1>2. ASSUME NEW k, NEW c PROVE SealedPayload2(k, c)' = SealedPayload2(k, c)
  BY <1>1 DEF SealedPayload2, H4
<1>3. ASSUME NEW k, NEW c PROVE H5(k, c)' = H5(k, c) /\ Msg2(k, c)' = Msg2(k, c)
  BY <1>2 DEF H5, H4, Msg2
<1>4. Hash' = Hash
  BY <1>3 DEF Hash
<1>5. SealedKey3' = SealedKey3 /\ H6' = H6
  BY <1>4 DEF SealedKey3, H6
<1>6. SealedPayload3' = SealedPayload3
  BY <1>1, <1>5 DEF SealedPayload3
<1>7. H7' = H7 /\ Msg3' = Msg3
  BY <1>5, <1>6 DEF H7, Msg3
<1> QED BY <1>1, <1>3, <1>4, <1>7

LEMMA WaitingKept ==
  ASSUME local' = local
  PROVE  \A stage, k, c : Waiting3(stage, k, c)' = Waiting3(stage, k, c)
  BY LocalKept DEF Waiting3

LEMMA DoneKept ==
  ASSUME local' = local, NEW r \in Role, texts'[r] = texts[r], received'[r] = received[r]
  PROVE  \A stage : Done(r, stage)' = Done(r, stage)
  BY LocalKept DEF Done

LEMMA InitiatorKept ==
  ASSUME InitiatorShape, local' = local, session'[I] = session[I],
         texts'[I] = texts[I], received'[I] = received[I]
  PROVE  InitiatorShape'
<1>1. \A stage : Done(I, stage)' = Done(I, stage)
  BY DoneKept, Names
<1> QED BY <1>1 DEF InitiatorShape

LEMMA ResponderKept ==
  ASSUME ResponderShape, local' = local, session'[R] = session[R],
         texts'[R] = texts[R], received'[R] = received[R]
  PROVE  ResponderShape'
<1>1. \A stage : Done(R, stage)' = Done(R, stage)
  BY DoneKept, Names
<1> QED BY <1>1, WaitingKept DEF ResponderShape

\* What the second message of the responder depends on.
SameSecond == session'[R].re = session[R].re /\ session'[R].h[2] = session[R].h[2]

LEMMA SentKept ==
  ASSUME local' = local, NEW r \in Role, r = R => SameSecond
  PROVE  \A j : SentMsg(r, j)' = SentMsg(r, j)
<1> SUFFICES ASSUME NEW j PROVE SentMsg(r, j)' = SentMsg(r, j)
  OBVIOUS
<1>1. CASE r = I
  BY <1>1, LocalKept DEF SentMsg
<1>2. CASE r = R
  <2> DEFINE k == session[R].re
             c == session[R].h[2]
  <2>1. k' = k /\ c' = c
    BY <1>2 DEF SameSecond
  <2>2. Msg2(k, c)' = Msg2(k, c)
    <3>1. \A a, b : Msg2(a, b)' = Msg2(a, b)
      BY LocalKept
    <3> PICK a : a = k
      OBVIOUS
    <3> PICK b : b = c
      OBVIOUS
    <3>2. Msg2(k, c)' = Msg2(a, b)'
      BY <2>1
    <3> HIDE DEF k, c
    <3> QED BY <3>1, <3>2
  <2>3. r # I
    BY <1>2, Names
  <2> HIDE DEF k, c
  <2>4. SentMsg(r, j) = IF j = 1 THEN Msg2(k, c) ELSE <<Seal(SendKey(R), j - 2, <<>>, j - 1)>>
    BY <2>3 DEF SentMsg, k, c
  <2>5. SentMsg(r, j)' = (IF j = 1 THEN Msg2(k, c)' ELSE <<Seal(SendKey(R), j - 2, <<>>, j - 1)>>)
    BY <2>3 DEF SentMsg, k, c
  <2> QED BY <2>2, <2>4, <2>5
<1> QED BY <1>1, <1>2, Names

LEMMA CarriesKept ==
  ASSUME local' = local, damaged' = damaged \/ damaged' # 0, NEW r \in Role, r = R => SameSecond,
         NEW w, NEW n, NEW s, Carries(r, w, n, s)
  PROVE  Carries(r, w, n, s)'
<1>1. \A j : SentMsg(r, j)' = SentMsg(r, j)
  BY SentKept
<1>2. \A m, o : Near(m, o) => Near(m, o)'
  BY DEF Near
<1>3. Near(w[1], SentMsg(r, n + 1)) => Near(w[1], SentMsg(r, n + 1))'
  <2> PICK o : o = SentMsg(r, n + 1)
    OBVIOUS
  <2>1. SentMsg(r, n + 1)' = o
    BY <1>1
  <2>2. Near(w[1], SentMsg(r, n + 1))' <=> Near(w[1], o)'
    BY <2>1 DEF Near
  <2> QED BY <1>2, <2>2
<1> QED BY <1>1, <1>3 DEF Carries

\* A message that is altered once more, or cut.
LEMMA NearDamaged ==
  ASSUME NEW o, IsSequence(o), NEW m, Near(m, o), NEW v,
         \A i \in 1 .. Len(o) : Altered(Altered(o[i])) = Altered(o[i]),
         \/ \E i \in DOMAIN m : v = [m EXCEPT ![i] = Altered(m[i])]
         \/ v = SubSeq(m, 1, Len(m) - 1),
         damaged' # 0
  PROVE  Near(v, o)'
<1>1. IsSequence(m) /\ Len(m) \in Nat /\ DOMAIN m = 1 .. Len(m) /\ Len(m) <= Len(o)
  BY SequenceIs DEF Near
<1>2. Len(o) \in Nat
  BY SequenceIs
<1>3. \A i \in 1 .. Len(m) : m[i] = o[i] \/ m[i] = Altered(o[i])
  BY <1>1 DEF Near
<1>4. m \in Seq({m[i] : i \in DOMAIN m})
  BY <1>1 DEF IsSequence
<1>5. ASSUME NEW i \in DOMAIN m, v = [m EXCEPT ![i] = Altered(m[i])]
      PROVE  /\ IsSequence(v) /\ Len(v) <= Len(o) /\ DOMAIN v = 1 .. Len(v)
             /\ \A j \in 1 .. Len(v) : v[j] = o[j] \/ v[j] = Altered(o[j])
  <2> DEFINE S == {m[j] : j \in DOMAIN m} \cup {Altered(m[i])}
  <2>1. m \in Seq(S) /\ Altered(m[i]) \in S
    BY <1>4
  <2> HIDE DEF S
  <2>2. v \in Seq(S) /\ Len(v) = Len(m) /\ DOMAIN v = 1 .. Len(m)
    <3> DEFINE a == Altered(m[i])
    <3> HIDE DEF a
    <3>1. v = [m EXCEPT ![i] = a] /\ a \in S /\ i \in 1 .. Len(m)
      BY <1>1, <1>5, <2>1 DEF a
    <3> QED BY <2>1, <3>1, ExceptSeq
  <2>3. IsSequence(v)
    BY <2>2, SequenceOf
  <2>4. ASSUME NEW j \in 1 .. Len(m) PROVE v[j] = o[j] \/ v[j] = Altered(o[j])
    <3>1. v[j] = IF j = i THEN Altered(m[j]) ELSE m[j]
      BY <1>1, <1>5
    <3>2. j \in 1 .. Len(o)
      BY <1>1, <1>2
    <3> QED BY <1>3, <3>1, <3>2
  <2> QED BY <1>1, <2>2, <2>3, <2>4
<1>6. ASSUME v = SubSeq(m, 1, Len(m) - 1)
      PROVE  /\ IsSequence(v) /\ Len(v) <= Len(o) /\ DOMAIN v = 1 .. Len(v)
             /\ \A j \in 1 .. Len(v) : v[j] = o[j] \/ v[j] = Altered(o[j])
  <2> DEFINE S == {m[j] : j \in DOMAIN m}
  <2> HIDE DEF S
  <2>1. m \in Seq(S)
    BY <1>4 DEF S
  <2>2. CASE Len(m) = 0
    <3>1. v \in Seq(S) /\ Len(v) = 0
      BY <1>6, <2>1, <2>2
    <3>2. IsSequence(v) /\ DOMAIN v = 1 .. Len(v)
      BY <3>1, SequenceOf, SequenceIs
    <3> QED BY <1>2, <3>1, <3>2
  <2>3. CASE Len(m) > 0
    <3>1. v \in Seq(S) /\ Len(v) = Len(m) - 1 /\ \A j \in 1 .. Len(m) - 1 : v[j] = m[j]
      BY <1>1, <1>6, <2>1, <2>3
    <3>2. IsSequence(v) /\ DOMAIN v = 1 .. Len(v)
      BY <3>1, SequenceOf, SequenceIs
    <3>3. \A j \in 1 .. Len(m) - 1 : j \in 1 .. Len(m)
      BY <1>1
    <3>4. \A j \in 1 .. Len(v) : v[j] = o[j] \/ v[j] = Altered(o[j])
      BY <1>3, <3>1, <3>3
    <3>5. Len(v) <= Len(o)
      BY <1>1, <1>2, <3>1
    <3> QED BY <3>2, <3>4, <3>5
  <2> QED BY <1>1, <2>2, <2>3
<1> QED BY <1>5, <1>6 DEF Near

\* v is message m, altered in a part or cut short.
DamagedFrom(m, v) ==
    \/ \E i \in DOMAIN m : v = [m EXCEPT ![i] = Altered(m[i])]
    \/ v = SubSeq(m, 1, Len(m) - 1)

LEMMA CarriesDamaged ==
  ASSUME local' = local, session' = session, damaged' # 0, NEW r \in Role,
         NEW w, IsSequence(w), w # <<>>, NEW n \in Nat, NEW s, Carries(r, w, n, s),
         NEW v, Len(v) = Len(w), DOMAIN v = DOMAIN w,
         \A j \in DOMAIN w : j > 1 => v[j] = w[j],
         DamagedFrom(w[1], v[1])
  PROVE  Carries(r, v, n, s)'
<1> DEFINE o == SentMsg(r, n + 1)
<1>1. \A j : SentMsg(r, j)' = SentMsg(r, j)
  BY SentKept DEF SameSecond
<1>2. 1 \in DOMAIN w
  BY SequenceIs
<1>3. Near(w[1], o)
  BY <1>2 DEF Carries
<1>4. IsSequence(o) /\ \A i \in 1 .. Len(o) : Altered(Altered(o[i])) = Altered(o[i])
  BY MessageIs
<1> PICK q : q = o
  OBVIOUS
<1> HIDE DEF o
<1>5. Near(v[1], q)'
  BY <1>3, <1>4, NearDamaged DEF DamagedFrom
<1>6. Near(v[1], SentMsg(r, n + 1))' <=> Near(v[1], q)'
  BY <1>1 DEF Near, o
<1>7. Len(v) = s - n
  BY DEF Carries
<1>8. \A j \in DOMAIN v : j > 1 => v[j] = SentMsg(r, n + j)'
  BY <1>1 DEF Carries
<1> QED BY <1>5, <1>6, <1>7, <1>8 DEF Carries

LEMMA CountsKept ==
  ASSUME Counts, texts' = texts, received' = received,
         \A r \in Role : session[r].complete => session'[r].complete
  PROVE  Counts'
  BY DEF Counts

LEMMA CauseKept ==
  ASSUME FailureHasCause, Channels, local' = local,
         damaged' = damaged \/ damaged' = damaged + 1,
         \A r \in Role : session'[r].stage = "Failed" => session[r].stage = "Failed"
  PROVE  FailureHasCause'
<1>1. damaged > 0 => damaged' > 0
  BY DEF Channels
<1> QED BY <1>1 DEF FailureHasCause

LEMMA CountsAreNat ==
  ASSUME Counts, Channels
  PROVE  \A r \in Role : /\ texts[r] \in Nat /\ Len(received[r]) \in Nat
                         /\ SentCount(r) \in Nat /\ TakenCount(r) \in Nat
<1> SUFFICES ASSUME NEW r \in Role
             PROVE  /\ texts[r] \in Nat /\ Len(received[r]) \in Nat
                    /\ SentCount(r) \in Nat /\ TakenCount(r) \in Nat
  OBVIOUS
<1>1. MaxNonce \in Nat
  BY NoiseAssumption
<1>2. texts[r] \in Nat
  BY <1>1 DEF Counts
<1>3. \A q \in Role : received[q] \in Seq(Nat)
  BY DEF Channels
<1>4. \A q \in Role : Len(received[q]) \in Nat
  BY <1>3, LenProperties
<1>5. Remote(r) \in Role
  BY Names
<1>6. SentCount(r) \in Nat
  <2>1. Hands(r) \in Nat
    BY DEF Hands
  <2>2. Hands(r) + texts[r] \in Nat
    BY <1>2, <2>1
  <2> QED BY <2>2 DEF SentCount
<1>7. TakenCount(r) \in Nat
  <2>1. Hands(r) \in Nat
    BY DEF Hands
  <2>2. Hands(r) + Len(received[Remote(r)]) \in Nat
    BY <1>4, <1>5, <2>1
  <2> QED BY <2>2 DEF TakenCount
<1> QED BY <1>2, <1>4, <1>6, <1>7

LEMMA BecomeIs ==
  ASSUME Channels, NEW r \in Role, NEW x, Become(r, x)
  PROVE  /\ session' = [q \in Role |-> session'[q]]
         /\ session'[r] = x
         /\ session'[Remote(r)] = session[Remote(r)]
<1>1. session = [q \in Role |-> session[q]]
  BY DEF Channels
<1>2. session' = [q \in Role |-> IF q = r THEN x ELSE session[q]]
  BY <1>1 DEF Become
<1>3. Remote(r) \in Role /\ Remote(r) # r
  BY Names
<1> QED BY <1>2, <1>3

LEMMA AnswerIs ==
  ASSUME Channels, NEW r \in Role, sent[Remote(r)] # <<>>, NEW ms, Answer(r, ms)
  PROVE  /\ sent' = [q \in Role |-> sent'[q]]
         /\ sent'[Remote(r)] = Tail(sent[Remote(r)]) /\ IsSequence(sent'[Remote(r)])
         /\ Incoming(r) = Head(sent[Remote(r)])
         /\ ms = <<>> => sent'[r] = sent[r]
         /\ \A a : ms = <<a>> => sent'[r] = Append(sent[r], a)
<1>1. sent = [q \in Role |-> sent[q]]
  BY DEF Channels
<1>2. Remote(r) \in Role /\ Remote(r) # r
  BY Names
<1>3. sent' = [q \in Role |-> IF q = r THEN sent[r] \o ms
                              ELSE IF q = Remote(r) THEN Tail(sent[q]) ELSE sent[q]]
  <2>1. sent' = [sent EXCEPT ![Remote(r)] = Tail(sent[Remote(r)]), ![r] = sent[r] \o ms]
    BY <1>2 DEF Answer
  <2> QED BY <1>1, <1>2, <2>1
<1>4. sent'[r] = sent[r] \o ms /\ sent'[Remote(r)] = Tail(sent[Remote(r)])
  BY <1>2, <1>3
<1>5. IsSequence(sent[r]) /\ IsSequence(sent[Remote(r)])
  BY <1>2 DEF Channels
<1>6. IsSequence(Tail(sent[Remote(r)]))
  BY <1>5, SequenceTail
<1>7. sent' = [q \in Role |-> sent'[q]]
  BY <1>3
<1>8. ms = <<>> => sent'[r] = sent[r]
  BY <1>4, <1>5, SequenceAppend
<1>9. \A a : ms = <<a>> => sent'[r] = Append(sent[r], a)
  BY <1>4, <1>5, SequenceAppend
<1> QED BY <1>4, <1>6, <1>7, <1>8, <1>9 DEF Incoming

LEMMA FlightKept ==
  ASSUME NEW r \in Role, InFlight(r), local' = local, damaged' = damaged \/ damaged' # 0,
         r = R => SameSecond, sent'[r] = sent[r],
         TakenCount(r)' = TakenCount(r), SentCount(r)' = SentCount(r),
         session'[Remote(r)].stage # "Failed" => session[Remote(r)].stage # "Failed"
  PROVE  InFlight(r)'
<1> SUFFICES ASSUME session'[Remote(r)].stage # "Failed"
             PROVE  Carries(r, sent[r], TakenCount(r), SentCount(r))'
  BY DEF InFlight
<1> PICK w : w = sent[r]
  OBVIOUS
<1> PICK n : n = TakenCount(r)
  OBVIOUS
<1> PICK s : s = SentCount(r)
  OBVIOUS
<1>1. Carries(r, w, n, s)
  BY DEF InFlight
<1>2. Carries(r, w, n, s)'
  BY <1>1, CarriesKept
<1>3. sent'[r] = w /\ TakenCount(r)' = n /\ SentCount(r)' = s
  OBVIOUS
<1> QED BY <1>2, <1>3 DEF Carries

LEMMA FlightSent ==
  ASSUME NEW r \in Role, InFlight(r), Counts, Channels, local' = local, damaged' = damaged,
         r = R => SameSecond,
         sent'[r] = Append(sent[r], SentMsg(r, SentCount(r) + 1)),
         TakenCount(r)' = TakenCount(r), SentCount(r)' = SentCount(r) + 1,
         session'[Remote(r)].stage # "Failed" => session[Remote(r)].stage # "Failed"
  PROVE  InFlight(r)'
<1> SUFFICES ASSUME session'[Remote(r)].stage # "Failed"
             PROVE  Carries(r, sent[r], TakenCount(r), SentCount(r))'
  BY DEF InFlight
<1> PICK w : w = sent[r]
  OBVIOUS
<1> PICK n : n = TakenCount(r)
  OBVIOUS
<1> PICK s : s = SentCount(r)
  OBVIOUS
<1>1. Carries(r, w, n, s) /\ IsSequence(w) /\ n \in Nat /\ s \in Nat
  BY CountsAreNat DEF InFlight, Channels
<1>2. n <= s
  BY <1>1, SequenceIs DEF Carries
<1> PICK v : v = Append(w, SentMsg(r, s + 1))
  OBVIOUS
<1>3. Carries(r, v, n, s + 1)
  BY <1>1, <1>2, CarriesSent
<1>4. Carries(r, v, n, s + 1)'
  BY <1>3, CarriesKept
<1>5. sent'[r] = v /\ TakenCount(r)' = n /\ SentCount(r)' = s + 1
  OBVIOUS
<1> QED BY <1>4, <1>5 DEF Carries

LEMMA FlightTaken ==
  ASSUME NEW r \in Role, InFlight(r), Counts, Channels, local' = local, damaged' = damaged,
         r = R => SameSecond, sent[r] # <<>>, sent'[r] = Tail(sent[r]),
         session[Remote(r)].stage # "Failed",
         TakenCount(r)' = TakenCount(r) + 1, SentCount(r)' = SentCount(r)
  PROVE  InFlight(r)'
<1> SUFFICES Carries(r, sent[r], TakenCount(r), SentCount(r))'
  BY DEF InFlight
<1> PICK w : w = sent[r]
  OBVIOUS
<1> PICK n : n = TakenCount(r)
  OBVIOUS
<1> PICK s : s = SentCount(r)
  OBVIOUS
<1>1. Carries(r, w, n, s) /\ IsSequence(w) /\ n \in Nat /\ s \in Nat
  BY CountsAreNat DEF InFlight, Channels
<1> PICK v : v = Tail(w)
  OBVIOUS
<1>2. Carries(r, v, n + 1, s)
  BY <1>1, CarriesTaken
<1>3. Carries(r, v, n + 1, s)'
  BY <1>2, CarriesKept
<1>4. sent'[r] = v /\ TakenCount(r)' = n + 1 /\ SentCount(r)' = s
  OBVIOUS
<1> QED BY <1>3, <1>4 DEF Carries

\* The message in front of an end that has not failed.
LEMMA FrontIs ==
  ASSUME NEW r \in Role, InFlight(r), Counts, Channels, sent[r] # <<>>,
         session[Remote(r)].stage # "Failed"
  PROVE  /\ Near(Head(sent[r]), SentMsg(r, TakenCount(r) + 1))
         /\ TakenCount(r) < SentCount(r)
<1>1. /\ Carries(r, sent[r], TakenCount(r), SentCount(r)) /\ IsSequence(sent[r])
      /\ TakenCount(r) \in Nat /\ SentCount(r) \in Nat
  BY CountsAreNat DEF InFlight, Channels
<1> QED BY <1>1, CarriesTaken

----------------------------------------------------------------------------
(* A handler that fails the session.                                       *)

LEMMA FailKeeps ==
  ASSUME NEW stage, NEW ck, NEW h, NEW key, NEW n, NEW re, NEW rs, NEW send, NEW recv,
         NEW peer, NEW ext, NEW complete, NEW sealed
  PROVE  LET x == Session(stage, ck, h, key, n, re, rs, send, recv, peer, ext, complete, sealed) IN
         /\ Fail(x).stage = "Failed" /\ Fail(x).complete = x.complete
         /\ Fail(x).h = x.h /\ Fail(x).re = x.re
<1> DEFINE x == Session(stage, ck, h, key, n, re, rs, send, recv, peer, ext, complete, sealed)
           y == Session("Failed", ck, h, key, n, re, rs, send, recv, peer, ext, complete, sealed)
<1>1. Fail(x) = y
  BY FailOf
<1>2. x.complete = complete /\ x.h = h /\ x.re = re
  BY FieldOf
<1>3. y.stage = "Failed" /\ y.complete = complete /\ y.h = h /\ y.re = re
  BY FieldOf
<1> QED BY <1>1, <1>2, <1>3

LEMMA FailedFields ==
  ASSUME InitiatorShape, ResponderShape, NEW r \in Role
  PROVE  LET x == session[r] IN
         /\ Fail(x).stage = "Failed" /\ Fail(x).complete = x.complete
         /\ Fail(x).h = x.h /\ Fail(x).re = x.re
<1>1. ASSUME NEW stage, NEW ck, NEW h, NEW key, NEW n, NEW re, NEW sealed,
             session[r] = Half(stage, ck, h, key, n, re, sealed)
      PROVE  LET x == session[r] IN
             /\ Fail(x).stage = "Failed" /\ Fail(x).complete = x.complete
             /\ Fail(x).h = x.h /\ Fail(x).re = x.re
  BY <1>1, FailKeeps DEF Half
<1>2. ASSUME NEW stage, session[r] = Done(r, stage)
      PROVE  LET x == session[r] IN
             /\ Fail(x).stage = "Failed" /\ Fail(x).complete = x.complete
             /\ Fail(x).h = x.h /\ Fail(x).re = x.re
  BY <1>2, FailKeeps DEF Done
<1>3. CASE r = I
  BY <1>1, <1>2, <1>3 DEF InitiatorShape, Begin, Waiting2
<1>4. CASE r = R
  BY <1>1, <1>2, <1>4 DEF ResponderShape, Begin, Waiting3
<1> QED BY <1>3, <1>4, Names

FailStep(r) ==
    /\ Become(r, Fail(session[r])) /\ Answer(r, <<>>)
    /\ UNCHANGED <<local, damaged, texts, received>>

\* A responder that something has arrived at has an initiator that has begun.
LEMMA InitiatorBegun ==
  ASSUME TranscriptInv, sent[I] # <<>>, session[R].stage # "Failed"
  PROVE  session[I].stage # "Idle" /\ session[I].h # <<>>
<1> SUFFICES ASSUME session[I].stage = "Idle" PROVE FALSE
  BY InitiatorAt DEF InitiatorFacts, TranscriptInv
<1>1. session[I].h = <<>> /\ session[I] = Begin("Idle")
  BY InitiatorAt DEF InitiatorFacts, TranscriptInv
<1>2. ~session[I].complete
  BY <1>1, HalfFields
<1>3. session[R].stage = "AwaitingMsg1"
  BY DEF TranscriptInv, Progress
<1>4. SentCount(I) = 0
  BY <1>1, <1>2 DEF SentCount
<1>5. TakenCount(I) < SentCount(I) /\ TakenCount(I) \in Nat
  BY FrontIs, CountsAreNat, Names DEF TranscriptInv, Channels
<1> QED BY <1>4, <1>5

\* The session fails for a cause, and the other end goes on.
LEMMA FailPreserves ==
  ASSUME TranscriptInv, NEW r \in Role, FailStep(r), sent[Remote(r)] # <<>>,
         session[r].stage \notin {"Idle", "Failed"},
         \/ damaged > 0
         \/ \E q \in Role : local[q].identity /\ ~local[q].goodSignature
  PROVE  TranscriptInv'
<1> DEFINE o == Remote(r)
<1> USE DEF TranscriptInv, FailStep
<1>1. /\ session' = [q \in Role |-> session'[q]]
      /\ session'[r] = Fail(session[r]) /\ session'[o] = session[o]
  BY BecomeIs
<1>2. /\ sent' = [q \in Role |-> sent'[q]] /\ sent'[r] = sent[r] /\ IsSequence(sent'[o])
  BY AnswerIs
<1>3. local' = local /\ damaged' = damaged /\ texts' = texts /\ received' = received
  OBVIOUS
<1>4. /\ session'[r].stage = "Failed" /\ session'[r].complete = session[r].complete
      /\ session'[r].h = session[r].h /\ session'[r].re = session[r].re
  BY <1>1, FailedFields
<1>5. o \in Role /\ o # r /\ Role = {r, o} /\ Remote(o) = r
  BY Names
<1>6. SameSecond
  <2>1. CASE r = R
    BY <1>4, <2>1 DEF SameSecond
  <2>2. CASE r = I
    BY <1>1, <2>2, Names DEF SameSecond
  <2> QED BY <2>1, <2>2, Names
<1>7. InitiatorShape'
  <2>1. CASE r = I
    <3>1. \A stage : Done(I, stage)' = Done(I, stage)
      BY <1>3, DoneKept, Names
    <3>2. session'[I] = Fail(session[I]) /\ session[I] # Begin("Idle")
      BY <1>1, <2>1, HalfFields
    <3>3. session'[I] = Waiting2("Failed") \/ session'[I] = Done(I, "Failed")
      BY <3>2, FailedSessions DEF InitiatorShape
    <3> QED BY <3>1, <3>3 DEF InitiatorShape
  <2>2. CASE r = R
    BY <1>1, <1>3, <2>2, Names, InitiatorKept
  <2> QED BY <2>1, <2>2, Names
<1>8. ResponderShape'
  <2>1. CASE r = R
    <3>1. \A stage : Done(R, stage)' = Done(R, stage)
      BY <1>3, DoneKept, Names
    <3>2. \A stage, k, c : Waiting3(stage, k, c)' = Waiting3(stage, k, c)
      BY <1>3, WaitingKept
    <3>3. session'[R] = Fail(session[R])
      BY <1>1, <2>1
    <3>4. \/ session'[R] = Begin("Failed")
          \/ \E k \in Keys1, c \in Payloads1 : session'[R] = Waiting3("Failed", k, c)
          \/ session'[R] = Done(R, "Failed")
      BY <3>3, FailedSessions DEF ResponderShape
    <3> QED BY <3>1, <3>2, <3>4 DEF ResponderShape
  <2>2. CASE r = I
    BY <1>1, <1>3, <2>2, Names, ResponderKept
  <2> QED BY <2>1, <2>2, Names
<1>9. Progress'
  <2>1. /\ session'[I].complete = session[I].complete /\ session'[R].complete = session[R].complete
        /\ session'[R].h = session[R].h /\ session'[R].re = session[R].re
    BY <1>1, <1>4, Names
  <2>2. session'[I].stage # "Idle"
    <3>1. CASE r = I
      BY <1>4, <3>1
    <3>2. CASE r = R
      BY <1>1, <3>2, Names, InitiatorBegun
    <3> QED BY <3>1, <3>2, Names
  <2>3. SameFirst => SameFirst'
    BY <1>3, <2>1, LocalKept DEF SameFirst
  <2> QED BY <1>3, <2>1, <2>2, <2>3 DEF Progress
<1>10. Counts'
  BY <1>1, <1>3, <1>4, <1>5, CountsKept
<1>11. Channels'
  <2>1. damaged' \in Nat /\ received' \in [Role -> Seq(Nat)]
    BY <1>3 DEF Channels
  <2>2. IsSequence(sent'[r])
    BY <1>2 DEF Channels
  <2>3. InFlight(o)'
    BY <1>4, <1>5 DEF InFlight
  <2>4. SentCount(r)' = SentCount(r)
    BY <1>3, <1>4 DEF SentCount
  <2>5. TakenCount(r)' = TakenCount(r)
    BY <1>1, <1>3 DEF TakenCount
  <2>6. InFlight(r)'
    BY <1>1, <1>2, <1>3, <1>6, <2>4, <2>5, FlightKept DEF Channels
  <2> QED BY <1>1, <1>2, <1>5, <2>1, <2>2, <2>3, <2>6 DEF Channels
<1>12. FailureHasCause'
  BY <1>3 DEF FailureHasCause
<1> QED BY <1>7, <1>8, <1>9, <1>10, <1>11, <1>12

----------------------------------------------------------------------------
(* Each step preserves the invariant.                                      *)

LEMMA WriteMsg1Preserves == ASSUME TranscriptInv, WriteMsg1 PROVE TranscriptInv'
<1> USE DEF TranscriptInv
<1>1. /\ session[I].stage = "Idle" /\ Become(I, Waiting2("AwaitingMsg2"))
      /\ sent' = [sent EXCEPT ![I] = Append(sent[I], <<E, FirstPayload>>)]
      /\ local' = local /\ damaged' = damaged /\ texts' = texts /\ received' = received
  BY FirstMessage, Names DEF WriteMsg1, E
<1>2. /\ session' = [q \in Role |-> session'[q]]
      /\ session'[I] = Waiting2("AwaitingMsg2") /\ session'[R] = session[R]
  BY <1>1, BecomeIs, Names
<1>3. session[I] = Begin("Idle") /\ session[I].h = <<>> /\ ~session[I].complete
  BY <1>1, InitiatorAt, HalfFields DEF InitiatorFacts
<1>4. /\ session'[I].stage = "AwaitingMsg2" /\ session'[I].h # <<>> /\ ~session'[I].complete
  BY <1>2, HalfFields
<1>5. /\ session[R].stage = "AwaitingMsg1" /\ session[R] = Begin("AwaitingMsg1")
      /\ session[R].h = <<>> /\ ~session[R].complete
  BY <1>1, ResponderAt, HalfFields DEF Progress, ResponderFacts
<1>6. InitiatorShape'
  BY <1>2 DEF InitiatorShape
<1>7. ResponderShape'
  BY <1>1, <1>2, ResponderKept
<1>8. Progress'
  BY <1>2, <1>4, <1>5 DEF Progress
<1>9. Counts'
  BY <1>1, <1>2, <1>3, Names, CountsKept
<1>10. Channels'
  <2>1. sent = [q \in Role |-> sent[q]] /\ \A q \in Role : IsSequence(sent[q]) /\ InFlight(q)
    BY DEF Channels
  <2>2. /\ sent' = [q \in Role |-> sent'[q]]
        /\ sent'[I] = Append(sent[I], <<E, FirstPayload>>) /\ sent'[R] = sent[R]
    BY <1>1, <2>1, Names
  <2>3. IsSequence(sent'[I]) /\ IsSequence(sent'[R])
    BY <2>1, <2>2, SequenceAppend, Names
  <2>4. /\ SentCount(I) = 0 /\ SentCount(I)' = SentCount(I) + 1 /\ SentCount(R)' = SentCount(R)
    BY <1>1, <1>2, <1>3, <1>4 DEF SentCount
  <2>5. TakenCount(I)' = TakenCount(I)
    BY <1>1, <1>2, Names DEF TakenCount
  <2>6. TakenCount(R)' = TakenCount(R)
    BY <1>3, <1>4, Names DEF TakenCount
  <2>7. SentMsg(I, SentCount(I) + 1) = <<E, FirstPayload>>
    BY <2>4 DEF SentMsg
  <2>8. SameSecond
    BY <1>2 DEF SameSecond
  <2>9. InFlight(I)'
    BY <1>1, <1>2, <1>5, <2>1, <2>2, <2>4, <2>5, <2>7, <2>8, Names, FlightSent
  <2>10. InFlight(R)'
    BY <1>1, <1>3, <1>4, <2>1, <2>2, <2>4, <2>6, <2>8, <1>2, Names, HalfFields, FlightKept
  <2> QED BY <1>1, <1>2, <2>2, <2>3, <2>9, <2>10, Names DEF Channels
<1>11. FailureHasCause'
  BY <1>1, <1>2, <1>4, Names, CauseKept
<1> QED BY <1>6, <1>7, <1>8, <1>9, <1>10, <1>11

LEMMA ProcessMsg1Preserves == ASSUME TranscriptInv, ProcessMsg1 PROVE TranscriptInv'
<1> USE DEF TranscriptInv
<1> DEFINE m == Incoming(R)
<1>1. /\ session[R].stage = "AwaitingMsg1" /\ sent[I] # <<>>
      /\ local' = local /\ damaged' = damaged /\ texts' = texts /\ received' = received
      /\ \/ /\ Len(m) = 2 /\ Become(R, AfterMsg1(m).x) /\ Answer(R, <<AfterMsg1(m).out>>)
         \/ Len(m) < 2 /\ FailStep(R)
  BY Names DEF ProcessMsg1, FailStep
<1>2. session[R] = Begin("AwaitingMsg1") /\ session[R].h = <<>> /\ ~session[R].complete
  BY <1>1, ResponderAt, HalfFields DEF ResponderFacts
<1>3. /\ session[I].stage # "Idle" /\ session[I].h # <<>>
  BY <1>1, InitiatorBegun
<1>4. ~session[I].complete
  BY <1>2, HalfFields, HashesNotEmpty DEF Progress, SameFirst, Hash
<1>5. TakenCount(I) = 0 /\ SentCount(R) = 0 /\ TakenCount(R) = 0 /\ SentCount(I) = 1
  BY <1>2, <1>3, <1>4, Names DEF TakenCount, SentCount
<1>6. Near(m, <<E, FirstPayload>>)
  <2>1. SentMsg(I, TakenCount(I) + 1) = <<E, FirstPayload>>
    BY <1>5 DEF SentMsg
  <2>2. Near(Head(sent[I]), SentMsg(I, TakenCount(I) + 1))
    BY <1>1, FrontIs, Names DEF Channels
  <2> QED BY <2>1, <2>2, Names DEF Incoming
<1>7. CASE Len(m) < 2 /\ FailStep(R)
  <2>1. m # <<E, FirstPayload>>
    BY <1>7
  <2>2. damaged > 0
    BY <1>6, <2>1 DEF Near, Channels
  <2> QED BY <1>1, <1>7, <2>2, Names, FailPreserves
<1>8. CASE Len(m) = 2 /\ Become(R, AfterMsg1(m).x) /\ Answer(R, <<AfterMsg1(m).out>>)
  <2> DEFINE k == m[1]
             c == m[2]
             w == "AwaitingMsg3"
  <2>1. k \in Keys1 /\ c \in Payloads1 /\ (damaged = 0 => k = E /\ c = FirstPayload)
    <3>1. 1 \in DOMAIN m /\ 2 \in DOMAIN m
      BY <1>6, <1>8, SequenceIs DEF Near
    <3>2. k = E \/ k = Altered(E)
      BY <1>6, <3>1 DEF Near
    <3>3. c = FirstPayload \/ c = Altered(FirstPayload)
      BY <1>6, <3>1 DEF Near
    <3>4. Altered(E) = JunkKey /\ Altered(FirstPayload) = Seal(NoKey, 0, <<>>, JunkText)
      BY AlteredParts DEF E, Ephemeral, FirstPayload
    <3>5. damaged = 0 => k = E /\ c = FirstPayload
      BY <1>6 DEF Near
    <3> QED BY <3>2, <3>3, <3>4, <3>5 DEF Keys1, Payloads1
  <2>2. AfterMsg1(m).x = Waiting3(w, k, c) /\ AfterMsg1(m).out = Msg2(k, c)
    BY SecondMessage
  <2> HIDE DEF m, k, c
  <2>3. /\ session' = [q \in Role |-> session'[q]]
        /\ session'[R] = Waiting3(w, k, c) /\ session'[I] = session[I]
    BY <1>8, <2>2, BecomeIs, Names
  <2>4. /\ session'[R].stage = w /\ session'[R].h = H5(k, c) /\ session'[R].re = k
        /\ session'[R].h[2] = c /\ session'[R].h # <<>>
    <3>1. \A stage, a, b : /\ Waiting3(stage, a, b).stage = stage
                           /\ Waiting3(stage, a, b).h = H5(a, b) /\ Waiting3(stage, a, b).re = a
      BY HalfFields
    <3>2. H5(k, c)[2] = c /\ H5(k, c) # <<>>
      BY HashFacts
    <3> QED BY <2>3, <3>1, <3>2
  <2>5. ~session'[R].complete
    BY <2>3, HalfFields
  <2>6. InitiatorShape'
    BY <1>1, <2>3, InitiatorKept
  <2>7. ResponderShape'
    <3>1. \A stage, a, b : Waiting3(stage, a, b)' = Waiting3(stage, a, b)
      BY <1>1, WaitingKept
    <3> PICK a : a = k
      OBVIOUS
    <3> PICK b : b = c
      OBVIOUS
    <3>2. a \in Keys1 /\ b \in Payloads1
      BY <2>1
    <3>3. session'[R] = Waiting3(w, a, b)'
      BY <2>3, <3>1
    <3> QED BY <3>2, <3>3 DEF ResponderShape, Keys1, Payloads1
  <2>8. Progress'
    <3>1. session'[I].stage # "Idle" /\ ~session'[I].complete
      BY <1>3, <1>4, <2>3
    <3>2. damaged = 0 => SameFirst'
      <4>1. damaged = 0 => session'[R].h = Hash
        BY <2>1, <2>4 DEF Hash
      <4>2. Hash' = Hash
        BY <1>1, LocalKept
      <4> QED BY <2>1, <2>4, <4>1, <4>2 DEF SameFirst
    <3> QED BY <1>1, <2>5, <3>1, <3>2 DEF Progress
  <2>9. Counts'
    BY <1>1, <1>2, <2>3, Names, CountsKept
  <2>10. Channels'
    <3>1. /\ sent' = [q \in Role |-> sent'[q]] /\ sent'[I] = Tail(sent[I])
          /\ IsSequence(sent'[I]) /\ sent'[R] = Append(sent[R], Msg2(k, c))
      BY <1>1, <1>8, <2>2, AnswerIs, Names
    <3>2. TakenCount(I)' = TakenCount(I) + 1 /\ SentCount(I)' = SentCount(I)
      BY <1>1, <1>5, <2>3, <2>4, <2>5, Names DEF TakenCount, SentCount
    <3>3. InFlight(I)'
      BY <1>1, <3>1, <3>2, Names, FlightTaken DEF Channels
    <3>4. SentCount(R)' = 1 /\ TakenCount(R)' = 0
      BY <1>4, <2>3, <2>4, <2>5, Names DEF SentCount, TakenCount
    <3>5. ASSUME session[I].stage # "Failed"
          PROVE  sent[R] = <<>>
      <4>1. Len(sent[R]) = SentCount(R) - TakenCount(R) /\ IsSequence(sent[R])
        BY <3>5, Names DEF Channels, InFlight, Carries
      <4> QED BY <1>5, <4>1, SequenceIs
    <3>6. IsSequence(sent'[R])
      BY <3>1, SequenceAppend, Names DEF Channels
    <3>7. InFlight(R)'
      <4> SUFFICES ASSUME session'[I].stage # "Failed"
                   PROVE  Carries(R, sent[R], TakenCount(R), SentCount(R))'
        BY Names DEF InFlight
      <4>1. sent'[R] = <<Msg2(k, c)>>
        <5>1. sent[R] = <<>>
          BY <2>3, <3>5
        <5>2. \A a : Append(<<>>, a) = <<a>>
          OBVIOUS
        <5> QED BY <3>1, <5>1, <5>2
      <4>2. SentMsg(R, 1)' = Msg2(k, c)
        <5>1. \A a, b : Msg2(a, b)' = Msg2(a, b)
          BY <1>1, LocalKept
        <5> PICK a : a = k
          OBVIOUS
        <5> PICK b : b = c
          OBVIOUS
        <5>2. SentMsg(R, 1)' = Msg2(a, b)'
          BY <2>4, Names DEF SentMsg
        <5> QED BY <5>1, <5>2
      <4> PICK q : q = Msg2(k, c)
        OBVIOUS
      <4>3. IsSequence(q)
        <5>1. \A a, b, d : <<a, b, d>> \in Seq({a, b, d})
          OBVIOUS
        <5>2. \A a, b, d : IsSequence(<<a, b, d>>)
          BY <5>1, SequenceOf
        <5> QED BY <5>2 DEF Msg2
      <4>4. Near(q, q)'
        BY <4>3, SequenceIs DEF Near
      <4>5. Len(<<q>>) = 1 /\ DOMAIN <<q>> = {1} /\ <<q>>[1] = q
        OBVIOUS
      <4>6. sent'[R] = <<q>> /\ SentMsg(R, 1)' = q
        BY <4>1, <4>2
      <4>7. Near(sent[R][1], SentMsg(R, 1))' <=> Near(q, q)'
        BY <4>5, <4>6 DEF Near
      <4>8. Len(sent'[R]) = 1 /\ DOMAIN sent'[R] = {1}
        BY <4>5, <4>6
      <4>9. TakenCount(R)' + 1 = 1 /\ SentCount(R)' - TakenCount(R)' = 1
        BY <3>4
      <4> QED BY <4>4, <4>7, <4>8, <4>9 DEF Carries
    <3> QED BY <1>1, <2>3, <3>1, <3>3, <3>6, <3>7, Names DEF Channels
  <2>11. FailureHasCause'
    BY <1>1, <2>3, <2>4, Names, CauseKept
  <2> QED BY <2>6, <2>7, <2>8, <2>9, <2>10, <2>11
<1> QED BY <1>1, <1>7, <1>8

\* A session that has just completed has sent and taken no text.
LEMMA FinishedIs ==
  ASSUME NEW r \in Role, texts[r] = 0, received[r] = <<>>
  PROVE  Finished(r) = Done(r, "Complete")
<1>1. Uses(r, 0) = FirstUses(r, E)
  <2> DEFINE u == FirstUses(r, E)
  <2>1. u \in Seq({u[1], u[2]}) /\ Len(u) = 2
    <3>1. \A a, b : LET s == <<a, b>> IN s \in Seq({s[1], s[2]}) /\ Len(s) = 2
      OBVIOUS
    <3>2. CASE r = I
      BY <3>1, <3>2 DEF FirstUses
    <3>3. CASE r # I
      BY <3>1, <3>3 DEF FirstUses
    <3> QED BY <3>2, <3>3
  <2>2. Uses(r, 0) = [j \in 1 .. 2 |-> u[j]]
    <3>1. \A j \in 1 .. 2 + 0 : j <= 2
      OBVIOUS
    <3> QED BY <3>1 DEF Uses
  <2> HIDE DEF u
  <2>3. u = [j \in 1 .. 2 |-> u[j]]
    BY <2>1
  <2> QED BY <2>2, <2>3 DEF u
<1>2. Len(received[r]) = 0
  OBVIOUS
<1>3. 0 + 1 = 1
  OBVIOUS
<1> QED BY <1>1, <1>2, <1>3 DEF Finished, Done

\* A payload names its sender, if that has an identity, and its static key,
\* unless its signature is bad.
PayloadFacts(r, p) ==
    /\ local[r].identity => p.id = r /\ p.ext = local[r].ext
    /\ ~local[r].identity => p.id = "none" /\ p.ext = <<>>
    /\ p = NoPayload \/ p.over = Static(r) \/ (local[r].identity /\ ~local[r].goodSignature)
    /\ local[r].identity /\ (p = NoPayload \/ p.over = Static(r)) /\ r # "none"
       => local[r].goodSignature

LEMMA PayloadOf == ASSUME NEW r, NEW p, p = MakeLocalPayload(r) PROVE PayloadFacts(r, p)
<1>1. NoPayload.id = "none" /\ NoPayload.ext = <<>>
  BY DEF NoPayload
<1>2. CASE ~local[r].identity
  <2>1. p = NoPayload
    BY <1>2 DEF MakeLocalPayload
  <2>2. p.id = "none" /\ p.ext = <<>>
    BY <1>1, <2>1
  <2>3. local[r].identity => p.id = r /\ p.ext = local[r].ext
    BY <1>2
  <2>4. ~local[r].identity => p.id = "none" /\ p.ext = <<>>
    BY <2>2
  <2>5. p = NoPayload \/ p.over = Static(r) \/ (local[r].identity /\ ~local[r].goodSignature)
    BY <2>1
  <2>6. local[r].identity /\ (p = NoPayload \/ p.over = Static(r)) /\ r # "none"
        => local[r].goodSignature
    BY <1>2
  <2> QED BY <2>3, <2>4, <2>5, <2>6 DEF PayloadFacts
<1>3. CASE local[r].identity
  <2>1. ASSUME NEW over, p = [id |-> r, over |-> over, ext |-> local[r].ext]
        PROVE  p.id = r /\ p.over = over /\ p.ext = local[r].ext
    BY <2>1
  <2>2. CASE local[r].goodSignature
    <3>1. p = [id |-> r, over |-> Static(r), ext |-> local[r].ext]
      BY <1>3, <2>2 DEF MakeLocalPayload
    <3>2. p.id = r /\ p.over = Static(r) /\ p.ext = local[r].ext
      BY <2>1, <3>1
    <3>3. p = NoPayload \/ p.over = Static(r) \/ (local[r].identity /\ ~local[r].goodSignature)
      BY <3>2
    <3>4. local[r].identity /\ (p = NoPayload \/ p.over = Static(r)) /\ r # "none"
          => local[r].goodSignature
      BY <2>2
    <3> QED BY <1>3, <3>2, <3>3, <3>4 DEF PayloadFacts
  <2>3. CASE ~local[r].goodSignature
    <3>1. p = [id |-> r, over |-> JunkKey, ext |-> local[r].ext]
      BY <1>3, <2>3 DEF MakeLocalPayload
    <3>2. p.id = r /\ p.over = JunkKey /\ p.ext = local[r].ext
      BY <2>1, <3>1
    <3>3. JunkKey # Static(r)
      BY DEF Static, JunkKey, Key
    <3>4. r # "none" => p # NoPayload
      BY <1>1, <3>2
    <3> QED BY <1>3, <2>3, <3>2, <3>3, <3>4 DEF PayloadFacts
  <2> QED BY <2>2, <2>3
<1> QED BY <1>2, <1>3

\* The second message is in front of the initiator: what it is made of.
LEMMA SecondInFront ==
  ASSUME TranscriptInv, session[I].stage = "AwaitingMsg2", sent[R] # <<>>
  PROVE  /\ session[I] = Waiting2("AwaitingMsg2") /\ session[I].h # <<>> /\ ~session[I].complete
         /\ ~session[R].complete /\ session[R].h # <<>>
         /\ TakenCount(I) = 1 /\ SentCount(I) = 1 /\ TakenCount(R) = 0 /\ SentCount(R) = 1
         /\ \E stage, k, c : /\ session[R] = Waiting3(stage, k, c)
                             /\ Near(Head(sent[R]), Msg2(k, c))
                             /\ damaged = 0 => k = E /\ c = FirstPayload
<1> USE DEF TranscriptInv
<1>1. session[I] = Waiting2("AwaitingMsg2") /\ session[I].h # <<>> /\ ~session[I].complete
  BY InitiatorAt, HalfFields DEF InitiatorFacts
<1>2. TakenCount(R) = 0 /\ SentCount(I) = 1
  BY <1>1, Names DEF TakenCount, SentCount
<1>3. Near(Head(sent[R]), SentMsg(R, 1)) /\ 0 < SentCount(R)
  <2>1. TakenCount(R) + 1 = 1
    BY <1>2
  <2> QED BY <1>2, <2>1, FrontIs, Names DEF Channels
<1>4. ~session[R].complete
  BY <1>1 DEF Progress
<1>5. session[R].h # <<>>
  BY <1>3, <1>4 DEF SentCount
<1>6. TakenCount(I) = 1 /\ SentCount(R) = 1
  BY <1>4, <1>5, Names DEF TakenCount, SentCount
<1>7. PICK stage, k, c : session[R] = Waiting3(stage, k, c)
  BY <1>4, <1>5, ResponderAt DEF ResponderFacts
<1>8. session[R].re = k /\ session[R].h = H5(k, c) /\ session[R].h[2] = c
  <2>1. \A t, a, b : Waiting3(t, a, b).h = H5(a, b) /\ Waiting3(t, a, b).re = a
    BY HalfFields
  <2>2. H5(k, c)[2] = c
    BY HashFacts
  <2> QED BY <1>7, <2>1, <2>2
<1>9. SentMsg(R, 1) = Msg2(k, c)
  BY <1>8, Names DEF SentMsg
<1>10. ASSUME damaged = 0 PROVE k = E /\ c = FirstPayload
  <2>1. SameFirst
    BY <1>5, <1>10 DEF Progress
  <2>2. Hash[2] = FirstPayload /\ H7[2] = FirstPayload
    BY HashFacts DEF Hash
  <2> QED BY <1>8, <2>1, <2>2 DEF SameFirst
<1> QED BY <1>1, <1>2, <1>3, <1>4, <1>5, <1>6, <1>7, <1>9, <1>10

\* What process_msg2 does with message m.
LEMMA SecondTaken ==
  ASSUME ProcessMsg2, session[I] = Waiting2("AwaitingMsg2"), NEW m, m = Head(sent[R])
  PROVE  LET a == AfterIdentity(I, Second(m), m[2], m[3])
             b == MixKey(EncryptAndHash(a, Static(I)), Dh(Static(I), m[1]))
             c == EncryptAndHash(b, MakeLocalPayload(I))
             good == Len(m) = 3 /\ TakesIdentity(I, Second(m), m[2], m[3])
         IN \/ /\ good /\ Become(I, [SplitTransport(c, I) EXCEPT !.stage = "Complete"])
               /\ Answer(I, <<<<Sealed(a, Static(I)), Sealed(b, MakeLocalPayload(I))>>>>)
            \/ ~good /\ FailStep(I)
<1>1. m = Incoming(I)
  BY Names DEF Incoming
<1> QED BY <1>1 DEF ProcessMsg2, Second, FailStep, I, R

LEMMA SecondGood ==
  ASSUME TranscriptInv, session[I].stage = "AwaitingMsg2", sent[R] # <<>>,
         local' = local, damaged' = damaged, texts' = texts, received' = received,
         Become(I, Finished(I)), Answer(I, <<Msg3>>),
         NEW stage, session[R] = Waiting3(stage, E, FirstPayload)
  PROVE  TranscriptInv'
<1> USE DEF TranscriptInv
<1>1. /\ session' = [q \in Role |-> session'[q]]
      /\ session'[I] = Finished(I) /\ session'[R] = session[R]
  BY BecomeIs, Names
<1>2. /\ ~session[I].complete /\ ~session[R].complete
      /\ TakenCount(I) = 1 /\ SentCount(I) = 1 /\ TakenCount(R) = 0 /\ SentCount(R) = 1
  BY SecondInFront
<1>3. texts[I] = 0 /\ received[I] = <<>>
  BY <1>2, Names DEF Counts
<1>4. session'[I] = Done(I, "Complete")
  BY <1>1, <1>3, FinishedIs, Names
<1>5. session'[I].stage = "Complete" /\ session'[I].complete /\ session'[I].h # <<>>
  BY <1>4, DoneFields, HashesNotEmpty
<1>6. InitiatorShape'
  <2>1. \A t : Done(I, t)' = Done(I, t)
    BY DoneKept, Names
  <2> QED BY <1>4, <2>1 DEF InitiatorShape
<1>7. ResponderShape'
  BY <1>1, ResponderKept
<1>8. Progress'
  <2>1. session[R].re = E /\ session[R].h = Hash
    BY HalfFields DEF Hash
  <2>2. Hash' = Hash
    BY LocalKept
  <2>3. SameFirst'
    BY <1>1, <2>1, <2>2 DEF SameFirst
  <2> QED BY <1>5, <2>3 DEF Progress
<1>9. Counts'
  BY <1>1, <1>2, Names, CountsKept
<1>10. Channels'
  <2>1. /\ sent' = [q \in Role |-> sent'[q]] /\ sent'[R] = Tail(sent[R])
        /\ IsSequence(sent'[R]) /\ sent'[I] = Append(sent[I], Msg3)
    BY AnswerIs, Names
  <2>2. IsSequence(sent'[I])
    BY <2>1, SequenceAppend, Names DEF Channels
  <2>3. SentCount(I)' = SentCount(I) + 1
    BY <1>2, <1>3, <1>5 DEF SentCount, Hands
  <2>4. TakenCount(I)' = TakenCount(I)
    BY <1>1, Names DEF TakenCount
  <2>5. TakenCount(R)' = TakenCount(R) + 1
    <3>1. Len(received'[I]) = 0
      BY <1>3
    <3> QED BY <1>2, <1>5, <3>1, Names DEF TakenCount, Hands
  <2>6. SentCount(R)' = SentCount(R)
    BY <1>1 DEF SentCount
  <2>7. SentMsg(I, SentCount(I) + 1) = Msg3
    BY <1>2 DEF SentMsg
  <2>8. SameSecond
    BY <1>1 DEF SameSecond
  <2>9. InFlight(I)'
    BY <1>1, <2>1, <2>3, <2>4, <2>7, <2>8, Names, FlightSent DEF Channels
  <2>10. InFlight(R)'
    BY <1>1, <2>1, <2>5, <2>6, <2>8, Names, FlightTaken DEF Channels
  <2> QED BY <1>1, <2>1, <2>2, <2>9, <2>10, Names DEF Channels
<1>11. FailureHasCause'
  BY <1>1, <1>5, Names, CauseKept
<1> QED BY <1>6, <1>7, <1>8, <1>9, <1>10, <1>11

\* The parts of a second message of the right length.
LEMMA SecondParts ==
  ASSUME NEW m, NEW k, NEW c, Near(m, Msg2(k, c)), Len(m) = 3
  PROVE  PartsOf(m, Msg2(k, c))
<1>1. DOMAIN m = 1 .. 3
  BY SequenceIs DEF Near
<1>2. Len(Msg2(k, c)) = 3
  BY DEF Msg2
<1> QED BY <1>1, <1>2 DEF Near, PartsOf

LEMMA ProcessMsg2Preserves == ASSUME TranscriptInv, ProcessMsg2 PROVE TranscriptInv'
<1> PICK m : m = Head(sent[R])
  OBVIOUS
<1>1. /\ session[I].stage = "AwaitingMsg2" /\ sent[R] # <<>>
      /\ local' = local /\ damaged' = damaged /\ texts' = texts /\ received' = received
  BY Names DEF ProcessMsg2
<1>2. session[I] = Waiting2("AwaitingMsg2")
  BY <1>1, SecondInFront
<1>3. PICK stage, k, c : /\ session[R] = Waiting3(stage, k, c)
                         /\ Near(m, Msg2(k, c))
                         /\ damaged = 0 => k = E /\ c = FirstPayload
  BY <1>1, SecondInFront
<1> DEFINE a == AfterIdentity(I, Second(m), m[2], m[3])
           b == MixKey(EncryptAndHash(a, Static(I)), Dh(Static(I), m[1]))
           d == EncryptAndHash(b, MakeLocalPayload(I))
           good == Len(m) = 3 /\ TakesIdentity(I, Second(m), m[2], m[3])
<1>4. \/ /\ good /\ Become(I, [SplitTransport(d, I) EXCEPT !.stage = "Complete"])
         /\ Answer(I, <<<<Sealed(a, Static(I)), Sealed(b, MakeLocalPayload(I))>>>>)
      \/ ~good /\ FailStep(I)
  BY <1>2, SecondTaken
<1>5. CASE /\ good /\ Become(I, [SplitTransport(d, I) EXCEPT !.stage = "Complete"])
           /\ Answer(I, <<<<Sealed(a, Static(I)), Sealed(b, MakeLocalPayload(I))>>>>)
  <2>1. PartsOf(m, Msg2(k, c))
    BY <1>3, <1>5, SecondParts
  <2>2. /\ k = E /\ c = FirstPayload
        /\ m[1] = Ephemeral(R) /\ m[2] = SealedKey2(E, FirstPayload)
        /\ m[3] = SealedPayload2(E, FirstPayload)
    BY <1>5, <2>1, SecondAccepted
  <2>3. /\ [SplitTransport(d, I) EXCEPT !.stage = "Complete"] = Finished(I)
        /\ <<Sealed(a, Static(I)), Sealed(b, MakeLocalPayload(I))>> = Msg3
    BY <2>2, ThirdMessage
  <2>4. Become(I, Finished(I)) /\ Answer(I, <<Msg3>>)
    BY <1>5, <2>3
  <2>5. session[R] = Waiting3(stage, E, FirstPayload)
    BY <1>3, <2>2
  <2> QED BY <1>1, <2>4, <2>5, SecondGood
<1>6. CASE ~good /\ FailStep(I)
  <2>1. \/ damaged > 0
        \/ \E q \in Role : local[q].identity /\ ~local[q].goodSignature
    <3> SUFFICES ASSUME damaged = 0
                 PROVE  \E q \in Role : local[q].identity /\ ~local[q].goodSignature
      BY DEF TranscriptInv, Channels
    <3> PICK p : p = MakeLocalPayload(R)
      OBVIOUS
    <3>1. m = Msg2(E, FirstPayload)
      BY <1>3 DEF Near
    <3>2. /\ Len(m) = 3 /\ m[1] = Ephemeral(R) /\ m[2] = SealedKey2(E, FirstPayload)
          /\ m[3] = SealedPayload2(E, FirstPayload)
      BY <3>1 DEF Msg2
    <3>3. ~(p = NoPayload \/ p.over = Static(R))
      BY <1>6, <3>2, SecondIdentity
    <3> QED BY <3>3, PayloadOf, Names DEF PayloadFacts
  <2>2. session[I].stage \notin {"Idle", "Failed"}
    BY <1>1
  <2> QED BY <1>1, <1>6, <2>1, <2>2, Names, FailPreserves
<1> QED BY <1>4, <1>5, <1>6

\* The third message is in front of the responder.
LEMMA ThirdInFront ==
  ASSUME TranscriptInv, session[R].stage = "AwaitingMsg3", sent[I] # <<>>
  PROVE  /\ session[R] = Waiting3("AwaitingMsg3", E, FirstPayload)
         /\ session[R].h[2] = FirstPayload /\ session[R].h # <<>> /\ ~session[R].complete
         /\ session[I].complete /\ session[I].stage # "Idle"
         /\ TakenCount(I) = 1 /\ SentCount(R) = 1
         /\ Near(Head(sent[I]), Msg3)
<1> USE DEF TranscriptInv
<1>1. PICK k, c : session[R] = Waiting3("AwaitingMsg3", k, c)
  BY ResponderAt DEF ResponderFacts
<1>2. session[R].re = k /\ session[R].h = H5(k, c) /\ ~session[R].complete
  <2>1. \A t, a, b : /\ Waiting3(t, a, b).h = H5(a, b) /\ Waiting3(t, a, b).re = a
                     /\ ~Waiting3(t, a, b).complete
    BY HalfFields
  <2> QED BY <1>1, <2>1
<1>3. session[R].h # <<>>
  BY <1>2, HashesNotEmpty
<1>4. TakenCount(I) = 1 /\ SentCount(R) = 1
  BY <1>2, <1>3, Names DEF TakenCount, SentCount
<1>5. Near(Head(sent[I]), SentMsg(I, TakenCount(I) + 1)) /\ TakenCount(I) < SentCount(I)
  BY FrontIs, Names DEF Channels
<1>6. session[I].complete
  BY <1>4, <1>5 DEF SentCount
<1>7. session[I].stage # "Idle"
  BY <1>6, InitiatorAt, HalfFields DEF InitiatorFacts
<1>8. k = E /\ c = FirstPayload /\ session[R].h[2] = FirstPayload
  <2>1. SameFirst
    BY <1>6 DEF Progress
  <2>2. H5(k, c)[2] = c /\ Hash[2] = FirstPayload /\ H7[2] = FirstPayload
    BY HashFacts DEF Hash
  <2> QED BY <1>2, <2>1, <2>2 DEF SameFirst
<1>9. SentMsg(I, TakenCount(I) + 1) = Msg3
  BY <1>4 DEF SentMsg
<1> QED BY <1>1, <1>2, <1>3, <1>4, <1>5, <1>6, <1>7, <1>8, <1>9

LEMMA ThirdGood ==
  ASSUME TranscriptInv, session[R].stage = "AwaitingMsg3", sent[I] # <<>>,
         local' = local, damaged' = damaged, texts' = texts, received' = received,
         Become(R, Finished(R)), Answer(R, <<>>)
  PROVE  TranscriptInv'
<1> USE DEF TranscriptInv
<1>1. /\ session' = [q \in Role |-> session'[q]]
      /\ session'[R] = Finished(R) /\ session'[I] = session[I]
  BY BecomeIs, Names
<1>2. /\ session[R] = Waiting3("AwaitingMsg3", E, FirstPayload)
      /\ session[R].h[2] = FirstPayload /\ ~session[R].complete
      /\ session[I].complete /\ session[I].stage # "Idle"
      /\ TakenCount(I) = 1 /\ SentCount(R) = 1
  BY ThirdInFront
<1>3. texts[R] = 0 /\ received[R] = <<>>
  BY <1>2, Names DEF Counts
<1>4. session'[R] = Done(R, "Complete")
  BY <1>1, <1>3, FinishedIs, Names
<1>5. /\ session'[R].stage = "Complete" /\ session'[R].complete /\ session'[R].h = H7
      /\ session'[R].re = E
  BY <1>4, DoneFields, Names DEF E
<1>6. InitiatorShape'
  BY <1>1, InitiatorKept
<1>7. ResponderShape'
  <2>1. \A t : Done(R, t)' = Done(R, t)
    BY DoneKept, Names
  <2> QED BY <1>4, <2>1 DEF ResponderShape
<1>8. Progress'
  <2>1. H7' = H7
    BY LocalKept
  <2>2. SameFirst'
    BY <1>5, <2>1 DEF SameFirst
  <2> QED BY <1>1, <1>2, <2>2 DEF Progress
<1>9. Counts'
  BY <1>1, <1>2, <1>5, Names, CountsKept
<1>10. Channels'
  <2>1. /\ sent' = [q \in Role |-> sent'[q]] /\ sent'[I] = Tail(sent[I])
        /\ IsSequence(sent'[I]) /\ sent'[R] = sent[R]
    BY AnswerIs, Names
  <2>2. IsSequence(sent'[R])
    BY <2>1, Names DEF Channels
  <2>3. TakenCount(I)' = TakenCount(I) + 1
    <3>1. Len(received'[R]) = 0
      BY <1>3
    <3> QED BY <1>2, <1>5, <3>1, Names DEF TakenCount, Hands
  <2>4. SentCount(I)' = SentCount(I)
    BY <1>1 DEF SentCount
  <2>5. SentCount(R)' = SentCount(R)
    BY <1>2, <1>3, <1>5, Names DEF SentCount, Hands
  <2>6. TakenCount(R)' = TakenCount(R)
    BY <1>1, Names DEF TakenCount
  <2>7. SameSecond
    <3>1. session[R].re = E
      BY <1>2, HalfFields
    <3>2. H7[2] = FirstPayload
      BY HashFacts
    <3> QED BY <1>2, <1>5, <3>1, <3>2 DEF SameSecond
  <2>8. InFlight(I)'
    BY <2>1, <2>3, <2>4, <2>7, Names, FlightTaken DEF Channels
  <2>9. InFlight(R)'
    BY <1>1, <2>1, <2>5, <2>6, <2>7, Names, FlightKept DEF Channels
  <2> QED BY <1>1, <2>1, <2>2, <2>8, <2>9, Names DEF Channels
<1>11. FailureHasCause'
  BY <1>1, <1>5, Names, CauseKept
<1> QED BY <1>6, <1>7, <1>8, <1>9, <1>10, <1>11

LEMMA ProcessMsg3Preserves == ASSUME TranscriptInv, ProcessMsg3 PROVE TranscriptInv'
<1> PICK m : m = Head(sent[I])
  OBVIOUS
<1> DEFINE x == session[R]
           good == Len(m) = 2 /\ TakesIdentity(R, x, m[1], m[2])
           done == [SplitTransport(AfterIdentity(R, x, m[1], m[2]), R) EXCEPT !.stage = "Complete"]
<1>1. m = Incoming(R)
  BY Names DEF Incoming
<1>2. /\ session[R].stage = "AwaitingMsg3" /\ sent[I] # <<>> /\ Answer(R, <<>>)
      /\ local' = local /\ damaged' = damaged /\ texts' = texts /\ received' = received
      /\ (good /\ Become(R, done)) \/ (~good /\ Become(R, Fail(x)))
  BY <1>1 DEF ProcessMsg3, I, R
<1>3. x = Waiting3("AwaitingMsg3", E, FirstPayload) /\ Near(m, Msg3)
  BY <1>2, ThirdInFront
<1> PICK p : p = MakeLocalPayload(I)
  OBVIOUS
<1>4. CASE good /\ Become(R, done)
  <2>1. PartsOf(m, Msg3)
    <3>1. DOMAIN m = 1 .. 2
      BY <1>3, <1>4, SequenceIs DEF Near
    <3>2. Len(Msg3) = 2
      BY DEF Msg3
    <3> QED BY <1>3, <3>1, <3>2 DEF Near, PartsOf
  <2>2. done = Finished(R)
    BY <1>3, <1>4, <2>1, ThirdIdentity
  <2> QED BY <1>2, <1>4, <2>2, ThirdGood
<1>5. CASE ~good /\ Become(R, Fail(x))
  <2>1. \/ damaged > 0
        \/ \E q \in Role : local[q].identity /\ ~local[q].goodSignature
    <3> SUFFICES ASSUME damaged = 0
                 PROVE  \E q \in Role : local[q].identity /\ ~local[q].goodSignature
      BY DEF TranscriptInv, Channels
    <3>1. m = Msg3
      BY <1>3 DEF Near
    <3>2. Len(m) = 2 /\ m[1] = SealedKey3 /\ m[2] = SealedPayload3
      BY <3>1 DEF Msg3
    <3>3. PartsOf(m, Msg3)
      BY <3>1 DEF PartsOf
    <3>4. ~(p = NoPayload \/ p.over = Static(I))
      BY <1>3, <1>5, <3>2, <3>3, ThirdIdentity
    <3> QED BY <3>4, PayloadOf, Names DEF PayloadFacts
  <2>2. FailStep(R) /\ session[R].stage \notin {"Idle", "Failed"}
    BY <1>2, <1>5 DEF FailStep
  <2> QED BY <1>2, <2>1, <2>2, Names, FailPreserves
<1> QED BY <1>2, <1>4, <1>5

\* A session that speaks, with t texts sent and n received.
Speaking(r, t, n) ==
    LET o == Remote(r) IN
    Session("Complete", Ck3, H7, Output(Ck3, 2), 1, Ephemeral(o), Static(o),
            Cipher(SendKey(r), t), Cipher(SendKey(o), n),
            MakeLocalPayload(o).id, MakeLocalPayload(o).ext, Yes, Uses(r, t))

LEMMA SpeakingIs ==
  ASSUME NEW r \in Role
  PROVE  /\ Done(r, "Complete") = Speaking(r, texts[r], Len(received[r]))
         /\ local' = local
            => Done(r, "Complete")' = Speaking(r, texts'[r], Len(received'[r]))
<1>1. Done(r, "Complete") = Speaking(r, texts[r], Len(received[r]))
  BY DEF Done, Speaking
<1>2. ASSUME local' = local
      PROVE  Done(r, "Complete")' = Speaking(r, texts'[r], Len(received'[r]))
  BY <1>2, LocalKept DEF Done, Speaking
<1> QED BY <1>1, <1>2

LEMMA SpeakingSends ==
  ASSUME NEW r, NEW t, NEW n
  PROVE  /\ Speaking(r, t, n).send = Cipher(SendKey(r), t)
         /\ Speaking(r, t, n).recv = Cipher(SendKey(Remote(r)), n)
         /\ Speaking(r, t, n).sealed = Uses(r, t)
  BY FieldOf DEF Speaking

LEMMA CipherFields ==
  ASSUME NEW key, NEW n PROVE Cipher(key, n).key = key /\ Cipher(key, n).n = n
  BY DEF Cipher

\* encrypt and decrypt count the nonce up; it does not overflow.
LEMMA BumpIs ==
  ASSUME NEW key, NEW n \in Nat, n < MaxNonce
  PROVE  Bump(Cipher(key, n)) = Cipher(key, n + 1)
<1>1. (n + 1) % (MaxNonce + 1) = n + 1
  <2>1. MaxNonce \in Nat
    BY NoiseAssumption
  <2> DEFINE a == n + 1
             b == MaxNonce + 1
  <2>2. a \in Nat /\ b \in Nat /\ a < b
    BY <2>1
  <2> HIDE DEF a, b
  <2>3. a % b = a
    BY <2>2
  <2> QED BY <2>3 DEF a, b
<1>2. Bump(Cipher(key, n)) = [key |-> key, n |-> (n + 1) % (MaxNonce + 1)]
  BY DEF Bump, Cipher
<1> QED BY <1>1, <1>2 DEF Cipher

LEMMA OneMoreUse ==
  ASSUME NEW r \in Role, NEW t \in Nat
  PROVE  Append(Uses(r, t), <<SendKey(r), t>>) = Uses(r, t + 1)
<1> DEFINE u == Uses(r, t)
           v == Uses(r, t + 1)
           a == <<SendKey(r), t>>
           U == {u[j] : j \in 1 .. 2 + t} \cup {a}
           w == Append(u, a)
<1>1. u = [j \in 1 .. 2 + t |-> u[j]] /\ 2 + t \in Nat
  BY DEF Uses
<1>2. v = [j \in 1 .. 2 + (t + 1) |-> v[j]] /\ 2 + (t + 1) = (2 + t) + 1
  BY DEF Uses
<1>3. \A j \in 1 .. 2 + t : u[j] = v[j]
  <2>1. \A j \in 1 .. 2 + t : j \in 1 .. 2 + (t + 1)
    OBVIOUS
  <2> QED BY <2>1 DEF Uses
<1>4. v[(2 + t) + 1] = a
  <2>1. (2 + t) + 1 \in 1 .. 2 + (t + 1) /\ ~((2 + t) + 1 <= 2) /\ ((2 + t) + 1) - 3 = t
    OBVIOUS
  <2> QED BY <2>1 DEF Uses
<1> HIDE DEF u, v, a
<1>5. u \in Seq(U) /\ Len(u) = 2 + t /\ a \in U
  <2>1. \A j \in 1 .. 2 + t : u[j] \in U
    OBVIOUS
  <2>2. a \in U
    OBVIOUS
  <2> HIDE DEF U
  <2>3. u \in [1 .. 2 + t -> U]
    BY <1>1, <2>1
  <2>4. u \in Seq(U)
    BY <1>1, <2>3, SeqDef
  <2> QED BY <1>1, <2>2, <2>3, <2>4, LenProperties
<1> HIDE DEF U
<1>6. /\ w \in Seq(U) /\ Len(w) = (2 + t) + 1
      /\ \A j \in 1 .. 2 + t : w[j] = u[j]
      /\ w[(2 + t) + 1] = a
  BY <1>5, AppendProperties
<1> HIDE DEF w
<1>7. w = [j \in 1 .. (2 + t) + 1 |-> w[j]]
  BY <1>6, LenProperties
<1>8. \A j \in 1 .. (2 + t) + 1 : w[j] = v[j]
  <2> TAKE j \in 1 .. (2 + t) + 1
  <2>1. j \in 1 .. 2 + t \/ j = (2 + t) + 1
    OBVIOUS
  <2> QED BY <1>3, <1>4, <1>6, <2>1
<1>9. w = v
  BY <1>2, <1>7, <1>8
<1> QED BY <1>9 DEF u, v, a, w

\* A session that spoke and speaks on.
LEMMA SpeaksOn ==
  ASSUME TranscriptInv, NEW r \in Role, session[r].stage = "Complete",
         local' = local, damaged' = damaged,
         session' = [q \in Role |-> session'[q]],
         session'[r] = Done(r, "Complete")', session'[Remote(r)] = session[Remote(r)],
         texts'[Remote(r)] = texts[Remote(r)], received'[Remote(r)] = received[Remote(r)]
  PROVE  /\ InitiatorShape' /\ ResponderShape' /\ Progress' /\ FailureHasCause' /\ SameSecond
         /\ session[r] = Speaking(r, texts[r], Len(received[r]))
         /\ session[r].complete /\ session'[r].complete /\ session'[r].stage # "Failed"
<1> USE DEF TranscriptInv
<1>1. session[r] = Done(r, "Complete")
  <2>1. CASE r = I
    BY <2>1, InitiatorAt DEF InitiatorFacts
  <2>2. CASE r = R
    BY <2>2, ResponderAt DEF ResponderFacts
  <2> QED BY <2>1, <2>2, Names
<1>2. session[r] = Speaking(r, texts[r], Len(received[r]))
  BY <1>1, SpeakingIs
<1> DEFINE y == Speaking(r, texts'[r], Len(received'[r]))
<1>3. session'[r] = y
  BY SpeakingIs
<1>4. /\ session[r].complete /\ session[r].h = H7 /\ session[r].re = Ephemeral(Remote(r))
  BY <1>1, DoneFields
<1>5. /\ session'[r].complete /\ session'[r].h = H7 /\ session'[r].re = Ephemeral(Remote(r))
      /\ session'[r].stage = "Complete"
  <2>1. y.complete = Yes /\ y.h = H7 /\ y.re = Ephemeral(Remote(r)) /\ y.stage = "Complete"
    BY FieldOf DEF Speaking
  <2> HIDE DEF y
  <2> QED BY <1>3, <2>1 DEF Yes
<1> HIDE DEF y
<1>6. InitiatorShape'
  <2>1. CASE r = I
    BY <2>1 DEF InitiatorShape
  <2>2. CASE r = R
    BY <2>2, Names, InitiatorKept
  <2> QED BY <2>1, <2>2, Names
<1>7. ResponderShape'
  <2>1. CASE r = R
    BY <2>1 DEF ResponderShape
  <2>2. CASE r = I
    BY <2>2, Names, ResponderKept
  <2> QED BY <2>1, <2>2, Names
<1>8. /\ session'[I].complete = session[I].complete /\ session'[R].complete = session[R].complete
      /\ session'[R].h = session[R].h /\ session'[R].re = session[R].re
      /\ session'[I].stage = session[I].stage /\ session'[R].stage = session[R].stage
  <2>1. session[r].complete = TRUE /\ session'[r].complete = TRUE
    <3>1. session[r].complete = Yes
      BY <1>2, FieldOf DEF Speaking
    <3>2. session'[r].complete = Yes
      BY <1>3, FieldOf DEF Speaking, y
    <3> QED BY <3>1, <3>2 DEF Yes
  <2>2. CASE r = I
    BY <1>4, <1>5, <2>1, <2>2, Names
  <2>3. CASE r = R
    BY <1>4, <1>5, <2>1, <2>3, Names
  <2> QED BY <2>2, <2>3, Names
<1>9. SameFirst => SameFirst'
  BY <1>8, LocalKept DEF SameFirst
<1>10. Progress'
  BY <1>8, <1>9 DEF Progress
<1>11. SameSecond
  BY <1>8 DEF SameSecond
<1>12. FailureHasCause'
  BY <1>8, Names, CauseKept
<1> QED BY <1>2, <1>4, <1>5, <1>6, <1>7, <1>10, <1>11, <1>12

\* The texts of an end, as they are sent.
LEMMA TextMsg ==
  ASSUME NEW r \in Role, NEW n \in Nat
  PROVE  SentMsg(r, Hands(r) + n + 1) = <<Seal(SendKey(r), n, <<>>, n + 1)>>
<1>1. CASE r = I
  <2> DEFINE j == Hands(r) + n + 1
  <2>1. j # 1 /\ j # 2 /\ j - 3 = n /\ j - 2 = n + 1
    BY <1>1 DEF Hands
  <2> HIDE DEF j
  <2>2. SentMsg(r, j) = <<Seal(SendKey(r), n, <<>>, n + 1)>>
    BY <1>1, <2>1 DEF SentMsg
  <2> QED BY <2>2 DEF j
<1>2. CASE r = R
  <2> DEFINE j == Hands(r) + n + 1
  <2>1. j # 1 /\ j - 2 = n /\ j - 1 = n + 1
    BY <1>2, Names DEF Hands
  <2> HIDE DEF j
  <2>2. SentMsg(r, j) = <<Seal(SendKey(r), n, <<>>, n + 1)>>
    BY <1>2, <2>1, Names DEF SentMsg
  <2> QED BY <2>2 DEF j
<1> QED BY <1>1, <1>2, Names

LEMMA EncryptPreserves ==
  ASSUME TranscriptInv, NEW r \in Role, Encrypt(r) PROVE TranscriptInv'
<1> USE DEF TranscriptInv
<1> DEFINE o == Remote(r)
<1> PICK t : t = texts[r]
  OBVIOUS
<1> PICK n : n = Len(received[r])
  OBVIOUS
<1>1. session[r] = Speaking(r, t, n)
  <2>1. session[r].stage = "Complete"
    BY DEF Encrypt
  <2>2. session[r] = Done(r, "Complete")
    <3>1. CASE r = I
      BY <2>1, <3>1, InitiatorAt DEF InitiatorFacts
    <3>2. CASE r = R
      BY <2>1, <3>2, ResponderAt DEF ResponderFacts
    <3> QED BY <3>1, <3>2, Names
  <2> QED BY <2>2, SpeakingIs
<1> PICK x : x = session[r]
  OBVIOUS
<1> PICK c : c = Cipher(SendKey(r), t)
  OBVIOUS
<1>2. x.send = c /\ c.key = SendKey(r) /\ c.n = t /\ x.sealed = Uses(r, t)
  BY <1>1, SpeakingSends, CipherFields
<1>3. /\ t # MaxNonce
      /\ texts' = [texts EXCEPT ![r] = t + 1]
      /\ Become(r, SetSend(x, Bump(c), Append(Uses(r, t), <<SendKey(r), t>>)))
      /\ sent' = [sent EXCEPT ![r] = Append(sent[r], <<Seal(SendKey(r), t, <<>>, t + 1)>>)]
      /\ local' = local /\ damaged' = damaged /\ received' = received
  BY <1>2 DEF Encrypt, SetSend, Usable
<1>4. t \in Nat /\ t < MaxNonce /\ MaxNonce \in Nat
  BY <1>3, NoiseAssumption DEF Counts
<1>5. /\ Bump(c) = Cipher(SendKey(r), t + 1)
      /\ Append(Uses(r, t), <<SendKey(r), t>>) = Uses(r, t + 1)
  BY <1>4, BumpIs, OneMoreUse
<1>6. /\ session' = [q \in Role |-> session'[q]]
      /\ session'[r] = Speaking(r, t + 1, n) /\ session'[o] = session[o]
  <2>1. SetSend(x, Cipher(SendKey(r), t + 1), Uses(r, t + 1)) = Speaking(r, t + 1, n)
    BY <1>1, AssignSend DEF Speaking
  <2> QED BY <1>3, <1>5, <2>1, BecomeIs
<1>7. /\ texts'[r] = t + 1 /\ texts'[o] = texts[o] /\ received'[r] = received[r]
      /\ received'[o] = received[o] /\ o # r /\ o \in Role /\ Role = {r, o} /\ Remote(o) = r
  BY <1>3, Names DEF Counts
<1>8. session'[r] = Done(r, "Complete")'
  BY <1>3, <1>6, <1>7, SpeakingIs
<1>9. /\ InitiatorShape' /\ ResponderShape' /\ Progress' /\ FailureHasCause' /\ SameSecond
      /\ session[r].complete /\ session'[r].complete /\ session'[r].stage # "Failed"
      /\ session[r].stage = "Complete"
  <2>1. session[r].stage = "Complete"
    BY DEF Encrypt
  <2> QED BY <1>3, <1>6, <1>7, <1>8, <2>1, SpeaksOn
<1>10. Counts'
  <2>1. texts' \in [Role -> 0 .. MaxNonce]
    BY <1>3, <1>4 DEF Counts
  <2>2. Len(received[o]) \in Nat
    BY CountsAreNat, <1>7
  <2>3. \A q \in Role : Len(received[q]) <= texts[Remote(q)]
    BY DEF Counts
  <2>4. Len(received'[r]) <= texts'[o] /\ Len(received'[o]) <= texts'[r]
    BY <1>4, <1>7, <2>2, <2>3
  <2>5. \A q \in Role : received'[q] = [j \in 1 .. Len(received'[q]) |-> j]
    BY <1>3 DEF Counts
  <2>6. ~session'[o].complete => texts'[o] = 0 /\ received'[o] = <<>>
    BY <1>6, <1>7 DEF Counts
  <2> QED BY <1>7, <1>9, <2>1, <2>4, <2>5, <2>6 DEF Counts
<1>11. Channels'
  <2>1. /\ sent' = [q \in Role |-> sent'[q]]
        /\ sent'[r] = Append(sent[r], <<Seal(SendKey(r), t, <<>>, t + 1)>>)
        /\ sent'[o] = sent[o]
    BY <1>3, <1>7 DEF Channels
  <2>2. IsSequence(sent'[r]) /\ IsSequence(sent'[o])
    BY <1>7, <2>1, SequenceAppend DEF Channels
  <2>3. SentCount(r) = Hands(r) + t /\ SentCount(r)' = SentCount(r) + 1
    <3>1. Hands(r) \in Nat /\ Hands(r)' = Hands(r)
      BY DEF Hands
    <3>2. SentCount(r) = Hands(r) + t /\ SentCount(r)' = Hands(r) + (t + 1)
      BY <1>7, <1>9, <3>1 DEF SentCount
    <3> QED BY <1>4, <3>1, <3>2
  <2>4. SentCount(o)' = SentCount(o)
    BY <1>6, <1>7 DEF SentCount, Hands
  <2>5. TakenCount(r)' = TakenCount(r)
    BY <1>6, <1>7 DEF TakenCount, Hands
  <2>6. TakenCount(o)' = TakenCount(o)
    BY <1>7, <1>9 DEF TakenCount, Hands
  <2>7. SentMsg(r, SentCount(r) + 1) = <<Seal(SendKey(r), t, <<>>, t + 1)>>
    BY <1>4, <2>3, TextMsg
  <2>8. InFlight(r)'
    BY <1>3, <1>6, <1>7, <1>9, <2>1, <2>3, <2>5, <2>7, FlightSent DEF Channels
  <2>9. InFlight(o)'
    <3>1. session[Remote(o)].stage # "Failed"
      BY <1>7, <1>9
    <3> QED BY <1>3, <1>6, <1>7, <1>9, <2>1, <2>4, <2>6, <3>1, FlightKept DEF Channels
  <2> QED BY <1>3, <1>6, <1>7, <2>1, <2>2, <2>8, <2>9 DEF Channels
<1> QED BY <1>9, <1>10, <1>11

\* What an end that speaks has in front of it, and how many texts it has.
LEMMA TextInFront ==
  ASSUME TranscriptInv, NEW r \in Role, session[r].stage = "Complete", sent[Remote(r)] # <<>>
  PROVE  LET o == Remote(r) n == Len(received[r]) IN
         /\ session[r] = Speaking(r, texts[r], n)
         /\ n \in Nat /\ n < texts[o] /\ n < MaxNonce
         /\ TakenCount(o) = Hands(o) + n
         /\ Near(Head(sent[o]), <<Seal(SendKey(o), n, <<>>, n + 1)>>)
<1> USE DEF TranscriptInv
<1> DEFINE o == Remote(r)
<1> PICK n : n = Len(received[r])
  OBVIOUS
<1>1. session[r] = Done(r, "Complete")
  <2>1. CASE r = I
    BY <2>1, InitiatorAt DEF InitiatorFacts
  <2>2. CASE r = R
    BY <2>2, ResponderAt DEF ResponderFacts
  <2> QED BY <2>1, <2>2, Names
<1>2. session[r] = Speaking(r, texts[r], n) /\ session[r].complete
  BY <1>1, SpeakingIs, DoneFields
<1>3. o \in Role /\ Remote(o) = r
  BY Names
<1>4. TakenCount(o) = Hands(o) + n
  BY <1>2, <1>3 DEF TakenCount
<1>5. n \in Nat /\ texts[o] \in Nat /\ Hands(o) \in 1 .. 2
  BY <1>3, CountsAreNat DEF Hands
<1>6. Near(Head(sent[o]), SentMsg(o, TakenCount(o) + 1)) /\ TakenCount(o) < SentCount(o)
  BY <1>3, FrontIs DEF Channels
<1>7. SentCount(o) = Hands(o) + texts[o]
  <2>1. SentCount(o) > 1
    BY <1>4, <1>5, <1>6 DEF SentCount
  <2> QED BY <2>1 DEF SentCount
<1>8. n < texts[o]
  BY <1>4, <1>5, <1>6, <1>7
<1>9. n < MaxNonce
  <2>1. texts[o] \in 0 .. MaxNonce /\ MaxNonce \in Nat
    BY <1>3, NoiseAssumption DEF Counts
  <2> QED BY <1>5, <1>8, <2>1
<1>10. SentMsg(o, TakenCount(o) + 1) = <<Seal(SendKey(o), n, <<>>, n + 1)>>
  BY <1>3, <1>4, <1>5, TextMsg
<1> QED BY <1>2, <1>4, <1>5, <1>6, <1>8, <1>9, <1>10

\* decrypt accepts the text in front.
LEMMA TextGood ==
  ASSUME TranscriptInv, NEW r \in Role, session[r].stage = "Complete", sent[Remote(r)] # <<>>,
         local' = local, damaged' = damaged, texts' = texts, Answer(r, <<>>),
         NEW n, n = Len(received[r]),
         received' = [received EXCEPT ![r] = Append(received[r], n + 1)],
         Become(r, Speaking(r, texts[r], n + 1))
  PROVE  TranscriptInv'
<1> USE DEF TranscriptInv
<1> DEFINE o == Remote(r)
<1>1. /\ n \in Nat /\ n < texts[o] /\ TakenCount(o) = Hands(o) + n
  BY TextInFront
<1>2. /\ session' = [q \in Role |-> session'[q]]
      /\ session'[r] = Speaking(r, texts[r], n + 1) /\ session'[o] = session[o]
  BY BecomeIs
<1>3. o # r /\ o \in Role /\ Role = {r, o} /\ Remote(o) = r
  BY Names
<1>4. /\ received[r] \in Seq(Nat) /\ received' \in [Role -> Seq(Nat)]
      /\ received'[r] = Append(received[r], n + 1) /\ received'[o] = received[o]
  <2>1. received \in [Role -> Seq(Nat)] /\ n + 1 \in Nat
    BY <1>1 DEF Channels
  <2>2. received[r] \in Seq(Nat)
    BY <2>1
  <2>3. Append(received[r], n + 1) \in Seq(Nat)
    BY <2>1, <2>2, AppendProperties
  <2> QED BY <1>3, <2>1, <2>2, <2>3
<1>5. Len(received'[r]) = n + 1
  BY <1>1, <1>4, AppendProperties
<1>6. session'[r] = Done(r, "Complete")'
  BY <1>2, <1>5, SpeakingIs
<1>7. /\ InitiatorShape' /\ ResponderShape' /\ Progress' /\ FailureHasCause' /\ SameSecond
      /\ session[r].complete /\ session'[r].complete /\ session'[r].stage # "Failed"
  BY <1>2, <1>3, <1>4, <1>6, SpeaksOn
<1>8. Counts'
  <2>1. received'[r] = [j \in 1 .. n + 1 |-> j]
    <3> DEFINE u == received[r]
               v == received'[r]
    <3>1. u = [j \in 1 .. n |-> j]
      BY DEF Counts
    <3>2. \A j \in 1 .. n : u[j] = j
      BY <3>1
    <3>3. /\ v \in Seq(Nat) /\ Len(v) = n + 1 /\ v[n + 1] = n + 1
          /\ \A j \in 1 .. n : v[j] = u[j]
      BY <1>1, <1>4, <1>5, AppendProperties
    <3> HIDE DEF u, v
    <3>4. \A j \in 1 .. n + 1 : v[j] = j
      <4> TAKE j \in 1 .. n + 1
      <4>1. j \in 1 .. n \/ j = n + 1
        BY <1>1
      <4> QED BY <3>2, <3>3, <4>1
    <3>5. v = [j \in 1 .. n + 1 |-> v[j]]
      BY <3>3, LenProperties
    <3>6. v = [j \in 1 .. n + 1 |-> j]
      BY <3>4, <3>5
    <3> QED BY <3>6 DEF v
  <2>2. received'[o] = [j \in 1 .. Len(received'[o]) |-> j] /\ Len(received'[o]) <= texts'[r]
    BY <1>3, <1>4 DEF Counts
  <2>3. Len(received'[r]) <= texts'[o]
    <3>1. texts[o] \in Nat
      BY <1>3, CountsAreNat
    <3> QED BY <1>1, <1>5, <3>1
  <2>4. ~session'[o].complete => texts'[o] = 0 /\ received'[o] = <<>>
    BY <1>2, <1>3, <1>4 DEF Counts
  <2>5. texts' \in [Role -> 0 .. MaxNonce]
    BY DEF Counts
  <2> QED BY <1>3, <1>5, <1>7, <2>1, <2>2, <2>3, <2>4, <2>5 DEF Counts
<1>9. Channels'
  <2>1. /\ sent' = [q \in Role |-> sent'[q]] /\ sent'[o] = Tail(sent[o])
        /\ IsSequence(sent'[o]) /\ sent'[r] = sent[r]
    BY AnswerIs
  <2>2. IsSequence(sent'[r])
    BY <2>1 DEF Channels
  <2>3. TakenCount(o)' = TakenCount(o) + 1
    <3>1. Hands(o)' = Hands(o) /\ Hands(o) \in Nat
      BY DEF Hands
    <3>2. TakenCount(o)' = Hands(o) + (n + 1)
      BY <1>3, <1>5, <1>7, <3>1 DEF TakenCount
    <3> QED BY <1>1, <3>1, <3>2
  <2>4. SentCount(o)' = SentCount(o)
    BY <1>2, <1>3 DEF SentCount, Hands
  <2>5. SentCount(r)' = SentCount(r)
    BY <1>7 DEF SentCount, Hands
  <2>6. TakenCount(r)' = TakenCount(r)
    BY <1>2, <1>3, <1>4 DEF TakenCount, Hands
  <2>7. InFlight(o)'
    <3>1. session[Remote(o)].stage # "Failed"
      BY <1>3
    <3> QED BY <1>3, <1>7, <2>1, <2>3, <2>4, <3>1, FlightTaken DEF Channels
  <2>8. InFlight(r)'
    BY <1>2, <1>7, <2>1, <2>5, <2>6, FlightKept DEF Channels
  <2> QED BY <1>2, <1>3, <1>4, <2>1, <2>2, <2>7, <2>8 DEF Channels
<1> QED BY <1>7, <1>8, <1>9

LEMMA DecryptPreserves ==
  ASSUME TranscriptInv, NEW r \in Role, Decrypt(r) PROVE TranscriptInv'
<1> DEFINE o == Remote(r)
<1> PICK m : m = Head(sent[o])
  OBVIOUS
<1> PICK n : n = Len(received[r])
  OBVIOUS
<1> PICK p : p = Seal(SendKey(o), n, <<>>, n + 1)
  OBVIOUS
<1>1. session[r].stage = "Complete" /\ sent[o] # <<>>
  BY DEF Decrypt
<1>2. /\ session[r] = Speaking(r, texts[r], n) /\ n \in Nat /\ n < MaxNonce
      /\ Near(m, <<p>>)
  BY <1>1, TextInFront
<1> PICK x : x = session[r]
  OBVIOUS
<1> PICK c : c = Cipher(SendKey(o), n)
  OBVIOUS
<1>3. x.recv = c /\ c.key = SendKey(o) /\ c.n = n
  BY <1>2, SpeakingSends, CipherFields
<1>4. SendKey(o) # NoKey /\ n # MaxNonce
  <2>1. SendKey(o) # NoKey
    BY OutputIsKey DEF SendKey
  <2>2. MaxNonce \in Nat
    BY NoiseAssumption
  <2> QED BY <1>2, <2>1, <2>2
<1> DEFINE good == Len(m) = 1 /\ m[1].key = SendKey(o) /\ m[1].n = n
<1>5. /\ Answer(r, <<>>) /\ local' = local /\ damaged' = damaged /\ texts' = texts
      /\ \/ /\ good /\ Become(r, SetRecv(x, Bump(c)))
            /\ received' = [received EXCEPT ![r] = Append(received[r], m[1].text)]
         \/ ~good /\ Become(r, Fail(x)) /\ received' = received
  BY <1>3, <1>4 DEF Decrypt, SetRecv, Usable, Incoming
<1>6. Len(<<p>>) = 1 /\ <<p>>[1] = p
  OBVIOUS
<1>7. CASE /\ good /\ Become(r, SetRecv(x, Bump(c)))
           /\ received' = [received EXCEPT ![r] = Append(received[r], m[1].text)]
  <2>1. 1 \in DOMAIN m
    BY <1>2, <1>7, SequenceIs DEF Near
  <2>2. m[1] = p \/ m[1] = Altered(p)
    BY <1>2, <1>6, <2>1 DEF Near
  <2>3. m[1].key # NoKey
    BY <1>4, <1>7
  <2>4. m[1] = Seal(SendKey(o), n, <<>>, n + 1)
    BY <2>2, <2>3, OpenedAsSealed
  <2>5. m[1].text = n + 1
    BY <2>4, SealFields
  <2>6. Bump(c) = Cipher(SendKey(o), n + 1)
    BY <1>2, BumpIs
  <2>7. SetRecv(x, Cipher(SendKey(o), n + 1)) = Speaking(r, texts[r], n + 1)
    BY <1>2, AssignRecv DEF Speaking
  <2>8. Become(r, Speaking(r, texts[r], n + 1))
    BY <1>7, <2>6, <2>7
  <2>9. received' = [received EXCEPT ![r] = Append(received[r], n + 1)]
    BY <1>7, <2>5
  <2> QED BY <1>1, <1>5, <2>8, <2>9, TextGood
<1>8. CASE ~good /\ Become(r, Fail(x)) /\ received' = received
  <2>1. damaged > 0
    <3>1. ASSUME damaged = 0 PROVE good
      <4>1. m = <<p>>
        BY <1>2, <3>1 DEF Near
      <4>2. p.key = SendKey(o) /\ p.n = n
        BY SealFields
      <4> QED BY <1>6, <4>1, <4>2
    <3> QED BY <1>8, <3>1 DEF TranscriptInv, Channels
  <2>2. FailStep(r) /\ session[r].stage \notin {"Idle", "Failed"}
    BY <1>1, <1>5, <1>8 DEF FailStep
  <2> QED BY <1>1, <2>1, <2>2, FailPreserves
<1> QED BY <1>5, <1>7, <1>8

\* A message altered on the way.
ReplaceFirst(w, a) == [w EXCEPT ![1] = a]

LEMMA AlteredFront ==
  ASSUME NEW w, IsSequence(w), w # <<>>, NEW a, NEW v, v = ReplaceFirst(w, a)
  PROVE  /\ IsSequence(v) /\ Len(v) = Len(w) /\ DOMAIN v = DOMAIN w /\ v[1] = a
         /\ \A j \in DOMAIN w : j > 1 => v[j] = w[j]
         /\ Head(w) = w[1]
<1> DEFINE S == {w[j] : j \in DOMAIN w} \cup {a}
<1>1. w \in Seq(S) /\ a \in S
  BY DEF IsSequence
<1>2. 1 \in 1 .. Len(w) /\ DOMAIN w = 1 .. Len(w)
  BY SequenceIs
<1>3. Head(w) = w[1]
  BY SequenceTail
<1> HIDE DEF S
<1>4. v \in Seq(S) /\ Len(v) = Len(w) /\ DOMAIN v = 1 .. Len(w)
  BY <1>1, <1>2, ExceptSeq DEF ReplaceFirst
<1>5. v[1] = a /\ \A j \in DOMAIN w : j > 1 => v[j] = w[j]
  BY <1>2 DEF ReplaceFirst
<1> QED BY <1>2, <1>3, <1>4, <1>5, SequenceOf

LEMMA DamagePreserves ==
  ASSUME TranscriptInv, NEW r \in Role, Damage(r) PROVE TranscriptInv'
<1> USE DEF TranscriptInv
<1> DEFINE o == Remote(r)
<1> PICK w : w = sent[r]
  OBVIOUS
<1>1. /\ local' = local /\ session' = session /\ texts' = texts /\ received' = received
      /\ damaged' = damaged + 1 /\ w # <<>>
  BY DEF Damage
<1>2. damaged' \in Nat /\ damaged' # 0
  BY <1>1 DEF Channels
<1>3. sent = [q \in Role |-> sent[q]] /\ IsSequence(w)
  BY DEF Channels
<1>4. Head(w) = w[1]
  BY <1>1, <1>3, SequenceTail
<1>5. PICK a : /\ sent' = [sent EXCEPT ![r] = [w EXCEPT ![1] = a]]
               /\ DamagedFrom(w[1], a)
  <2> DEFINE Cut == sent' = [sent EXCEPT ![r][1] = SubSeq(@, 1, Len(@) - 1)]
             At(i) == sent' = [sent EXCEPT ![r][1][i] = Altered(@)]
  <2>1. (\E i \in DOMAIN w[1] : At(i)) \/ Cut
    BY <1>4 DEF Damage
  <2>2. Cut => sent' = [sent EXCEPT ![r] = [w EXCEPT ![1] = SubSeq(w[1], 1, Len(w[1]) - 1)]]
    OBVIOUS
  <2>3. \A i : At(i)
               => sent' = [sent EXCEPT ![r] = [w EXCEPT ![1] = [w[1] EXCEPT ![i] = Altered(w[1][i])]]]
    OBVIOUS
  <2> HIDE DEF Cut, At
  <2>4. CASE Cut
    BY <2>2, <2>4 DEF DamagedFrom
  <2>5. ASSUME NEW i \in DOMAIN w[1], At(i)
        PROVE  \E a : sent' = [sent EXCEPT ![r] = [w EXCEPT ![1] = a]] /\ DamagedFrom(w[1], a)
    <3> PICK a : a = [w[1] EXCEPT ![i] = Altered(w[1][i])]
      OBVIOUS
    <3>1. DamagedFrom(w[1], a)
      BY DEF DamagedFrom
    <3>2. sent' = [sent EXCEPT ![r] = [w EXCEPT ![1] = a]]
      BY <2>3, <2>5
    <3> QED BY <3>1, <3>2
  <2> QED BY <2>1, <2>4, <2>5
<1> PICK v : v = ReplaceFirst(w, a)
  OBVIOUS
<1>6. /\ IsSequence(v) /\ Len(v) = Len(w) /\ DOMAIN v = DOMAIN w /\ v[1] = a
      /\ \A j \in DOMAIN w : j > 1 => v[j] = w[j]
  BY <1>1, <1>3, AlteredFront
<1>7. o # r /\ o \in Role /\ Role = {r, o} /\ Remote(o) = r
  BY Names
<1>8. sent'[r] = v /\ sent'[o] = sent[o] /\ sent' = [q \in Role |-> sent'[q]]
  BY <1>3, <1>5, <1>7 DEF ReplaceFirst
<1>9. SameSecond
  BY <1>1 DEF SameSecond
<1>10. InitiatorShape'
  BY <1>1, InitiatorKept
<1>11. ResponderShape'
  BY <1>1, ResponderKept
<1>12. Progress'
  <2>1. SameFirst => SameFirst'
    BY <1>1, LocalKept DEF SameFirst
  <2> QED BY <1>1, <1>2, <2>1 DEF Progress
<1>13. Counts'
  BY <1>1, CountsKept
<1>14. FailureHasCause'
  BY <1>1, CauseKept
<1>15. \A q \in Role : TakenCount(q)' = TakenCount(q) /\ SentCount(q)' = SentCount(q)
  BY <1>1 DEF TakenCount, SentCount, Hands
<1>16. InFlight(r)'
  <2> SUFFICES ASSUME session[o].stage # "Failed"
               PROVE  Carries(r, sent[r], TakenCount(r), SentCount(r))'
    BY <1>1 DEF InFlight
  <2> PICK n : n = TakenCount(r)
    OBVIOUS
  <2> PICK s : s = SentCount(r)
    OBVIOUS
  <2>1. Carries(r, w, n, s) /\ n \in Nat
    BY CountsAreNat DEF InFlight, Channels
  <2>2. Carries(r, v, n, s)'
    <3>1. DamagedFrom(w[1], v[1])
      BY <1>5, <1>6
    <3> QED BY <1>1, <1>2, <1>3, <1>6, <2>1, <3>1, CarriesDamaged
  <2>3. TakenCount(r)' = n /\ SentCount(r)' = s
    BY <1>15
  <2> QED BY <1>8, <2>2, <2>3 DEF Carries
<1>17. InFlight(o)'
  <2>1. session'[Remote(o)].stage # "Failed" => session[Remote(o)].stage # "Failed"
    BY <1>1
  <2> QED BY <1>1, <1>2, <1>7, <1>8, <1>9, <1>15, <2>1, FlightKept DEF Channels
<1>18. Channels'
  BY <1>1, <1>2, <1>6, <1>7, <1>8, <1>16, <1>17 DEF Channels
<1> QED BY <1>10, <1>11, <1>12, <1>13, <1>14, <1>18

LEMMA InitEstablishes == NoiseInit => NoiseInv
<1> SUFFICES ASSUME NoiseInit PROVE NoiseInv
  OBVIOUS
<1>1. session[I] = Begin("Idle") /\ session[R] = Begin("AwaitingMsg1")
  BY FreshIs, Names DEF NoiseInit
<1>2. /\ session[I].stage = "Idle" /\ session[I].h = <<>> /\ ~session[I].complete
      /\ session[R].stage = "AwaitingMsg1" /\ session[R].h = <<>> /\ ~session[R].complete
  BY <1>1, HalfFields
<1>3. \A r \in Role : sent[r] = <<>> /\ received[r] = <<>> /\ texts[r] = 0
  BY DEF NoiseInit
<1>4. damaged = 0 /\ MaxNonce \in Nat
  BY NoiseAssumption DEF NoiseInit
<1>5. InitiatorShape /\ ResponderShape
  BY <1>1 DEF InitiatorShape, ResponderShape
<1>6. Progress
  BY <1>2 DEF Progress
<1>7. Counts
  <2>1. texts \in [Role -> 0 .. MaxNonce]
    BY <1>4 DEF NoiseInit
  <2>2. Len(<<>>) = 0 /\ <<>> = [j \in 1 .. 0 |-> j]
    OBVIOUS
  <2>3. \A r \in Role : /\ received[r] = [j \in 1 .. Len(received[r]) |-> j]
                        /\ Len(received[r]) = 0
    BY <1>3, <2>2
  <2>4. \A r \in Role : Remote(r) \in Role
    BY Names
  <2>5. \A r \in Role : Len(received[r]) <= texts[Remote(r)]
    BY <1>3, <2>3, <2>4
  <2> QED BY <1>3, <2>1, <2>3, <2>5 DEF Counts
<1>8. Channels
  <2>1. session = [r \in Role |-> session[r]] /\ sent = [r \in Role |-> sent[r]]
    BY DEF NoiseInit
  <2>2. received \in [Role -> Seq(Nat)]
    BY DEF NoiseInit
  <2>3. IsSequence(<<>>)
    <3>1. <<>> \in Seq({})
      OBVIOUS
    <3> QED BY <3>1, SequenceOf
  <2>4. Len(<<>>) = 0 /\ DOMAIN <<>> = {}
    OBVIOUS
  <2>5. ASSUME NEW r \in Role PROVE SentCount(r) = 0 /\ TakenCount(r) = 0
    BY <1>2, Names DEF SentCount, TakenCount
  <2>6. ASSUME NEW r \in Role PROVE InFlight(r)
    <3> PICK w : w = sent[r]
      OBVIOUS
    <3>1. Len(w) = 0 /\ DOMAIN w = {}
      BY <1>3, <2>4
    <3>2. Carries(r, w, TakenCount(r), SentCount(r))
      BY <2>5, <3>1 DEF Carries
    <3> QED BY <3>2 DEF InFlight
  <2> QED BY <1>3, <1>4, <2>1, <2>2, <2>3, <2>6 DEF Channels
<1>9. FailureHasCause
  BY <1>2, Names DEF FailureHasCause
<1>10. Signed
  BY <1>2, Names DEF Signed
<1> QED BY <1>5, <1>6, <1>7, <1>8, <1>9, <1>10 DEF NoiseInv, TranscriptInv

LEMMA TranscriptKept ==
  ASSUME TranscriptInv, [NoiseNext]_noiseVars PROVE TranscriptInv'
<1>1. CASE UNCHANGED noiseVars
  <2>1. /\ local' = local /\ session' = session /\ sent' = sent /\ damaged' = damaged
        /\ texts' = texts /\ received' = received
    BY <1>1 DEF noiseVars
  <2>2. InitiatorShape' /\ ResponderShape'
    BY <2>1, InitiatorKept, ResponderKept DEF TranscriptInv
  <2>3. Progress'
    <3>1. SameFirst => SameFirst'
      BY <2>1, LocalKept DEF SameFirst
    <3> QED BY <2>1, <3>1 DEF TranscriptInv, Progress
  <2>4. Counts'
    BY <2>1, CountsKept DEF TranscriptInv
  <2>5. Channels'
    <3>1. ASSUME NEW r \in Role PROVE InFlight(r)'
      <4>1. SameSecond
        BY <2>1 DEF SameSecond
      <4>2. TakenCount(r)' = TakenCount(r) /\ SentCount(r)' = SentCount(r)
        BY <2>1 DEF TakenCount, SentCount, Hands
      <4> QED BY <2>1, <4>1, <4>2, FlightKept DEF TranscriptInv, Channels
    <3> QED BY <2>1, <3>1 DEF TranscriptInv, Channels
  <2>6. FailureHasCause'
    BY <2>1 DEF TranscriptInv, FailureHasCause
  <2> QED BY <2>2, <2>3, <2>4, <2>5, <2>6 DEF TranscriptInv
<1>2. CASE WriteMsg1
  BY <1>2, WriteMsg1Preserves
<1>3. CASE ProcessMsg1
  BY <1>3, ProcessMsg1Preserves
<1>4. CASE ProcessMsg2
  BY <1>4, ProcessMsg2Preserves
<1>5. CASE ProcessMsg3
  BY <1>5, ProcessMsg3Preserves
<1>6. ASSUME NEW r \in Role, Encrypt(r) PROVE TranscriptInv'
  BY <1>6, EncryptPreserves
<1>7. ASSUME NEW r \in Role, Decrypt(r) PROVE TranscriptInv'
  BY <1>7, DecryptPreserves
<1>8. ASSUME NEW r \in Role, Damage(r) PROVE TranscriptInv'
  BY <1>8, DamagePreserves
<1> QED BY <1>1, <1>2, <1>3, <1>4, <1>5, <1>6, <1>7, <1>8 DEF NoiseNext

\* An end completes only when it accepts the last message it expects.
LEMMA Completes ==
  ASSUME TranscriptInv, [NoiseNext]_noiseVars, NEW r \in Role,
         session'[r].complete, ~session[r].complete
  PROVE  local' = local /\ ((r = I /\ ProcessMsg2) \/ (r = R /\ ProcessMsg3))
<1> USE DEF TranscriptInv
<1>1. local' = local
  BY DEF NoiseNext, noiseVars, WriteMsg1, ProcessMsg1, ProcessMsg2, ProcessMsg3, Encrypt,
         Decrypt, Damage
<1>2. CASE UNCHANGED noiseVars
  BY <1>2 DEF noiseVars
<1>3. CASE WriteMsg1
  <2>1. Become(I, Waiting2("AwaitingMsg2"))
    BY <1>3, FirstMessage, Names DEF WriteMsg1, E
  <2>2. session'[I] = Waiting2("AwaitingMsg2") /\ session'[R] = session[R]
    BY <2>1, BecomeIs, Names
  <2> QED BY <2>2, HalfFields, Names
<1>4. CASE ProcessMsg1
  <2>1. PICK x : Become(R, x) /\ ~x.complete
    <3>1. CASE Become(R, AfterMsg1(Incoming(R)).x)
      <4> DEFINE m == Incoming(R)
      <4>1. AfterMsg1(m).x = Waiting3("AwaitingMsg3", m[1], m[2])
        BY SecondMessage
      <4> QED BY <3>1, <4>1, HalfFields
    <3>2. CASE Become(R, Fail(session[R]))
      <4>1. session[R].stage = "AwaitingMsg1"
        BY <1>4, Names DEF ProcessMsg1
      <4>2. ~session[R].complete
        BY <4>1, ResponderAt, HalfFields DEF ResponderFacts
      <4> QED BY <3>2, <4>2, FailedFields, Names
    <3> QED BY <1>4, <3>1, <3>2, Names DEF ProcessMsg1
  <2>2. session'[R] = x /\ session'[I] = session[I]
    BY <2>1, BecomeIs, Names
  <2> QED BY <2>1, <2>2, Names
<1>5. CASE ProcessMsg2
  <2>1. \E x : Become(I, x)
    BY <1>5, Names DEF ProcessMsg2
  <2>2. session'[R] = session[R]
    BY <2>1, BecomeIs, Names
  <2> QED BY <1>1, <1>5, <2>2, Names
<1>6. CASE ProcessMsg3
  <2>1. \E x : Become(R, x)
    BY <1>6, Names DEF ProcessMsg3
  <2>2. session'[I] = session[I]
    BY <2>1, BecomeIs, Names
  <2> QED BY <1>1, <1>6, <2>2, Names
<1>7. ASSUME NEW q \in Role, Encrypt(q) \/ Decrypt(q) PROVE FALSE
  <2>1. session[q].stage = "Complete"
    BY <1>7 DEF Encrypt, Decrypt
  <2>2. session[q].complete
    <3>1. CASE q = I
      BY <2>1, <3>1, InitiatorAt DEF InitiatorFacts
    <3>2. CASE q = R
      BY <2>1, <3>2, ResponderAt DEF ResponderFacts
    <3> QED BY <3>1, <3>2, Names
  <2>3. \E x : Become(q, x)
    BY <1>7 DEF Encrypt, Decrypt
  <2>4. session'[Remote(q)] = session[Remote(q)]
    BY <2>3, BecomeIs
  <2> QED BY <2>2, <2>4, Names
<1>8. ASSUME NEW q \in Role, Damage(q) PROVE FALSE
  BY <1>8 DEF Damage
<1> QED BY <1>2, <1>3, <1>4, <1>5, <1>6, <1>7, <1>8 DEF NoiseNext

LEMMA SignedKept ==
  ASSUME TranscriptInv, Signed, [NoiseNext]_noiseVars PROVE Signed'
<1> USE DEF TranscriptInv
<1>0. local' = local
  BY DEF NoiseNext, noiseVars, WriteMsg1, ProcessMsg1, ProcessMsg2, ProcessMsg3, Encrypt,
         Decrypt, Damage
<1> SUFFICES ASSUME NEW r \in Role, session'[r].complete
             PROVE  LET p == MakeLocalPayload(Remote(r)) IN p = NoPayload \/ p.over = Static(Remote(r))
  BY <1>0, LocalKept DEF Signed
<1>1. CASE session[r].complete
  BY <1>1 DEF Signed
<1>2. CASE ~session[r].complete /\ r = I /\ ProcessMsg2
  <2> PICK m : m = Head(sent[R])
    OBVIOUS
  <2>1. session[I].stage = "AwaitingMsg2" /\ sent[R] # <<>>
    BY <1>2, Names DEF ProcessMsg2
  <2>2. session[I] = Waiting2("AwaitingMsg2")
    BY <2>1, SecondInFront
  <2>3. PICK k, c : Near(m, Msg2(k, c))
    BY <2>1, SecondInFront
  <2>4. Len(m) = 3 /\ TakesIdentity(I, Second(m), m[2], m[3])
    <3>1. ASSUME FailStep(I) PROVE FALSE
      <4>1. session'[I] = Fail(session[I])
        BY <3>1, BecomeIs, Names DEF FailStep
      <4> QED BY <1>2, <4>1, FailedFields, Names
    <3> QED BY <1>2, <2>2, <3>1, SecondTaken
  <2>5. PartsOf(m, Msg2(k, c))
    BY <2>3, <2>4, SecondParts
  <2>6. /\ m[1] = Ephemeral(R) /\ m[2] = SealedKey2(E, FirstPayload)
        /\ m[3] = SealedPayload2(E, FirstPayload)
    BY <2>4, <2>5, SecondAccepted
  <2> QED BY <1>2, <2>4, <2>6, SecondIdentity, Names
<1>3. CASE ~session[r].complete /\ r = R /\ ProcessMsg3
  <2> PICK m : m = Head(sent[I])
    OBVIOUS
  <2> PICK x : x = session[R]
    OBVIOUS
  <2>1. m = Incoming(R)
    BY Names DEF Incoming
  <2>2. /\ x.stage = "AwaitingMsg3" /\ sent[I] # <<>>
        /\ (Len(m) = 2 /\ TakesIdentity(R, x, m[1], m[2])) \/ Become(R, Fail(x))
    BY <1>3, <2>1 DEF ProcessMsg3, I, R
  <2>3. x = Waiting3("AwaitingMsg3", E, FirstPayload) /\ Near(m, Msg3)
    BY <2>2, ThirdInFront
  <2>4. Len(m) = 2 /\ TakesIdentity(R, x, m[1], m[2])
    <3>1. ASSUME Become(R, Fail(x)) PROVE FALSE
      <4>1. session'[R] = Fail(session[R])
        BY <3>1, BecomeIs, Names
      <4> QED BY <1>3, <4>1, FailedFields, Names
    <3> QED BY <2>2, <3>1
  <2>5. PartsOf(m, Msg3)
    <3>1. DOMAIN m = 1 .. 2
      BY <2>3, <2>4, SequenceIs DEF Near
    <3>2. Len(Msg3) = 2
      BY DEF Msg3
    <3> QED BY <2>3, <3>1, <3>2 DEF Near, PartsOf
  <2> QED BY <1>3, <2>3, <2>4, <2>5, ThirdIdentity, Names
<1> QED BY <1>1, <1>2, <1>3, Completes

----------------------------------------------------------------------------
(* The theorems.                                                           *)

\* The sessions of the two ends are at all times those of one handshake, and
\* what is in flight is what one has sent and the other has not taken
\* (process_msg1, process_msg2, process_msg3, encrypt, decrypt).
THEOREM TranscriptInvariant == NoiseSpec => []NoiseInv
<1>1. NoiseInit => NoiseInv
  BY InitEstablishes
<1>2. NoiseInv /\ [NoiseNext]_noiseVars => NoiseInv'
  BY TranscriptKept, SignedKept DEF NoiseInv
<1> QED BY <1>1, <1>2, PTL DEF NoiseSpec

\* What a session knows once it has completed.
LEMMA CompleteIs ==
  ASSUME TranscriptInv, NEW r \in Role, session[r].complete
  PROVE  LET x == session[r] o == Remote(r) IN
         /\ x.h = H7 /\ x.rs = Static(o)
         /\ x.send.key = SendKey(r) /\ x.recv.key = SendKey(o)
         /\ x.peer = MakeLocalPayload(o).id /\ x.ext = MakeLocalPayload(o).ext
         /\ x.sealed = Uses(r, texts[r])
<1>1. PICK stage : session[r] = Done(r, stage)
  <2>1. CASE r = I
    BY <2>1, InitiatorAt DEF InitiatorFacts, TranscriptInv
  <2>2. CASE r = R
    BY <2>2, ResponderAt DEF ResponderFacts, TranscriptInv
  <2> QED BY <2>1, <2>2, Names
<1> PICK x : x = session[r]
  OBVIOUS
<1>2. /\ x.h = H7 /\ x.rs = Static(Remote(r))
      /\ x.send = Cipher(SendKey(r), texts[r])
      /\ x.recv = Cipher(SendKey(Remote(r)), Len(received[r]))
      /\ x.peer = MakeLocalPayload(Remote(r)).id /\ x.ext = MakeLocalPayload(Remote(r)).ext
      /\ x.sealed = Uses(r, texts[r])
  BY <1>1, DoneFields
<1> QED BY <1>2, CipherFields

LEMMA KeysDiffer == SendKey(I) # SendKey(R)
<1>1. SendKey(I).out = 1 /\ SendKey(R).out = 2
  BY Names DEF SendKey, Output
<1> QED BY <1>1

\* A completed handshake is one that both ends saw alike; each sends with the
\* key that the other receives with, and texts are decrypted in order,
\* without a gap (mix_hash, mix_key, split_transport, decrypt).
THEOREM ChannelsAgree == NoiseSpec => []SameChannel
<1>1. NoiseInv => SameChannel
  <2> SUFFICES ASSUME TranscriptInv PROVE SameChannel
    BY DEF NoiseInv
  <2> DEFINE x == session[I]
             y == session[R]
  <2>1. ASSUME x.complete PROVE IsPrefixOf(y.h, x.h)
    <3>1. x.h = H7
      BY <2>1, CompleteIs, Names
    <3>2. y.h \in {Hash, H7}
      BY <2>1 DEF TranscriptInv, Progress, SameFirst
    <3>3. IsPrefixOf(Hash, H7)
      BY HashFacts DEF IsPrefixOf
    <3>4. IsPrefixOf(H7, H7)
      <4> DEFINE S == {Hash[i] : i \in DOMAIN Hash}
                 U == S \cup {SealedKey3, SealedPayload3}
      <4>1. Hash \in Seq(S)
        BY HashFacts DEF IsSequence
      <4>2. Hash \in Seq(U) /\ SealedKey3 \in U /\ SealedPayload3 \in U
        BY <4>1
      <4> HIDE DEF U
      <4>3. H7 \in Seq(U)
        BY <4>2 DEF H7, H6
      <4> PICK z : z = H7
        OBVIOUS
      <4>4. SubSeq(z, 1, Len(z)) = z /\ Len(z) <= Len(z)
        BY <4>3
      <4> QED BY <4>4 DEF IsPrefixOf
    <3> QED BY <3>1, <3>2, <3>3, <3>4
  <2>2. ASSUME y.complete
        PROVE  /\ x.complete /\ x.h = y.h
               /\ x.send.key = y.recv.key /\ x.recv.key = y.send.key
               /\ x.send.key # y.send.key
    <3>1. x.complete
      BY <2>2 DEF TranscriptInv, Progress
    <3>2. x.h = H7 /\ x.send.key = SendKey(I) /\ x.recv.key = SendKey(R)
      BY <3>1, CompleteIs, Names
    <3>3. y.h = H7 /\ y.send.key = SendKey(R) /\ y.recv.key = SendKey(I)
      BY <2>2, CompleteIs, Names
    <3> QED BY <3>1, <3>2, <3>3, KeysDiffer
  <2>3. ASSUME NEW r \in Role
        PROVE  /\ Len(received[r]) <= texts[Remote(r)]
               /\ \A k \in DOMAIN received[r] : received[r][k] = k
    <3>1. received[r] = [j \in 1 .. Len(received[r]) |-> j]
      BY DEF TranscriptInv, Counts
    <3> QED BY <3>1 DEF TranscriptInv, Counts
  <2> QED BY <2>1, <2>2, <2>3 DEF SameChannel, I, R
<1> QED BY <1>1, TranscriptInvariant, PTL

\* The peer that a completed session names is the other end, which signed the
\* static key it used; its extensions are the ones it sent
\* (verify_remote_identity, make_local_payload).
THEOREM PeersAreAuthentic == NoiseSpec => []PeerAuthentic
<1>1. NoiseInv => PeerAuthentic
  <2> SUFFICES ASSUME TranscriptInv, Signed, NEW r \in Role, session[r].complete
               PROVE  LET x == session[r] o == Remote(r) IN
                      /\ x.rs = Static(o)
                      /\ x.peer = (IF local[o].identity THEN o ELSE "none")
                      /\ x.peer = o => local[o].goodSignature
                      /\ x.ext = (IF local[o].identity THEN local[o].ext ELSE <<>>)
    BY DEF NoiseInv, PeerAuthentic
  <2> DEFINE o == Remote(r)
  <2> PICK p : p = MakeLocalPayload(o)
    OBVIOUS
  <2> PICK x : x = session[r]
    OBVIOUS
  <2>1. x.rs = Static(o) /\ x.peer = p.id /\ x.ext = p.ext
    BY CompleteIs
  <2>2. p = NoPayload \/ p.over = Static(o)
    BY DEF Signed
  <2>3. o # "none"
    BY DEF Role, Remote
  <2>4. PayloadFacts(o, p)
    BY PayloadOf
  <2>5. CASE local[o].identity
    <3>1. x.peer = o /\ x.ext = local[o].ext
      BY <2>1, <2>4, <2>5 DEF PayloadFacts
    <3>2. local[o].goodSignature
      BY <2>2, <2>3, <2>4, <2>5 DEF PayloadFacts
    <3> QED BY <2>1, <2>5, <3>1, <3>2
  <2>6. CASE ~local[o].identity
    <3>1. x.peer = "none" /\ x.ext = <<>>
      BY <2>1, <2>4, <2>6 DEF PayloadFacts
    <3> QED BY <2>1, <2>3, <2>6, <3>1
  <2> QED BY <2>5, <2>6
<1> QED BY <1>1, TranscriptInvariant, PTL

\* A handshake fails, and a text is refused, only where something was altered
\* or an identity has signed another key (process_msg1, process_msg2,
\* process_msg3, encrypt, decrypt).
THEOREM FailuresHaveACause == NoiseSpec => []FailureHasCause
<1>1. NoiseInv => FailureHasCause
  BY DEF NoiseInv, TranscriptInv
<1> QED BY <1>1, TranscriptInvariant, PTL

----------------------------------------------------------------------------
(* Keys and nonces.                                                        *)

\* What tells the uses of keys apart: how much the chaining key had taken,
\* which output it is, and the nonce.
Mark(u) == <<Len(u[1].ck), u[1].out, u[2]>>
MarkOf(r, j) ==
    IF r = I THEN IF j = 1 THEN <<2, 2, 1>> ELSE IF j = 2 THEN <<3, 2, 0>> ELSE <<4, 1, j - 3>>
    ELSE IF j = 1 THEN <<1, 2, 0>> ELSE IF j = 2 THEN <<2, 2, 0>> ELSE <<4, 2, j - 3>>

LEMMA MarkIs ==
  ASSUME NEW ck, NEW out, NEW n PROVE Mark(<<Output(ck, out), n>>) = <<Len(ck), out, n>>
<1> DEFINE u == <<Output(ck, out), n>>
<1>1. u[1] = Output(ck, out) /\ u[2] = n
  OBVIOUS
<1>2. Output(ck, out).ck = ck /\ Output(ck, out).out = out
  BY DEF Output
<1> HIDE DEF u
<1>3. Mark(u) = <<Len(ck), out, n>>
  BY <1>1, <1>2 DEF Mark
<1> QED BY <1>3 DEF u

LEMMA ChainLengths ==
  /\ \A k : Len(Ck1(k)) = 1 /\ Len(Ck2(k)) = 2
  /\ Len(Ck3) = 3 /\ Len(Ck4) = 4
  BY DEF Ck1, Ck2, Ck3, Ck4

\* Whatever key the responder took, its first two uses are told apart.
LEMMA FirstUsesMarked ==
  ASSUME NEW r \in Role, NEW k
  PROVE  LET f == FirstUses(r, k) IN
         /\ Mark(f[1]) = MarkOf(r, 1) /\ Mark(f[2]) = MarkOf(r, 2)
         /\ IsSequence(f) /\ DOMAIN f = 1 .. 2
<1> DEFINE f == FirstUses(r, k)
<1>1. \A ck, out, n : Mark(<<Output(ck, out), n>>) = <<Len(ck), out, n>>
  BY MarkIs
<1>2. \A a, b : IsSequence(<<a, b>>) /\ DOMAIN <<a, b>> = 1 .. 2
  <2>1. \A a, b : <<a, b>> \in Seq({a, b}) /\ DOMAIN <<a, b>> = 1 .. 2
    OBVIOUS
  <2> QED BY <2>1, SequenceOf
<1>3. CASE r = I
  <2>1. f = << <<Output(Ck2(k), 2), 1>>, <<Output(Ck3, 2), 0>> >>
    BY <1>3 DEF FirstUses
  <2>2. f[1] = <<Output(Ck2(k), 2), 1>> /\ f[2] = <<Output(Ck3, 2), 0>>
    BY <2>1
  <2>3. IsSequence(f) /\ DOMAIN f = 1 .. 2
    BY <1>2, <2>1
  <2> HIDE DEF f
  <2>4. /\ Mark(f[1]) = <<Len(Ck2(k)), 2, 1>> /\ Len(Ck2(k)) = 2
        /\ Mark(f[2]) = <<Len(Ck3), 2, 0>> /\ Len(Ck3) = 3
    <3> DEFINE c == Ck2(k)
               d == Ck3
    <3>1. f[1] = <<Output(c, 2), 1>> /\ f[2] = <<Output(d, 2), 0>>
      BY <2>2
    <3>2. Len(c) = 2 /\ Len(d) = 3
      BY ChainLengths
    <3> HIDE DEF c, d
    <3>3. Mark(<<Output(c, 2), 1>>) = <<Len(c), 2, 1>> /\ Mark(<<Output(d, 2), 0>>) = <<Len(d), 2, 0>>
      BY <1>1
    <3>4. /\ Mark(f[1]) = <<Len(c), 2, 1>> /\ Len(c) = 2
          /\ Mark(f[2]) = <<Len(d), 2, 0>> /\ Len(d) = 3
      BY <3>1, <3>2, <3>3
    <3> QED BY <3>4 DEF c, d
  <2>5. MarkOf(r, 1) = <<2, 2, 1>> /\ MarkOf(r, 2) = <<3, 2, 0>>
    BY <1>3 DEF MarkOf
  <2> QED BY <2>3, <2>4, <2>5 DEF f
<1>4. CASE r = R
  <2>1. f = << <<Output(Ck1(k), 2), 0>>, <<Output(Ck2(k), 2), 0>> >>
    BY <1>4, Names DEF FirstUses
  <2>2. f[1] = <<Output(Ck1(k), 2), 0>> /\ f[2] = <<Output(Ck2(k), 2), 0>>
    BY <2>1
  <2>3. IsSequence(f) /\ DOMAIN f = 1 .. 2
    BY <1>2, <2>1
  <2> HIDE DEF f
  <2>4. /\ Mark(f[1]) = <<Len(Ck1(k)), 2, 0>> /\ Len(Ck1(k)) = 1
        /\ Mark(f[2]) = <<Len(Ck2(k)), 2, 0>> /\ Len(Ck2(k)) = 2
    BY <1>1, <2>2, ChainLengths
  <2>5. MarkOf(r, 1) = <<1, 2, 0>> /\ MarkOf(r, 2) = <<2, 2, 0>>
    BY <1>4, Names DEF MarkOf
  <2> QED BY <2>3, <2>4, <2>5 DEF f
<1> QED BY <1>3, <1>4, Names

LEMMA UsesMarked ==
  ASSUME NEW r \in Role, NEW n \in Nat
  PROVE  LET s == Uses(r, n) IN
         /\ IsSequence(s) /\ Len(s) = 2 + n /\ DOMAIN s = 1 .. 2 + n
         /\ \A j \in 1 .. 2 + n : Mark(s[j]) = MarkOf(r, j)
<1> DEFINE s == Uses(r, n)
<1>1. s = [j \in 1 .. 2 + n |-> IF j <= 2 THEN FirstUses(r, E)[j] ELSE <<SendKey(r), j - 3>>]
  BY DEF Uses
<1>2. /\ Mark(FirstUses(r, E)[1]) = MarkOf(r, 1)
      /\ Mark(FirstUses(r, E)[2]) = MarkOf(r, 2)
  BY FirstUsesMarked
<1>3. \A j : j # 1 /\ j # 2 => Mark(<<SendKey(r), j - 3>>) = MarkOf(r, j)
  <2> TAKE j
  <2> SUFFICES ASSUME j # 1, j # 2 PROVE Mark(<<SendKey(r), j - 3>>) = MarkOf(r, j)
    OBVIOUS
  <2> PICK n1 : n1 = j - 3
    OBVIOUS
  <2>1. CASE r = I
    <3>1. Mark(<<Output(Ck4, 1), n1>>) = <<4, 1, n1>>
      BY MarkIs, ChainLengths
    <3>2. SendKey(r) = Output(Ck4, 1)
      BY <2>1 DEF SendKey
    <3> QED BY <2>1, <3>1, <3>2 DEF MarkOf
  <2>2. CASE r = R
    <3>1. Mark(<<Output(Ck4, 2), n1>>) = <<4, 2, n1>>
      BY MarkIs, ChainLengths
    <3>2. SendKey(r) = Output(Ck4, 2)
      BY <2>2, Names DEF SendKey
    <3> QED BY <2>2, <3>1, <3>2, Names DEF MarkOf
  <2> QED BY <2>1, <2>2, Names
<1>4. ASSUME NEW j \in 1 .. 2 + n PROVE Mark(s[j]) = MarkOf(r, j)
  <2>1. CASE j <= 2
    <3>1. j = 1 \/ j = 2
      BY <2>1
    <3>2. s[j] = FirstUses(r, E)[j]
      BY <1>1, <2>1
    <3> QED BY <1>2, <3>1, <3>2
  <2>2. CASE ~(j <= 2)
    <3>1. s[j] = <<SendKey(r), j - 3>> /\ j # 1 /\ j # 2
      BY <1>1, <2>2
    <3> QED BY <1>3, <3>1
  <2> QED BY <2>1, <2>2
<1> HIDE DEF s
<1>5. IsSequence(s) /\ Len(s) = 2 + n /\ DOMAIN s = 1 .. 2 + n
  <2> DEFINE S == {s[j] : j \in 1 .. 2 + n}
  <2>1. DOMAIN s = 1 .. 2 + n /\ s = [j \in 1 .. 2 + n |-> s[j]]
    BY <1>1
  <2>2. \A j \in 1 .. 2 + n : s[j] \in S
    OBVIOUS
  <2> HIDE DEF S
  <2>3. s \in [1 .. 2 + n -> S] /\ 2 + n \in Nat
    BY <2>1, <2>2
  <2>4. s \in Seq(S)
    BY <2>3, SeqDef
  <2>5. Len(s) = 2 + n
    BY <2>3, <2>4, LenProperties
  <2> QED BY <2>1, <2>4, <2>5, SequenceOf
<1> QED BY <1>4, <1>5 DEF s

LEMMA MarksDiffer ==
  ASSUME NEW q \in Role, NEW r \in Role, NEW i \in Nat \ {0}, NEW j \in Nat \ {0},
         MarkOf(q, i) = MarkOf(r, j)
  PROVE  q = r /\ i = j
<1>1. CASE q = I /\ r = I
  BY <1>1 DEF MarkOf
<1>2. CASE q = R /\ r = R
  BY <1>2, Names DEF MarkOf
<1>3. CASE q = I /\ r = R
  BY <1>3, Names DEF MarkOf
<1>4. CASE q = R /\ r = I
  BY <1>4, Names DEF MarkOf
<1> QED BY <1>1, <1>2, <1>3, <1>4, Names

\* The uses of r, in order.
Marked(r, s) == IsSequence(s) /\ \A j \in DOMAIN s : Mark(s[j]) = MarkOf(r, j)

LEMMA SealedMarked ==
  ASSUME TranscriptInv, NEW r \in Role PROVE Marked(r, session[r].sealed)
<1>1. Marked(r, <<>>)
  <2>1. <<>> \in Seq({}) /\ DOMAIN <<>> = {}
    OBVIOUS
  <2>2. IsSequence(<<>>)
    BY <2>1, SequenceOf
  <2> QED BY <2>1, <2>2 DEF Marked
<1>2. CASE session[r].complete
  <2>1. session[r].sealed = Uses(r, texts[r]) /\ texts[r] \in Nat
    BY <1>2, CompleteIs, CountsAreNat DEF TranscriptInv
  <2> QED BY <2>1, UsesMarked DEF Marked
<1>3. CASE r = I /\ ~session[r].complete
  <2>1. session[I].sealed = <<>>
    BY <1>3, HalfFields, DoneFields DEF TranscriptInv, InitiatorShape
  <2> QED BY <1>1, <1>3, <2>1
<1>4. CASE r = R /\ ~session[r].complete
  <2>1. session[R].sealed = <<>> \/ \E k : session[R].sealed = FirstUses(R, k)
    BY <1>4, HalfFields, DoneFields DEF TranscriptInv, ResponderShape
  <2>2. ASSUME NEW k PROVE Marked(R, FirstUses(R, k))
    <3> PICK f : f = FirstUses(R, k)
      OBVIOUS
    <3>1. /\ Mark(f[1]) = MarkOf(R, 1) /\ Mark(f[2]) = MarkOf(R, 2)
          /\ IsSequence(f) /\ DOMAIN f = 1 .. 2
      BY FirstUsesMarked, Names
    <3>2. \A j \in 1 .. 2 : j = 1 \/ j = 2
      OBVIOUS
    <3> QED BY <3>1, <3>2 DEF Marked
  <2> QED BY <1>1, <1>4, <2>1, <2>2
<1> QED BY <1>2, <1>3, <1>4, Names

LEMMA Beyond ==
  ASSUME NEW a \in Nat, NEW b \in Nat, NEW i \in 1 .. a + b, ~(i <= a)
  PROVE  i \notin 1 .. a /\ i - a \in 1 .. b
  OBVIOUS

\* No key meets a nonce twice, whichever end uses it and whatever the
\* responder took for the first message (mix_key, split_transport, encrypt).
THEOREM NoncesAreFresh == NoiseSpec => []NonceOnce
<1>1. NoiseInv => NonceOnce
  <2> SUFFICES ASSUME TranscriptInv PROVE NonceOnce
    BY DEF NoiseInv
  <2> PICK s : s = session[I].sealed
    OBVIOUS
  <2> PICK t : t = session[R].sealed
    OBVIOUS
  <2>1. Marked(I, s) /\ Marked(R, t)
    BY SealedMarked, Names
  <2>2. /\ Len(s) \in Nat /\ DOMAIN s = 1 .. Len(s)
        /\ Len(t) \in Nat /\ DOMAIN t = 1 .. Len(t)
    BY <2>1, SequenceIs DEF Marked
  <2> PICK U : U = {s[i] : i \in DOMAIN s} \cup {t[i] : i \in DOMAIN t}
    OBVIOUS
  <2>3. s \in Seq(U) /\ t \in Seq(U)
    BY <2>1 DEF Marked, IsSequence
  <2> PICK all : all = s \o t
    OBVIOUS
  <2>4. /\ DOMAIN all = 1 .. Len(s) + Len(t)
        /\ \A i \in 1 .. Len(s) + Len(t) :
              all[i] = IF i <= Len(s) THEN s[i] ELSE t[i - Len(s)]
    <3>1. s \o t \in Seq(U) /\ Len(s \o t) = Len(s) + Len(t)
      BY <2>3, ConcatProperties
    <3>2. \A i \in 1 .. Len(s) + Len(t) :
             (s \o t)[i] = IF i <= Len(s) THEN s[i] ELSE t[i - Len(s)]
      BY <2>3, ConcatProperties
    <3>3. all \in Seq(U) /\ Len(all) = Len(s) + Len(t)
      BY <3>1
    <3>4. DOMAIN all = 1 .. Len(s) + Len(t)
      BY <3>3
    <3>5. \A i \in 1 .. Len(s) + Len(t) :
             all[i] = IF i <= Len(s) THEN s[i] ELSE t[i - Len(s)]
      BY <3>2
    <3> QED BY <3>4, <3>5
  <2>5. ASSUME NEW i \in DOMAIN all
        PROVE  \/ i \in 1 .. Len(s) /\ Mark(all[i]) = MarkOf(I, i)
               \/ /\ i \notin 1 .. Len(s) /\ i - Len(s) \in 1 .. Len(t)
                  /\ Mark(all[i]) = MarkOf(R, i - Len(s))
    <3>1. CASE i <= Len(s)
      <4>1. i \in 1 .. Len(s) /\ all[i] = s[i]
        BY <2>2, <2>4, <3>1
      <4> QED BY <2>1, <2>2, <4>1 DEF Marked
    <3>2. CASE ~(i <= Len(s))
      <4>1. i \notin 1 .. Len(s) /\ i - Len(s) \in 1 .. Len(t)
        <5>1. /\ Len(s) \in Nat /\ Len(t) \in Nat /\ i \in 1 .. Len(s) + Len(t)
              /\ ~(i <= Len(s))
          BY <2>2, <2>4, <3>2
        <5> QED BY <5>1, Beyond
      <4>2. all[i] = t[i - Len(s)]
        BY <2>4, <3>2
      <4> QED BY <2>1, <2>2, <4>1, <4>2 DEF Marked
    <3> QED BY <3>1, <3>2
  <2>6. ASSUME NEW i \in DOMAIN all, NEW j \in DOMAIN all, all[i] = all[j] PROVE i = j
    <3>1. Mark(all[i]) = Mark(all[j])
      BY <2>6
    <3>2. i \in Int /\ j \in Int /\ Len(s) \in Int
      BY <2>2, <2>4
    <3>3. CASE i \in 1 .. Len(s) /\ j \in 1 .. Len(s)
      <4>1. MarkOf(I, i) = MarkOf(I, j)
        BY <2>5, <3>1, <3>3
      <4>2. i \in Nat \ {0} /\ j \in Nat \ {0}
        BY <3>3
      <4> QED BY <4>1, <4>2, MarksDiffer, Names
    <3>4. CASE i \in 1 .. Len(s) /\ j \notin 1 .. Len(s)
      <4>1. MarkOf(I, i) = MarkOf(R, j - Len(s)) /\ j - Len(s) \in 1 .. Len(t)
        BY <2>5, <3>1, <3>4
      <4>2. i \in Nat \ {0} /\ j - Len(s) \in Nat \ {0}
        BY <3>4, <4>1
      <4> QED BY <4>1, <4>2, MarksDiffer, Names
    <3>5. CASE i \notin 1 .. Len(s) /\ j \in 1 .. Len(s)
      <4>1. MarkOf(R, i - Len(s)) = MarkOf(I, j) /\ i - Len(s) \in 1 .. Len(t)
        BY <2>5, <3>1, <3>5
      <4>2. j \in Nat \ {0} /\ i - Len(s) \in Nat \ {0}
        BY <3>5, <4>1
      <4> QED BY <4>1, <4>2, MarksDiffer, Names
    <3>6. CASE i \notin 1 .. Len(s) /\ j \notin 1 .. Len(s)
      <4>1. /\ MarkOf(R, i - Len(s)) = MarkOf(R, j - Len(s))
            /\ i - Len(s) \in 1 .. Len(t) /\ j - Len(s) \in 1 .. Len(t)
        BY <2>5, <3>1, <3>6
      <4>2. i - Len(s) \in Nat \ {0} /\ j - Len(s) \in Nat \ {0}
        BY <4>1
      <4>3. i - Len(s) = j - Len(s)
        BY <4>1, <4>2, MarksDiffer, Names
      <4> QED BY <3>2, <4>3
    <3> QED BY <3>3, <3>4, <3>5, <3>6
  <2> QED BY <2>6 DEF NonceOnce, I, R
<1> QED BY <1>1, TranscriptInvariant, PTL
=============================================================================
