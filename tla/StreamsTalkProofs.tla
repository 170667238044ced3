------------------------- MODULE StreamsTalkProofs -------------------------
(* Proofs about what the two ends of a stream agree on, from the invariant *)
(* TalkInv of StreamsInv.                                                  *)
EXTENDS StreamsProofs, SequenceTheorems

----------------------------------------------------------------------------
(* Sequences of frames.                                                    *)

\* The frames after others have joined.
LEMMA JoinFacts ==
    ASSUME NEW w \in Seq(Frames), NEW out \in Seq(Frames)
    PROVE  LET v == w \o out IN
           /\ v \in Seq(Frames) /\ Len(v) = Len(w) + Len(out)
           /\ Len(w) \in Nat /\ Len(out) \in Nat
           /\ DOMAIN w = 1 .. Len(w) /\ DOMAIN out = 1 .. Len(out)
           /\ DOMAIN v = 1 .. Len(w) + Len(out)
           /\ \A i \in DOMAIN w : i \in DOMAIN v /\ v[i] = w[i]
           /\ \A i \in DOMAIN v : i \notin DOMAIN w =>
                 /\ i - Len(w) \in DOMAIN out /\ v[i] = out[i - Len(w)] /\ i > Len(w)
  OBVIOUS

\* The frames after the first has left.
LEMMA RestFacts ==
    ASSUME NEW w \in Seq(Frames), w # <<>>
    PROVE  /\ Tail(w) \in Seq(Frames) /\ Head(w) \in Frames
           /\ Len(w) \in Nat /\ Len(Tail(w)) = Len(w) - 1
           /\ DOMAIN w = 1 .. Len(w) /\ DOMAIN Tail(w) = 1 .. (Len(w) - 1)
           /\ 1 \in DOMAIN w /\ Head(w) = w[1]
           /\ \A i \in DOMAIN Tail(w) : /\ i + 1 \in DOMAIN w /\ i + 1 # 1
                                        /\ Tail(w)[i] = w[i + 1]
           /\ \A i \in DOMAIN w : i # 1 => i - 1 \in DOMAIN Tail(w) /\ Tail(w)[i - 1] = w[i]
  OBVIOUS

\* The body of a frame is a sequence of messages.
LEMMA BodyFacts ==
    ASSUME NEW w \in Seq(Frames), NEW i \in DOMAIN w
    PROVE  /\ w[i] \in Frames /\ w[i].body \in Seq(Message) /\ Len(w[i].body) \in Nat
           /\ DOMAIN w[i].body = 1 .. Len(w[i].body)
  <1>1. w[i] \in Frames
    OBVIOUS
  <1>2. w[i].body \in Seq(Message)
    BY <1>1 DEF Frames
  <1> DEFINE b == w[i].body
  <1> HIDE DEF b
  <1>3. b \in Seq(Message) => Len(b) \in Nat /\ DOMAIN b = 1 .. Len(b)
    OBVIOUS
  <1> QED BY <1>1, <1>2, <1>3 DEF b

----------------------------------------------------------------------------
(* Frames that carry messages.                                             *)

\* None of the frames out carries messages of s.
NoData(out, s) == \A i \in DOMAIN out : ~IsData(out[i], s)

LEMMA CarriedJoin ==
    ASSUME NEW w \in Seq(Frames), NEW out \in Seq(Frames), NEW s, NEW said, NEW n,
           Carried(w, s, said, n), NoData(out, s)
    PROVE  Carried(w \o out, s, said, n)
  <1> DEFINE v == w \o out
  <1>1. PICK off \in [DOMAIN w -> Nat] : Places(w, s, said, n, off)
    BY DEF Carried
  <1> DEFINE to == [i \in DOMAIN v |-> IF i \in DOMAIN w THEN off[i] ELSE 0]
  <1>2. to \in [DOMAIN v -> Nat]
    OBVIOUS
  <1>3. /\ \A i \in DOMAIN w : i \in DOMAIN v /\ v[i] = w[i] /\ to[i] = off[i]
        /\ \A i \in DOMAIN v : IsData(v[i], s) => i \in DOMAIN w
    BY JoinFacts DEF NoData
  <1> HIDE DEF v, to
  <1>4. \A i \in DOMAIN v : IsData(v[i], s) =>
           /\ n <= to[i] /\ to[i] + Len(v[i].body) <= Len(said)
           /\ \A k \in DOMAIN v[i].body : v[i].body[k] = said[to[i] + k]
    BY <1>1, <1>3 DEF Places
  <1>5. \A i, j \in DOMAIN v : (i < j /\ IsData(v[i], s) /\ IsData(v[j], s)) =>
           to[i] + Len(v[i].body) <= to[j]
    BY <1>1, <1>3 DEF Places
  <1>6. \A k \in n + 1 .. Len(said) : \E i \in DOMAIN v :
           IsData(v[i], s) /\ to[i] < k /\ k <= to[i] + Len(v[i].body)
    BY <1>1, <1>3 DEF Places
  <1>7. Places(v, s, said, n, to)
    BY <1>4, <1>5, <1>6 DEF Places
  <1> QED BY <1>2, <1>7 DEF Carried, v

\* A frame carries the next messages.
LEMMA CarriedSaid ==
    ASSUME NEW w \in Seq(Frames), NEW s \in Sid, NEW said \in Seq(Message), NEW n \in Nat,
           n <= Len(said), NEW body \in Seq(Message), Carried(w, s, said, n)
    PROVE  Carried(w \o <<Frame(s, "DATA", body)>>, s, said \o body, n)
  <1> DEFINE f == Frame(s, "DATA", body)
             v == w \o <<f>>
             more == said \o body
             last == Len(w) + 1
  <1>1. PICK off \in [DOMAIN w -> Nat] : Places(w, s, said, n, off)
    BY DEF Carried
  <1>2. f \in Frames /\ IsData(f, s) /\ f.body = body
    BY FrameType DEF Frame, IsData
  <1> HIDE DEF f
  <1>3. /\ Len(w) \in Nat /\ DOMAIN w = 1 .. Len(w) /\ DOMAIN v = 1 .. last
        /\ \A i \in DOMAIN w : v[i] = w[i] /\ i \in DOMAIN v /\ i # last
        /\ v[last] = f
    BY <1>2
  <1>4. /\ Len(said) \in Nat /\ Len(body) \in Nat /\ Len(more) = Len(said) + Len(body)
        /\ \A i \in 1 .. Len(said) : more[i] = said[i]
        /\ \A i \in DOMAIN body : more[Len(said) + i] = body[i]
    OBVIOUS
  <1> DEFINE to == [i \in DOMAIN v |-> IF i = last THEN Len(said) ELSE off[i]]
  <1>5. /\ to \in [DOMAIN v -> Nat] /\ to[last] = Len(said) /\ last \in DOMAIN v
        /\ \A i \in DOMAIN w : to[i] = off[i]
    BY <1>3, <1>4
  <1>6. \A i \in DOMAIN v : i = last \/ i \in DOMAIN w
    BY <1>3
  <1> HIDE DEF v, to, more
  <1>7. ASSUME NEW i \in DOMAIN v, IsData(v[i], s)
        PROVE  /\ n <= to[i] /\ to[i] + Len(v[i].body) <= Len(more)
               /\ \A k \in DOMAIN v[i].body : v[i].body[k] = more[to[i] + k]
    <2>1. CASE i = last
      BY <1>2, <1>3, <1>4, <1>5, <2>1
    <2>2. CASE i \in DOMAIN w
      <3>1. /\ n <= off[i] /\ off[i] + Len(w[i].body) <= Len(said)
            /\ \A k \in DOMAIN w[i].body : w[i].body[k] = said[off[i] + k]
        BY <1>1, <1>3, <1>7, <2>2 DEF Places
      <3>2. /\ Len(w[i].body) \in Nat /\ DOMAIN w[i].body = 1 .. Len(w[i].body)
            /\ off[i] \in Nat
        BY <1>1, <2>2, BodyFacts
      <3>3. \A k \in DOMAIN w[i].body : off[i] + k \in 1 .. Len(said)
        BY SMTT(30), <1>4, <3>1, <3>2
      <3>4. off[i] + Len(w[i].body) <= Len(more)
        BY <1>4, <3>1, <3>2
      <3> QED BY <1>3, <1>4, <1>5, <2>2, <3>1, <3>3, <3>4
    <2> QED BY <1>6, <2>1, <2>2
  <1>8. ASSUME NEW i \in DOMAIN v, NEW j \in DOMAIN v, i < j, IsData(v[i], s), IsData(v[j], s)
        PROVE  to[i] + Len(v[i].body) <= to[j]
    <2>1. i \in DOMAIN w
      BY <1>3, <1>6, <1>8
    <2>2. CASE j = last
      BY <1>1, <1>3, <1>5, <1>8, <2>1, <2>2 DEF Places
    <2>3. CASE j \in DOMAIN w
      BY <1>1, <1>3, <1>5, <1>8, <2>1, <2>3 DEF Places
    <2> QED BY <1>6, <2>2, <2>3
  <1>9. ASSUME NEW k \in n + 1 .. Len(more)
        PROVE  \E i \in DOMAIN v : IsData(v[i], s) /\ to[i] < k /\ k <= to[i] + Len(v[i].body)
    <2>1. CASE k \in n + 1 .. Len(said)
      BY <1>1, <1>3, <1>5, <2>1 DEF Places
    <2>2. CASE k > Len(said)
      <3>1. k <= Len(said) + Len(body)
        BY <1>4, <1>9
      <3> QED BY <1>2, <1>3, <1>5, <2>2, <3>1
    <2> QED BY <1>4, <1>9, <2>1, <2>2
  <1>10. Places(v, s, more, n, to)
    BY <1>7, <1>8, <1>9 DEF Places
  <1> QED BY <1>5, <1>10 DEF Carried, v, f, more

\* A frame without messages of s leaves.
LEMMA CarriedRestOther ==
    ASSUME NEW w \in Seq(Frames), w # <<>>, NEW s, NEW said, NEW n,
           Carried(w, s, said, n), ~IsData(Head(w), s)
    PROVE  Carried(Tail(w), s, said, n)
  <1> DEFINE v == Tail(w)
  <1>1. PICK off \in [DOMAIN w -> Nat] : Places(w, s, said, n, off)
    BY DEF Carried
  <1> DEFINE to == [i \in DOMAIN v |-> off[i + 1]]
  <1>2. \A i \in DOMAIN v : i + 1 \in DOMAIN w /\ v[i] = w[i + 1] /\ to[i] = off[i + 1]
    BY RestFacts
  <1>3. to \in [DOMAIN v -> Nat]
    BY <1>2
  <1>4. \A i \in DOMAIN w : IsData(w[i], s) =>
           \E j \in DOMAIN v : v[j] = w[i] /\ to[j] = off[i]
    <2>1. \A i \in DOMAIN w : i # 1 => i - 1 \in DOMAIN v /\ v[i - 1] = w[i] /\ i - 1 + 1 = i
      BY RestFacts
    <2>2. ~IsData(w[1], s)
      BY RestFacts
    <2> QED BY <2>1, <2>2
  <1>5. \A i, j \in DOMAIN v : i < j => i + 1 < j + 1
    BY RestFacts
  <1> HIDE DEF v, to
  <1>6. \A i \in DOMAIN v : IsData(v[i], s) =>
           /\ n <= to[i] /\ to[i] + Len(v[i].body) <= Len(said)
           /\ \A k \in DOMAIN v[i].body : v[i].body[k] = said[to[i] + k]
    BY <1>1, <1>2 DEF Places
  <1>7. \A i, j \in DOMAIN v : (i < j /\ IsData(v[i], s) /\ IsData(v[j], s)) =>
           to[i] + Len(v[i].body) <= to[j]
    BY <1>1, <1>2, <1>5 DEF Places
  <1>8. \A k \in n + 1 .. Len(said) : \E i \in DOMAIN v :
           IsData(v[i], s) /\ to[i] < k /\ k <= to[i] + Len(v[i].body)
    BY <1>1, <1>2, <1>4 DEF Places
  <1>9. Places(v, s, said, n, to)
    BY <1>6, <1>7, <1>8 DEF Places
  <1> QED BY <1>3, <1>9 DEF Carried, v

\* The frame in front carries the next messages, the others the rest.
LEMMA CarriedRest ==
    ASSUME NEW w \in Seq(Frames), w # <<>>, NEW s, NEW said \in Seq(Message), NEW n \in Nat,
           Carried(w, s, said, n), IsData(Head(w), s)
    PROVE  LET body == Head(w).body IN
           /\ n + Len(body) <= Len(said)
           /\ \A k \in DOMAIN body : body[k] = said[n + k]
           /\ Carried(Tail(w), s, said, n + Len(body))
  <1> DEFINE v == Tail(w)
             f == Head(w)
             len == Len(f.body)
  <1>1. PICK off \in [DOMAIN w -> Nat] : Places(w, s, said, n, off)
    BY DEF Carried
  <1>2. /\ 1 \in DOMAIN w /\ f = w[1] /\ len \in Nat /\ off[1] \in Nat
        /\ DOMAIN f.body = 1 .. len
    BY <1>1, RestFacts, BodyFacts
  <1>3. /\ n <= off[1] /\ off[1] + len <= Len(said)
        /\ \A k \in DOMAIN f.body : f.body[k] = said[off[1] + k]
    BY <1>1, <1>2 DEF Places
  <1>4. \A j \in DOMAIN w : j # 1 /\ IsData(w[j], s) => off[1] + len <= off[j]
    <2>1. \A j \in DOMAIN w : j # 1 => 1 < j
      BY RestFacts
    <2> QED BY <1>1, <1>2, <2>1 DEF Places
  <1>5. off[1] = n \/ len = 0
    <2>1. CASE off[1] > n
      <3>1. n + 1 \in n + 1 .. Len(said)
        BY <1>2, <1>3, <2>1
      <3>2. PICK i \in DOMAIN w :
               IsData(w[i], s) /\ off[i] < n + 1 /\ n + 1 <= off[i] + Len(w[i].body)
        BY <1>1, <3>1 DEF Places
      <3>3. i # 1
        BY <1>2, <2>1, <3>2
      <3>4. off[i] \in Nat
        BY <1>1
      <3> QED BY <1>2, <1>4, <2>1, <3>2, <3>3, <3>4
    <2> QED BY <1>2, <1>3, <2>1
  <1>6. /\ n + len <= Len(said) /\ n + len <= off[1] + len
        /\ \A k \in DOMAIN f.body : f.body[k] = said[n + k]
    <2>1. CASE off[1] = n
      BY <1>2, <1>3, <2>1
    <2>2. CASE len = 0
      BY <1>2, <1>3, <2>2
    <2> QED BY <1>5, <2>1, <2>2
  <1> DEFINE to == [i \in DOMAIN v |-> off[i + 1]]
  <1>7. \A i \in DOMAIN v : /\ i + 1 \in DOMAIN w /\ i + 1 # 1
                            /\ v[i] = w[i + 1] /\ to[i] = off[i + 1]
    BY RestFacts
  <1>8. to \in [DOMAIN v -> Nat]
    BY <1>7
  <1>9. \A i \in DOMAIN w : i # 1 => \E j \in DOMAIN v : v[j] = w[i] /\ to[j] = off[i]
    <2>1. \A i \in DOMAIN w : i # 1 => i - 1 \in DOMAIN v /\ v[i - 1] = w[i] /\ i - 1 + 1 = i
      BY RestFacts
    <2> QED BY <2>1
  <1>10. \A i, j \in DOMAIN v : i < j => i + 1 < j + 1
    BY RestFacts
  <1> HIDE DEF v, to, f, len
  <1>11. ASSUME NEW i \in DOMAIN v, IsData(v[i], s)
         PROVE  /\ n + len <= to[i] /\ to[i] + Len(v[i].body) <= Len(said)
                /\ \A k \in DOMAIN v[i].body : v[i].body[k] = said[to[i] + k]
    <2>1. off[1] + len <= to[i] /\ to[i] \in Nat
      BY <1>4, <1>7, <1>8, <1>11
    <2>2. n + len <= to[i]
      BY <1>2, <1>6, <2>1
    <2> QED BY <1>1, <1>7, <1>11, <2>2 DEF Places
  <1>12. \A i, j \in DOMAIN v : (i < j /\ IsData(v[i], s) /\ IsData(v[j], s)) =>
            to[i] + Len(v[i].body) <= to[j]
    BY <1>1, <1>7, <1>10 DEF Places
  <1>13. ASSUME NEW k \in n + len + 1 .. Len(said)
         PROVE  \E i \in DOMAIN v : IsData(v[i], s) /\ to[i] < k /\ k <= to[i] + Len(v[i].body)
    <2>1. k \in n + 1 .. Len(said) /\ k > n + len
      BY <1>2, <1>13
    <2>2. PICK i \in DOMAIN w : IsData(w[i], s) /\ off[i] < k /\ k <= off[i] + Len(w[i].body)
      BY <1>1, <2>1 DEF Places
    <2>3. i # 1
      <3>1. CASE off[1] = n
        BY <1>2, <2>1, <2>2, <3>1 DEF f, len
      <3>2. CASE len = 0
        BY <1>2, <2>1, <2>2, <3>2 DEF f, len
      <3> QED BY <1>5, <3>1, <3>2
    <2> QED BY <1>9, <2>2, <2>3
  <1>14. Places(v, s, said, n + len, to)
    BY <1>11, <1>12, <1>13 DEF Places
  <1> QED BY <1>6, <1>8, <1>14 DEF Carried, v, f, len

----------------------------------------------------------------------------
(* What an end has seen of what was said.                                  *)

LEMMA SeenTypes ==
    ASSUME NEW e \in End
    PROVE  /\ Seen(e) \in Seq(Message) /\ Skip(e) \in Nat
           /\ Len(Seen(e)) \in Nat /\ DOMAIN Seen(e) = 1 .. Len(Seen(e))
  <1>1. /\ e.buffer \in Seq(Message) /\ e.rx \in Seq(Message)
        /\ e.got \in Seq(Message) /\ e.appRx \in Seq(Message)
    BY DEF End
  <1>2. Seen(e) \in Seq(Message)
    BY <1>1 DEF Seen
  <1> DEFINE x == Seen(e)
  <1> HIDE DEF x
  <1>3. x \in Seq(Message) => Len(x) \in Nat /\ DOMAIN x = 1 .. Len(x)
    OBVIOUS
  <1> QED BY <1>2, <1>3 DEF Skip, x

LEMMA SeesSaid ==
    ASSUME NEW w \in Seq(Frames), NEW s \in Sid, NEW said \in Seq(Message), NEW k \in Nat,
           NEW seen \in Seq(Message), NEW open, NEW body \in Seq(Message),
           Sees(s, said, w, k, seen, open)
    PROVE  Sees(s, said \o body, w \o <<Frame(s, "DATA", body)>>, k, seen, open)
  <1> DEFINE more == said \o body
             v == w \o <<Frame(s, "DATA", body)>>
  <1>1. /\ Len(said) \in Nat /\ Len(more) = Len(said) + Len(body) /\ Len(body) \in Nat
        /\ \A i \in 1 .. Len(said) : more[i] = said[i]
        /\ Len(seen) \in Nat /\ DOMAIN seen = 1 .. Len(seen)
    OBVIOUS
  <1>2. open => Carried(v, s, more, k + Len(seen))
    BY <1>1, CarriedSaid DEF Sees
  <1> HIDE DEF more, v
  <1>3. k + Len(seen) <= Len(more)
    BY <1>1 DEF Sees
  <1>4. \A i \in DOMAIN seen : k + i \in 1 .. Len(said)
    BY <1>1 DEF Sees
  <1>5. \A i \in DOMAIN seen : seen[i] = more[k + i]
    BY <1>1, <1>4 DEF Sees
  <1>6. Sees(s, more, v, k, seen, open)
    BY <1>2, <1>3, <1>5 DEF Sees
  <1> QED BY <1>6 DEF more, v

LEMMA SeesJoin ==
    ASSUME NEW w \in Seq(Frames), NEW out \in Seq(Frames), NEW s, NEW said, NEW k,
           NEW seen, NEW open, Sees(s, said, w, k, seen, open), NoData(out, s)
    PROVE  Sees(s, said, w \o out, k, seen, open)
  BY CarriedJoin DEF Sees

LEMMA SeesRestOther ==
    ASSUME NEW w \in Seq(Frames), w # <<>>, NEW s, NEW said, NEW k,
           NEW seen, NEW open, Sees(s, said, w, k, seen, open), ~IsData(Head(w), s)
    PROVE  Sees(s, said, Tail(w), k, seen, open)
  BY CarriedRestOther DEF Sees

LEMMA SeesRest ==
    ASSUME NEW w \in Seq(Frames), w # <<>>, NEW s, NEW said \in Seq(Message), NEW k \in Nat,
           NEW seen \in Seq(Message), NEW open, Sees(s, said, w, k, seen, TRUE),
           IsData(Head(w), s)
    PROVE  Sees(s, said, Tail(w), k, seen \o Head(w).body, open)
  <1> DEFINE body == Head(w).body
             more == seen \o body
             n == k + Len(seen)
             v == Tail(w)
  <1>1. body \in Seq(Message)
    BY RestFacts DEF Frames
  <1>2. n \in Nat /\ Len(seen) \in Nat
    OBVIOUS
  <1>3. /\ n + Len(body) <= Len(said)
        /\ \A i \in DOMAIN body : body[i] = said[n + i]
        /\ Carried(v, s, said, n + Len(body))
    BY <1>2, CarriedRest DEF Sees
  <1> HIDE DEF body, v
  <1>4. /\ Len(more) = Len(seen) + Len(body) /\ Len(body) \in Nat
        /\ DOMAIN more = 1 .. Len(seen) + Len(body)
        /\ \A i \in 1 .. Len(seen) : more[i] = seen[i] /\ i \in DOMAIN seen
        /\ \A i \in DOMAIN more : i \notin 1 .. Len(seen) =>
              i - Len(seen) \in DOMAIN body /\ more[i] = body[i - Len(seen)]
    BY <1>1
  <1>5. k + Len(more) = n + Len(body)
    BY <1>2, <1>4
  <1>6. ASSUME NEW i \in DOMAIN more
        PROVE  more[i] = said[k + i]
    <2>1. CASE i \in 1 .. Len(seen)
      BY <1>4, <2>1 DEF Sees
    <2>2. CASE i \notin 1 .. Len(seen)
      <3>1. n + (i - Len(seen)) = k + i
        BY <1>2, <1>4, <1>6
      <3> QED BY <1>3, <1>4, <2>2, <3>1
    <2> QED BY <2>1, <2>2
  <1> HIDE DEF more, n
  <1>7. Sees(s, said, v, k, more, open)
    BY <1>3, <1>5, <1>6 DEF Sees
  <1> QED BY <1>7 DEF v, more, body

\* The reader keeps a part, and gets nothing more.
LEMMA SeesPart ==
    ASSUME NEW w, NEW s, NEW said \in Seq(Message), NEW k \in Nat, NEW seen \in Seq(Message),
           NEW part \in Seq(Message), Sees(s, said, w, k, seen, FALSE),
           Len(part) <= Len(seen), \A i \in DOMAIN part : part[i] = seen[i]
    PROVE  \A v : Sees(s, said, v, k, part, FALSE)
  <1>1. /\ Len(part) \in Nat /\ Len(seen) \in Nat /\ Len(said) \in Nat
        /\ DOMAIN part = 1 .. Len(part) /\ DOMAIN seen = 1 .. Len(seen)
    OBVIOUS
  <1>2. k + Len(part) <= Len(said)
    BY <1>1 DEF Sees
  <1>3. \A i \in DOMAIN part : i \in DOMAIN seen
    BY <1>1
  <1> QED BY <1>2, <1>3 DEF Sees

\* The negotiation uses up two messages.
LEMMA SeesUsed ==
    ASSUME NEW w, NEW s, NEW said \in Seq(Message), NEW seen \in Seq(Message), NEW open,
           Sees(s, said, w, 0, seen, open), Len(seen) >= 2
    PROVE  /\ Sees(s, said, w, 2, SubSeq(seen, 3, Len(seen)), open)
           /\ Len(said) >= 2 /\ said[1] = seen[1] /\ said[2] = seen[2]
  <1> DEFINE rest == SubSeq(seen, 3, Len(seen))
  <1>1. /\ Len(seen) \in Nat /\ DOMAIN seen = 1 .. Len(seen) /\ Len(said) \in Nat
    OBVIOUS
  <1>2. /\ Len(rest) = Len(seen) - 2 /\ DOMAIN rest = 1 .. Len(seen) - 2
        /\ \A i \in DOMAIN rest : rest[i] = seen[i + 2] /\ i + 2 \in DOMAIN seen
    BY <1>1
  <1>3. 2 + Len(rest) = Len(seen) /\ 0 + Len(seen) = Len(seen)
    BY <1>1, <1>2
  <1>4. \A i \in DOMAIN seen : 0 + i = i
    BY <1>1
  <1>5. \A i \in DOMAIN rest : 0 + (i + 2) = 2 + i
    BY <1>2
  <1>6. 1 \in DOMAIN seen /\ 2 \in DOMAIN seen
    BY <1>1
  <1> HIDE DEF rest
  <1>7. Sees(s, said, w, 2, rest, open)
    BY <1>1, <1>2, <1>3, <1>5 DEF Sees
  <1>8. said[1] = seen[1] /\ said[2] = seen[2]
    BY <1>4, <1>6 DEF Sees
  <1>9. Len(said) >= 2
    BY <1>1, <1>3 DEF Sees
  <1> QED BY <1>7, <1>8, <1>9 DEF rest

\* Everything that can be seen has been seen, or a frame is on its way.
LEMMA SeesAll ==
    ASSUME NEW w, NEW s, NEW said \in Seq(Message), NEW k \in Nat, NEW seen \in Seq(Message),
           Sees(s, said, w, k, seen, TRUE)
    PROVE  k + Len(seen) = Len(said) \/ \E i \in DOMAIN w : w[i].s = s
  <1>1. Len(said) \in Nat /\ Len(seen) \in Nat
    OBVIOUS
  <1>2. CASE k + Len(seen) < Len(said)
    <2>1. k + Len(seen) + 1 \in k + Len(seen) + 1 .. Len(said)
      BY <1>1, <1>2
    <2> QED BY <2>1 DEF Sees, Carried, Places, IsData
  <1> QED BY <1>1, <1>2 DEF Sees

----------------------------------------------------------------------------
(* SYN frames.                                                             *)

NoSyn(out, s) == \A i \in DOMAIN out : ~IsSyn(out[i], s)
NotOf(out, s) == \A i \in DOMAIN out : out[i].s # s
AllOf(out, s) == \A i \in DOMAIN out : out[i].s = s

LEMMA SynJoin ==
    ASSUME NEW w \in Seq(Frames), NEW out \in Seq(Frames), NEW a, NEW s, NEW e, NEW up,
           SynFirst(a, s, w, e, up), NoSyn(out, s),
           (up /\ ~e.known /\ ~e.reset) => SynAmong(w, Len(w), s) \/ NotOf(out, s)
    PROVE  /\ SynFirst(a, s, w \o out, e, up)
           /\ SynAmong(w, Len(w), s) => SynAmong(w \o out, Len(w \o out), s)
  <1> DEFINE v == w \o out
  <1>1. /\ Len(w) \in Nat /\ Len(v) \in Nat /\ DOMAIN w = 1 .. Len(w)
        /\ Len(w) <= Len(v)
        /\ \A i \in DOMAIN w : i \in DOMAIN v /\ v[i] = w[i]
        /\ \A i \in DOMAIN v : i \notin DOMAIN w =>
              i - Len(w) \in DOMAIN out /\ v[i] = out[i - Len(w)] /\ i > Len(w)
    BY JoinFacts
  <1> HIDE DEF v
  <1>2. \A i \in DOMAIN v : IsSyn(v[i], s) => i \in DOMAIN w /\ IsSyn(w[i], s)
    BY <1>1 DEF NoSyn
  <1>3. \A n \in Int : n >= Len(w) /\ SynAmong(w, Len(w), s) => SynAmong(v, n, s)
    BY <1>1 DEF SynAmong
  <1>4. \A n \in DOMAIN w : SynAmong(w, n, s) => SynAmong(v, n, s)
    BY <1>1 DEF SynAmong
  <1>5. ASSUME up, ~e.known, ~e.reset, NEW i \in DOMAIN v, v[i].s = s
        PROVE  SynAmong(v, i, s)
    <2>1. CASE i \in DOMAIN w
      BY <1>1, <1>4, <1>5, <2>1 DEF SynFirst
    <2>2. CASE i \notin DOMAIN w
      <3>1. i > Len(w) /\ i \in Int /\ ~NotOf(out, s)
        BY <1>1, <1>5, <2>2 DEF NotOf
      <3> QED BY <1>1, <1>3, <1>5, <3>1
    <2> QED BY <2>1, <2>2
  <1>6. SynFirst(a, s, v, e, up)
    BY <1>2, <1>5 DEF SynFirst
  <1> QED BY <1>1, <1>3, <1>6 DEF v

\* A frame of another stream leaves.
LEMMA SynRestOther ==
    ASSUME NEW w \in Seq(Frames), w # <<>>, NEW a, NEW s, NEW e, NEW up,
           SynFirst(a, s, w, e, up), Head(w).s # s
    PROVE  /\ SynFirst(a, s, Tail(w), e, up)
           /\ SynAmong(w, Len(w), s) => SynAmong(Tail(w), Len(Tail(w)), s)
  <1> DEFINE v == Tail(w)
  <1>1. /\ Len(w) \in Nat /\ Len(v) = Len(w) - 1
        /\ DOMAIN w = 1 .. Len(w) /\ DOMAIN v = 1 .. Len(w) - 1
        /\ \A i \in DOMAIN v : i + 1 \in DOMAIN w /\ v[i] = w[i + 1]
        /\ \A i \in DOMAIN w : i # 1 => i - 1 \in DOMAIN v /\ v[i - 1] = w[i]
        /\ w[1].s # s
    BY RestFacts
  <1> HIDE DEF v
  <1>2. \A i \in DOMAIN w : IsSyn(w[i], s) => i # 1
    BY <1>1 DEF IsSyn
  <1>3. \A n \in Int : SynAmong(w, n + 1, s) => SynAmong(v, n, s)
    <2> SUFFICES ASSUME NEW n \in Int, NEW i \in DOMAIN w, i <= n + 1, IsSyn(w[i], s)
                 PROVE  SynAmong(v, n, s)
      BY DEF SynAmong
    <2>1. i - 1 \in DOMAIN v /\ v[i - 1] = w[i]
      BY <1>1, <1>2
    <2>2. i - 1 <= n
      BY <1>1
    <2> QED BY <2>1, <2>2 DEF SynAmong
  <1>4. /\ \A i, j \in DOMAIN v : i + 1 = j + 1 => i = j
        /\ \A i \in DOMAIN v : i \in Int
    BY <1>1
  <1>5. \A i, j \in DOMAIN v : IsSyn(v[i], s) /\ IsSyn(v[j], s) => i = j
    BY <1>1, <1>4 DEF SynFirst
  <1>6. \A i \in DOMAIN v : IsSyn(v[i], s) => s[1] = a /\ e = NoEnd
    BY <1>1 DEF SynFirst
  <1>7. ASSUME up, ~e.known, ~e.reset, NEW i \in DOMAIN v, v[i].s = s
        PROVE  SynAmong(v, i, s)
    <2>1. i + 1 \in DOMAIN w /\ w[i + 1].s = s
      BY <1>1, <1>7
    <2>2. SynAmong(w, i + 1, s)
      BY <1>7, <2>1 DEF SynFirst
    <2> QED BY <1>3, <1>4, <2>2
  <1>8. SynFirst(a, s, v, e, up)
    BY <1>5, <1>6, <1>7 DEF SynFirst
  <1>9. Len(v) \in Int /\ Len(v) + 1 = Len(w)
    BY <1>1
  <1> QED BY <1>3, <1>8, <1>9 DEF v

\* A frame leaves and the end has or had the stream: no other SYN is there.
LEMMA SynRest ==
    ASSUME NEW w \in Seq(Frames), w # <<>>, NEW a, NEW s, NEW e, NEW up, NEW e2, NEW up2,
           SynFirst(a, s, w, e, up), IsSyn(Head(w), s) \/ e # NoEnd, e2.known \/ e2.reset
    PROVE  SynFirst(a, s, Tail(w), e2, up2)
  <1> DEFINE v == Tail(w)
  <1>1. /\ 1 \in DOMAIN w /\ Head(w) = w[1]
        /\ \A i \in DOMAIN v : i + 1 \in DOMAIN w /\ i + 1 # 1 /\ v[i] = w[i + 1]
    BY RestFacts
  <1> HIDE DEF v
  <1>2. NoSyn(v, s)
    BY <1>1 DEF SynFirst, NoSyn
  <1>3. SynFirst(a, s, v, e2, up2)
    BY <1>2 DEF SynFirst, NoSyn
  <1> QED BY <1>3 DEF v

----------------------------------------------------------------------------
(* What an end hears when the other one speaks.                            *)

\* It says nothing.
LEMMA HeardSilent ==
    ASSUME NEW a, NEW s, NEW o, NEW o2, NEW w, NEW e, NEW up, Heard(a, s, o, w, e, up),
           o2.said = o.said, Told(a, s, o2) => Told(a, s, o)
    PROVE  Heard(a, s, o2, w, e, up)
  BY DEF Heard

LEMMA NamesGrow ==
    ASSUME NEW said \in Seq(Message), NEW body \in Seq(Message), NEW x, Names(said, x)
    PROVE  Names(said \o body, x)
  <1>1. /\ Len(said) \in Nat /\ Len(said \o body) >= Len(said)
        /\ 1 \in 1 .. Len(said) /\ 2 \in 1 .. Len(said)
    BY DEF Names
  <1>2. \A i \in 1 .. Len(said) : (said \o body)[i] = said[i]
    OBVIOUS
  <1> QED BY <1>1, <1>2 DEF Names

\* It ends the stream, or its frames belong to other streams.
LEMMA HeardJoin ==
    ASSUME NEW a, NEW s, NEW o, NEW w \in Seq(Frames), NEW out \in Seq(Frames), NEW e, NEW up,
           Heard(a, s, o, w, e, up), NoData(out, s), NoSyn(out, s),
           Told(a, s, o) \/ NotOf(out, s)
    PROVE  Heard(a, s, o, w \o out, e, up)
  <1>1. Follows(s, o.said, w \o out, e, up)
    BY SeesJoin DEF Heard, Follows
  <1>2. (up /\ ~e.known /\ ~e.reset) => SynAmong(w, Len(w), s) \/ NotOf(out, s)
    BY DEF Heard
  <1>3. /\ SynFirst(a, s, w \o out, e, up)
        /\ SynAmong(w, Len(w), s) => SynAmong(w \o out, Len(w \o out), s)
    BY <1>2, SynJoin DEF Heard
  <1> QED BY <1>1, <1>3 DEF Heard

\* It sends messages.
LEMMA HeardSays ==
    ASSUME NEW a, NEW s \in Sid, NEW o \in End, NEW o2, NEW w \in Seq(Frames), NEW e \in End,
           NEW up, NEW body \in Seq(Message), Heard(a, s, o, w, e, up),
           o2.said = o.said \o body, Told(a, s, o)
    PROVE  Heard(a, s, o2, w \o <<Frame(s, "DATA", body)>>, e, up)
  <1> DEFINE f == Frame(s, "DATA", body)
             out == <<f>>
  <1>1. o.said \in Seq(Message)
    BY DEF End
  <1>2. Follows(s, o2.said, w \o out, e, up)
    BY <1>1, SeenTypes, SeesSaid DEF Heard, Follows
  <1>3. out \in Seq(Frames) /\ f \in Frames
    BY FrameType
  <1>4. NoSyn(out, s)
    <2>1. f.kind = "DATA"
      BY DEF Frame
    <2> HIDE DEF f
    <2> QED BY <2>1 DEF NoSyn, IsSyn
  <1> HIDE DEF f, out
  <1>5. (up /\ ~e.known /\ ~e.reset) => SynAmong(w, Len(w), s)
    BY DEF Heard
  <1>6. /\ SynFirst(a, s, w \o out, e, up)
        /\ SynAmong(w, Len(w), s) => SynAmong(w \o out, Len(w \o out), s)
    BY <1>3, <1>4, <1>5, SynJoin DEF Heard
  <1>7. e.protocol # "none" => Names(o2.said, e.protocol)
    BY <1>1, NamesGrow DEF Heard
  <1>8. Len(o.said) >= 2 => Len(o2.said) >= 2
    <2> DEFINE x == o.said
    <2>1. x \in Seq(Message) /\ o2.said = x \o body
      BY <1>1
    <2> HIDE DEF x
    <2>2. Len(x) \in Nat /\ Len(body) \in Nat /\ Len(x \o body) = Len(x) + Len(body)
      BY <2>1
    <2> QED BY <2>1, <2>2 DEF x
  <1>9. Heard(a, s, o2, w \o out, e, up)
    BY <1>2, <1>5, <1>6, <1>7, <1>8 DEF Heard
  <1> QED BY <1>9 DEF out, f

\* Frames of other streams change nothing.
LEMMA HalfOthers ==
    ASSUME NEW a, NEW s, NEW o, NEW w \in Seq(Frames), NEW out \in Seq(Frames), NEW e, NEW up,
           Half(a, s, o, w, e, up), NotOf(out, s)
    PROVE  Half(a, s, o, w \o out, e, up)
  <1>1. NoData(out, s) /\ NoSyn(out, s)
    BY DEF NotOf, NoData, NoSyn, IsData, IsSyn
  <1>2. Native(Peer(a)) => Heard(a, s, o, w \o out, e, up)
    BY <1>1, HeardJoin DEF Half
  <1>3. Undecided(s, w, e) => Undecided(s, w \o out, e)
    <2> DEFINE v == w \o out
    <2>1. \A i \in DOMAIN v : v[i].s = s => i \in DOMAIN w /\ v[i] = w[i]
      BY JoinFacts DEF NotOf
    <2> HIDE DEF v
    <2>2. Undecided(s, w, e) => Undecided(s, v, e)
      BY <2>1 DEF Undecided
    <2> QED BY <2>2 DEF v
  <1> QED BY <1>2, <1>3 DEF Half

LEMMA HalfRestOthers ==
    ASSUME NEW a, NEW s, NEW o, NEW w \in Seq(Frames), w # <<>>, NEW e, NEW up,
           Half(a, s, o, w, e, up), Head(w).s # s
    PROVE  Half(a, s, o, Tail(w), e, up)
  <1>1. ~IsData(Head(w), s)
    BY DEF IsData
  <1>2. ASSUME Heard(a, s, o, w, e, up)
        PROVE  Heard(a, s, o, Tail(w), e, up)
    <2>1. Follows(s, o.said, Tail(w), e, up)
      BY <1>1, <1>2, SeesRestOther DEF Heard, Follows
    <2>2. /\ SynFirst(a, s, Tail(w), e, up)
          /\ SynAmong(w, Len(w), s) => SynAmong(Tail(w), Len(Tail(w)), s)
      BY <1>2, SynRestOther DEF Heard
    <2> QED BY <1>2, <2>1, <2>2 DEF Heard
  <1>3. Undecided(s, w, e) => Undecided(s, Tail(w), e)
    <2> DEFINE v == Tail(w)
    <2>1. \A i \in DOMAIN v : i + 1 \in DOMAIN w /\ v[i] = w[i + 1]
      BY RestFacts
    <2> HIDE DEF v
    <2>2. Undecided(s, w, e) => Undecided(s, v, e)
      BY <2>1 DEF Undecided
    <2> QED BY <2>2 DEF v
  <1> QED BY <1>2, <1>3 DEF Half

----------------------------------------------------------------------------
(* What an end hears when its own state changes.                           *)

SameSight(e, f) ==
    /\ Skip(f) = Skip(e) /\ Seen(f) = Seen(e)
    /\ f.reset = e.reset /\ f.known = e.known /\ f.protocol = e.protocol

LEMMA HeardKept ==
    ASSUME NEW a, NEW s, NEW o, NEW w, NEW e, NEW e2, NEW up, Heard(a, s, o, w, e, up),
           SameSight(e, e2), e # NoEnd,
           e2.said # <<>> => e.said # <<>> \/ s[1] # a \/ Len(o.said) >= 2
    PROVE  Heard(a, s, o, w, e2, up)
  <1>1. Follows(s, o.said, w, e2, up)
    BY DEF Heard, Follows, SameSight
  <1>2. SynFirst(a, s, w, e2, up)
    BY DEF Heard, SynFirst, SameSight
  <1> QED BY <1>1, <1>2 DEF Heard, SameSight

\* The reader resets the stream, and keeps what it has taken.
LEMMA HeardReset ==
    ASSUME NEW a, NEW s, NEW o \in End, NEW w, NEW v, NEW e \in End, NEW e2 \in End, NEW up,
           Heard(a, s, o, w, e, up), e2.reset, ~e2.known, e2.rx = <<>>,
           e2.protocol = e.protocol, e2.buffer = e.buffer, e2.got = e.got,
           e2.appRx = e.appRx, e2.said = e.said, NoSyn(v, s)
    PROVE  Heard(a, s, o, v, e2, FALSE) /\ Heard(a, s, o, v, e2, up)
  <1>1. /\ Seen(e2) \in Seq(Message) /\ Len(Seen(e2)) <= Len(Seen(e))
        /\ \A i \in DOMAIN Seen(e2) : Seen(e2)[i] = Seen(e)[i]
    <2> DEFINE b == e.buffer
               r == e.rx
               g == e.got
               x == e.appRx
    <2>1. b \in Seq(Message) /\ r \in Seq(Message) /\ g \in Seq(Message) /\ x \in Seq(Message)
      BY DEF End
    <2>2. /\ Seen(e) = IF e.protocol = "none" THEN b \o r ELSE g \o (x \o r)
          /\ Seen(e2) = IF e.protocol = "none" THEN b \o <<>> ELSE g \o (x \o <<>>)
      BY DEF Seen
    <2> HIDE DEF b, r, g, x
    <2>3. b \o <<>> = b /\ x \o <<>> = x
      BY <2>1
    <2>4. /\ Len(b) <= Len(b \o r) /\ \A i \in DOMAIN b : b[i] = (b \o r)[i]
      BY <2>1
    <2>5. /\ Len(g \o x) <= Len(g \o (x \o r))
          /\ \A i \in DOMAIN (g \o x) : (g \o x)[i] = (g \o (x \o r))[i]
      <3>1. g \o (x \o r) = (g \o x) \o r
        BY <2>1
      <3> DEFINE y == g \o x
      <3>2. y \in Seq(Message)
        BY <2>1
      <3> HIDE DEF y
      <3>3. Len(y) <= Len(y \o r) /\ \A i \in DOMAIN y : y[i] = (y \o r)[i]
        BY <2>1, <3>2
      <3> QED BY <3>1, <3>3 DEF y
    <2>6. Seen(e2) \in Seq(Message)
      BY SeenTypes
    <2> QED BY <2>2, <2>3, <2>4, <2>5, <2>6
  <1>2. o.said \in Seq(Message) /\ Seen(e) \in Seq(Message) /\ Skip(e) \in Nat
    BY SeenTypes DEF End
  <1>3. Skip(e2) = Skip(e)
    BY DEF Skip
  <1>4. Sees(s, o.said, w, Skip(e), Seen(e), FALSE)
    BY DEF Heard, Follows, Sees
  <1>5. Sees(s, o.said, v, Skip(e2), Seen(e2), FALSE)
    BY <1>1, <1>2, <1>3, <1>4, SeesPart
  <1>6. Follows(s, o.said, v, e2, FALSE) /\ Follows(s, o.said, v, e2, up)
    BY <1>5 DEF Follows, Sees
  <1>7. SynFirst(a, s, v, e2, FALSE) /\ SynFirst(a, s, v, e2, up)
    BY DEF SynFirst, NoSyn
  <1> QED BY <1>6, <1>7 DEF Heard

----------------------------------------------------------------------------
(* Both directions of a stream, when one end changes.                      *)

\* p's end e of s with p's frames w, the other end f with its frames v; rp
\* and rq say whether p and its peer read.
Pair(p, s, e, w, f, v, rp, rq) ==
    /\ Half(p, s, e, w, f, rq)
    /\ Half(Peer(p), s, f, v, e, rp)

\* An end of this implementation moves from e to g, and its frames from w to w2.
LEMMA PairMove ==
    ASSUME NEW p \in Side, NEW s \in Sid, Native(p), NEW e, NEW w, NEW f, NEW v, NEW rp, NEW rq,
           Pair(p, s, e, w, f, v, rp, rq), NEW g, NEW w2, Local(p, s, g),
           Heard(p, s, e, w, f, rq) => Heard(p, s, g, w2, f, rq),
           Heard(Peer(p), s, f, v, e, rp) => Heard(Peer(p), s, f, v, g, rp),
           (s[1] # p /\ g.protocol = "none") =>
               e.protocol = "none" /\ (Undecided(s, w, f) => Undecided(s, w2, f)),
           (Native(Peer(p)) /\ s[1] = p /\ f.protocol = "none" /\ Undecided(s, v, e)) =>
               Undecided(s, v, g)
    PROVE  Pair(p, s, g, w2, f, v, rp, rq)
  <1>1. Peer(p) \in Side /\ Peer(p) # p /\ Peer(Peer(p)) = p
    BY Sides
  <1>2. Half(p, s, g, w2, f, rq)
    BY <1>1 DEF Pair, Half
  <1>3. s[1] # Peer(p) => s[1] = p
    BY Sides, StreamsAssumption DEF Sid
  <1>4. Local(Peer(p), s, f)
    BY DEF Pair, Half
  <1>5. Heard(Peer(p), s, f, v, g, rp)
    BY <1>1 DEF Pair, Half
  <1>6. (Native(Peer(p)) /\ s[1] # Peer(p) /\ f.protocol = "none") => Undecided(s, v, g)
    BY <1>1, <1>3 DEF Pair, Half
  <1>7. Half(Peer(p), s, f, v, g, rp)
    BY <1>1, <1>4, <1>5, <1>6 DEF Half
  <1> QED BY <1>2, <1>7 DEF Pair

\* What the parts of a pair say of an end of this implementation.
LEMMA PairFacts ==
    ASSUME NEW p \in Side, NEW s \in Sid, Native(p), NEW e \in End, NEW w, NEW f \in End,
           NEW v, NEW rp, NEW rq, Pair(p, s, e, w, f, v, rp, rq)
    PROVE  /\ EndOk(e)
           /\ s[1] = p => OpenerOk(e)
           /\ s[1] # p => AcceptorOk(p, e) /\ s[1] = Peer(p)
           /\ Heard(Peer(p), s, f, v, e, rp)
           /\ e.stage # "None" => e # NoEnd
           /\ (s[1] # p /\ Native(Peer(p)) /\ e.protocol = "none") => Undecided(s, w, f)
           /\ (s[1] = p /\ Native(Peer(p)) /\ f.protocol = "none") =>
                 Undecided(s, v, e) /\ f.said \in {<<>>, <<Header, Na>>}
  <1>1. Peer(p) \in Side /\ Peer(p) # p /\ Peer(Peer(p)) = p
    BY Sides
  <1>2. s[1] = p \/ s[1] = Peer(p)
    BY Sides, StreamsAssumption DEF Sid
  <1>3. e.stage # "None" => e # NoEnd
    BY DEF NoEnd
  <1>4. Local(p, s, e) /\ Local(Peer(p), s, f) /\ Heard(Peer(p), s, f, v, e, rp)
    BY <1>1 DEF Pair, Half
  <1>5. (s[1] # p /\ Native(Peer(p)) /\ e.protocol = "none") => Undecided(s, w, f)
    BY DEF Pair, Half
  <1>6. (s[1] = p /\ Native(Peer(p)) /\ f.protocol = "none") => Undecided(s, v, e)
    BY <1>1 DEF Pair, Half
  <1>7. (s[1] = p /\ Native(Peer(p)) /\ f.protocol = "none") => f.said \in {<<>>, <<Header, Na>>}
    BY <1>1, <1>4 DEF Local, AcceptorOk
  <1> QED BY <1>2, <1>3, <1>4, <1>5, <1>6, <1>7 DEF Local

\* Nothing said before the acceptor accepts names a protocol.
LEMMA NothingNamed ==
    ASSUME NEW said \in {<<>>, <<Header, Na>>}, NEW x
    PROVE  ~Names(said, x)
  <1>1. Na # Token(x)
    BY DEF Na, Token, Msg
  <1>2. CASE said = <<>>
    BY <1>2 DEF Names
  <1>3. CASE said = <<Header, Na>>
    BY <1>1, <1>3 DEF Names
  <1> QED BY <1>2, <1>3

\* A ready opener has heard an acceptance.
LEMMA DecidedByAcceptor ==
    ASSUME NEW p \in Side, NEW s \in Sid, Native(p), NEW e \in End, NEW w, NEW f \in End,
           NEW v, NEW rp, NEW rq, Pair(p, s, e, w, f, v, rp, rq),
           s[1] = p, Native(Peer(p)), e.protocol # "none"
    PROVE  f.protocol # "none"
  <1>1. Names(f.said, e.protocol)
    BY PairFacts DEF Heard
  <1> QED BY <1>1, PairFacts, NothingNamed

----------------------------------------------------------------------------
(* The parts of poll().                                                    *)

\* A failure before the negotiation is over.
LEMMA FailTalks ==
    ASSUME NEW p \in Side, NEW s \in Sid, Native(p), NEW e \in End, NEW w, NEW f \in End,
           NEW v, NEW rp, NEW rq, Pair(p, s, e, w, f, v, rp, rq),
           e.stage # "None", ~Over(e), NEW why \in Details,
           why = "write failed" => e.said = <<>>,
           s[1] # p => why # "protocol not supported",
           (Native(Peer(p)) /\ s[1] = p /\ f.protocol = "none") =>
               why \in {"write failed", "protocol not supported", "stream reset locally"}
    PROVE  Pair(p, s, FailWith(e, why), w, f, v, rp, rq)
  <1> DEFINE g == FailWith(e, why)
  <1>1. /\ g.stage = "Failed" /\ g.detail = why /\ g.said = e.said
        /\ g.buffer = e.buffer /\ g.rx = e.rx /\ g.got = e.got /\ g.appRx = e.appRx
        /\ g.protocol = e.protocol /\ g.reset = e.reset /\ g.known = e.known
        /\ g.desired = e.desired /\ g.handle = e.handle
    BY DEF FailWith, End
  <1>2. /\ EndOk(e) /\ (s[1] = p => OpenerOk(e)) /\ (s[1] # p => AcceptorOk(p, e))
        /\ e # NoEnd
    BY PairFacts
  <1>3. e.protocol = "none"
    BY <1>2 DEF EndOk
  <1> HIDE DEF g
  <1>4. EndOk(g)
    BY <1>1, <1>2, <1>3 DEF EndOk
  <1>5. s[1] = p => OpenerOk(g)
    BY <1>1, <1>2, <1>3 DEF OpenerOk
  <1>6. s[1] # p => AcceptorOk(p, g)
    BY <1>1, <1>2, <1>3 DEF AcceptorOk
  <1>7. Local(p, s, g)
    BY <1>4, <1>5, <1>6 DEF Local
  <1>8. Heard(p, s, e, w, f, rq) => Heard(p, s, g, w, f, rq)
    BY <1>1, HeardSilent DEF Told
  <1>9. SameSight(e, g)
    BY <1>1 DEF SameSight, Skip, Seen
  <1>10. Heard(Peer(p), s, f, v, e, rp) => Heard(Peer(p), s, f, v, g, rp)
    BY <1>1, <1>2, <1>9, HeardKept
  <1>11. (Native(Peer(p)) /\ s[1] = p /\ f.protocol = "none" /\ Undecided(s, v, e)) =>
             Undecided(s, v, g)
    BY <1>1 DEF Undecided
  <1>12. Pair(p, s, g, w, f, v, rp, rq)
    BY <1>1, <1>3, <1>7, <1>8, <1>10, <1>11, PairMove
  <1> QED BY <1>12 DEF g

\* The header and a message begin what had not begun.
LEMMA FirstSaid ==
    ASSUME NEW said, said = <<>>, NEW x \in Protocols
    PROVE  /\ Names(said \o <<Header, Token(x)>>, x)
           /\ said \o <<Header, Token(x)>> # <<>>
           /\ said \o <<Header, Na>> = <<Header, Na>>
  <1> DEFINE two == <<Header, Token(x)>>
             na == <<Header, Na>>
  <1>1. said \o two = two /\ said \o na = na
    <2>1. two \in Seq(Message) /\ na \in Seq(Message)
      BY MessageType
    <2> HIDE DEF two, na
    <2> QED BY <2>1
  <1>2. Len(two) = 2 /\ two[1] = Header /\ two[2] = Token(x)
    OBVIOUS
  <1> QED BY <1>1, <1>2 DEF Names

\* The opener proposes.
LEMMA ProposeTalks ==
    ASSUME NEW p \in Side, NEW s \in Sid, Native(p), NEW e \in End, NEW w \in Seq(Frames),
           NEW f \in End, NEW v, NEW rp, NEW rq, Pair(p, s, e, w, f, v, rp, rq),
           Begun(s), e.stage = "SendingOutboundProposal", e.desired \in Protocols
    PROVE  Pair(p, s, ProposedEnd(e), w \o AcceptFrames(s, e.desired), f, v, rp, rq)
  <1> DEFINE body == <<Header, Token(e.desired)>>
             g == ProposedEnd(e)
             said == e.said \o body
  <1>1. /\ EndOk(e) /\ OpenerOk(e) /\ s[1] = p /\ e # NoEnd
    <2>1. EndOk(e) /\ (s[1] = p => OpenerOk(e)) /\ (s[1] # p => AcceptorOk(p, e)) /\ e # NoEnd
      BY PairFacts
    <2> QED BY <2>1 DEF AcceptorOk
  <1>2. body \in Seq(Message)
    BY MessageType
  <1>3. /\ g.stage = "AwaitingOutboundResponse" /\ g.detail = e.detail /\ g.said = said
        /\ g.buffer = e.buffer /\ g.rx = e.rx /\ g.got = e.got /\ g.appRx = e.appRx
        /\ g.protocol = e.protocol /\ g.reset = e.reset /\ g.known = e.known
        /\ g.desired = e.desired /\ g.handle = e.handle /\ g.writeClosed = e.writeClosed
    BY DEF ProposedEnd, Says, End
  <1>4. Names(said, e.desired) /\ said # <<>>
    BY <1>1, FirstSaid DEF OpenerOk
  <1>5. AcceptFrames(s, e.desired) = <<Frame(s, "DATA", body)>>
    BY DEF AcceptFrames
  <1> HIDE DEF g, said
  <1>6. e.protocol = "none"
    BY <1>1 DEF EndOk, Over
  <1>7. EndOk(g)
    BY <1>1, <1>3, <1>6 DEF EndOk
  <1>8. OpenerOk(g)
    BY <1>1, <1>3, <1>4, <1>6 DEF OpenerOk, EndOk
  <1>9. Local(p, s, g)
    BY <1>1, <1>7, <1>8 DEF Local
  <1>10. Told(p, s, e)
    BY <1>1 DEF Told
  <1>11. Heard(p, s, e, w, f, rq) => Heard(p, s, g, w \o <<Frame(s, "DATA", body)>>, f, rq)
    <2> HIDE DEF body
    <2> QED BY <1>2, <1>3, <1>10, HeardSays DEF said
  <1>12. SameSight(e, g)
    BY <1>3 DEF SameSight, Skip, Seen
  <1>13. Heard(Peer(p), s, f, v, e, rp) => Heard(Peer(p), s, f, v, g, rp)
    <2>1. s[1] # Peer(p)
      BY <1>1, Sides
    <2> QED BY <1>1, <1>12, <2>1, HeardKept
  <1>14. Undecided(s, v, e) => Undecided(s, v, g)
    BY <1>1, <1>3 DEF Undecided
  <1>15. Pair(p, s, g, w \o <<Frame(s, "DATA", body)>>, f, v, rp, rq)
    <2> HIDE DEF body
    <2> QED BY <1>1, <1>9, <1>11, <1>13, <1>14, PairMove
  <1> QED BY <1>5, <1>15 DEF g

\* poll() reads what there is.
LEMMA ReadInTalks ==
    ASSUME NEW p \in Side, NEW s \in Sid, Native(p), NEW e \in End, NEW w, NEW f \in End,
           NEW v, NEW rp, NEW rq, Pair(p, s, e, w, f, v, rp, rq),
           e.stage # "None", ~Over(e)
    PROVE  LET b == ReadIn(e) IN
           Pair(p, s, b, w, f, v, rp, rq) /\ b.stage \in {e.stage, "Failed"}
  <1> DEFINE nil == <<>>
             all == e.buffer \o e.rx
             a == [e EXCEPT !.buffer = all, !.rx = nil]
  <1>1. /\ EndOk(e) /\ (s[1] = p => OpenerOk(e)) /\ (s[1] # p => AcceptorOk(p, e))
        /\ e # NoEnd
    BY PairFacts
  <1>2. all \in Seq(Message) /\ nil \in Seq(Message) /\ all \o nil = all
    <2>1. e.buffer \in Seq(Message) /\ e.rx \in Seq(Message)
      BY DEF End
    <2>2. all \in Seq(Message)
      BY <2>1
    <2> HIDE DEF all
    <2> QED BY <2>2
  <1>3. e.protocol = "none"
    BY <1>1 DEF EndOk
  <1> HIDE DEF all
  <1>4. nil = <<>>
    OBVIOUS
  <1>5. ReadIn(e) = IF (a.readClosed \/ a.reset) /\ ~IsOpen(a)
                    THEN FailWith(a, "stream closed during protocol negotiation")
                    ELSE a
    BY DEF ReadIn, all
  <1> HIDE DEF nil
  <1>6. /\ a \in End /\ a.stage = e.stage /\ a.detail = e.detail /\ a.said = e.said
        /\ a.buffer = all /\ a.rx = nil /\ a.got = e.got /\ a.appRx = e.appRx
        /\ a.protocol = e.protocol /\ a.reset = e.reset /\ a.known = e.known
        /\ a.desired = e.desired /\ a.handle = e.handle /\ a.writeClosed = e.writeClosed
    BY <1>2 DEF End
  <1> HIDE DEF a
  <1>7. EndOk(a)
    BY <1>1, <1>3, <1>4, <1>6 DEF EndOk
  <1>8. s[1] = p => OpenerOk(a)
    BY <1>1, <1>6 DEF OpenerOk
  <1>9. s[1] # p => AcceptorOk(p, a)
    BY <1>1, <1>6 DEF AcceptorOk
  <1>10. Local(p, s, a)
    BY <1>7, <1>8, <1>9 DEF Local
  <1>11. Heard(p, s, e, w, f, rq) => Heard(p, s, a, w, f, rq)
    BY <1>6, HeardSilent DEF Told
  <1>12. SameSight(e, a)
    BY <1>2, <1>3, <1>6 DEF SameSight, Skip, Seen, all
  <1>13. Heard(Peer(p), s, f, v, e, rp) => Heard(Peer(p), s, f, v, a, rp)
    BY <1>1, <1>6, <1>12, HeardKept
  <1>14. Undecided(s, v, e) => Undecided(s, v, a)
    BY <1>6 DEF Undecided
  <1>15. Pair(p, s, a, w, f, v, rp, rq)
    BY <1>3, <1>6, <1>10, <1>11, <1>13, <1>14, PairMove
  <1>16. CASE (a.readClosed \/ a.reset) /\ ~IsOpen(a)
    <2> DEFINE why == "stream closed during protocol negotiation"
    <2>1. why \in Details /\ why # "write failed" /\ why # "protocol not supported"
      BY DEF Details
    <2>2. ~(Native(Peer(p)) /\ s[1] = p /\ f.protocol = "none")
      <3>1. ASSUME Undecided(s, v, a)
            PROVE  IsOpen(a)
        <4>1. ~a.reset /\ ~a.writeClosed
          BY <1>6, <3>1 DEF Undecided, Over
        <4> QED BY <4>1 DEF IsOpen
      <3> QED BY <1>6, <1>15, <1>16, <3>1, PairFacts
    <2>3. ~Over(a) /\ a.stage # "None"
      BY <1>6 DEF Over
    <2> HIDE DEF why
    <2>4. Pair(p, s, FailWith(a, why), w, f, v, rp, rq)
      BY <1>6, <1>15, <2>1, <2>2, <2>3, FailTalks
    <2>5. FailWith(a, why).stage = "Failed"
      BY <1>6 DEF FailWith, End
    <2> QED BY <1>5, <1>16, <2>4, <2>5 DEF why
  <1>17. CASE ~((a.readClosed \/ a.reset) /\ ~IsOpen(a))
    BY <1>5, <1>6, <1>15, <1>17
  <1> QED BY <1>16, <1>17

\* The end has found the header and x and gone over to the protocol.
LEMMA HeardFinish ==
    ASSUME NEW a, NEW s, NEW o \in End, NEW w, NEW e \in End, NEW g, NEW up,
           Heard(a, s, o, w, e, up), e # NoEnd, e.protocol = "none", e.rx = <<>>,
           Len(e.buffer) >= 2, NEW x, e.buffer[1] = Header, e.buffer[2] = Token(x),
           x # "none", g.protocol = x, g.got = <<>>, g.rx = <<>>,
           g.appRx = SubSeq(e.buffer, 3, Len(e.buffer)), g.known = e.known, g.reset = e.reset
    PROVE  Heard(a, s, o, w, g, up) /\ Names(o.said, x)
  <1> DEFINE b == e.buffer
             rest == SubSeq(b, 3, Len(b))
             said == o.said
  <1>1. b \in Seq(Message) /\ said \in Seq(Message)
    BY DEF End
  <1>2. Seen(e) = b /\ Skip(e) = 0
    BY <1>1 DEF Seen, Skip
  <1>3. Skip(g) = 2 /\ Seen(g) = <<>> \o (rest \o <<>>)
    BY DEF Skip, Seen
  <1>4. Seen(g) = rest
    <2>1. rest \in Seq(Message)
      <3> HIDE DEF b
      <3> QED BY <1>1
    <2> HIDE DEF rest
    <2> QED BY <1>3, <2>1
  <1>5. Sees(s, said, w, 0, b, up /\ ~e.reset)
    BY <1>2 DEF Heard, Follows
  <1> HIDE DEF b, said
  <1>6. /\ Sees(s, said, w, 2, rest, up /\ ~e.reset)
        /\ Len(said) >= 2 /\ said[1] = b[1] /\ said[2] = b[2]
    BY <1>1, <1>5, SeesUsed DEF b
  <1>7. Names(said, x)
    BY <1>6 DEF Names, b
  <1> HIDE DEF rest
  <1>8. Follows(s, said, w, g, up)
    BY <1>3, <1>4, <1>6 DEF Follows
  <1>9. SynFirst(a, s, w, g, up)
    BY DEF Heard, SynFirst
  <1> QED BY <1>6, <1>7, <1>8, <1>9 DEF Heard, said

\* What finish_negotiation leaves of an end that has taken nothing yet.
LEMMA FinishFields ==
    ASSUME NEW e \in End, NEW x, EndOk(e), e.protocol = "none"
    PROVE  LET g == Finish(e, x) IN
           /\ g.stage = "Ready" /\ g.detail = e.detail /\ g.said = e.said
           /\ g.buffer = <<>> /\ g.rx = e.rx /\ g.got = <<>>
           /\ g.appRx = SubSeq(e.buffer, 3, Len(e.buffer))
           /\ g.protocol = x /\ g.reset = e.reset /\ g.known = e.known
           /\ g.desired = e.desired /\ g.handle = e.handle /\ g.writeClosed = e.writeClosed
  <1> DEFINE rest == SubSeq(e.buffer, 3, Len(e.buffer))
             app == e.appRx \o rest
             nil == <<>>
             g == [e EXCEPT !.stage = "Ready", !.protocol = x, !.buffer = nil, !.appRx = app]
  <1>1. Finish(e, x) = g /\ e.appRx = nil /\ e.got = nil
    BY DEF Finish, EndOk
  <1>2. app = rest
    <2>1. rest \in Seq(Message)
      <3>1. e.buffer \in Seq(Message)
        BY DEF End
      <3> QED BY <3>1
    <2> HIDE DEF rest
    <2> QED BY <1>1, <2>1
  <1> HIDE DEF rest, app, nil
  <1>3. /\ g.stage = "Ready" /\ g.detail = e.detail /\ g.said = e.said
        /\ g.buffer = nil /\ g.rx = e.rx /\ g.got = nil /\ g.appRx = app
        /\ g.protocol = x /\ g.reset = e.reset /\ g.known = e.known
        /\ g.desired = e.desired /\ g.handle = e.handle /\ g.writeClosed = e.writeClosed
    BY <1>1 DEF End
  <1> HIDE DEF g
  <1> QED BY <1>1, <1>2, <1>3 DEF nil, rest

\* Two messages of an end that has not accepted are its refusal.
LEMMA HeardRefusal ==
    ASSUME NEW s, NEW said \in {<<>>, <<Header, Na>>}, NEW w, NEW b \in Seq(Message), NEW open,
           Sees(s, said, w, 0, b, open), Len(b) >= 2
    PROVE  b[1] = Header /\ b[2] = Na
  <1>1. said \in Seq(Message)
    <2> DEFINE na == <<Header, Na>>
               nil == <<>>
    <2>1. na \in Seq(Message) /\ nil \in Seq(Message)
      BY MessageType
    <2> HIDE DEF na, nil
    <2>2. said = na \/ said = nil
      BY DEF na, nil
    <2> QED BY <2>1, <2>2
  <1>2. Len(said) >= 2 /\ said[1] = b[1] /\ said[2] = b[2]
    BY <1>1, SeesUsed
  <1>3. said # <<>>
    BY <1>2
  <1>4. said = <<Header, Na>>
    BY <1>3
  <1>5. said[1] = Header /\ said[2] = Na
    BY <1>4
  <1> QED BY <1>2, <1>5

\* The opener reads the answer.
LEMMA ResponseTalks ==
    ASSUME NEW p \in Side, NEW s \in Sid, Native(p), NEW e \in End, NEW w,
           NEW f \in End, NEW v, NEW rp, NEW rq, Pair(p, s, e, w, f, v, rp, rq),
           e.stage = "AwaitingOutboundResponse", e.desired \in Protocols, e.rx = <<>>,
           Span(e.buffer) = "complete"
    PROVE  Pair(p, s, ReadResponse(e), w, f, v, rp, rq)
  <1>1. /\ EndOk(e) /\ OpenerOk(e) /\ s[1] = p /\ e # NoEnd
        /\ Heard(Peer(p), s, f, v, e, rp)
    <2>1. EndOk(e) /\ (s[1] = p => OpenerOk(e)) /\ (s[1] # p => AcceptorOk(p, e)) /\ e # NoEnd
      BY PairFacts
    <2> QED BY <2>1, PairFacts DEF AcceptorOk
  <1>2. e.protocol = "none" /\ e.got = <<>> /\ e.appRx = <<>> /\ e.said # <<>>
    BY <1>1 DEF EndOk, Over, OpenerOk
  <1>3. Len(e.buffer) >= 2 /\ e.buffer \in Seq(Message)
    BY SpanFacts DEF End
  <1>4. ~Over(e) /\ e.stage # "None"
    BY DEF Over
  <1>5. CASE e.buffer[1] = Header /\ e.buffer[2] = Token(e.desired)
    <2> DEFINE g == Finish(e, e.desired)
    <2>1. ReadResponse(e) = g
      <3>1. Token(e.desired) # Na
        BY DEF Token, Na, Msg
      <3> QED BY <1>5, <3>1, ResponseCases
    <2>2. /\ g.stage = "Ready" /\ g.detail = e.detail /\ g.said = e.said
          /\ g.buffer = <<>> /\ g.rx = e.rx /\ g.got = <<>>
          /\ g.appRx = SubSeq(e.buffer, 3, Len(e.buffer))
          /\ g.protocol = e.desired /\ g.reset = e.reset /\ g.known = e.known
          /\ g.desired = e.desired /\ g.handle = e.handle /\ g.writeClosed = e.writeClosed
      BY <1>1, <1>2, FinishFields
    <2> HIDE DEF g
    <2>3. e.desired # "none"
      BY StreamsAssumption
    <2>4. Heard(Peer(p), s, f, v, g, rp) /\ Names(f.said, e.desired)
      BY ZenonT(60), <1>1, <1>2, <1>3, <1>5, <2>2, <2>3, HeardFinish
    <2>5. EndOk(g)
      BY <1>1, <2>2, <2>3 DEF EndOk, Over
    <2>6. OpenerOk(g)
      BY <1>1, <1>2, <2>2 DEF OpenerOk
    <2>7. Local(p, s, g)
      BY <1>1, <2>5, <2>6 DEF Local
    <2>8. Heard(p, s, e, w, f, rq) => Heard(p, s, g, w, f, rq)
      BY <2>2, HeardSilent DEF Told
    <2>9. ~(Native(Peer(p)) /\ f.protocol = "none")
      BY <1>1, <2>4, PairFacts, NothingNamed
    <2> QED BY <1>1, <2>1, <2>4, <2>7, <2>8, <2>9, PairMove
  <1>6. CASE ~(e.buffer[1] = Header /\ e.buffer[2] = Token(e.desired))
    <2>1. PICK why \in {"protocol not supported", "unexpected multistream header",
                        "unexpected multistream response"} :
             /\ ReadResponse(e) = FailWith(e, why)
             /\ why # "protocol not supported" =>
                   ~(e.buffer[1] = Header /\ e.buffer[2] \in {Token(e.desired), Na})
      BY <1>6, ResponseCases
    <2>2. why \in Details /\ why # "write failed"
      BY <2>1 DEF Details
    <2>3. ASSUME Native(Peer(p)), f.protocol = "none"
          PROVE  why = "protocol not supported"
      <3> DEFINE b == e.buffer
                 said == f.said
      <3>1. said \in {<<>>, <<Header, Na>>}
        BY <1>1, <2>3, PairFacts
      <3>2. b \in Seq(Message) /\ Len(b) >= 2
        BY <1>3
      <3>3. Seen(e) = b /\ Skip(e) = 0
        <4>1. b \o <<>> = b
          BY <3>2, ConcatEmptySeq
        <4> QED BY <1>2, <4>1 DEF Seen, Skip
      <3>4. Sees(s, said, v, 0, b, rp /\ ~e.reset)
        BY <1>1, <3>3 DEF Heard, Follows
      <3>5. b[1] = Header /\ b[2] = Na
        BY <3>1, <3>2, <3>4, HeardRefusal
      <3> QED BY <2>1, <3>5
    <2> QED BY <1>1, <1>4, <2>1, <2>2, <2>3, FailTalks
  <1> QED BY <1>5, <1>6

\* The acceptor accepts.
LEMMA AcceptTalks ==
    ASSUME NEW p \in Side, NEW s \in Sid, Native(p), NEW e \in End, NEW w \in Seq(Frames),
           NEW f \in End, NEW v, NEW rp, NEW rq, Pair(p, s, e, w, f, v, rp, rq), Begun(s),
           e.stage = "AwaitingInboundProposal", e.rx = <<>>, Len(e.buffer) >= 2,
           e.buffer[1] = Header, NEW x \in Protocols, x \in conf.handlers[p],
           e.buffer[2] = Token(x)
    PROVE  Pair(p, s, AcceptedEnd(e, x), w \o AcceptFrames(s, x), f, v, rp, rq)
  <1> DEFINE body == <<Header, Token(x)>>
             h == Finish(e, x)
             g == AcceptedEnd(e, x)
             said == e.said \o body
  <1>1. /\ EndOk(e) /\ AcceptorOk(p, e) /\ s[1] # p /\ e # NoEnd /\ s[1] = Peer(p)
        /\ Heard(Peer(p), s, f, v, e, rp)
    <2>1. EndOk(e) /\ (s[1] = p => OpenerOk(e)) /\ (s[1] # p => AcceptorOk(p, e)) /\ e # NoEnd
      BY PairFacts
    <2> QED BY <2>1, PairFacts DEF OpenerOk
  <1>2. /\ e.protocol = "none" /\ e.got = <<>> /\ e.appRx = <<>> /\ e.said = <<>>
        /\ e.detail = "none" /\ x # "none"
    BY <1>1, StreamsAssumption DEF EndOk, Over, AcceptorOk
  <1>3. /\ h \in End
        /\ h.stage = "Ready" /\ h.detail = e.detail /\ h.said = e.said
        /\ h.buffer = <<>> /\ h.rx = e.rx /\ h.got = <<>>
        /\ h.appRx = SubSeq(e.buffer, 3, Len(e.buffer))
        /\ h.protocol = x /\ h.reset = e.reset /\ h.known = e.known
        /\ h.desired = e.desired /\ h.handle = e.handle /\ h.writeClosed = e.writeClosed
    BY <1>1, <1>2, FinishFields, FinishType
  <1>4. g = Says(h, body) /\ AcceptFrames(s, x) = <<Frame(s, "DATA", body)>>
    BY DEF AcceptedEnd, AcceptFrames
  <1>5. body \in Seq(Message)
    BY MessageType
  <1>6. Names(said, x) /\ said # <<>>
    BY <1>2, FirstSaid
  <1> HIDE DEF h, g, body
  <1>7. /\ g.stage = "Ready" /\ g.detail = e.detail /\ g.said = said
        /\ g.buffer = <<>> /\ g.rx = e.rx /\ g.got = <<>>
        /\ g.appRx = SubSeq(e.buffer, 3, Len(e.buffer))
        /\ g.protocol = x /\ g.reset = e.reset /\ g.known = e.known
    BY <1>3, <1>4 DEF Says, End
  <1>8. Heard(Peer(p), s, f, v, g, rp) /\ Names(f.said, x)
    BY ZenonT(60), <1>1, <1>2, <1>7, HeardFinish
  <1>9. EndOk(g)
    BY <1>1, <1>2, <1>7 DEF EndOk, Over
  <1> HIDE DEF said
  <1>10. AcceptorOk(p, g)
    BY <1>2, <1>6, <1>7 DEF AcceptorOk
  <1>11. Local(p, s, g)
    BY <1>1, <1>9, <1>10 DEF Local
  <1>12. Told(p, s, e)
    BY <1>1 DEF Told
  <1>13. Heard(p, s, e, w, f, rq) => Heard(p, s, g, w \o <<Frame(s, "DATA", body)>>, f, rq)
    BY <1>5, <1>7, <1>12, HeardSays DEF said
  <1>14. Pair(p, s, g, w \o <<Frame(s, "DATA", body)>>, f, v, rp, rq)
    BY <1>1, <1>2, <1>7, <1>8, <1>11, <1>13, PairMove
  <1> QED BY <1>4, <1>14 DEF g

\* A frame that ends a stream.
LEMMA EndFrame ==
    ASSUME NEW s \in Sid, NEW kind \in {"FIN", "RST"}
    PROVE  LET out == <<Frame(s, kind, <<>>)>> IN
           /\ out \in Seq(Frames) /\ NoData(out, s) /\ NoSyn(out, s) /\ AllOf(out, s)
           /\ \A i \in DOMAIN out : out[i].kind = kind
  <1> DEFINE nil == <<>>
             f == Frame(s, kind, nil)
             out == <<f>>
  <1>1. f.kind = kind /\ f.s = s
    BY DEF Frame
  <1>2. out \in Seq(Frames)
    <2>1. nil \in Seq(Message)
      OBVIOUS
    <2> HIDE DEF nil
    <2> QED BY <2>1, FrameType
  <1> HIDE DEF f
  <1>3. \A i \in DOMAIN out : out[i] = f
    OBVIOUS
  <1> HIDE DEF out
  <1>4. /\ NoData(out, s) /\ NoSyn(out, s) /\ AllOf(out, s)
        /\ \A i \in DOMAIN out : out[i].kind = kind
    BY <1>1, <1>3 DEF NoData, NoSyn, IsData, IsSyn, AllOf
  <1> QED BY <1>2, <1>4 DEF out, f

\* The acceptor refuses, and closes its side.
LEMMA RefuseTalks ==
    ASSUME NEW p \in Side, NEW s \in Sid, Native(p), NEW e \in End, NEW w \in Seq(Frames),
           NEW f \in End, NEW v, NEW rp, NEW rq, Pair(p, s, e, w, f, v, rp, rq), Begun(s),
           e.stage = "AwaitingInboundProposal", e.rx = <<>>, Len(e.buffer) >= 2
    PROVE  Pair(p, s, RefusedEnd(e), w \o RefuseFrames(s), f, v, rp, rq)
  <1> DEFINE body == <<Header, Na>>
             h == FailWith(e, "protocol not supported")
             g == RefusedEnd(e)
             said == e.said \o body
             data == <<Frame(s, "DATA", body)>>
             fin == <<Frame(s, "FIN", <<>>)>>
             w2 == (w \o data) \o fin
  <1>1. /\ EndOk(e) /\ AcceptorOk(p, e) /\ s[1] # p /\ e # NoEnd /\ s[1] = Peer(p)
        /\ Heard(Peer(p), s, f, v, e, rp)
    <2>1. EndOk(e) /\ (s[1] = p => OpenerOk(e)) /\ (s[1] # p => AcceptorOk(p, e)) /\ e # NoEnd
      BY PairFacts
    <2> QED BY <2>1, PairFacts DEF OpenerOk
  <1>2. e.protocol = "none" /\ e.got = <<>> /\ e.appRx = <<>> /\ e.said = <<>> /\ ~e.handle
    BY <1>1 DEF EndOk, Over, AcceptorOk
  <1>3. /\ body \in Seq(Message) /\ data \in Seq(Frames)
        /\ fin \in Seq(Frames) /\ NoData(fin, s) /\ NoSyn(fin, s)
    <2>1. body \in Seq(Message)
      BY MessageType
    <2> HIDE DEF body
    <2> QED BY <2>1, FrameType, EndFrame
  <1>4. w \o RefuseFrames(s) = w2
    <2>1. RefuseFrames(s) = data \o fin
      BY DEF RefuseFrames
    <2> HIDE DEF data, fin
    <2> QED BY SMTT(30), <1>3, <2>1, ConcatAssociative
  <1>5. /\ g.stage = "Failed" /\ g.detail = "protocol not supported" /\ g.said = said
        /\ g.buffer = e.buffer /\ g.rx = e.rx /\ g.got = e.got /\ g.appRx = e.appRx
        /\ g.protocol = e.protocol /\ g.reset = e.reset /\ g.known = e.known
        /\ g.handle = e.handle
    BY DEF RefusedEnd, FailWith, Says, End
  <1>6. said = <<Header, Na>> /\ said # <<>>
    <2>1. e.said \o <<Header, Na>> = <<Header, Na>>
      <3> DEFINE na == <<Header, Na>>
      <3>1. na \in Seq(Message)
        BY MessageType
      <3> HIDE DEF na
      <3>2. <<>> \o na = na
        BY <3>1, ConcatEmptySeq
      <3> QED BY <1>2, <3>2 DEF na
    <2> QED BY <2>1
  <1> HIDE DEF g, body, data, fin
  <1>7. EndOk(g)
    BY <1>1, <1>2, <1>5 DEF EndOk
  <1>8. AcceptorOk(p, g)
    BY <1>2, <1>5, <1>6 DEF AcceptorOk
  <1>9. Local(p, s, g)
    BY <1>1, <1>7, <1>8 DEF Local
  <1>10. Told(p, s, e) /\ Told(p, s, g)
    BY <1>1 DEF Told
  <1> HIDE DEF said
  <1>11. Heard(p, s, e, w, f, rq) => Heard(p, s, g, w2, f, rq)
    <2>1. Heard(p, s, e, w, f, rq) => Heard(p, s, g, w \o data, f, rq)
      BY <1>3, <1>5, <1>10, HeardSays DEF said, data
    <2>2. w \o data \in Seq(Frames)
      BY <1>3
    <2> DEFINE w1 == w \o data
    <2> HIDE DEF w1
    <2>3. w1 \in Seq(Frames) /\ Heard(p, s, g, w1, f, rq) => Heard(p, s, g, w1 \o fin, f, rq)
      BY <1>3, <1>10, HeardJoin
    <2> QED BY <2>1, <2>2, <2>3 DEF w1
  <1>12. SameSight(e, g)
    BY <1>5 DEF SameSight, Skip, Seen
  <1>13. Heard(Peer(p), s, f, v, e, rp) => Heard(Peer(p), s, f, v, g, rp)
    <2> DEFINE b == e.buffer
               told == f.said
    <2>1. b \in Seq(Message) /\ told \in Seq(Message)
      BY DEF End
    <2>2. Seen(e) = b /\ Skip(e) = 0
      <3>1. b \o <<>> = b
        BY <2>1, ConcatEmptySeq
      <3> QED BY <1>2, <3>1 DEF Seen, Skip
    <2>3. Sees(s, told, v, 0, b, rp /\ ~e.reset)
      BY <1>1, <2>2 DEF Heard, Follows
    <2> HIDE DEF told
    <2>4. Len(told) >= 2
      BY <2>1, <2>3, SeesUsed
    <2> QED BY <1>1, <1>12, <2>4, HeardKept DEF told
  <1>14. Undecided(s, w, f) => Undecided(s, w2, f)
    <2> DEFINE w1 == w \o data
    <2>1. w1 \in Seq(Frames)
      BY <1>3
    <2>2. \A i \in DOMAIN data : data[i].kind = "DATA"
      BY DEF data, Frame
    <2>3. \A i \in DOMAIN fin : fin[i].kind = "FIN"
      BY EndFrame DEF fin
    <2>4. \A i \in DOMAIN w1 : \/ i \in DOMAIN w /\ w1[i] = w[i]
                               \/ w1[i].kind = "DATA"
      BY <1>3, <2>2, JoinFacts
    <2> HIDE DEF w1
    <2>5. \A i \in DOMAIN (w1 \o fin) : \/ i \in DOMAIN w1 /\ (w1 \o fin)[i] = w1[i]
                                        \/ (w1 \o fin)[i].kind = "FIN"
      BY <1>3, <2>1, <2>3, JoinFacts
    <2> DEFINE x == w1 \o fin
    <2>6. \A i \in DOMAIN x : \/ i \in DOMAIN w /\ x[i] = w[i]
                              \/ x[i].kind \in {"DATA", "FIN"}
      BY <2>4, <2>5
    <2> HIDE DEF x
    <2>7. Undecided(s, w, f) => Undecided(s, x, f)
      BY <2>6 DEF Undecided
    <2> QED BY <2>7 DEF x, w1
  <1> HIDE DEF w2
  <1>15. Pair(p, s, g, w2, f, v, rp, rq)
    BY <1>1, <1>2, <1>9, <1>11, <1>13, <1>14, PairMove
  <1> QED BY <1>4, <1>15 DEF g

\* The exchange on whole messages.
LEMMA ExchangeTalks ==
    ASSUME NEW p \in Side, NEW s \in Sid, Native(p), NEW e \in End, NEW w \in Seq(Frames),
           NEW f \in End, NEW v, NEW rp, NEW rq, Pair(p, s, e, w, f, v, rp, rq), Begun(s),
           e.stage # "None", ~Over(e), e.stage # "SendingOutboundProposal", e.rx = <<>>,
           Asks(e), conf.handlers[p] \in SUBSET Protocols, NEW ok
    PROVE  LET r == Exchange(s, e, conf.handlers[p], ok) IN
           Pair(p, s, r.e, w \o r.out, f, v, rp, rq) /\ AllOf(r.out, s)
  <1> DEFINE h == conf.handlers[p]
             r == Exchange(s, e, h, ok)
             Good(g, out) == Pair(p, s, g, w \o out, f, v, rp, rq) /\ AllOf(out, s)
  <1>1. /\ EndOk(e) /\ (s[1] = p => OpenerOk(e)) /\ (s[1] # p => AcceptorOk(p, e))
        /\ e # NoEnd /\ Heard(Peer(p), s, f, v, e, rp)
    BY PairFacts
  <1>2. e.stage \in {"AwaitingOutboundResponse", "AwaitingInboundProposal"}
    BY DEF End, Stages, Over
  <1>3. /\ e.stage = "AwaitingOutboundResponse" <=> s[1] = p
        /\ e.stage = "AwaitingInboundProposal" => s[1] # p /\ e.said = <<>>
    BY <1>1, <1>2 DEF OpenerOk, AcceptorOk
  <1>4. \A g : Pair(p, s, g, w, f, v, rp, rq) => Good(g, NoFrames)
    <2>1. w \o NoFrames = w
      BY ConcatEmptySeq DEF NoFrames
    <2>2. AllOf(NoFrames, s)
      BY DEF NoFrames, AllOf
    <2> QED BY <2>1, <2>2
  <1>5. Span(e.buffer) \in {"incomplete", "invalid", "complete"}
    BY DEF Span
  <1>6. ASSUME NEW g, NEW out, r = Result(g, out), Good(g, out)
        PROVE  Good(r.e, r.out)
    <2>1. r.e = g /\ r.out = out
      BY <1>6 DEF Result
    <2> QED BY <1>6, <2>1
  <1>7. CASE Span(e.buffer) = "incomplete"
    <2>1. r = Result(e, NoFrames)
      BY <1>7 DEF Exchange, NoFrames
    <2> HIDE DEF r, Good
    <2>2. Good(r.e, r.out)
      BY <1>4, <1>6, <2>1
    <2> QED BY <2>2 DEF Good, r
  <1>8. CASE Span(e.buffer) = "invalid"
    <2> DEFINE why == "invalid multistream length"
               g == FailWith(e, why)
    <2>1. r = Result(g, NoFrames)
      BY <1>8 DEF Exchange, NoFrames
    <2>2. why \in Details /\ why # "write failed" /\ why # "protocol not supported"
      BY DEF Details
    <2>3. ~(Native(Peer(p)) /\ s[1] = p /\ f.protocol = "none")
      <3> DEFINE b == e.buffer
                 told == f.said
      <3>1. b \in Seq(Message)
        BY DEF End
      <3>2. Seen(e) = b /\ Skip(e) = 0
        <4>1. b \o <<>> = b
          BY <3>1, ConcatEmptySeq
        <4> QED BY <1>1, <4>1 DEF Seen, Skip, EndOk
      <3>3. Sees(s, told, v, 0, b, rp /\ ~e.reset)
        BY <1>1, <3>2 DEF Heard, Follows
      <3>4. PICK i \in DOMAIN b : i <= 2 /\ b[i] = Bad
        BY <1>8 DEF Span
      <3>5. told[0 + i] = Bad /\ 0 + i = i /\ i >= 1 /\ i <= Len(b) /\ 0 + Len(b) = Len(b)
        BY <3>1, <3>3, <3>4 DEF Sees
      <3>6. Len(b) <= Len(told)
        BY <3>3, <3>5 DEF Sees
      <3>7. Header # Bad /\ Na # Bad
        BY DEF Header, Na, Bad, Msg
      <3>8. ASSUME told \in {<<>>, <<Header, Na>>}
            PROVE  FALSE
        <4>1. told # <<>>
          BY <3>1, <3>4, <3>5, <3>6
        <4>2. told = <<Header, Na>>
          BY <3>8, <4>1
        <4>3. i = 1 \/ i = 2
          BY <3>1, <3>4
        <4> QED BY <3>5, <3>7, <4>2, <4>3
      <3> QED BY <3>8, PairFacts
    <2> HIDE DEF why
    <2>4. Pair(p, s, g, w, f, v, rp, rq)
      BY <2>2, <2>3, FailTalks
    <2> HIDE DEF g, r, Good
    <2>5. Good(r.e, r.out)
      BY <1>4, <1>6, <2>1, <2>4
    <2> QED BY <2>5 DEF Good, r
  <1>9. CASE Span(e.buffer) = "complete" /\ e.stage = "AwaitingOutboundResponse"
    <2>1. r = Result(ReadResponse(e), NoFrames)
      BY <1>9 DEF Exchange, NoFrames
    <2>2. Pair(p, s, ReadResponse(e), w, f, v, rp, rq)
      BY <1>9, ResponseTalks DEF Asks
    <2> HIDE DEF r, Good
    <2>3. Good(r.e, r.out)
      BY <1>4, <1>6, <2>1, <2>2
    <2> QED BY <2>3 DEF Good, r
  <1>10. CASE Span(e.buffer) = "complete" /\ e.stage = "AwaitingInboundProposal"
    <2>1. r = AnswerProposal(s, e, h, ok)
      BY <1>10 DEF Exchange
    <2>2. Len(e.buffer) >= 2
      BY <1>10, SpanFacts DEF End
    <2>3. CASE \E x \in h : /\ Accepts(e, ok, h, x)
                            /\ r = Result(AcceptedEnd(e, x), AcceptFrames(s, x))
      <3>1. PICK x \in h : /\ Accepts(e, ok, h, x)
                           /\ r = Result(AcceptedEnd(e, x), AcceptFrames(s, x))
        BY <2>3
      <3>2. Pair(p, s, AcceptedEnd(e, x), w \o AcceptFrames(s, x), f, v, rp, rq)
        BY <1>10, <2>2, <3>1, AcceptTalks DEF Accepts
      <3>3. AllOf(AcceptFrames(s, x), s)
        BY DEF AllOf, AcceptFrames, Frame
      <3>4. Good(AcceptedEnd(e, x), AcceptFrames(s, x))
        BY <3>2, <3>3
      <3> HIDE DEF r, Good
      <3>5. Good(r.e, r.out)
        BY <1>6, <3>1, <3>4
      <3> QED BY <3>5 DEF Good, r
    <2>4. CASE r = Result(RefusedEnd(e), RefuseFrames(s))
      <3>1. Pair(p, s, RefusedEnd(e), w \o RefuseFrames(s), f, v, rp, rq)
        BY <1>10, <2>2, RefuseTalks
      <3>2. AllOf(RefuseFrames(s), s)
        BY DEF AllOf, RefuseFrames, Frame
      <3>3. Good(RefusedEnd(e), RefuseFrames(s))
        BY <3>1, <3>2
      <3> HIDE DEF r, Good
      <3>4. Good(r.e, r.out)
        BY <1>6, <2>4, <3>3
      <3> QED BY <3>4 DEF Good, r
    <2>5. CASE \E why \in {"unexpected multistream header", "write failed"} :
                  r = Result(FailWith(e, why), NoFrames)
      <3>1. PICK why \in {"unexpected multistream header", "write failed"} :
                  r = Result(FailWith(e, why), NoFrames)
        BY <2>5
      <3>2. why \in Details /\ why # "protocol not supported"
        BY <3>1 DEF Details
      <3>3. Pair(p, s, FailWith(e, why), w, f, v, rp, rq)
        BY <1>3, <1>10, <3>2, FailTalks
      <3> HIDE DEF r, Good
      <3>4. Good(r.e, r.out)
        BY <1>4, <1>6, <3>1, <3>3
      <3> QED BY <3>4 DEF Good, r
    <2> QED BY ZenonT(60), <2>1, <2>3, <2>4, <2>5, AnswerCases
  <1> QED BY <1>2, <1>5, <1>7, <1>8, <1>9, <1>10
\* What the loop of poll() does not end, it leaves.
LEMMA ExchangeStage ==
    ASSUME NEW s \in Sid, NEW e \in End, NEW ok, NEW supported \in SUBSET Protocols, Asks(e)
    PROVE  LET r == Exchange(s, e, supported, ok) IN r.e = e \/ Over(r.e)
  <1> DEFINE r == Exchange(s, e, supported, ok)
             answer == AnswerProposal(s, e, supported, ok)
             f == FailWith(e, "invalid multistream length")
  <1>1. CASE Span(e.buffer) = "incomplete"
    <2>1. r = Result(e, NoFrames)
      BY <1>1 DEF Exchange, NoFrames
    <2> HIDE DEF r
    <2> QED BY <2>1 DEF r, Result
  <1>2. CASE Span(e.buffer) = "invalid"
    <2>1. r = Result(f, NoFrames)
      BY <1>2 DEF Exchange, NoFrames
    <2>2. f.stage = "Failed"
      BY FailFacts DEF Details
    <2> HIDE DEF f, r
    <2>3. r.e = f
      BY <2>1 DEF Result
    <2> QED BY <2>2, <2>3 DEF r, Over
  <1>3. CASE Span(e.buffer) = "complete" /\ e.stage = "AwaitingOutboundResponse"
    <2>1. r = Result(ReadResponse(e), NoFrames)
      BY <1>3 DEF Exchange, NoFrames
    <2>2. Over(ReadResponse(e))
      BY <1>3, ResponseFacts DEF Asks
    <2> HIDE DEF r
    <2>3. r.e = ReadResponse(e)
      BY <2>1 DEF Result
    <2> QED BY <2>2, <2>3 DEF r
  <1>4. CASE Span(e.buffer) = "complete" /\ e.stage # "AwaitingOutboundResponse"
    <2>1. r = answer
      BY <1>4 DEF Exchange
    <2>2. Over(answer.e)
      BY <1>4, AnswerFacts
    <2> HIDE DEF r, answer
    <2> QED BY <2>1, <2>2 DEF r
  <1> QED BY <1>1, <1>2, <1>3, <1>4 DEF Span

\* poll() first proposes.
LEMMA ProposalTalks ==
    ASSUME NEW p \in Side, NEW s \in Sid, Native(p), NEW e \in End, NEW w \in Seq(Frames),
           NEW f \in End, NEW v, NEW rp, NEW rq, Pair(p, s, e, w, f, v, rp, rq), Begun(s),
           e.stage # "None", ~Over(e), Asks(e), NEW ok
    PROVE  LET a == Propose(s, e, ok) IN
           /\ Pair(p, s, a.e, w \o a.out, f, v, rp, rq) /\ AllOf(a.out, s)
           /\ a.e.stage # "None" /\ (Over(a.e) => a.e.stage = "Failed")
  <1> DEFINE a == Propose(s, e, ok)
             why == "write failed"
             Good(g, out) == Pair(p, s, g, w \o out, f, v, rp, rq) /\ AllOf(out, s)
  <1>1. a.e.stage \in {e.stage, "Failed", "AwaitingOutboundResponse"}
    BY ProposeFacts
  <1>2. a.e.stage # "None" /\ (Over(a.e) => a.e.stage = "Failed")
    <2> HIDE DEF a
    <2> QED BY <1>1 DEF Over
  <1>3. \A g : Pair(p, s, g, w, f, v, rp, rq) => Good(g, NoFrames)
    <2>1. w \o NoFrames = w
      BY ConcatEmptySeq DEF NoFrames
    <2>2. AllOf(NoFrames, s)
      BY DEF NoFrames, AllOf
    <2> QED BY <2>1, <2>2
  <1>4. ASSUME NEW g, NEW out, a = Result(g, out), Good(g, out)
        PROVE  Good(a.e, a.out)
    <2>1. a.e = g /\ a.out = out
      BY <1>4 DEF Result
    <2> QED BY <1>4, <2>1
  <1>5. Good(a.e, a.out)
    <2>1. CASE e.stage # "SendingOutboundProposal" /\ a = Result(e, NoFrames)
      <3> HIDE DEF a, Good
      <3> QED BY <2>1, <1>3, <1>4
    <2>2. CASE /\ e.stage = "SendingOutboundProposal" /\ Writable(e, ok)
               /\ a = Result(ProposedEnd(e), AcceptFrames(s, e.desired))
      <3>1. Pair(p, s, ProposedEnd(e), w \o AcceptFrames(s, e.desired), f, v, rp, rq)
        BY <2>2, ProposeTalks DEF Asks
      <3>2. AllOf(AcceptFrames(s, e.desired), s)
        BY DEF AllOf, AcceptFrames, Frame
      <3>3. Good(ProposedEnd(e), AcceptFrames(s, e.desired))
        BY <3>1, <3>2
      <3> HIDE DEF a, Good
      <3> QED BY <2>2, <3>3, <1>4
    <2>3. CASE /\ e.stage = "SendingOutboundProposal" /\ ~Writable(e, ok)
               /\ a = Result(FailWith(e, why), NoFrames)
      <3>1. why \in Details /\ why # "protocol not supported"
        BY DEF Details
      <3>2. e.said = <<>>
        BY <2>3, PairFacts DEF OpenerOk, AcceptorOk
      <3>3. Pair(p, s, FailWith(e, why), w, f, v, rp, rq)
        BY <3>1, <3>2, FailTalks
      <3> HIDE DEF a, Good, why
      <3> QED BY <2>3, <3>3, <1>3, <1>4
    <2> QED BY <2>1, <2>2, <2>3, ProposeCases
  <1> HIDE DEF a
  <1> QED BY <1>2, <1>5 DEF a

\* A poll of one end keeps what holds of the two.
LEMMA PollTalks ==
    ASSUME NEW p \in Side, NEW s \in Sid, Native(p), NEW e \in End, NEW w \in Seq(Frames),
           NEW f \in End, NEW v, NEW rp, NEW rq, Pair(p, s, e, w, f, v, rp, rq), Begun(s),
           e.stage # "None", Asks(e), conf.handlers[p] \in SUBSET Protocols, NEW ok
    PROVE  LET r == Poll(s, e, conf.handlers[p], ok) IN
           /\ Pair(p, s, r.e, w \o r.out, f, v, rp, rq)
           /\ AllOf(r.out, s) /\ r.e.stage # "None"
  <1> DEFINE h == conf.handlers[p]
             a == Propose(s, e, ok)
             b == ReadIn(a.e)
             c == Exchange(s, b, h, ok)
             r == Poll(s, e, h, ok)
             wa == w \o a.out
             Good(g, out) == /\ Pair(p, s, g, w \o out, f, v, rp, rq)
                             /\ AllOf(out, s) /\ g.stage # "None"
  <1>1. CASE Over(e) /\ r = Result(e, NoFrames)
    <2>1. w \o NoFrames = w /\ AllOf(NoFrames, s)
      BY ConcatEmptySeq DEF NoFrames, AllOf
    <2> HIDE DEF r
    <2>2. r.e = e /\ r.out = NoFrames
      BY <1>1 DEF Result
    <2> QED BY <2>1, <2>2 DEF r
  <1>2. CASE ~Over(e)
    <2>1. /\ Pair(p, s, a.e, wa, f, v, rp, rq) /\ AllOf(a.out, s)
          /\ a.e.stage # "None" /\ (Over(a.e) => a.e.stage = "Failed")
      BY <1>2, ProposalTalks
    <2>2. /\ a.e \in End /\ a.out \in Seq(Frames) /\ Asks(a.e)
          /\ a.e.stage # "SendingOutboundProposal"
      BY ProposeFacts
    <2>3. wa \in Seq(Frames)
      <3> HIDE DEF a
      <3> QED BY <2>2
    <2>4. ASSUME a.e.stage # "Failed"
          PROVE  /\ Pair(p, s, b, wa, f, v, rp, rq) /\ b.stage \in {a.e.stage, "Failed"}
                 /\ b \in End /\ b.rx = <<>> /\ SameHandle(a.e, b) /\ Asks(b)
      <3> HIDE DEF a, wa
      <3>1. Pair(p, s, b, wa, f, v, rp, rq) /\ b.stage \in {a.e.stage, "Failed"}
        BY <2>1, <2>2, <2>3, <2>4, ReadInTalks
      <3>2. b \in End /\ b.rx = <<>> /\ SameHandle(a.e, b)
        BY <2>2, ReadInFacts
      <3> HIDE DEF b
      <3>3. Asks(b)
        BY <2>2, <3>1, <3>2 DEF Asks, SameHandle
      <3> QED BY <3>1, <3>2, <3>3
    <2>5. ASSUME a.e.stage # "Failed", b.stage # "Failed"
          PROVE  Good(c.e, a.out \o c.out)
      <3>1. /\ Pair(p, s, b, wa, f, v, rp, rq) /\ b \in End /\ b.rx = <<>> /\ Asks(b)
            /\ b.stage # "None" /\ ~Over(b) /\ b.stage # "SendingOutboundProposal"
        <4> HIDE DEF a, b, wa
        <4> QED BY <2>1, <2>2, <2>4, <2>5 DEF Over
      <3>2. /\ Pair(p, s, c.e, wa \o c.out, f, v, rp, rq) /\ AllOf(c.out, s)
            /\ c.out \in Seq(Frames) /\ (c.e = b \/ Over(c.e))
        <4> HIDE DEF a, b, wa
        <4>1. Pair(p, s, c.e, wa \o c.out, f, v, rp, rq) /\ AllOf(c.out, s)
          BY <2>3, <3>1, ExchangeTalks
        <4>2. c.out \in Seq(Frames)
          BY <3>1, ExchangeFacts
        <4>3. c.e = b \/ Over(c.e)
          BY <3>1, ExchangeStage
        <4> QED BY <4>1, <4>2, <4>3
      <3> HIDE DEF a, b, c
      <3> DEFINE oa == a.out
                 oc == c.out
      <3>3. oa \in Seq(Frames) /\ oc \in Seq(Frames) /\ AllOf(oa, s) /\ AllOf(oc, s)
        BY <2>1, <2>2, <3>2
      <3>4. (w \o oa) \o oc = w \o (oa \o oc) /\ AllOf(oa \o oc, s)
        <4> HIDE DEF oa, oc
        <4>1. (w \o oa) \o oc = w \o (oa \o oc)
          BY <3>3, ConcatAssociative
        <4>2. AllOf(oa \o oc, s)
          BY <3>3, JoinFacts DEF AllOf
        <4> QED BY <4>1, <4>2
      <3>5. c.e.stage # "None"
        BY <3>1, <3>2 DEF Over
      <3> QED BY <3>2, <3>4, <3>5
    <2>6. PICK g, out :
            /\ r = Result(g, out)
            /\ \/ a.e.stage = "Failed" /\ g = a.e /\ out = a.out
               \/ a.e.stage # "Failed" /\ b.stage = "Failed" /\ g = b /\ out = a.out
               \/ /\ a.e.stage # "Failed" /\ b.stage # "Failed"
                  /\ g = c.e /\ out = a.out \o c.out
      BY <1>2, PollParts
    <2> HIDE DEF a, b, c, r
    <2>7. Good(g, out)
      BY <2>1, <2>4, <2>5, <2>6
    <2>8. r.e = g /\ r.out = out
      BY <2>6 DEF Result
    <2> HIDE DEF Good
    <2>9. Good(r.e, r.out)
      BY <2>7, <2>8
    <2> QED BY <2>9 DEF Good, r
  <1> QED BY <1>1, <1>2, PollParts

----------------------------------------------------------------------------
(* The calls of the application and the Swarm.                             *)

\* What is read moves to the application, in order.
LEMMA TakenInOrder ==
    ASSUME NEW g \in Seq(Message), NEW x \in Seq(Message), NEW r \in Seq(Message)
    PROVE  /\ x # <<>> => Append(g, Head(x)) \o (Tail(x) \o r) = g \o (x \o r)
           /\ r # <<>> => Append(g, Head(r)) \o (<<>> \o Tail(r)) = g \o (<<>> \o r)
  <1>1. ASSUME NEW y \in Seq(Message), y # <<>>
        PROVE  Append(g, Head(y)) \o Tail(y) = g \o y
    <2>1. Head(y) \in Message /\ Tail(y) \in Seq(Message) /\ Append(g, Head(y)) \in Seq(Message)
      BY <1>1
    <2> QED BY <1>1, <2>1
  <1>2. ASSUME x # <<>>
        PROVE  Append(g, Head(x)) \o (Tail(x) \o r) = g \o (x \o r)
    <2> DEFINE t == Tail(x)
               y == Append(g, Head(x))
    <2>0. t \in Seq(Message) /\ y \in Seq(Message)
      BY <1>2
    <2>1. y \o t = g \o x
      BY <1>1, <1>2
    <2> HIDE DEF t, y
    <2>2. (y \o t) \o r = y \o (t \o r)
      BY SMTT(30), <2>0, ConcatAssociative
    <2>3. (g \o x) \o r = g \o (x \o r)
      BY ConcatAssociative
    <2> QED BY <2>1, <2>2, <2>3 DEF t, y
  <1>3. ASSUME r # <<>>
        PROVE  Append(g, Head(r)) \o (<<>> \o Tail(r)) = g \o (<<>> \o r)
    <2> DEFINE t == Tail(r)
               y == Append(g, Head(r))
    <2>1. t \in Seq(Message) /\ y \in Seq(Message) /\ y \o t = g \o r
      BY <1>1, <1>3
    <2> HIDE DEF t, y
    <2>2. <<>> \o t = t /\ <<>> \o r = r
      BY <2>1, ConcatEmptySeq
    <2> QED BY <2>1, <2>2 DEF t, y
  <1> QED BY <1>2, <1>3

\* The application reads a message.
LEMMA ReadNextTalks ==
    ASSUME NEW p \in Side, NEW s \in Sid, Native(p), NEW e \in End, NEW w, NEW f \in End,
           NEW v, NEW rp, NEW rq, Pair(p, s, e, w, f, v, rp, rq), e.stage = "Ready"
    PROVE  Pair(p, s, ReadNext(e), w, f, v, rp, rq)
  <1> DEFINE g == ReadNext(e)
  <1>1. /\ EndOk(e) /\ (s[1] = p => OpenerOk(e)) /\ (s[1] # p => AcceptorOk(p, e)) /\ e # NoEnd
        /\ e.protocol # "none"
    <2>1. EndOk(e) /\ (s[1] = p => OpenerOk(e)) /\ (s[1] # p => AcceptorOk(p, e)) /\ e # NoEnd
      BY PairFacts
    <2> QED BY <2>1 DEF EndOk
  <1>2. e.rx \in Seq(Message) /\ e.got \in Seq(Message) /\ e.appRx \in Seq(Message)
    BY DEF End
  <1>3. /\ g.stage = e.stage /\ g.detail = e.detail /\ g.said = e.said
        /\ g.buffer = e.buffer /\ g.protocol = e.protocol /\ g.reset = e.reset
        /\ g.known = e.known /\ g.desired = e.desired /\ g.handle = e.handle
        /\ g.writeClosed = e.writeClosed /\ (e.rx = <<>> => g.rx = <<>>)
        /\ g.got \o (g.appRx \o g.rx) = e.got \o (e.appRx \o e.rx)
    <2>1. CASE e.appRx # <<>>
      <3> DEFINE got == Append(e.got, Head(e.appRx))
                 rest == Tail(e.appRx)
                 h == [e EXCEPT !.got = got, !.appRx = rest]
      <3>1. g = h
        BY <2>1 DEF ReadNext, End
      <3>2. got \o (rest \o e.rx) = e.got \o (e.appRx \o e.rx)
        BY <1>2, <2>1, TakenInOrder
      <3> HIDE DEF got, rest, g
      <3>3. /\ h.stage = e.stage /\ h.detail = e.detail /\ h.said = e.said
            /\ h.buffer = e.buffer /\ h.protocol = e.protocol /\ h.reset = e.reset
            /\ h.known = e.known /\ h.desired = e.desired /\ h.handle = e.handle
            /\ h.writeClosed = e.writeClosed /\ h.rx = e.rx /\ h.got = got /\ h.appRx = rest
        BY DEF End
      <3> QED BY <3>1, <3>2, <3>3
    <2>2. CASE e.appRx = <<>> /\ e.rx # <<>>
      <3> DEFINE got == Append(e.got, Head(e.rx))
                 rest == Tail(e.rx)
                 h == [e EXCEPT !.got = got, !.rx = rest]
      <3>1. g = h
        BY <2>2 DEF ReadNext, End
      <3>2. got \o (e.appRx \o rest) = e.got \o (e.appRx \o e.rx)
        <4>1. got \o (<<>> \o rest) = e.got \o (<<>> \o e.rx)
          BY <1>2, <2>2, TakenInOrder
        <4> HIDE DEF got, rest
        <4> QED BY <2>2, <4>1
      <3> HIDE DEF got, rest, g
      <3>3. /\ h.stage = e.stage /\ h.detail = e.detail /\ h.said = e.said
            /\ h.buffer = e.buffer /\ h.protocol = e.protocol /\ h.reset = e.reset
            /\ h.known = e.known /\ h.desired = e.desired /\ h.handle = e.handle
            /\ h.writeClosed = e.writeClosed /\ h.rx = rest /\ h.got = got
            /\ h.appRx = e.appRx
        BY DEF End
      <3> QED BY <2>2, <3>1, <3>2, <3>3
    <2>3. CASE e.appRx = <<>> /\ e.rx = <<>>
      BY <2>3 DEF ReadNext
    <2> QED BY <2>1, <2>2, <2>3
  <1> HIDE DEF g
  <1>4. EndOk(g)
    BY <1>1, <1>3 DEF EndOk, Over
  <1>5. s[1] = p => OpenerOk(g)
    BY <1>1, <1>3 DEF OpenerOk
  <1>6. s[1] # p => AcceptorOk(p, g)
    BY <1>1, <1>3 DEF AcceptorOk
  <1>7. Local(p, s, g)
    BY <1>4, <1>5, <1>6 DEF Local
  <1>8. Heard(p, s, e, w, f, rq) => Heard(p, s, g, w, f, rq)
    BY <1>3, HeardSilent DEF Told
  <1>9. SameSight(e, g)
    BY <1>1, <1>3 DEF SameSight, Skip, Seen
  <1>10. Heard(Peer(p), s, f, v, e, rp) => Heard(Peer(p), s, f, v, g, rp)
    BY <1>1, <1>3, <1>9, HeardKept
  <1>11. Undecided(s, v, e) => Undecided(s, v, g)
    BY <1>3 DEF Undecided
  <1>12. Pair(p, s, g, w, f, v, rp, rq)
    BY <1>1, <1>3, <1>7, <1>8, <1>10, <1>11, PairMove
  <1> QED BY <1>12 DEF g

\* The application writes a message.
LEMMA WriteTalks ==
    ASSUME NEW p \in Side, NEW s \in Sid, Native(p), NEW e \in End, NEW w \in Seq(Frames),
           NEW f \in End, NEW v, NEW rp, NEW rq, Pair(p, s, e, w, f, v, rp, rq), Begun(s),
           e.stage = "Ready", NEW body \in Seq(Message)
    PROVE  Pair(p, s, Says(e, body), w \o <<Frame(s, "DATA", body)>>, f, v, rp, rq)
  <1> DEFINE g == Says(e, body)
             said == e.said \o body
             w2 == w \o <<Frame(s, "DATA", body)>>
  <1>1. /\ EndOk(e) /\ (s[1] = p => OpenerOk(e)) /\ (s[1] # p => AcceptorOk(p, e)) /\ e # NoEnd
        /\ e.protocol # "none" /\ Heard(Peer(p), s, f, v, e, rp)
    <2>1. EndOk(e) /\ (s[1] = p => OpenerOk(e)) /\ (s[1] # p => AcceptorOk(p, e)) /\ e # NoEnd
      BY PairFacts
    <2> QED BY <2>1, PairFacts DEF EndOk
  <1>2. e.said \in Seq(Message)
    BY DEF End
  <1>3. /\ g.stage = e.stage /\ g.detail = e.detail /\ g.said = said
        /\ g.buffer = e.buffer /\ g.protocol = e.protocol /\ g.reset = e.reset
        /\ g.known = e.known /\ g.desired = e.desired /\ g.handle = e.handle
        /\ g.writeClosed = e.writeClosed /\ g.rx = e.rx /\ g.got = e.got /\ g.appRx = e.appRx
    BY DEF Says, End
  <1>4. /\ \A x : Names(e.said, x) => Names(said, x) /\ said # <<>>
    <2>1. ASSUME NEW x, Names(e.said, x)
          PROVE  Names(said, x) /\ said # <<>>
      <3>1. Names(said, x)
        BY <1>2, <2>1, NamesGrow
      <3> QED BY <3>1 DEF Names
    <2> QED BY <2>1
  <1>5. \E x : Names(e.said, x)
    BY <1>1 DEF OpenerOk, AcceptorOk
  <1> HIDE DEF g, said
  <1>6. EndOk(g)
    BY <1>1, <1>3, <1>4 DEF EndOk, Over
  <1>7. s[1] = p => OpenerOk(g)
    <2>1. ASSUME s[1] = p
          PROVE  Names(e.said, e.desired) /\ e.detail # "write failed"
      BY <1>1, <2>1 DEF OpenerOk
    <2> QED BY <1>1, <1>3, <1>4, <2>1 DEF OpenerOk
  <1>8. s[1] # p => AcceptorOk(p, g)
    BY <1>1, <1>3, <1>4 DEF AcceptorOk
  <1>9. Local(p, s, g)
    BY <1>6, <1>7, <1>8 DEF Local
  <1>10. Told(p, s, e)
    BY <1>1 DEF Told
  <1>11. Heard(p, s, e, w, f, rq) => Heard(p, s, g, w2, f, rq)
    BY <1>3, <1>10, HeardSays DEF said
  <1>12. SameSight(e, g)
    BY <1>3 DEF SameSight, Skip, Seen
  <1>13. Heard(Peer(p), s, f, v, e, rp) => Heard(Peer(p), s, f, v, g, rp)
    <2>1. e.said # <<>>
      BY <1>5 DEF Names
    <2> QED BY <1>1, <1>12, <2>1, HeardKept
  <1>14. Undecided(s, v, e) => Undecided(s, v, g)
    BY <1>3 DEF Undecided
  <1> HIDE DEF w2
  <1>15. Pair(p, s, g, w2, f, v, rp, rq)
    BY <1>1, <1>3, <1>9, <1>11, <1>13, <1>14, PairMove
  <1> QED BY <1>15 DEF g, w2

\* An end whose negotiation has a protocol closes its writing side.
LEMMA CloseTalks ==
    ASSUME NEW p \in Side, NEW s \in Sid, Native(p), NEW e \in End, NEW w \in Seq(Frames),
           NEW f \in End, NEW v, NEW rp, NEW rq, Pair(p, s, e, w, f, v, rp, rq), Begun(s),
           e.stage = "Ready"
    PROVE  Pair(p, s, [e EXCEPT !.writeClosed = TRUE], w \o <<Frame(s, "FIN", <<>>)>>,
                f, v, rp, rq)
  <1> DEFINE g == [e EXCEPT !.writeClosed = TRUE]
             fin == <<Frame(s, "FIN", <<>>)>>
             w2 == w \o fin
  <1>1. /\ EndOk(e) /\ (s[1] = p => OpenerOk(e)) /\ (s[1] # p => AcceptorOk(p, e)) /\ e # NoEnd
        /\ e.protocol # "none"
    <2>1. EndOk(e) /\ (s[1] = p => OpenerOk(e)) /\ (s[1] # p => AcceptorOk(p, e)) /\ e # NoEnd
      BY PairFacts
    <2> QED BY <2>1 DEF EndOk
  <1>2. /\ g.stage = e.stage /\ g.detail = e.detail /\ g.said = e.said
        /\ g.buffer = e.buffer /\ g.protocol = e.protocol /\ g.reset = e.reset
        /\ g.known = e.known /\ g.desired = e.desired /\ g.handle = e.handle
        /\ g.rx = e.rx /\ g.got = e.got /\ g.appRx = e.appRx
    BY DEF End
  <1>3. fin \in Seq(Frames) /\ NoData(fin, s) /\ NoSyn(fin, s)
    BY EndFrame
  <1> HIDE DEF g, fin
  <1>4. EndOk(g)
    BY <1>1, <1>2 DEF EndOk, Over
  <1>5. s[1] = p => OpenerOk(g)
    BY <1>1, <1>2 DEF OpenerOk
  <1>6. s[1] # p => AcceptorOk(p, g)
    BY <1>1, <1>2 DEF AcceptorOk
  <1>7. Local(p, s, g)
    BY <1>4, <1>5, <1>6 DEF Local
  <1>8. Told(p, s, e)
    BY <1>1 DEF Told
  <1>9. Heard(p, s, e, w, f, rq) => Heard(p, s, g, w2, f, rq)
    <2>1. Heard(p, s, e, w, f, rq) => Heard(p, s, e, w2, f, rq)
      BY <1>3, <1>8, HeardJoin
    <2> HIDE DEF w2
    <2>2. Heard(p, s, e, w2, f, rq) => Heard(p, s, g, w2, f, rq)
      BY <1>2, <1>8, HeardSilent
    <2> QED BY <2>1, <2>2
  <1>10. SameSight(e, g)
    BY <1>2 DEF SameSight, Skip, Seen
  <1>11. Heard(Peer(p), s, f, v, e, rp) => Heard(Peer(p), s, f, v, g, rp)
    BY <1>1, <1>2, <1>10, HeardKept
  <1>12. (Native(Peer(p)) /\ s[1] = p) => f.protocol # "none"
    BY <1>1, DecidedByAcceptor
  <1> HIDE DEF w2
  <1>13. Pair(p, s, g, w2, f, v, rp, rq)
    BY <1>1, <1>2, <1>7, <1>9, <1>11, <1>12, PairMove
  <1> QED BY <1>13 DEF g, fin, w2

\* The fields of an end that reset() leaves.
LEMMA ResetFields ==
    ASSUME NEW e \in End
    PROVE  LET g == ResetEnd(e) IN
           /\ g.stage = "Failed" /\ g.said = e.said /\ g.buffer = e.buffer
           /\ g.detail = IF e.detail = "none" THEN "stream reset locally" ELSE e.detail
           /\ g.protocol = e.protocol /\ g.reset = TRUE /\ g.known = FALSE /\ g.rx = <<>>
           /\ g.desired = e.desired /\ g.handle = e.handle
           /\ g.got = e.got /\ g.appRx = e.appRx
  <1> DEFINE nil == <<>>
             why == IF e.detail = "none" THEN "stream reset locally" ELSE e.detail
             g == [e EXCEPT !.stage = "Failed", !.detail = why, !.readClosed = TRUE,
                            !.writeClosed = TRUE, !.reset = TRUE, !.rx = nil, !.known = FALSE]
  <1>1. ResetEnd(e) = g
    BY DEF ResetEnd, End
  <1> HIDE DEF nil, why
  <1>2. /\ g.stage = "Failed" /\ g.said = e.said /\ g.buffer = e.buffer
        /\ g.detail = why
        /\ g.protocol = e.protocol /\ g.reset = TRUE /\ g.known = FALSE /\ g.rx = nil
        /\ g.desired = e.desired /\ g.handle = e.handle
        /\ g.got = e.got /\ g.appRx = e.appRx
    BY DEF End
  <1> HIDE DEF g
  <1> QED BY <1>1, <1>2 DEF nil, why

\* The application resets the stream.
LEMMA ResetTalks ==
    ASSUME NEW p \in Side, NEW s \in Sid, Native(p), NEW e \in End, NEW w \in Seq(Frames),
           NEW f \in End, NEW v, NEW rp, NEW rq, Pair(p, s, e, w, f, v, rp, rq), Begun(s),
           e.handle
    PROVE  Pair(p, s, ResetEnd(e), w \o <<Frame(s, "RST", <<>>)>>, f, v, rp, rq)
  <1> DEFINE g == ResetEnd(e)
             rst == <<Frame(s, "RST", <<>>)>>
             w2 == w \o rst
  <1>1. /\ EndOk(e) /\ (s[1] = p => OpenerOk(e)) /\ (s[1] # p => AcceptorOk(p, e))
        /\ Heard(Peer(p), s, f, v, e, rp)
    BY PairFacts
  <1>2. e.stage # "None" /\ e # NoEnd /\ (s[1] # p => e.protocol # "none")
    BY <1>1, PairFacts DEF EndOk, AcceptorOk
  <1>3. /\ g.stage = "Failed" /\ g.said = e.said /\ g.buffer = e.buffer
        /\ g.detail = IF e.detail = "none" THEN "stream reset locally" ELSE e.detail
        /\ g.protocol = e.protocol /\ g.reset = TRUE /\ g.known = FALSE /\ g.rx = <<>>
        /\ g.desired = e.desired /\ g.handle = e.handle
        /\ g.got = e.got /\ g.appRx = e.appRx
    BY ResetFields
  <1>4. g \in End
    BY ResetFacts
  <1>5. rst \in Seq(Frames) /\ NoData(rst, s) /\ NoSyn(rst, s)
    BY EndFrame
  <1> HIDE DEF g, rst
  <1>6. EndOk(g)
    BY <1>1, <1>3 DEF EndOk, Over
  <1>7. s[1] = p => OpenerOk(g)
    BY <1>1, <1>2, <1>3 DEF OpenerOk
  <1>8. s[1] # p => AcceptorOk(p, g)
    BY <1>1, <1>2, <1>3 DEF AcceptorOk
  <1>9. Local(p, s, g)
    BY <1>6, <1>7, <1>8 DEF Local
  <1>10. Told(p, s, e)
    BY <1>2 DEF Told
  <1>11. Heard(p, s, e, w, f, rq) => Heard(p, s, g, w2, f, rq)
    <2>1. Heard(p, s, e, w, f, rq) => Heard(p, s, e, w2, f, rq)
      BY <1>5, <1>10, HeardJoin
    <2> HIDE DEF w2
    <2>2. Heard(p, s, e, w2, f, rq) => Heard(p, s, g, w2, f, rq)
      BY <1>3, <1>10, HeardSilent
    <2> QED BY <2>1, <2>2
  <1>12. NoSyn(v, s)
    BY <1>1, <1>2 DEF Heard, SynFirst, NoSyn
  <1>13. Heard(Peer(p), s, f, v, g, rp)
    BY <1>1, <1>3, <1>4, <1>12, HeardReset
  <1>14. Undecided(s, v, e) => Undecided(s, v, g)
    <2>1. ASSUME Undecided(s, v, e)
          PROVE  g.detail \in {"write failed", "protocol not supported", "stream reset locally"}
      <3>1. CASE e.detail = "none"
        BY <1>3, <3>1
      <3>2. CASE e.detail # "none"
        BY <1>1, <1>3, <2>1, <3>2 DEF Undecided, EndOk
      <3> QED BY <3>1, <3>2
    <2> QED BY <1>3, <2>1 DEF Undecided
  <1> HIDE DEF w2
  <1>15. Pair(p, s, g, w2, f, v, rp, rq)
    BY <1>2, <1>3, <1>9, <1>11, <1>13, <1>14, PairMove
  <1> QED BY <1>15 DEF g, rst, w2

\* What an end that is reported keeps.
SameTalk(e, g) ==
    /\ g.stage = e.stage /\ g.detail = e.detail /\ g.said = e.said
    /\ g.buffer = e.buffer /\ g.protocol = e.protocol /\ g.reset = e.reset
    /\ g.known = e.known /\ g.desired = e.desired /\ g.writeClosed = e.writeClosed
    /\ g.rx = e.rx /\ g.got = e.got /\ g.appRx = e.appRx
    /\ g.handle = e.handle \/ e.stage = "Ready"

\* The Swarm reports an outcome.
LEMMA ReportTalks ==
    ASSUME NEW p \in Side, NEW s \in Sid, Native(p), NEW e \in End, NEW w,
           NEW f \in End, NEW v, NEW rp, NEW rq, Pair(p, s, e, w, f, v, rp, rq),
           e.stage # "None"
    PROVE  Pair(p, s, Report(p, e), w, f, v, rp, rq)
  <1> DEFINE g == Report(p, e)
  <1>1. /\ EndOk(e) /\ (s[1] = p => OpenerOk(e)) /\ (s[1] # p => AcceptorOk(p, e)) /\ e # NoEnd
    BY PairFacts
  <1>2. SameTalk(e, g)
    <2>1. PICK r, h : /\ g = e \/ g = [e EXCEPT !.reports = r]
                         \/ g = [e EXCEPT !.reports = r, !.handle = h]
                      /\ g.handle = e.handle \/ e.stage = "Ready"
      <3>1. CASE e.stage = "Failed"
        BY <3>1 DEF Report, End
      <3>2. CASE e.stage = "Ready"
        BY <3>2 DEF Report, End
      <3>3. CASE e.stage \notin {"Failed", "Ready"}
        BY <3>3 DEF Report
      <3> QED BY <3>1, <3>2, <3>3
    <2> HIDE DEF g
    <2> QED BY <2>1 DEF SameTalk, End
  <1> HIDE DEF g
  <1>3. EndOk(g)
    BY <1>1, <1>2 DEF EndOk, Over, SameTalk
  <1>4. s[1] = p => OpenerOk(g)
    BY <1>1, <1>2 DEF OpenerOk, SameTalk
  <1>5. s[1] # p => AcceptorOk(p, g)
    BY <1>1, <1>2 DEF AcceptorOk, SameTalk, EndOk
  <1>6. Local(p, s, g)
    BY <1>3, <1>4, <1>5 DEF Local
  <1>7. Heard(p, s, e, w, f, rq) => Heard(p, s, g, w, f, rq)
    BY <1>2, HeardSilent DEF Told, SameTalk
  <1>8. SameSight(e, g)
    BY <1>2 DEF SameSight, Skip, Seen, SameTalk
  <1>9. Heard(Peer(p), s, f, v, e, rp) => Heard(Peer(p), s, f, v, g, rp)
    BY <1>1, <1>2, <1>8, HeardKept DEF SameTalk
  <1>10. Undecided(s, v, e) => Undecided(s, v, g)
    BY <1>2 DEF Undecided, SameTalk
  <1>11. Pair(p, s, g, w, f, v, rp, rq)
    BY <1>2, <1>6, <1>7, <1>9, <1>10, PairMove DEF SameTalk
  <1> QED BY <1>11 DEF g

\* The Swarm begins to negotiate an accepted stream.
LEMMA InboundTalks ==
    ASSUME NEW p \in Side, NEW s \in Sid, Native(p), NEW e \in End, NEW w,
           NEW f \in End, NEW v, NEW rp, NEW rq, Pair(p, s, e, w, f, v, rp, rq),
           e.stage = "None", s[1] = Peer(p), e.known \/ e.reset
    PROVE  Pair(p, s, Inbound(e), w, f, v, rp, rq)
  <1> DEFINE g == Inbound(e)
  <1>1. EndOk(e) /\ s[1] # p /\ AcceptorOk(p, e)
    BY Sides, PairFacts
  <1>2. /\ g.stage = "AwaitingInboundProposal" /\ g.detail = e.detail /\ g.said = e.said
        /\ g.buffer = e.buffer /\ g.protocol = e.protocol /\ g.reset = e.reset
        /\ g.known = e.known /\ g.desired = e.desired /\ g.handle = e.handle
        /\ g.rx = e.rx /\ g.got = e.got /\ g.appRx = e.appRx
    BY DEF Inbound, End
  <1>3. e # NoEnd
    BY DEF NoEnd
  <1> HIDE DEF g
  <1>4. EndOk(g)
    BY <1>1, <1>2 DEF EndOk, Over
  <1>5. AcceptorOk(p, g)
    BY <1>1, <1>2 DEF AcceptorOk, EndOk
  <1>6. Local(p, s, g)
    BY <1>1, <1>4, <1>5 DEF Local
  <1>7. Heard(p, s, e, w, f, rq) => Heard(p, s, g, w, f, rq)
    BY <1>1, <1>2, HeardSilent DEF Told
  <1>8. SameSight(e, g)
    BY <1>2 DEF SameSight, Skip, Seen
  <1>9. Heard(Peer(p), s, f, v, e, rp) => Heard(Peer(p), s, f, v, g, rp)
    BY <1>2, <1>3, <1>8, HeardKept
  <1>10. Pair(p, s, g, w, f, v, rp, rq)
    BY <1>1, <1>2, <1>6, <1>7, <1>9, PairMove
  <1> QED BY <1>10 DEF g

----------------------------------------------------------------------------
(* A frame arrives.                                                        *)

\* What no frame of an opened stream changes.
SameAsked(e, g) ==
    /\ g.stage = e.stage /\ g.detail = e.detail /\ g.said = e.said
    /\ g.buffer = e.buffer /\ g.protocol = e.protocol /\ g.desired = e.desired
    /\ g.handle = e.handle /\ g.got = e.got /\ g.appRx = e.appRx

LEMMA FrameFields ==
    ASSUME NEW e \in End, NEW f \in Frames
    PROVE  LET g == AfterFrame(e, f) IN
           /\ g \in End
           /\ f.kind # "SYN" => SameAsked(e, g)
           /\ f.kind = "DATA" => /\ g.rx = e.rx \o f.body /\ g.known = e.known
                                 /\ g.reset = e.reset /\ g.writeClosed = e.writeClosed
           /\ f.kind = "FIN" => /\ g.rx = e.rx /\ g.known = e.known
                                /\ g.reset = e.reset /\ g.writeClosed = e.writeClosed
           /\ f.kind = "RST" => g.rx = <<>> /\ ~g.known /\ g.reset
  <1> DEFINE g == AfterFrame(e, f)
  <1>1. g \in End
    BY AfterFrameFacts
  <1>2. f.kind \in {"SYN", "DATA", "FIN", "RST"}
    BY DEF Frames
  <1>3. CASE f.kind = "DATA"
    <2> DEFINE rx == e.rx \o f.body
               h == [e EXCEPT !.rx = rx]
    <2>1. g = h
      BY <1>3 DEF AfterFrame, End
    <2> HIDE DEF rx, g
    <2>2. SameAsked(e, h)
      BY DEF SameAsked, End
    <2>3. /\ h.rx = rx /\ h.known = e.known /\ h.reset = e.reset
          /\ h.writeClosed = e.writeClosed
      BY DEF End
    <2> HIDE DEF h
    <2> QED BY <1>1, <1>3, <2>1, <2>2, <2>3 DEF rx, g
  <1>4. CASE f.kind = "FIN"
    <2> DEFINE h == [e EXCEPT !.readClosed = TRUE]
    <2>1. g = h
      BY <1>4 DEF AfterFrame
    <2> HIDE DEF g
    <2>2. SameAsked(e, h)
      BY DEF SameAsked, End
    <2>3. /\ h.rx = e.rx /\ h.known = e.known /\ h.reset = e.reset
          /\ h.writeClosed = e.writeClosed
      BY DEF End
    <2> HIDE DEF h
    <2> QED BY <1>1, <1>4, <2>1, <2>2, <2>3 DEF g
  <1>5. CASE f.kind = "RST"
    <2> DEFINE nil == <<>>
               h == [e EXCEPT !.readClosed = TRUE, !.writeClosed = TRUE, !.reset = TRUE,
                              !.rx = nil, !.known = FALSE]
    <2>1. g = h
      BY <1>5 DEF AfterFrame
    <2> HIDE DEF g, nil
    <2>2. SameAsked(e, h)
      BY DEF SameAsked, End
    <2>3. h.rx = nil /\ h.known = FALSE /\ h.reset = TRUE
      BY DEF End
    <2> HIDE DEF h
    <2> QED BY <1>1, <1>5, <2>1, <2>2, <2>3 DEF g, nil
  <1> HIDE DEF g
  <1>6. CASE f.kind = "SYN"
    BY <1>1, <1>6 DEF g
  <1> QED BY <1>2, <1>3, <1>4, <1>5, <1>6 DEF g

\* What arrives joins what is to be read.
LEMMA SeenMore ==
    ASSUME NEW e \in End, NEW g, SameAsked(e, g), NEW body \in Seq(Message),
           g.rx = e.rx \o body
    PROVE  Seen(g) = Seen(e) \o body /\ Skip(g) = Skip(e)
  <1> DEFINE b == e.buffer
             r == e.rx
             x == e.appRx
             y == e.got
  <1>1. b \in Seq(Message) /\ r \in Seq(Message) /\ x \in Seq(Message) /\ y \in Seq(Message)
    BY DEF End
  <1>2. Skip(g) = Skip(e)
    BY DEF Skip, SameAsked
  <1>3. /\ Seen(e) = IF e.protocol = "none" THEN b \o r ELSE y \o (x \o r)
        /\ Seen(g) = IF e.protocol = "none" THEN b \o (r \o body)
                                            ELSE y \o (x \o (r \o body))
    BY DEF Seen, SameAsked
  <1> HIDE DEF b, r, x, y
  <1>4. (b \o r) \o body = b \o (r \o body)
    BY SMTT(30), <1>1, ConcatAssociative
  <1>5. (y \o (x \o r)) \o body = y \o (x \o (r \o body))
    <2>1. (x \o r) \o body = x \o (r \o body)
      BY SMTT(30), <1>1, ConcatAssociative
    <2> DEFINE z == x \o r
    <2>2. z \in Seq(Message)
      BY <1>1
    <2> HIDE DEF z
    <2>3. (y \o z) \o body = y \o (z \o body)
      BY SMTT(30), <1>1, <2>2, ConcatAssociative
    <2> QED BY <2>1, <2>3 DEF z
  <1> QED BY <1>2, <1>3, <1>4, <1>5

\* The reader of a's frames takes the first of them.
HeardFrame(a, s, o, v, e, g) == Heard(a, s, o, v, e, TRUE) => Heard(a, s, o, Tail(v), g, TRUE)

LEMMA HeardSyn ==
    ASSUME NEW a, NEW s, NEW o, NEW v \in Seq(Frames), v # <<>>, NEW e, NEW f, f = Head(v),
           f.s = s, f.kind = "SYN"
    PROVE  HeardFrame(a, s, o, v, e, NewYamuxStream)
  <1> SUFFICES ASSUME Heard(a, s, o, v, e, TRUE)
               PROVE  Heard(a, s, o, Tail(v), NewYamuxStream, TRUE)
    BY DEF HeardFrame
  <1> DEFINE g == NewYamuxStream
  <1>1. IsSyn(Head(v), s) /\ ~IsData(Head(v), s)
    BY DEF IsSyn, IsData
  <1>2. e = NoEnd /\ s[1] = a
    <2>1. 1 \in DOMAIN v /\ v[1] = Head(v)
      BY RestFacts
    <2> QED BY <1>1, <2>1 DEF Heard, SynFirst
  <1>3. /\ g.protocol = NoEnd.protocol /\ g.said = NoEnd.said /\ g.reset = NoEnd.reset
        /\ g.buffer = NoEnd.buffer /\ g.rx = NoEnd.rx
        /\ NoEnd.protocol = "none" /\ NoEnd.said = <<>> /\ NoEnd.reset = FALSE /\ g.known
    BY DEF NewYamuxStream, NoEnd
  <1>4. g.known
    BY <1>3
  <1> HIDE DEF g
  <1>5. Skip(g) = Skip(e) /\ Seen(g) = Seen(e)
    BY <1>2, <1>3 DEF Skip, Seen
  <1>6. Follows(s, o.said, Tail(v), g, TRUE)
    <2>1. Sees(s, o.said, v, Skip(e), Seen(e), TRUE /\ ~e.reset)
      BY DEF Heard, Follows
    <2>2. Sees(s, o.said, Tail(v), Skip(e), Seen(e), TRUE /\ ~e.reset)
      BY <1>1, <2>1, SeesRestOther
    <2> QED BY <1>2, <1>3, <1>5, <2>2 DEF Follows
  <1>7. SynFirst(a, s, Tail(v), g, TRUE)
    BY <1>1, <1>4, SynRest DEF Heard
  <1>8. g.protocol = "none" /\ g.said = <<>>
    BY <1>3
  <1>9. Heard(a, s, o, Tail(v), g, TRUE)
    BY <1>4, <1>6, <1>7, <1>8 DEF Heard
  <1> QED BY <1>9 DEF g

\* A frame of a stream that is not known is dropped.
LEMMA HeardDropped ==
    ASSUME NEW a, NEW s, NEW o, NEW v \in Seq(Frames), v # <<>>, NEW e, NEW f, f = Head(v),
           f.s = s, f.kind # "SYN", ~e.known
    PROVE  HeardFrame(a, s, o, v, e, e)
  <1> SUFFICES ASSUME Heard(a, s, o, v, e, TRUE)
               PROVE  Heard(a, s, o, Tail(v), e, TRUE)
    BY DEF HeardFrame
  <1>1. e.reset
    <2>1. 1 \in DOMAIN v /\ v[1] = Head(v) /\ \A i \in DOMAIN v : i >= 1
      BY RestFacts
    <2>2. ASSUME ~e.reset
          PROVE  FALSE
      <3>1. SynAmong(v, 1, s)
        BY <2>1, <2>2 DEF Heard, SynFirst
      <3>2. PICK i \in DOMAIN v : i <= 1 /\ IsSyn(v[i], s)
        BY <3>1 DEF SynAmong
      <3>3. i = 1
        BY <2>1, <3>2, RestFacts
      <3> QED BY <2>1, <3>2, <3>3 DEF IsSyn
    <2> QED BY <2>2
  <1>2. e # NoEnd
    BY <1>1 DEF NoEnd
  <1>3. Follows(s, o.said, Tail(v), e, TRUE)
    BY <1>1 DEF Heard, Follows, Sees
  <1>4. SynFirst(a, s, Tail(v), e, TRUE)
    BY <1>1, <1>2, SynRest DEF Heard
  <1> QED BY <1>1, <1>3, <1>4 DEF Heard

\* Messages, or the end of what the other side says, arrive.
LEMMA HeardMore ==
    ASSUME NEW a, NEW s, NEW o \in End, NEW v \in Seq(Frames), v # <<>>, NEW e \in End,
           NEW f, f = Head(v), f.s = s, f.kind \in {"DATA", "FIN"}, e.known, ~e.reset
    PROVE  HeardFrame(a, s, o, v, e, AfterFrame(e, f))
  <1> SUFFICES ASSUME Heard(a, s, o, v, e, TRUE)
               PROVE  Heard(a, s, o, Tail(v), AfterFrame(e, f), TRUE)
    BY DEF HeardFrame
  <1> DEFINE g == AfterFrame(e, f)
             told == o.said
  <1>1. f \in Frames /\ f.body \in Seq(Message)
    BY RestFacts DEF Frames
  <1>2. SameAsked(e, g) /\ g.known = e.known /\ g.reset = e.reset /\ g \in End
    BY <1>1, FrameFields
  <1>3. f.kind = "DATA" => g.rx = e.rx \o f.body
    BY <1>1, FrameFields
  <1>4. f.kind = "FIN" => g.rx = e.rx
    BY <1>1, FrameFields
  <1> HIDE DEF g
  <1>5. e # NoEnd
    BY DEF NoEnd
  <1>6. told \in Seq(Message) /\ Seen(e) \in Seq(Message) /\ Skip(e) \in Nat
    BY SeenTypes DEF End
  <1>7. Sees(s, told, v, Skip(e), Seen(e), TRUE)
    BY DEF Heard, Follows, Sees
  <1> HIDE DEF told
  <1>8. Follows(s, told, Tail(v), g, TRUE)
    <2>1. CASE f.kind = "DATA"
      <3>1. Seen(g) = Seen(e) \o f.body /\ Skip(g) = Skip(e)
        BY <1>1, <1>2, <1>3, <2>1, SeenMore
      <3>2. IsData(Head(v), s)
        BY <2>1 DEF IsData
      <3>3. \A open : Sees(s, told, Tail(v), Skip(e), Seen(e) \o Head(v).body, open)
        BY <1>6, <1>7, <3>2, SeesRest
      <3> QED BY <3>1, <3>3 DEF Follows
    <2>2. CASE f.kind = "FIN"
      <3>1. Seen(g) = Seen(e) /\ Skip(g) = Skip(e)
        BY <1>2, <1>4, <2>2 DEF Seen, Skip, SameAsked
      <3>2. ~IsData(Head(v), s)
        BY <2>2 DEF IsData
      <3>3. Sees(s, told, Tail(v), Skip(e), Seen(e), TRUE)
        BY <1>7, <3>2, SeesRestOther
      <3> QED BY <3>1, <3>3 DEF Follows, Sees
    <2> QED BY <2>1, <2>2
  <1>9. SynFirst(a, s, Tail(v), g, TRUE)
    BY <1>2, <1>5, SynRest DEF Heard
  <1>10. Heard(a, s, o, Tail(v), g, TRUE)
    BY <1>2, <1>8, <1>9 DEF Heard, SameAsked, told
  <1> QED BY <1>10 DEF g

\* The other side resets the stream.
LEMMA HeardRst ==
    ASSUME NEW a, NEW s, NEW o \in End, NEW v \in Seq(Frames), v # <<>>, NEW e \in End,
           NEW f, f = Head(v), f.kind = "RST", e.known
    PROVE  HeardFrame(a, s, o, v, e, AfterFrame(e, f))
  <1> SUFFICES ASSUME Heard(a, s, o, v, e, TRUE)
               PROVE  Heard(a, s, o, Tail(v), AfterFrame(e, f), TRUE)
    BY DEF HeardFrame
  <1> DEFINE g == AfterFrame(e, f)
  <1>1. f \in Frames
    BY RestFacts
  <1>2. SameAsked(e, g) /\ g.rx = <<>> /\ ~g.known /\ g.reset /\ g \in End
    BY <1>1, FrameFields
  <1> HIDE DEF g
  <1>3. e # NoEnd
    BY DEF NoEnd
  <1>4. NoSyn(v, s)
    BY <1>3 DEF Heard, SynFirst, NoSyn
  <1>5. NoSyn(Tail(v), s)
    BY <1>4, RestFacts DEF NoSyn
  <1>6. Heard(a, s, o, Tail(v), g, TRUE)
    BY <1>2, <1>5, HeardReset DEF SameAsked
  <1> QED BY <1>6 DEF g

\* An end of this implementation moves from e to g, and the frames for it
\* from v to v2.
LEMMA PairHears ==
    ASSUME NEW p \in Side, NEW s \in Sid, NEW e, NEW w, NEW f, NEW v, NEW rp, NEW rq,
           Pair(p, s, e, w, f, v, rp, rq), NEW g, NEW v2, NEW rp2, Local(p, s, g),
           Heard(p, s, e, w, f, rq) => Heard(p, s, g, w, f, rq),
           Native(p) => (Heard(Peer(p), s, f, v, e, rp) => Heard(Peer(p), s, f, v2, g, rp2)),
           (s[1] # p /\ g.protocol = "none") => e.protocol = "none",
           (s[1] = p /\ f.protocol = "none" /\ Undecided(s, v, e)) => Undecided(s, v2, g)
    PROVE  Pair(p, s, g, w, f, v2, rp2, rq)
  <1>1. Peer(p) \in Side /\ Peer(p) # p /\ Peer(Peer(p)) = p
    BY Sides
  <1>2. Half(p, s, g, w, f, rq)
    BY DEF Pair, Half
  <1>3. s[1] # Peer(p) => s[1] = p
    BY Sides, StreamsAssumption DEF Sid
  <1>4. Local(Peer(p), s, f)
    BY DEF Pair, Half
  <1>5. Native(p) => Heard(Peer(p), s, f, v2, g, rp2)
    BY <1>1 DEF Pair, Half
  <1>6. (Native(p) /\ Native(Peer(p)) /\ s[1] # Peer(p) /\ f.protocol = "none") =>
            Undecided(s, v2, g)
    BY <1>1, <1>3 DEF Pair, Half
  <1>7. Half(Peer(p), s, f, v2, g, rp2)
    BY <1>1, <1>4, <1>5, <1>6 DEF Half
  <1> QED BY <1>2, <1>7 DEF Pair

\* The end of a stream after the frame f for it.
Taken(e, f) == IF f.kind = "SYN" \/ e.known THEN AfterFrame(e, f) ELSE e

\* An end that has said, heard and been told nothing.
Untouched(n) ==
    /\ n.stage = "None" /\ n.detail = "none" /\ n.protocol = "none"
    /\ n.said = <<>> /\ n.buffer = <<>> /\ n.rx = <<>> /\ n.got = <<>> /\ n.appRx = <<>>
    /\ n.reset = FALSE /\ n.writeClosed = FALSE /\ n.handle = FALSE

LEMMA UntouchedEnds == Untouched(NoEnd) /\ Untouched(NewYamuxStream) /\ NewYamuxStream.known
  <1>1. Untouched(NoEnd)
    BY DEF NoEnd, Untouched
  <1> DEFINE n == NoEnd
  <1>2. n \in End
    BY NoEndType
  <1> HIDE DEF n
  <1>3. Untouched(n) => Untouched([n EXCEPT !.known = TRUE])
    BY <1>2 DEF Untouched, End
  <1>4. [n EXCEPT !.known = TRUE].known
    BY <1>2 DEF End
  <1> QED BY <1>1, <1>3, <1>4 DEF n, NewYamuxStream

\* An end of this implementation takes a frame.
LEMMA FrameTalks ==
    ASSUME NEW p \in Side, NEW s \in Sid, Native(p), NEW e \in End, NEW w, NEW f \in End,
           NEW v \in Seq(Frames), NEW rq, Pair(p, s, e, w, f, v, TRUE, rq), v # <<>>,
           NEW h, h = Head(v), h.s = s
    PROVE  Pair(p, s, Taken(e, h), w, f, Tail(v), TRUE, rq)
  <1> DEFINE g == Taken(e, h)
  <1>1. /\ EndOk(e) /\ (s[1] = p => OpenerOk(e)) /\ (s[1] # p => AcceptorOk(p, e))
        /\ Heard(Peer(p), s, f, v, e, TRUE) /\ Peer(p) # p
    BY PairFacts, Sides
  <1>2. h \in Frames /\ h.kind \in {"SYN", "DATA", "FIN", "RST"}
    BY RestFacts DEF Frames
  <1>3. \A x : Undecided(s, v, x) => Undecided(s, Tail(v), x)
    <2> DEFINE t == Tail(v)
    <2>1. \A i \in DOMAIN t : i + 1 \in DOMAIN v /\ t[i] = v[i + 1]
      BY RestFacts
    <2> HIDE DEF t
    <2>2. \A x : Undecided(s, v, x) => Undecided(s, t, x)
      BY <2>1 DEF Undecided
    <2> QED BY <2>2 DEF t
  <1>4. CASE h.kind = "SYN"
    <2>1. /\ HeardFrame(Peer(p), s, f, v, e, NewYamuxStream)
          /\ e = NoEnd /\ s[1] = Peer(p)
      <3> DEFINE q == Peer(p)
      <3>1. Heard(q, s, f, v, e, TRUE)
        BY <1>1
      <3> HIDE DEF q
      <3>2. HeardFrame(q, s, f, v, e, NewYamuxStream)
        BY <1>4, HeardSyn
      <3>3. IsSyn(v[1], s) /\ 1 \in DOMAIN v
        BY <1>4, RestFacts DEF IsSyn
      <3>4. e = NoEnd /\ s[1] = q
        BY <3>1, <3>3 DEF Heard, SynFirst
      <3> USE DEF q
      <3> QED BY <3>2, <3>4
    <2> DEFINE n == NewYamuxStream
    <2>2. g = n
      <3>1. g = AfterFrame(e, h)
        BY <1>4 DEF Taken
      <3> HIDE DEF g
      <3> QED BY <1>2, <1>4, <3>1, AfterFrameFacts
    <2>3. Untouched(n) /\ Untouched(NoEnd)
      BY UntouchedEnds
    <2> HIDE DEF g, n
    <2>4. EndOk(n) /\ AcceptorOk(p, n)
      BY <2>3 DEF EndOk, AcceptorOk, Untouched
    <2>5. Local(p, s, n)
      BY <1>1, <2>1, <2>4 DEF Local
    <2>6. Heard(p, s, e, w, f, rq) => Heard(p, s, n, w, f, rq)
      BY <2>1, <2>3, HeardSilent DEF Told, Untouched
    <2>7. Heard(Peer(p), s, f, v, e, TRUE) => Heard(Peer(p), s, f, Tail(v), n, TRUE)
      BY <2>1 DEF HeardFrame, n
    <2>8. Pair(p, s, n, w, f, Tail(v), TRUE, rq)
      BY <1>1, <2>1, <2>3, <2>5, <2>6, <2>7, PairHears DEF Untouched
    <2> QED BY <2>2, <2>8 DEF g
  <1>5. CASE h.kind # "SYN" /\ ~e.known
    <2>1. g = e
      BY <1>5 DEF Taken
    <2>2. Heard(Peer(p), s, f, v, e, TRUE) => Heard(Peer(p), s, f, Tail(v), e, TRUE)
      BY <1>5, HeardDropped DEF HeardFrame
    <2>3. Local(p, s, e)
      BY <1>1 DEF Local
    <2>4. Pair(p, s, e, w, f, Tail(v), TRUE, rq)
      BY <1>3, <2>2, <2>3, PairHears
    <2> QED BY <2>1, <2>4
  <1>6. CASE h.kind # "SYN" /\ e.known
    <2> DEFINE n == AfterFrame(e, h)
    <2>1. g = n
      BY <1>6 DEF Taken
    <2>2. ~e.reset
      BY <1>1, <1>6 DEF EndOk
    <2>3. SameAsked(e, n)
      BY <1>2, <1>6, FrameFields
    <2>4. h.kind \in {"DATA", "FIN"} =>
              n.known = e.known /\ n.reset = e.reset /\ n.writeClosed = e.writeClosed
      BY <1>2, FrameFields
    <2>5. h.kind = "RST" => n.rx = <<>> /\ ~n.known /\ n.reset
      BY <1>2, FrameFields
    <2>6. Heard(Peer(p), s, f, v, e, TRUE) => Heard(Peer(p), s, f, Tail(v), n, TRUE)
      <3>1. CASE h.kind = "RST"
        BY <1>6, <3>1, HeardRst DEF HeardFrame
      <3>2. CASE h.kind \in {"DATA", "FIN"}
        BY <1>6, <2>2, <3>2, HeardMore DEF HeardFrame
      <3> QED BY <1>2, <1>6, <3>1, <3>2
    <2> HIDE DEF g, n
    <2>7. n.reset => n.rx = <<>> /\ ~n.known
      BY <1>2, <1>6, <2>2, <2>4, <2>5
    <2>8. EndOk(n)
      BY <1>1, <2>3, <2>7 DEF EndOk, Over, SameAsked
    <2>9. s[1] = p => OpenerOk(n)
      BY <1>1, <2>3 DEF OpenerOk, SameAsked
    <2>10. s[1] # p => AcceptorOk(p, n)
      BY <1>1, <2>3 DEF AcceptorOk, SameAsked
    <2>11. Local(p, s, n)
      BY <2>8, <2>9, <2>10 DEF Local
    <2>12. Heard(p, s, e, w, f, rq) => Heard(p, s, n, w, f, rq)
      BY <2>3, HeardSilent DEF Told, SameAsked
    <2>13. Undecided(s, v, e) => Undecided(s, Tail(v), n)
      <3>1. ASSUME Undecided(s, v, e)
            PROVE  h.kind \in {"DATA", "FIN"}
        <4>1. v[1] = h /\ 1 \in DOMAIN v
          BY RestFacts
        <4> QED BY <1>2, <1>6, <3>1, <4>1 DEF Undecided
      <3>2. ASSUME Undecided(s, v, e)
            PROVE  Undecided(s, v, n)
        BY <2>3, <2>4, <3>1, <3>2 DEF Undecided, SameAsked
      <3> QED BY <1>3, <3>2
    <2>14. Pair(p, s, n, w, f, Tail(v), TRUE, rq)
      BY ZenonT(60), <2>3, <2>6, <2>11, <2>12, <2>13, PairHears DEF SameAsked
    <2> QED BY <2>1, <2>14 DEF g
  <1> QED BY <1>4, <1>5, <1>6

\* An end reads no more, and what was on its way to it is dropped or stays.
LEMMA DeafTalks ==
    ASSUME NEW p \in Side, NEW s \in Sid, NEW e \in End, NEW w, NEW f,
           NEW v \in Seq(Frames), NEW rp, NEW rq, Pair(p, s, e, w, f, v, rp, rq),
           NEW v2 \in Seq(Frames), v2 = v \/ v2 = <<>>
    PROVE  Pair(p, s, e, w, f, v2, FALSE, rq)
  <1>1. \A i \in DOMAIN v2 : i \in DOMAIN v /\ v2[i] = v[i]
    OBVIOUS
  <1>2. ASSUME Heard(Peer(p), s, f, v, e, rp)
        PROVE  Heard(Peer(p), s, f, v2, e, FALSE)
    <2>1. Follows(s, f.said, v2, e, FALSE)
      BY <1>2 DEF Heard, Follows, Sees
    <2>2. SynFirst(Peer(p), s, v2, e, FALSE)
      BY <1>1, <1>2 DEF Heard, SynFirst
    <2> QED BY <1>2, <2>1, <2>2 DEF Heard
  <1>3. Undecided(s, v, e) => Undecided(s, v2, e)
    BY <1>1 DEF Undecided
  <1>4. Local(p, s, e)
    BY DEF Pair, Half
  <1> QED BY <1>2, <1>3, <1>4, PairHears

----------------------------------------------------------------------------
(* TalkInv.                                                                *)

\* What TalkInv says of the frames from a to its peer.
Talk(a, t) == Half(a, t, st[a][t], wire[a], st[Peer(a)][t], link[Peer(a)] = "up")

AllTalk == \A a \in Side, t \in Sid : Talk(a, t)

LEMMA TalkParts ==
    ASSUME FreshStreams', Roles', AllTalk'
    PROVE  TalkInv'
  BY DEF TalkInv, AllTalk, Talk

\* Half of the next state, from its values; streams that are opened are as
\* before.
LEMMA HalfLift ==
    ASSUME conf' = conf, NEW a, NEW t, NEW o, NEW w, NEW e, NEW up,
           o = st'[a][t], w = wire'[a], e = st'[Peer(a)][t], up = (link'[Peer(a)] = "up"),
           Half(a, t, o, w, e, up), Begun(t)' => Begun(t)
    PROVE  Talk(a, t)'
  <1>1. (Half(a, t, o, w, e, up))'
    <2>1. \A b : Native(b)' = Native(b)
      BY DEF Native
    <2>2. Told(a, t, o)' => Told(a, t, o)
      BY <2>1 DEF Told
    <2>3. Local(a, t, o)'
      BY <2>1 DEF Half, Local, AcceptorOk
    <2>4. Heard(a, t, o, w, e, up) => Heard(a, t, o, w, e, up)'
      BY <2>2 DEF Heard
    <2> QED BY <2>1, <2>3, <2>4 DEF Half
  <1> QED BY <1>1 DEF Talk

LEMMA TalkLift ==
    ASSUME conf' = conf, NEW a, NEW t, Begun(t)' => Begun(t),
           Half(a, t, st'[a][t], wire'[a], st'[Peer(a)][t], link'[Peer(a)] = "up")
    PROVE  Talk(a, t)'
  <1>1. PICK o, w, e, up : /\ o = st'[a][t] /\ w = wire'[a] /\ e = st'[Peer(a)][t]
                           /\ up = (link'[Peer(a)] = "up")
    OBVIOUS
  <1>2. Half(a, t, o, w, e, up)
    BY <1>1
  <1> QED BY <1>1, <1>2, HalfLift

LEMMA PairOf ==
    ASSUME TalkInv, NEW p \in Side, NEW s \in Sid
    PROVE  Pair(p, s, st[p][s], wire[p], st[Peer(p)][s], wire[Peer(p)],
                link[p] = "up", link[Peer(p)] = "up")
  <1>1. Peer(p) \in Side /\ Peer(Peer(p)) = p
    BY Sides
  <1>2. /\ Half(p, s, st[p][s], wire[p], st[Peer(p)][s], link[Peer(p)] = "up")
        /\ Half(Peer(p), s, st[Peer(p)][s], wire[Peer(p)], st[Peer(Peer(p))][s],
                link[Peer(Peer(p))] = "up")
    BY <1>1 DEF TalkInv
  <1> QED BY <1>1, <1>2 DEF Pair

\* Streams that are not opened, pending or accepted stay so.
LEMMA RolesKept ==
    ASSUME PollInv, TalkInv, NEW p \in Side, NEW s \in Sid, Begun(s),
           \A q \in Side, t \in Sid : ~(q = p /\ t = s) => st'[q][t] = st[q][t],
           ~Native(p) \/ (st[p][s].stage # "None" /\ st'[p][s].stage # "None"),
           \A q \in Side : \A i \in DOMAIN wire'[q] :
               wire'[q][i].s = s \/ \E j \in DOMAIN wire[q] : wire'[q][i].s = wire[q][j].s,
           \A q \in Side : pending'[q] \subseteq pending[q],
           UNCHANGED <<opened, accepting, conf>>
    PROVE  FreshStreams' /\ Roles'
  <1>1. FreshStreams'
    <2>1. \A t \in Sid : Begun(t)' = Begun(t)
      BY DEF Begun
    <2>2. \A t \in Sid : ~Begun(t) => t # s
      OBVIOUS
    <2> QED BY <2>1, <2>2 DEF TalkInv, FreshStreams
  <1>2. Roles'
    <2>1. /\ \A q \in Side : pending[q] \subseteq Sid /\ accepting[q] \subseteq Sid
          /\ ~Native(p) => pending[p] = {} /\ accepting[p] = {}
      BY DEF PollInv, TypeInv, Rounds
    <2>2. ASSUME NEW q \in Side, NEW t \in pending'[q]
          PROVE  st'[q][t].stage # "None"
      BY <2>1, <2>2 DEF TalkInv, Roles
    <2>3. ASSUME NEW q \in Side, NEW t \in accepting'[q]
          PROVE  /\ t[1] = Peer(q) /\ st'[q][t].stage = "None"
                 /\ st'[q][t].known \/ st'[q][t].reset
      BY <2>1, <2>3 DEF TalkInv, Roles
    <2> QED BY <2>2, <2>3 DEF Roles
  <1> QED BY <1>1, <1>2

\* One end of a stream changes, and sends frames of the stream.
LEMMA EndTalks ==
    ASSUME PollInv, TalkInv, NEW p \in Side, NEW s \in Sid, NEW e \in End,
           NEW frames \in Seq(Frames), SetEnd(p, s, e), Send(p, frames), AllOf(frames, s),
           Pair(p, s, e, wire[p] \o frames, st[Peer(p)][s], wire[Peer(p)],
                link[p] = "up", link[Peer(p)] = "up"),
           Begun(s), ~Native(p) \/ (st[p][s].stage # "None" /\ e.stage # "None"),
           \A q \in Side : pending'[q] \subseteq pending[q],
           UNCHANGED <<opened, accepting, conf, link>>
    PROVE  TalkInv'
  <1> DEFINE q == Peer(p)
  <1>1. /\ q \in Side /\ q # p /\ Peer(q) = p /\ \A a \in Side : a = p \/ a = q
    BY Sides
  <1>2. /\ st'[p][s] = e
        /\ \A a \in Side, t \in Sid : ~(a = p /\ t = s) => st'[a][t] = st[a][t]
        /\ wire'[p] = wire[p] \o frames
        /\ \A a \in Side : a # p => wire'[a] = wire[a]
    BY EndStepType DEF PollInv
  <1>3. wire[p] \in Seq(Frames)
    BY StateTypes DEF PollInv
  <1>4. ASSUME NEW a \in Side, NEW t \in Sid
        PROVE  Half(a, t, st'[a][t], wire'[a], st'[Peer(a)][t], link'[Peer(a)] = "up")
    <2>1. Half(a, t, st[a][t], wire[a], st[Peer(a)][t], link[Peer(a)] = "up")
      BY DEF TalkInv
    <2>2. CASE t = s /\ a = p
      BY <1>1, <1>2, <2>2 DEF Pair
    <2>3. CASE t = s /\ a = q
      BY <1>1, <1>2, <2>3 DEF Pair
    <2>4. CASE t # s /\ a = p
      <3>1. NotOf(frames, t)
        BY <2>4 DEF AllOf, NotOf
      <3>2. Half(p, t, st[p][t], wire[p] \o frames, st[q][t], link[q] = "up")
        BY <1>3, <2>1, <2>4, <3>1, HalfOthers
      <3> QED BY <1>1, <1>2, <2>4, <3>2
    <2>5. CASE t # s /\ a = q
      BY <1>1, <1>2, <2>1, <2>5
    <2> QED BY <1>1, <2>2, <2>3, <2>4, <2>5
  <1>5. AllTalk'
    <2>1. ASSUME NEW a \in Side, NEW t \in Sid
          PROVE  Talk(a, t)'
      <3>1. Begun(t)' => Begun(t)
        BY DEF Begun
      <3> QED BY <1>4, <3>1, TalkLift
    <2> QED BY <2>1 DEF AllTalk
  <1>6. \A a \in Side : \A i \in DOMAIN wire'[a] :
            wire'[a][i].s = s \/ \E j \in DOMAIN wire[a] : wire'[a][i].s = wire[a][j].s
    <2> DEFINE v == wire[p] \o frames
    <2>1. \A i \in DOMAIN v : v[i].s = s \/ \E j \in DOMAIN wire[p] : v[i].s = wire[p][j].s
      <3> DEFINE w == wire[p]
      <3>1. w \in Seq(Frames)
        BY <1>3
      <3> HIDE DEF w
      <3> QED BY <3>1, JoinFacts DEF AllOf
    <2> HIDE DEF v
    <2>2. ASSUME NEW a \in Side, NEW i \in DOMAIN wire'[a]
          PROVE  wire'[a][i].s = s \/ \E j \in DOMAIN wire[a] : wire'[a][i].s = wire[a][j].s
      <3>1. CASE a = p
        BY ZenonT(60), <1>2, <2>1, <2>2, <3>1 DEF v
      <3>2. CASE a # p
        <4>1. wire'[a] = wire[a]
          BY <1>2, <3>2
        <4> QED BY <2>2, <4>1
      <3> QED BY <3>1, <3>2
    <2> QED BY <2>2
  <1>7. FreshStreams' /\ Roles'
    BY <1>2, <1>6, RolesKept
  <1> QED BY <1>5, <1>7, TalkParts

\* A stream that has a stage is opened.
LEMMA StagedBegun ==
    ASSUME TalkInv, NEW p \in Side, NEW s \in Sid, st[p][s].stage # "None"
    PROVE  Begun(s)
  BY DEF TalkInv, FreshStreams, NoEnd

\* A poll of an end of this implementation.
LEMMA PolledTalks ==
    ASSUME PollInv, TalkInv, NEW p \in Side, NEW s \in Sid, Native(p),
           st[p][s].stage # "None", NEW ok
    PROVE  LET r == Polled(p, s, ok) IN
           /\ Pair(p, s, r.e, wire[p] \o r.out, st[Peer(p)][s], wire[Peer(p)],
                   link[p] = "up", link[Peer(p)] = "up")
           /\ AllOf(r.out, s) /\ r.e.stage # "None" /\ Begun(s)
           /\ r.e \in End /\ r.out \in Seq(Frames) /\ r.e.handle = st[p][s].handle
  <1>1. /\ st[p][s] \in End /\ wire[p] \in Seq(Frames) /\ st[Peer(p)][s] \in End
        /\ conf.handlers[p] \in SUBSET Protocols /\ Asks(st[p][s])
    BY Sides, StateTypes DEF PollInv, ProposalsNamed
  <1>2. Begun(s)
    BY StagedBegun
  <1>3. Pair(p, s, st[p][s], wire[p], st[Peer(p)][s], wire[Peer(p)],
             link[p] = "up", link[Peer(p)] = "up")
    BY PairOf
  <1> DEFINE e == st[p][s]
             w == wire[p]
             f == st[Peer(p)][s]
             v == wire[Peer(p)]
             rp == link[p] = "up"
             rq == link[Peer(p)] = "up"
             r == Poll(s, e, conf.handlers[p], ok)
  <1>4. Pair(p, s, e, w, f, v, rp, rq)
    BY <1>3
  <1>5. e \in End /\ w \in Seq(Frames) /\ f \in End /\ Asks(e) /\ e.stage # "None"
    BY <1>1
  <1> HIDE DEF e, w, f, v, rp, rq
  <1>6. /\ Pair(p, s, r.e, w \o r.out, f, v, rp, rq)
        /\ AllOf(r.out, s) /\ r.e.stage # "None"
    BY <1>1, <1>2, <1>4, <1>5, PollTalks
  <1>7. r.e \in End /\ r.out \in Seq(Frames) /\ SameHandle(e, r.e)
    BY <1>1, <1>5, PollFacts
  <1> HIDE DEF r
  <1>8. r = Polled(p, s, ok)
    BY DEF r, e, Polled
  <1>9. r.e.handle = st[p][s].handle
    BY <1>7 DEF SameHandle, e
  <1> QED BY <1>2, <1>6, <1>7, <1>8, <1>9 DEF e, w, f, v, rp, rq

\* What the application may call.
LEMMA CallFacts ==
    ASSUME PollInv, TalkInv, NEW p \in Side, NEW s \in Sid, MayCall(p, s)
    PROVE  Native(p) /\ st[p][s].handle /\ st[p][s].stage # "None" /\ Begun(s)
  <1>1. Native(p) /\ st[p][s].handle
    BY DEF MayCall
  <1>2. st[p][s] \in End /\ st[Peer(p)][s] \in End
    BY Sides, StateTypes DEF PollInv
  <1>3. EndOk(st[p][s])
    BY <1>1, <1>2, PairOf, PairFacts
  <1>4. st[p][s].stage # "None"
    BY <1>1, <1>3 DEF EndOk
  <1> QED BY <1>1, <1>4, StagedBegun

LEMMA TalkCall ==
    ASSUME PollInv, TalkInv, NEW p \in Side, NEW s \in Sid, MayCall(p, s),
           NEW e \in End, NEW frames \in Seq(Frames), HandleCall(p, s, e, frames),
           AllOf(frames, s), e.stage # "None",
           Pair(p, s, e, wire[p] \o frames, st[Peer(p)][s], wire[Peer(p)],
                link[p] = "up", link[Peer(p)] = "up")
    PROVE  TalkInv'
  <1>1. SetEnd(p, s, e) /\ Send(p, frames) /\ UNCHANGED <<opened, accepting, conf, link, pending>>
    BY DEF HandleCall
  <1>2. \A q \in Side : pending'[q] \subseteq pending[q]
    BY <1>1
  <1> QED BY <1>1, <1>2, CallFacts, EndTalks

LEMMA TalkTryRead ==
    ASSUME PollInv, TalkInv, NEW p \in Side, NEW s \in Sid, TryRead(p, s)
    PROVE  TalkInv'
  <1>1. PICK ok : LET r == Polled(p, s, ok) IN
           HandleCall(p, s, IF r.e.stage = "Ready" THEN ReadNext(r.e) ELSE r.e, r.out)
    BY DEF TryRead
  <1> DEFINE r == Polled(p, s, ok)
             f == r.e
             e == IF f.stage = "Ready" THEN ReadNext(f) ELSE f
             out == r.out
             w == wire[p] \o out
             Talks(x) == Pair(p, s, x, w, st[Peer(p)][s], wire[Peer(p)],
                              link[p] = "up", link[Peer(p)] = "up")
  <1>2. MayCall(p, s) /\ HandleCall(p, s, e, out)
    BY <1>1 DEF TryRead
  <1>3. Native(p) /\ st[p][s].stage # "None"
    BY <1>2, CallFacts
  <1>4. /\ Talks(f) /\ f.stage # "None" /\ AllOf(out, s)
        /\ f \in End /\ out \in Seq(Frames)
    BY <1>3, PolledTalks
  <1> HIDE DEF f, out
  <1>5. e \in End /\ e.stage # "None" /\ Talks(e)
    <2>1. CASE f.stage = "Ready"
      <3>1. e = ReadNext(f)
        BY <2>1
      <3>2. st[Peer(p)][s] \in End
        BY Sides, StateTypes DEF PollInv
      <3>3. Talks(ReadNext(f))
        <4> HIDE DEF w
        <4> QED BY <1>3, <1>4, <2>1, <3>2, ReadNextTalks
      <3>4. ReadNext(f) \in End /\ ReadNext(f).stage # "None"
        BY <1>4, <2>1, ReadNextFacts
      <3> HIDE DEF e
      <3> QED BY <3>1, <3>3, <3>4
    <2>2. CASE f.stage # "Ready"
      <3>1. e = f
        BY <2>2
      <3> HIDE DEF e
      <3> QED BY <1>4, <3>1
    <2> QED BY <2>1, <2>2
  <1> HIDE DEF e
  <1> QED BY <1>2, <1>4, <1>5, TalkCall

\* A frame follows others.
LEMMA FrameFollows ==
    ASSUME NEW w \in Seq(Frames), NEW out \in Seq(Frames), NEW s, AllOf(out, s),
           NEW frame \in Frames, frame.s = s
    PROVE  /\ Append(out, frame) \in Seq(Frames) /\ AllOf(Append(out, frame), s)
           /\ (w \o out) \o <<frame>> = w \o Append(out, frame)
  <1> DEFINE one == <<frame>>
  <1>1. one \in Seq(Frames) /\ Append(out, frame) = out \o one
    OBVIOUS
  <1>2. AllOf(one, s)
    BY DEF AllOf
  <1> HIDE DEF one
  <1>3. (w \o out) \o one = w \o (out \o one)
    BY <1>1, ConcatAssociative
  <1>4. AllOf(out \o one, s)
    BY <1>1, <1>2, JoinFacts DEF AllOf
  <1>5. out \o one \in Seq(Frames)
    BY <1>1
  <1> QED BY <1>1, <1>3, <1>4, <1>5 DEF one

LEMMA TalkTryWrite ==
    ASSUME PollInv, TalkInv, NEW p \in Side, NEW s \in Sid, TryWrite(p, s)
    PROVE  TalkInv'
  <1>1. PICK ok : LET r == Polled(p, s, ok)
                      m == App(Len(r.e.said) + 1)
                  IN /\ r.e.stage = "Ready"
                     /\ HandleCall(p, s, Says(r.e, <<m>>),
                                   Append(r.out, Frame(s, "DATA", <<m>>)))
    BY DEF TryWrite
  <1> DEFINE r == Polled(p, s, ok)
             f == r.e
             out == r.out
             body == <<App(Len(f.said) + 1)>>
             e == Says(f, body)
             frame == Frame(s, "DATA", body)
             frames == Append(out, frame)
             w == wire[p] \o out
  <1>2. MayCall(p, s) /\ HandleCall(p, s, e, frames) /\ f.stage = "Ready"
    BY <1>1 DEF TryWrite
  <1>3. Native(p) /\ st[p][s].stage # "None"
    BY <1>2, CallFacts
  <1>4. /\ Pair(p, s, f, w, st[Peer(p)][s], wire[Peer(p)],
                link[p] = "up", link[Peer(p)] = "up")
        /\ AllOf(out, s) /\ f \in End /\ out \in Seq(Frames) /\ Begun(s)
    BY <1>3, PolledTalks
  <1>5. wire[p] \in Seq(Frames) /\ st[Peer(p)][s] \in End
    BY Sides, StateTypes DEF PollInv
  <1> HIDE DEF f, out
  <1>6. body \in Seq(Message)
    <2>1. Len(f.said) + 1 \in Nat
      BY <1>4 DEF End
    <2> QED BY <2>1, MessageType
  <1> HIDE DEF body
  <1>7. frame \in Frames /\ frame.s = s
    BY <1>6, FrameType DEF Frame
  <1>8. w \in Seq(Frames)
    BY <1>4, <1>5
  <1>9. Pair(p, s, e, w \o <<frame>>, st[Peer(p)][s], wire[Peer(p)],
             link[p] = "up", link[Peer(p)] = "up")
    <2> HIDE DEF w
    <2> QED BY <1>2, <1>3, <1>4, <1>5, <1>6, <1>8, WriteTalks
  <1>10. e \in End /\ e.stage # "None"
    BY <1>2, <1>4, <1>6, SaysFacts
  <1> HIDE DEF e, frame
  <1>11. /\ frames \in Seq(Frames) /\ AllOf(frames, s)
         /\ w \o <<frame>> = wire[p] \o frames
    BY <1>4, <1>5, <1>7, FrameFollows
  <1> HIDE DEF frames, w
  <1>12. Pair(p, s, e, wire[p] \o frames, st[Peer(p)][s], wire[Peer(p)],
              link[p] = "up", link[Peer(p)] = "up")
    BY <1>9, <1>11
  <1> QED BY <1>2, <1>10, <1>11, <1>12, TalkCall

LEMMA TalkCloseWrite ==
    ASSUME PollInv, TalkInv, NEW p \in Side, NEW s \in Sid, CloseWrite(p, s)
    PROVE  TalkInv'
  <1>1. PICK ok : LET r == Polled(p, s, ok) IN
                  /\ r.e.stage = "Ready"
                  /\ HandleCall(p, s, [r.e EXCEPT !.writeClosed = TRUE],
                                Append(r.out, Frame(s, "FIN", <<>>)))
    BY DEF CloseWrite
  <1> DEFINE r == Polled(p, s, ok)
             f == r.e
             out == r.out
             nil == <<>>
             e == [f EXCEPT !.writeClosed = TRUE]
             frame == Frame(s, "FIN", nil)
             frames == Append(out, frame)
             w == wire[p] \o out
  <1>2. MayCall(p, s) /\ HandleCall(p, s, e, frames) /\ f.stage = "Ready"
    BY <1>1 DEF CloseWrite
  <1>3. Native(p) /\ st[p][s].stage # "None"
    BY <1>2, CallFacts
  <1>4. /\ Pair(p, s, f, w, st[Peer(p)][s], wire[Peer(p)],
                link[p] = "up", link[Peer(p)] = "up")
        /\ AllOf(out, s) /\ f \in End /\ out \in Seq(Frames) /\ Begun(s)
    BY <1>3, PolledTalks
  <1>5. wire[p] \in Seq(Frames) /\ st[Peer(p)][s] \in End
    BY Sides, StateTypes DEF PollInv
  <1> HIDE DEF f, out
  <1>6. nil \in Seq(Message)
    OBVIOUS
  <1>7. w \in Seq(Frames)
    BY <1>4, <1>5
  <1>8. Pair(p, s, e, w \o <<frame>>, st[Peer(p)][s], wire[Peer(p)],
             link[p] = "up", link[Peer(p)] = "up")
    <2> HIDE DEF w
    <2> QED BY <1>2, <1>3, <1>4, <1>5, <1>7, CloseTalks
  <1> HIDE DEF nil
  <1>9. frame \in Frames /\ frame.s = s
    BY <1>6, FrameType DEF Frame
  <1>10. e \in End /\ e.stage # "None"
    BY <1>2, <1>4 DEF End
  <1> HIDE DEF e, frame
  <1>11. /\ frames \in Seq(Frames) /\ AllOf(frames, s)
         /\ w \o <<frame>> = wire[p] \o frames
    BY <1>4, <1>5, <1>9, FrameFollows
  <1> HIDE DEF frames, w
  <1>12. Pair(p, s, e, wire[p] \o frames, st[Peer(p)][s], wire[Peer(p)],
              link[p] = "up", link[Peer(p)] = "up")
    BY <1>8, <1>11
  <1> QED BY <1>2, <1>10, <1>11, <1>12, TalkCall

LEMMA TalkReset ==
    ASSUME PollInv, TalkInv, NEW p \in Side, NEW s \in Sid, Reset(p, s)
    PROVE  TalkInv'
  <1> DEFINE e == ResetEnd(st[p][s])
             nil == <<>>
             frames == <<Frame(s, "RST", nil)>>
  <1>1. MayCall(p, s) /\ HandleCall(p, s, e, frames)
    BY DEF Reset, ResetEnd
  <1>2. frames \in Seq(Frames) /\ AllOf(frames, s)
    BY EndFrame
  <1>3. st[p][s] \in End /\ wire[p] \in Seq(Frames) /\ st[Peer(p)][s] \in End
    BY Sides, StateTypes DEF PollInv
  <1>4. e \in End /\ e.stage # "None"
    BY <1>3, ResetFacts
  <1>5. Native(p) /\ st[p][s].handle /\ Begun(s)
    BY <1>1, CallFacts
  <1>6. Pair(p, s, e, wire[p] \o frames, st[Peer(p)][s], wire[Peer(p)],
             link[p] = "up", link[Peer(p)] = "up")
    <2>1. Pair(p, s, st[p][s], wire[p], st[Peer(p)][s], wire[Peer(p)],
               link[p] = "up", link[Peer(p)] = "up")
      BY PairOf
    <2> QED BY <1>3, <1>5, <2>1, ResetTalks
  <1> HIDE DEF e, frames
  <1> QED BY <1>1, <1>2, <1>4, <1>6, TalkCall

LEMMA TalkPollStream ==
    ASSUME PollInv, TalkInv, NEW p \in Side, NEW s \in Sid, PollStream(p, s)
    PROVE  TalkInv'
  <1> USE DEF PollInv
  <1>1. PICK ok :
          LET r == Polled(p, s, ok) IN
          /\ SetEnd(p, s, Report(p, r.e))
          /\ Send(p, IF link[p] = "gone" THEN <<>> ELSE r.out)
          /\ pending' = [pending EXCEPT ![p] = IF Settled(r.e) THEN @ \ {s} ELSE @]
    BY DEF PollStream
  <1> DEFINE r == Polled(p, s, ok)
             f == r.e
             e == Report(p, f)
             out == r.out
             nil == <<>>
             frames == IF link[p] = "gone" THEN nil ELSE out
             w == wire[p] \o out
  <1>2. /\ SetEnd(p, s, e) /\ Send(p, frames)
        /\ pending' = [pending EXCEPT ![p] = IF Settled(f) THEN @ \ {s} ELSE @]
        /\ UNCHANGED <<conf, opened, link, accepting>>
    BY <1>1 DEF PollStream
  <1>3. /\ s \in pending[p] /\ Native(p) /\ st[p][s].stage # "None"
        /\ st[p][s].reports = <<>>
    <2>1. s \in pending[p] /\ Native(p) /\ st[p][s].reports = <<>>
      BY DEF PollStream, Rounds, ReportedOnce
    <2> QED BY <2>1 DEF TalkInv, Roles
  <1>4. /\ Pair(p, s, f, w, st[Peer(p)][s], wire[Peer(p)],
                link[p] = "up", link[Peer(p)] = "up")
        /\ AllOf(out, s) /\ f \in End /\ out \in Seq(Frames) /\ Begun(s) /\ f.stage # "None"
    BY <1>3, PolledTalks
  <1>5. wire[p] \in Seq(Frames) /\ st[Peer(p)][s] \in End
    BY Sides, StateTypes
  <1>6. link[p] = "gone" => out = nil
    <2>1. link[p] = "gone" => Idle(st[p][s])
      BY <1>3 DEF PendingIdle
    <2>2. Idle(st[p][s]) => out = nil
      BY PolledFacts DEF NoFrames
    <2> QED BY <2>1, <2>2
  <1>7. SameHandle(st[p][s], f)
    BY PolledFacts
  <1> HIDE DEF f, out
  <1>8. frames = out
    BY <1>6
  <1> HIDE DEF nil
  <1>9. Pair(p, s, e, w, st[Peer(p)][s], wire[Peer(p)],
             link[p] = "up", link[Peer(p)] = "up")
    <2> HIDE DEF w
    <2> QED BY <1>3, <1>4, <1>5, ReportTalks
  <1>10. e \in End /\ e.stage # "None"
    <2>1. f.reports = <<>>
      BY <1>3, <1>7 DEF SameHandle
    <2> QED BY <1>4, <2>1, ReportFacts
  <1>11. \A q \in Side : pending'[q] \subseteq pending[q]
    BY <1>2 DEF TypeInv
  <1> HIDE DEF e, frames
  <1>12. Send(p, out)
    BY <1>2, <1>8
  <1> USE DEF w
  <1>13. Pair(p, s, e, wire[p] \o out, st[Peer(p)][s], wire[Peer(p)],
              link[p] = "up", link[Peer(p)] = "up")
    BY <1>9
  <1> HIDE DEF PollInv, w
  <1> QED BY <1>2, <1>3, <1>4, <1>10, <1>11, <1>12, <1>13, EndTalks

\* What taking a frame keeps for the rounds of the Swarm.
LEMMA TakenRole ==
    ASSUME NEW e \in End, NEW h \in Frames
    PROVE  LET g == Taken(e, h) IN
           /\ g \in End
           /\ h.kind # "SYN" => /\ g.stage = e.stage
                                /\ (e.known \/ e.reset) => (g.known \/ g.reset)
           /\ h.kind = "SYN" => g.stage = "None" /\ g.known
  <1> DEFINE n == AfterFrame(e, h)
             g == Taken(e, h)
  <1>1. h.kind \in {"SYN", "DATA", "FIN", "RST"}
    BY DEF Frames
  <1>2. /\ n \in End
        /\ h.kind # "SYN" => SameAsked(e, n)
        /\ h.kind \in {"DATA", "FIN"} => n.known = e.known /\ n.reset = e.reset
        /\ h.kind = "RST" => n.reset
    BY FrameFields
  <1>3. h.kind = "SYN" => n = NewYamuxStream
    BY AfterFrameFacts
  <1>4. g = n \/ (g = e /\ h.kind # "SYN")
    BY DEF Taken
  <1>5. h.kind = "SYN" => n.stage = "None" /\ n.known
    BY <1>3, UntouchedEnds DEF Untouched
  <1> HIDE DEF n, g
  <1>6. g \in End
    BY <1>2, <1>4
  <1>7. h.kind # "SYN" => g.stage = e.stage
    BY <1>2, <1>4 DEF SameAsked
  <1>8. ASSUME h.kind # "SYN", e.known \/ e.reset
        PROVE  g.known \/ g.reset
    BY <1>1, <1>2, <1>4, <1>8
  <1>9. h.kind = "SYN" => g.stage = "None" /\ g.known
    BY <1>4, <1>5
  <1> QED BY <1>6, <1>7, <1>8, <1>9 DEF g

\* A SYN goes to an end that has nothing.
LEMMA SynMeans ==
    ASSUME NEW p \in Side, NEW s \in Sid, Native(p), NEW e, NEW w, NEW f, NEW v \in Seq(Frames),
           NEW rp, NEW rq, Pair(p, s, e, w, f, v, rp, rq), v # <<>>, IsSyn(Head(v), s)
    PROVE  e = NoEnd /\ s[1] = Peer(p)
  <1>1. Peer(Peer(p)) = p
    BY Sides
  <1>2. SynFirst(Peer(p), s, v, e, rp)
    BY <1>1 DEF Pair, Half, Heard
  <1>3. 1 \in DOMAIN v /\ v[1] = Head(v)
    BY RestFacts
  <1> QED BY <1>2, <1>3 DEF SynFirst

LEMMA TalkReceive ==
    ASSUME PollInv, TalkInv, NEW p \in Side, Receive(p)
    PROVE  TalkInv'
  <1> DEFINE q == Peer(p)
             v == wire[q]
             h == Head(v)
             s == h.s
             e == st[p][s]
             g == Taken(e, h)
             rest == Tail(v)
  <1>1. /\ q \in Side /\ q # p /\ Peer(q) = p /\ \A a \in Side : a = p \/ a = q
    BY Sides
  <1>2. v \in Seq(Frames) /\ v # <<>> /\ h \in Frames /\ rest \in Seq(Frames)
    <2>1. v \in Seq(Frames) /\ v # <<>>
      <3>1. wire \in [Side -> Seq(Frames)]
        BY DEF PollInv, TypeInv
      <3>2. wire[Peer(p)] # <<>>
        BY DEF Receive
      <3> QED BY <1>1, <3>1, <3>2
    <2> HIDE DEF v
    <2> QED BY <2>1, RestFacts
  <1>3. s \in Sid
    BY <1>2 DEF Frames
  <1>4. /\ Native(p) /\ link[p] = "up" /\ UNCHANGED <<conf, opened, link, pending>>
        /\ st' = [st EXCEPT ![p][s] = g]
        /\ wire' = [wire EXCEPT ![q] = rest]
        /\ accepting' = IF h.kind = "SYN" THEN [accepting EXCEPT ![p] = @ \cup {s}]
                                          ELSE accepting
    <2>1. /\ Native(p) /\ link[p] = "up" /\ UNCHANGED <<conf, opened, link, pending>>
          /\ st' = IF h.kind = "SYN" \/ e.known THEN [st EXCEPT ![p][s] = AfterFrame(e, h)]
                                                ELSE st
          /\ wire' = [wire EXCEPT ![q] = rest]
          /\ accepting' = IF h.kind = "SYN" THEN [accepting EXCEPT ![p] = @ \cup {s}]
                                            ELSE accepting
      BY DEF Receive
    <2>2. st = [st EXCEPT ![p][s] = e]
      BY <1>3 DEF PollInv, TypeInv
    <2>3. g = IF h.kind = "SYN" \/ e.known THEN AfterFrame(e, h) ELSE e
      BY DEF Taken
    <2> HIDE DEF e, g, h, rest, q
    <2> QED BY <2>1, <2>2, <2>3
  <1>5. /\ e \in End /\ st[q][s] \in End /\ wire[p] \in Seq(Frames)
    BY <1>1, <1>3, StateTypes DEF PollInv
  <1> HIDE DEF v, h, g, rest, q
  <1>6. /\ st'[p][s] = g
        /\ \A a \in Side, t \in Sid : ~(a = p /\ t = s) => st'[a][t] = st[a][t]
        /\ wire'[q] = rest /\ wire'[p] = wire[p]
    BY <1>1, <1>3, <1>4 DEF PollInv, TypeInv
  <1>7. Pair(p, s, e, wire[p], st[q][s], v, TRUE, link[q] = "up")
    <2>1. Pair(p, s, st[p][s], wire[p], st[q][s], wire[q], link[p] = "up", link[q] = "up")
      BY <1>3, PairOf DEF q
    <2>2. (link[p] = "up") = TRUE
      BY <1>4
    <2> QED BY <2>1, <2>2 DEF v
  <1>8. Pair(p, s, g, wire[p], st[q][s], rest, TRUE, link[q] = "up")
    <2>1. st[q][s] \in End /\ h = Head(v) /\ h.s = s
      BY <1>5 DEF h
    <2> HIDE DEF e, s
    <2> QED BY <1>2, <1>3, <1>4, <1>5, <1>7, <2>1, FrameTalks DEF g, rest
  <1>9. ASSUME NEW a \in Side, NEW t \in Sid
        PROVE  Half(a, t, st'[a][t], wire'[a], st'[Peer(a)][t], link'[Peer(a)] = "up")
    <2>1. Half(a, t, st[a][t], wire[a], st[Peer(a)][t], link[Peer(a)] = "up")
      BY DEF TalkInv
    <2>2. CASE t = s /\ a = p
      BY <1>1, <1>4, <1>6, <1>8, <2>2 DEF Pair, q
    <2>3. CASE t = s /\ a = q
      <3>1. Half(q, s, st[q][s], rest, g, TRUE)
        BY <1>8 DEF Pair, q
      <3>2. (link'[p] = "up") = TRUE
        BY <1>4
      <3> QED BY <1>1, <1>6, <2>3, <3>1, <3>2
    <2>4. CASE t # s /\ a = q
      <3>1. Half(q, t, st[q][t], v, st[p][t], link[p] = "up")
        BY <1>1, <2>1, <2>4 DEF v
      <3>2. Half(q, t, st[q][t], rest, st[p][t], link[p] = "up")
        <4>1. Head(v).s # t
          BY <2>4 DEF s, h
        <4> QED BY <1>2, <3>1, <4>1, HalfRestOthers DEF rest
      <3> QED BY <1>1, <1>4, <1>6, <2>4, <3>2
    <2>5. CASE t # s /\ a = p
      BY <1>1, <1>4, <1>6, <2>1, <2>5 DEF q
    <2> QED BY <1>1, <2>2, <2>3, <2>4, <2>5
  <1>10. AllTalk'
    <2>1. ASSUME NEW a \in Side, NEW t \in Sid
          PROVE  Talk(a, t)'
      <3>1. Begun(t)' => Begun(t)
        BY <1>4 DEF Begun
      <3> QED BY <1>4, <1>9, <3>1, TalkLift
    <2> QED BY <2>1 DEF AllTalk
  <1>11. FreshStreams'
    <2>1. \A t \in Sid : Begun(t)' = Begun(t)
      BY <1>4 DEF Begun
    <2>2. ASSUME NEW t \in Sid, ~Begun(t), NEW a \in Side
          PROVE  st'[a][t] = NoEnd /\ \A i \in DOMAIN wire'[a] : wire'[a][i].s # t
      <3>1. st[a][t] = NoEnd /\ \A b \in Side : \A i \in DOMAIN wire[b] : wire[b][i].s # t
        BY <2>2 DEF TalkInv, FreshStreams
      <3>2. 1 \in DOMAIN v /\ v[1] = h /\ \A i \in DOMAIN rest : i + 1 \in DOMAIN v /\ rest[i] = v[i + 1]
        BY <1>2, RestFacts DEF h, rest
      <3>3. t # s
        <4>1. \A i \in DOMAIN v : v[i].s # t
          BY <1>1, <3>1 DEF v
        <4> QED BY <3>2, <4>1 DEF s
      <3>4. st'[a][t] = NoEnd
        BY <1>6, <3>1, <3>3
      <3>5. \A i \in DOMAIN rest : rest[i].s # t
        BY <1>1, <3>1, <3>2 DEF v
      <3>6. wire'[a] = wire[a] \/ wire'[a] = rest
        BY <1>1, <1>6
      <3> QED BY <3>1, <3>4, <3>5, <3>6
    <2> QED BY <2>1, <2>2 DEF FreshStreams
  <1>12. /\ h.kind # "SYN" => g.stage = e.stage
         /\ (h.kind # "SYN" /\ (e.known \/ e.reset)) => (g.known \/ g.reset)
         /\ h.kind = "SYN" => g.stage = "None" /\ g.known
    <2> HIDE DEF e
    <2> QED BY <1>2, <1>5, TakenRole DEF g
  <1>13. h.kind = "SYN" => e = NoEnd /\ s[1] = q
    <2>1. h.kind = "SYN" => IsSyn(Head(v), s)
      BY DEF IsSyn, h
    <2> QED BY <1>2, <1>3, <1>4, <1>7, <2>1, SynMeans DEF q
  <1>14. Roles'
    <2>1. \A a \in Side : pending[a] \subseteq Sid /\ accepting[a] \subseteq Sid
      BY DEF PollInv, TypeInv
    <2>2. ASSUME NEW a \in Side, NEW t \in pending'[a]
          PROVE  st'[a][t].stage # "None"
      <3>1. t \in Sid /\ st[a][t].stage # "None"
        BY <1>4, <2>1, <2>2 DEF TalkInv, Roles
      <3>2. CASE a = p /\ t = s
        BY <1>6, <1>12, <1>13, <3>1, <3>2 DEF NoEnd
      <3>3. CASE ~(a = p /\ t = s)
        BY <1>6, <3>1, <3>3
      <3> QED BY <3>2, <3>3
    <2>3. ASSUME NEW a \in Side, NEW t \in accepting'[a]
          PROVE  /\ t[1] = Peer(a) /\ st'[a][t].stage = "None"
                 /\ st'[a][t].known \/ st'[a][t].reset
      <3>1. t \in accepting[a] \/ (a = p /\ t = s /\ h.kind = "SYN")
        <4>1. accepting'[a] = accepting[a]
              \/ (a = p /\ h.kind = "SYN" /\ accepting'[a] = accepting[a] \cup {s})
          BY <1>4 DEF PollInv, TypeInv
        <4> QED BY <2>3, <4>1
      <3>2. CASE a = p /\ t = s /\ h.kind = "SYN"
        BY <1>6, <1>12, <1>13, <3>2 DEF q
      <3>3. CASE t \in accepting[a] /\ ~(a = p /\ t = s)
        BY <1>6, <2>1, <3>3 DEF TalkInv, Roles
      <3>4. CASE t \in accepting[a] /\ a = p /\ t = s /\ h.kind # "SYN"
        <4>1. /\ t[1] = Peer(a) /\ e.stage = "None" /\ (e.known \/ e.reset)
          BY <2>1, <3>4 DEF TalkInv, Roles
        <4> QED BY <1>6, <1>12, <3>4, <4>1
      <3> QED BY <3>1, <3>2, <3>3, <3>4
    <2> QED BY <2>2, <2>3 DEF Roles
  <1> QED BY <1>10, <1>11, <1>14, TalkParts

\* A side reads no more.
LEMMA TalkDeaf ==
    ASSUME PollInv, TalkInv, NEW p \in Side, NEW x, x # "up",
           link' = [link EXCEPT ![p] = x],
           wire' = wire \/ wire' = [wire EXCEPT ![Peer(p)] = <<>>],
           \A q \in Side : pending'[q] \subseteq pending[q],
           UNCHANGED <<conf, opened, st, accepting>>
    PROVE  TalkInv'
  <1> DEFINE q == Peer(p)
  <1>1. /\ q \in Side /\ q # p /\ Peer(q) = p /\ \A a \in Side : a = p \/ a = q
    BY Sides
  <1>2. /\ (link'[p] = "up") = FALSE /\ link'[q] = link[q]
        /\ wire'[p] = wire[p] /\ (wire'[q] = wire[q] \/ wire'[q] = <<>>)
    BY <1>1 DEF PollInv, TypeInv
  <1>3. wire[q] \in Seq(Frames) /\ wire'[q] \in Seq(Frames)
    <2>1. wire[q] \in Seq(Frames)
      BY <1>1 DEF PollInv, TypeInv
    <2> DEFINE nil == <<>>
    <2>2. nil \in Seq(Frames)
      OBVIOUS
    <2> QED BY <1>2, <2>1, <2>2
  <1>4. ASSUME NEW t \in Sid
        PROVE  Pair(p, t, st[p][t], wire[p], st[q][t], wire'[q], FALSE, link[q] = "up")
    <2>1. Pair(p, t, st[p][t], wire[p], st[q][t], wire[q], link[p] = "up", link[q] = "up")
      BY PairOf
    <2>2. st[p][t] \in End
      BY StateTypes DEF PollInv
    <2>3. wire'[q] = wire[q] \/ wire'[q] = <<>>
      BY <1>2
    <2> HIDE DEF q
    <2> QED BY <1>3, <2>1, <2>2, <2>3, DeafTalks DEF q
  <1>5. ASSUME NEW a \in Side, NEW t \in Sid
        PROVE  Half(a, t, st'[a][t], wire'[a], st'[Peer(a)][t], link'[Peer(a)] = "up")
    <2>1. /\ Half(p, t, st[p][t], wire[p], st[q][t], link[q] = "up")
          /\ Half(q, t, st[q][t], wire'[q], st[p][t], FALSE)
      BY <1>4 DEF Pair
    <2>2. CASE a = p
      BY <1>2, <2>1, <2>2
    <2>3. CASE a = q
      BY <1>1, <1>2, <2>1, <2>3
    <2> QED BY <1>1, <2>2, <2>3
  <1>6. AllTalk'
    <2>1. ASSUME NEW a \in Side, NEW t \in Sid
          PROVE  Talk(a, t)'
      <3>1. Begun(t)' => Begun(t)
        BY DEF Begun
      <3> QED BY <1>5, <3>1, TalkLift
    <2> QED BY <2>1 DEF AllTalk
  <1>7. FreshStreams'
    <2>1. \A t \in Sid : Begun(t)' = Begun(t)
      BY DEF Begun
    <2>2. \A a \in Side : wire'[a] = wire[a] \/ wire'[a] = <<>>
      BY <1>1, <1>2
    <2> QED BY <2>1, <2>2 DEF TalkInv, FreshStreams
  <1>8. Roles'
    BY DEF TalkInv, Roles
  <1> QED BY <1>6, <1>7, <1>8, TalkParts

LEMMA TalkEnds ==
    ASSUME PollInv, TalkInv, NEW p \in Side,
           ReceiveEof(p) \/ CloseConnection(p) \/ Stop(p) \/ ForeignHangUp(p)
    PROVE  TalkInv'
  <1>1. PICK x \in {"closed", "gone"} : link' = [link EXCEPT ![p] = x]
    BY DEF ReceiveEof, CloseConnection, Stop, ForeignHangUp
  <1>2. /\ wire' = wire \/ wire' = [wire EXCEPT ![Peer(p)] = <<>>]
        /\ UNCHANGED <<conf, opened, st, accepting>>
    BY DEF ReceiveEof, CloseConnection, Stop, ForeignHangUp
  <1>3. \A q \in Side : pending'[q] \subseteq pending[q]
    <2>1. pending' = pending \/ pending' = [pending EXCEPT ![p] = {}]
      BY DEF ReceiveEof, CloseConnection, Stop, ForeignHangUp
    <2> QED BY <2>1 DEF PollInv, TypeInv
  <1> QED BY <1>1, <1>2, <1>3, TalkDeaf

LEMMA TalkDrain ==
    ASSUME PollInv, TalkInv, NEW p \in Side, Drain(p)
    PROVE  TalkInv'
  <1> DEFINE q == Peer(p)
             now == IF link[p] = "closed" THEN {} ELSE pending[p] \cup accepting[p]
             g(t) == IF t \in accepting[p] THEN Inbound(st[p][t]) ELSE st[p][t]
  <1>1. /\ q \in Side /\ q # p /\ Peer(q) = p /\ \A a \in Side : a = p \/ a = q
    BY Sides
  <1>2. /\ Native(p) /\ UNCHANGED <<conf, opened, wire>>
        /\ st' = [st EXCEPT ![p] = [s \in Sid |-> g(s)]]
        /\ link' = [link EXCEPT ![p] = IF @ = "closed" THEN "gone" ELSE @]
        /\ pending' = [pending EXCEPT ![p] = now]
        /\ accepting' = [accepting EXCEPT ![p] = {}]
    <2>1. st' = [st EXCEPT ![p] = [s \in Sid |-> IF s \in accepting[p] THEN Inbound(@[s])
                                                 ELSE @[s]]]
      BY DEF Drain
    <2>2. st' = [st EXCEPT ![p] = [s \in Sid |-> g(s)]]
      BY <2>1 DEF PollInv, TypeInv
    <2> QED BY <2>2 DEF Drain
  <1>3. /\ \A t \in Sid : st'[p][t] = g(t)
        /\ \A t \in Sid : st'[q][t] = st[q][t]
    BY <1>1, <1>2 DEF PollInv, TypeInv
  <1>4. /\ (link'[p] = "up") = (link[p] = "up") /\ link'[q] = link[q]
    BY <1>1, <1>2 DEF PollInv, TypeInv
  <1>5. /\ pending'[p] = now /\ pending'[q] = pending[q]
        /\ accepting'[p] = {} /\ accepting'[q] = accepting[q]
        /\ \A a \in Side : pending[a] \subseteq Sid /\ accepting[a] \subseteq Sid
    BY <1>1, <1>2 DEF PollInv, TypeInv
  <1>6. ASSUME NEW t \in accepting[p]
        PROVE  /\ t \in Sid /\ t[1] = q /\ st[p][t].stage = "None"
               /\ st[p][t].known \/ st[p][t].reset
    BY <1>5 DEF TalkInv, Roles
  <1>7. ASSUME NEW t \in Sid
        PROVE  Pair(p, t, g(t), wire[p], st[q][t], wire[q], link[p] = "up", link[q] = "up")
    <2>1. Pair(p, t, st[p][t], wire[p], st[q][t], wire[q], link[p] = "up", link[q] = "up")
      BY PairOf
    <2>2. st[p][t] \in End /\ st[q][t] \in End
      BY <1>1, StateTypes DEF PollInv
    <2>3. CASE t \in accepting[p]
      <3>1. Pair(p, t, Inbound(st[p][t]), wire[p], st[q][t], wire[q],
                 link[p] = "up", link[q] = "up")
        BY <1>2, <1>6, <2>1, <2>2, <2>3, InboundTalks
      <3>2. g(t) = Inbound(st[p][t])
        BY <2>3
      <3> HIDE DEF g
      <3> QED BY <3>1, <3>2
    <2>4. CASE t \notin accepting[p]
      BY <2>1, <2>4
    <2> QED BY <2>3, <2>4
  <1>8. \A t \in Sid : t \in accepting[p] => st'[p][t].stage = "AwaitingInboundProposal"
    <2>1. ASSUME NEW t \in Sid, t \in accepting[p]
          PROVE  st'[p][t].stage = "AwaitingInboundProposal"
      <3>1. st'[p][t] = Inbound(st[p][t]) /\ st[p][t] \in End
        BY <1>3, <2>1, StateTypes DEF PollInv
      <3> DEFINE e == st[p][t]
      <3>2. e \in End
        BY <3>1
      <3> HIDE DEF e
      <3>3. Inbound(e).stage = "AwaitingInboundProposal"
        BY <3>2 DEF Inbound, End
      <3> QED BY <3>1, <3>3 DEF e
    <2> QED BY <2>1
  <1> HIDE DEF g
  <1>9. ASSUME NEW a \in Side, NEW t \in Sid
        PROVE  Half(a, t, st'[a][t], wire'[a], st'[Peer(a)][t], link'[Peer(a)] = "up")
    <2>1. Pair(p, t, g(t), wire[p], st[q][t], wire[q], link[p] = "up", link[q] = "up")
      BY <1>7
    <2>2. /\ Half(p, t, g(t), wire[p], st[q][t], link[q] = "up")
          /\ Half(q, t, st[q][t], wire[q], g(t), link[p] = "up")
      BY <2>1 DEF Pair
    <2>3. st'[p][t] = g(t) /\ st'[q][t] = st[q][t]
      BY <1>3
    <2>4. CASE a = p
      BY <1>2, <1>4, <2>2, <2>3, <2>4
    <2>5. CASE a = q
      BY <1>1, <1>2, <1>4, <2>2, <2>3, <2>5
    <2> QED BY <1>1, <2>4, <2>5
  <1>10. AllTalk'
    <2>1. ASSUME NEW a \in Side, NEW t \in Sid
          PROVE  Talk(a, t)'
      <3>1. Begun(t)' => Begun(t)
        BY <1>2 DEF Begun
      <3> QED BY <1>2, <1>9, <3>1, TalkLift
    <2> QED BY <2>1 DEF AllTalk
  <1>11. FreshStreams'
    <2>1. \A t \in Sid : Begun(t)' = Begun(t)
      BY <1>2 DEF Begun
    <2>2. ASSUME NEW t \in Sid, ~Begun(t)
          PROVE  t \notin accepting[p]
      <3>1. st[p][t] = NoEnd
        BY <2>2 DEF TalkInv, FreshStreams
      <3>2. ~NoEnd.known /\ ~NoEnd.reset
        BY DEF NoEnd
      <3> QED BY <1>6, <3>1, <3>2
    <2>3. \A t \in Sid : ~Begun(t) => \A a \in Side : st'[a][t] = st[a][t]
      BY <1>1, <1>3, <2>2 DEF g
    <2> QED BY <1>2, <2>1, <2>3 DEF TalkInv, FreshStreams
  <1>12. Roles'
    <2>1. ASSUME NEW a \in Side, NEW t \in pending'[a]
          PROVE  st'[a][t].stage # "None"
      <3>1. CASE a = p
        <4>1. t \in pending[p] \/ t \in accepting[p]
          BY <1>5, <2>1, <3>1
        <4>2. t \in Sid
          BY <1>5, <4>1
        <4>3. CASE t \in accepting[p]
          BY <1>8, <3>1, <4>2, <4>3
        <4>4. CASE t \notin accepting[p]
          BY <1>3, <3>1, <4>1, <4>2, <4>4 DEF TalkInv, Roles, g
        <4> QED BY <4>3, <4>4
      <3>2. CASE a = q
        BY <1>1, <1>3, <1>5, <2>1, <3>2 DEF TalkInv, Roles
      <3> QED BY <1>1, <3>1, <3>2
    <2>2. ASSUME NEW a \in Side, NEW t \in accepting'[a]
          PROVE  /\ t[1] = Peer(a) /\ st'[a][t].stage = "None"
                 /\ st'[a][t].known \/ st'[a][t].reset
      <3>1. a = q /\ t \in accepting[q] /\ t \in Sid
        BY <1>1, <1>5, <2>2
      <3> QED BY <1>1, <1>3, <3>1 DEF TalkInv, Roles
    <2> QED BY <2>1, <2>2 DEF Roles
  <1> QED BY <1>10, <1>11, <1>12, TalkParts

----------------------------------------------------------------------------
(* A stream is opened.                                                     *)

\* An end that has said nothing and got nothing, at either side.
Blank(n) ==
    /\ n.stage # "Failed" /\ n.detail = "none" /\ n.protocol = "none"
    /\ n.said = <<>> /\ n.buffer = <<>> /\ n.rx = <<>> /\ n.got = <<>> /\ n.appRx = <<>>
    /\ n.reset = FALSE /\ n.writeClosed = FALSE

\* Nothing is said, nothing is seen.
LEMMA SilentSees ==
    ASSUME NEW w \in Seq(Frames), NEW s, NEW o, NEW e, NEW up, Blank(o), Blank(e), NoData(w, s)
    PROVE  Follows(s, o.said, w, e, up)
  <1> DEFINE nil == <<>>
  <1>1. Seen(e) = nil /\ Skip(e) = 0 /\ o.said = nil
    <2>1. nil \o nil = nil
      OBVIOUS
    <2> QED BY <2>1 DEF Blank, Seen, Skip
  <1>2. Len(nil) = 0 /\ DOMAIN nil = {}
    OBVIOUS
  <1> HIDE DEF nil
  <1>3. Carried(w, s, nil, 0)
    <2> DEFINE off == [i \in DOMAIN w |-> 0]
    <2>1. off \in [DOMAIN w -> Nat]
      OBVIOUS
    <2>2. \A i \in DOMAIN w : ~IsData(w[i], s)
      BY DEF NoData
    <2>3. 0 + 1 .. Len(nil) = {}
      BY <1>2
    <2> HIDE DEF off
    <2>4. Places(w, s, nil, 0, off)
      BY <2>2, <2>3 DEF Places
    <2> QED BY <2>1, <2>4 DEF Carried
  <1>4. 0 + Len(nil) = 0 /\ 0 <= 0
    BY <1>2
  <1>5. \A open : Sees(s, nil, w, 0, nil, open)
    BY <1>2, <1>3, <1>4 DEF Sees
  <1> QED BY <1>1, <1>5 DEF Follows

\* Half, whether or not the stream is opened.
HalfNew(a, s, o, w, e, up) ==
    /\ Local(a, s, o)
    /\ Native(Peer(a)) =>
          /\ Follows(s, o.said, w, e, up)
          /\ SynFirst(a, s, w, e, up)
          /\ (up /\ ~(Native(a) /\ s[1] = a /\ o.stage = "None") /\ ~e.known /\ ~e.reset) =>
                SynAmong(w, Len(w), s)
          /\ e.protocol = "none" /\ e.said = <<>>
    /\ (Native(a) /\ Native(Peer(a)) /\ s[1] # a) => Undecided(s, w, e)

LEMMA NewLift ==
    ASSUME conf' = conf, NEW a, NEW t,
           HalfNew(a, t, st'[a][t], wire'[a], st'[Peer(a)][t], link'[Peer(a)] = "up")
    PROVE  Talk(a, t)'
  <1>1. PICK o, w, e, up : /\ o = st'[a][t] /\ w = wire'[a] /\ e = st'[Peer(a)][t]
                           /\ up = (link'[Peer(a)] = "up")
    OBVIOUS
  <1>2. HalfNew(a, t, o, w, e, up)
    BY <1>1
  <1>3. (Half(a, t, o, w, e, up))'
    <2>1. \A b : Native(b)' = Native(b)
      BY DEF Native
    <2>2. Local(a, t, o)'
      BY <1>2, <2>1 DEF HalfNew, Local, AcceptorOk
    <2>3. Native(Peer(a)) => Heard(a, t, o, w, e, up)'
      BY <1>2, <2>1 DEF HalfNew, Heard, Told
    <2>4. (Native(a) /\ Native(Peer(a)) /\ t[1] # a) => Undecided(t, w, e)
      BY <1>2 DEF HalfNew
    <2> QED BY <2>1, <2>2, <2>3, <2>4 DEF Half
  <1> QED BY <1>1, <1>3 DEF Talk

\* The SYN of a stream of which nothing is in flight.
LEMMA SynSent ==
    ASSUME NEW w \in Seq(Frames), NEW s \in Sid, NotOf(w, s)
    PROVE  LET syn == <<Frame(s, "SYN", <<>>)>>
               v == w \o syn
           IN /\ syn \in Seq(Frames) /\ v \in Seq(Frames) /\ AllOf(syn, s)
              /\ NoData(v, s) /\ SynFirst(s[1], s, v, NoEnd, TRUE)
              /\ SynAmong(v, Len(v), s)
  <1> DEFINE nil == <<>>
             f == Frame(s, "SYN", nil)
             syn == <<f>>
             v == w \o syn
  <1>1. f.kind = "SYN" /\ f.s = s
    BY DEF Frame
  <1>2. syn \in Seq(Frames)
    <2>1. nil \in Seq(Message)
      OBVIOUS
    <2> HIDE DEF nil
    <2> QED BY <2>1, FrameType
  <1>3. IsSyn(f, s) /\ ~IsData(f, s)
    BY <1>1 DEF IsSyn, IsData
  <1> HIDE DEF f
  <1>4. Len(syn) = 1 /\ syn[1] = f /\ DOMAIN syn = {1}
    OBVIOUS
  <1> HIDE DEF syn
  <1>5. AllOf(syn, s)
    BY <1>1, <1>4 DEF AllOf
  <1>6. /\ v \in Seq(Frames) /\ Len(v) = Len(w) + 1 /\ Len(w) \in Nat
        /\ DOMAIN v = 1 .. Len(w) + 1 /\ DOMAIN w = 1 .. Len(w)
        /\ \A i \in DOMAIN v : \/ i \in DOMAIN w /\ v[i] = w[i]
                               \/ i = Len(w) + 1 /\ v[i] = f
    <2>1. /\ v \in Seq(Frames) /\ Len(v) = Len(w) + 1 /\ Len(w) \in Nat
          /\ DOMAIN v = 1 .. Len(w) + 1 /\ DOMAIN w = 1 .. Len(w)
          /\ \A i \in DOMAIN w : i \in DOMAIN v /\ v[i] = w[i]
          /\ \A i \in DOMAIN v : i \notin DOMAIN w =>
                i - Len(w) \in DOMAIN syn /\ v[i] = syn[i - Len(w)] /\ i > Len(w)
      BY <1>2, <1>4, JoinFacts
    <2> HIDE DEF v
    <2>2. ASSUME NEW i \in DOMAIN v, i \notin DOMAIN w
          PROVE  i = Len(w) + 1 /\ v[i] = f
      BY <1>4, <2>1, <2>2
    <2> QED BY <2>1, <2>2
  <1> HIDE DEF v
  <1>7. \A i \in DOMAIN v : v[i].s = s => i = Len(w) + 1 /\ v[i] = f
    BY <1>6 DEF NotOf
  <1>8. Len(w) + 1 \in DOMAIN v /\ v[Len(w) + 1] = f /\ Len(v) = Len(w) + 1
    <2>1. Len(w) + 1 \in DOMAIN v /\ Len(w) + 1 \notin DOMAIN w
      BY <1>6
    <2> QED BY <1>6, <2>1
  <1>9. NoData(v, s)
    BY <1>3, <1>7 DEF NoData, IsData
  <1>10. SynAmong(v, Len(v), s) /\ \A i \in DOMAIN v : v[i].s = s => SynAmong(v, i, s)
    <2>1. SynAmong(v, Len(w) + 1, s)
      <3>1. Len(w) + 1 <= Len(w) + 1
        BY <1>6
      <3> QED BY <1>3, <1>8, <3>1 DEF SynAmong
    <2> QED BY <1>7, <1>8, <2>1
  <1>11. SynFirst(s[1], s, v, NoEnd, TRUE)
    BY <1>7, <1>10 DEF SynFirst, IsSyn
  <1> QED BY <1>2, <1>5, <1>6, <1>9, <1>10, <1>11 DEF v, syn, f

\* open_stream of this implementation, or of another: e is the opener's end.
LEMMA TalkOpens ==
    ASSUME PollInv, TalkInv, NEW p \in Side, NEW s \in Sid, s = <<p, opened[p] + 1>>,
           opened' = [opened EXCEPT ![p] = @ + 1],
           NEW e \in End, NEW frames \in Seq(Frames), SetEnd(p, s, e), Send(p, frames),
           \/ frames = <<Frame(s, "SYN", <<>>)>>
           \/ frames = <<>> /\ Native(p) /\ e.stage = "None",
           Blank(e), Native(p) => e.known, Local(p, s, e),
           \A a \in Side : \A t \in pending'[a] :
               t \in pending[a] \/ (a = p /\ t = s /\ e.stage # "None"),
           UNCHANGED <<conf, accepting, link>>
    PROVE  TalkInv'
  <1> DEFINE q == Peer(p)
             v == wire[p] \o frames
  <1>1. /\ q \in Side /\ q # p /\ Peer(q) = p /\ \A a \in Side : a = p \/ a = q
    BY Sides
  <1>2. /\ st'[p][s] = e
        /\ \A a \in Side, t \in Sid : ~(a = p /\ t = s) => st'[a][t] = st[a][t]
        /\ wire'[p] = v
        /\ \A a \in Side : a # p => wire'[a] = wire[a]
    BY EndStepType DEF PollInv
  <1>3. wire[p] \in Seq(Frames) /\ wire[q] \in Seq(Frames)
    BY <1>1, StateTypes DEF PollInv
  <1>4. s[1] = p /\ s[2] = opened[p] + 1 /\ opened[p] \in Nat
    BY DEF PollInv, TypeInv
  <1>5. /\ ~Begun(s)
        /\ opened'[p] = opened[p] + 1 /\ \A a \in Side : a # p => opened'[a] = opened[a]
    <2>1. ~(opened[p] + 1 <= opened[p])
      BY <1>4
    <2> QED BY <1>4, <2>1 DEF Begun, PollInv, TypeInv
  <1>6. /\ st[p][s] = NoEnd /\ st[q][s] = NoEnd
        /\ NotOf(wire[p], s) /\ NotOf(wire[q], s)
    BY <1>1, <1>5 DEF TalkInv, FreshStreams, NotOf
  <1>7. \A a \in Side, t \in Sid : t # s => (Begun(t)' => Begun(t))
    <2>1. ASSUME NEW t \in Sid, t # s, Begun(t)'
          PROVE  Begun(t)
      <3>1. t = <<t[1], t[2]>> /\ t[1] \in Side /\ t[2] \in Nat /\ opened[t[1]] \in Nat
        BY StreamsAssumption DEF Sid, PollInv, TypeInv
      <3>2. CASE t[1] = p
        <4>1. t[2] <= opened[p] + 1 /\ t[2] # opened[p] + 1
          BY <1>5, <2>1, <3>1, <3>2 DEF Begun
        <4>2. t[2] <= opened[p]
          BY <1>4, <3>1, <4>1
        <4> QED BY <3>2, <4>2 DEF Begun
      <3>3. CASE t[1] # p
        BY <1>5, <2>1, <3>1, <3>3 DEF Begun
      <3> QED BY <3>2, <3>3
    <2> QED BY <2>1
  <1>8. /\ v \in Seq(Frames) /\ AllOf(frames, s) /\ NoData(v, s)
        /\ SynFirst(p, s, v, NoEnd, TRUE)
        /\ SynAmong(v, Len(v), s) \/ (Native(p) /\ e.stage = "None")
    <2>1. CASE frames = <<Frame(s, "SYN", <<>>)>>
      BY <1>3, <1>4, <1>6, <2>1, SynSent
    <2>2. CASE frames = <<>> /\ Native(p) /\ e.stage = "None"
      <3>1. v = wire[p]
        BY <1>3, <2>2
      <3> HIDE DEF v
      <3>2. AllOf(frames, s)
        BY <2>2 DEF AllOf
      <3>3. NoData(v, s) /\ SynFirst(p, s, v, NoEnd, TRUE)
        BY <1>6, <3>1 DEF NotOf, NoData, SynFirst, IsSyn, IsData
      <3> QED BY <1>3, <2>2, <3>1, <3>2, <3>3
    <2> QED BY <2>1, <2>2
  <1> HIDE DEF v
  <1>9. Untouched(NoEnd) /\ Blank(NoEnd) /\ NoEnd.said = <<>> /\ NoEnd.protocol = "none"
    BY UntouchedEnds DEF Untouched, Blank
  <1>10. Talk(p, s)'
    <2>1. ASSUME NEW up
          PROVE  HalfNew(p, s, e, v, NoEnd, up)
      <3>1. Follows(s, e.said, v, NoEnd, up)
        BY <1>8, <1>9, SilentSees
      <3>2. SynFirst(p, s, v, NoEnd, up)
        BY <1>8 DEF SynFirst
      <3> QED BY <1>4, <1>8, <1>9, <3>1, <3>2 DEF HalfNew
    <2> QED BY <1>1, <1>2, <1>6, <2>1, NewLift
  <1>11. Talk(q, s)'
    <2>1. Local(q, s, NoEnd)
      <3>1. EndOk(NoEnd) /\ AcceptorOk(q, NoEnd)
        BY <1>9 DEF Untouched, EndOk, AcceptorOk, Over
      <3> QED BY <1>1, <1>4, <1>9, <3>1 DEF Local
    <2>2. ASSUME NEW up
          PROVE  HalfNew(q, s, NoEnd, wire[q], e, up)
      <3>1. NoData(wire[q], s)
        BY <1>6 DEF NotOf, NoData, IsData
      <3>2. Follows(s, NoEnd.said, wire[q], e, up)
        BY <1>3, <1>9, <3>1, SilentSees
      <3>3. Native(p) => SynFirst(q, s, wire[q], e, up)
        BY <1>6 DEF NotOf, SynFirst, IsSyn
      <3>4. Undecided(s, wire[q], e)
        BY <1>6 DEF Undecided, NotOf, Blank
      <3> QED BY <1>1, <2>1, <3>2, <3>3, <3>4 DEF HalfNew, Blank
    <2> QED BY <1>1, <1>2, <1>6, <2>2, NewLift
  <1>12. AllTalk'
    <2>1. ASSUME NEW a \in Side, NEW t \in Sid, t # s
          PROVE  Talk(a, t)'
      <3>1. Half(a, t, st[a][t], wire[a], st[Peer(a)][t], link[Peer(a)] = "up")
        BY DEF TalkInv
      <3>2. CASE a = p
        <4>1. NotOf(frames, t)
          BY <1>8, <2>1 DEF AllOf, NotOf
        <4>2. Half(p, t, st[p][t], v, st[q][t], link[q] = "up")
          BY <1>3, <3>1, <3>2, <4>1, HalfOthers DEF v
        <4> QED BY <1>1, <1>2, <1>7, <2>1, <3>2, <4>2, TalkLift
      <3>3. CASE a = q
        BY <1>1, <1>2, <1>7, <2>1, <3>1, <3>3, TalkLift
      <3> QED BY <1>1, <3>2, <3>3
    <2>2. \A a \in Side : Talk(a, s)'
      BY <1>1, <1>10, <1>11
    <2> QED BY <2>1, <2>2 DEF AllTalk
  <1>13. FreshStreams'
    <2>1. Begun(s)'
      <3>1. opened[p] + 1 <= opened[p] + 1
        BY <1>4
      <3> QED BY <1>4, <1>5, <3>1 DEF Begun
    <2>2. ASSUME NEW t \in Sid, t # s
          PROVE  Begun(t) => Begun(t)'
      <3>1. t[1] \in Side /\ t[2] \in Nat /\ opened[t[1]] \in Nat
        BY StreamsAssumption DEF Sid, PollInv, TypeInv
      <3>2. opened[t[1]] <= opened'[t[1]] /\ opened'[t[1]] \in Nat
        BY <1>4, <1>5, <3>1
      <3> QED BY <3>1, <3>2 DEF Begun
    <2>3. ASSUME NEW t \in Sid, ~Begun(t)', NEW a \in Side
          PROVE  st'[a][t] = NoEnd /\ \A i \in DOMAIN wire'[a] : wire'[a][i].s # t
      <3>1. t # s /\ ~Begun(t)
        BY <2>1, <2>2, <2>3
      <3>2. st[a][t] = NoEnd /\ NotOf(wire[a], t) /\ NotOf(wire[p], t)
        BY <3>1 DEF TalkInv, FreshStreams, NotOf
      <3>3. NotOf(v, t)
        <4> DEFINE w == wire[p]
        <4>1. w \in Seq(Frames) /\ NotOf(w, t) /\ v = w \o frames /\ NotOf(frames, t)
          BY <1>3, <1>8, <3>1, <3>2 DEF v, AllOf, NotOf
        <4> HIDE DEF w
        <4> QED BY <4>1, JoinFacts DEF NotOf
      <3>4. CASE a = p
        BY <1>2, <3>1, <3>2, <3>3, <3>4 DEF NotOf
      <3>5. CASE a # p
        <4>1. wire'[a] = wire[a]
          BY <1>2, <3>5
        <4> QED BY <1>2, <3>1, <3>2, <4>1 DEF NotOf
      <3> QED BY <3>4, <3>5
    <2> QED BY <2>3 DEF FreshStreams
  <1>14. Roles'
    <2>1. \A a \in Side : pending[a] \subseteq Sid /\ accepting[a] \subseteq Sid
      BY DEF PollInv, TypeInv
    <2>2. ASSUME NEW a \in Side, NEW t \in pending'[a]
          PROVE  st'[a][t].stage # "None"
      <3>1. CASE a = p /\ t = s
        <4>1. NoEnd.stage = "None"
          BY DEF NoEnd
        <4>2. e.stage # "None"
          BY <1>6, <2>2, <3>1, <4>1 DEF TalkInv, Roles
        <4> QED BY <1>2, <3>1, <4>2
      <3>2. CASE ~(a = p /\ t = s)
        BY <1>2, <2>1, <2>2, <3>2 DEF TalkInv, Roles
      <3> QED BY <3>1, <3>2
    <2>3. ASSUME NEW a \in Side, NEW t \in accepting'[a]
          PROVE  /\ t[1] = Peer(a) /\ st'[a][t].stage = "None"
                 /\ st'[a][t].known \/ st'[a][t].reset
      <3>1. t \in accepting[a] /\ t \in Sid
        BY <2>1, <2>3
      <3>2. a # p \/ t # s
        BY <1>1, <1>4, <3>1 DEF TalkInv, Roles
      <3> QED BY <1>2, <3>1, <3>2 DEF TalkInv, Roles
    <2> QED BY <2>2, <2>3 DEF Roles
  <1> QED BY <1>12, <1>13, <1>14, TalkParts

\* What open_stream makes of a stream.
LEMMA OutboundEnd ==
    ASSUME NEW p \in Side, NEW s \in Sid, s[1] = p, NEW x \in Protocols
    PROVE  LET e == Outbound(NewYamuxStream, x) IN
           e \in End /\ Blank(e) /\ e.known /\ Local(p, s, e) /\ e.stage # "None"
  <1> DEFINE n == NewYamuxStream
             e == Outbound(n, x)
  <1>1. n \in End /\ Untouched(n) /\ n.known
    BY NoEndType, UntouchedEnds
  <1> HIDE DEF n
  <1>2. /\ e \in End
        /\ e.stage = "SendingOutboundProposal" /\ e.desired = x /\ e.known = n.known
        /\ e.detail = n.detail /\ e.protocol = n.protocol /\ e.said = n.said
        /\ e.buffer = n.buffer /\ e.rx = n.rx /\ e.got = n.got /\ e.appRx = n.appRx
        /\ e.reset = n.reset /\ e.writeClosed = n.writeClosed
    BY <1>1 DEF Outbound, End, Stages
  <1> HIDE DEF e
  <1>3. Blank(e)
    BY <1>1, <1>2 DEF Blank, Untouched
  <1>4. EndOk(e)
    BY <1>2, <1>3 DEF EndOk, Blank
  <1>5. OpenerOk(e)
    BY <1>2, <1>3 DEF OpenerOk, Blank
  <1>6. Local(p, s, e)
    BY <1>3, <1>4, <1>5 DEF Local, Blank
  <1> QED BY <1>1, <1>2, <1>3, <1>6 DEF e, n

\* The SYN of a stream.
LEMMA SynType ==
    ASSUME NEW s \in Sid
    PROVE  <<Frame(s, "SYN", <<>>)>> \in Seq(Frames)
  <1> DEFINE nil == <<>>
  <1>1. nil \in Seq(Message)
    OBVIOUS
  <1> HIDE DEF nil
  <1>2. <<Frame(s, "SYN", nil)>> \in Seq(Frames)
    BY <1>1, FrameType
  <1> QED BY <1>2 DEF nil

LEMMA TalkOpenStream ==
    ASSUME PollInv, TalkInv, NEW p \in Side, NEW x \in Protocols, OpenStream(p, x)
    PROVE  TalkInv'
  <1> DEFINE s == <<p, opened[p] + 1>>
             e == Outbound(NewYamuxStream, x)
             frames == <<Frame(s, "SYN", <<>>)>>
  <1>1. /\ Native(p) /\ s \in Sid
        /\ opened' = [opened EXCEPT ![p] = @ + 1]
        /\ SetEnd(p, s, e) /\ Send(p, frames)
        /\ pending' = [pending EXCEPT ![p] = @ \cup {s}]
        /\ UNCHANGED <<conf, link, accepting>>
    BY DEF OpenStream
  <1>2. s[1] = p /\ s = <<p, opened[p] + 1>>
    OBVIOUS
  <1> HIDE DEF s
  <1>3. frames \in Seq(Frames)
    BY <1>1, SynType
  <1>4. e \in End /\ Blank(e) /\ e.known /\ Local(p, s, e) /\ e.stage # "None"
    BY <1>1, <1>2, OutboundEnd
  <1>5. \A a \in Side : \A t \in pending'[a] :
            t \in pending[a] \/ (a = p /\ t = s /\ e.stage # "None")
    BY <1>1, <1>4 DEF PollInv, TypeInv
  <1>6. frames = <<Frame(s, "SYN", <<>>)>>
    OBVIOUS
  <1> HIDE DEF e, frames
  <1> QED BY <1>1, <1>2, <1>3, <1>4, <1>5, <1>6, TalkOpens

LEMMA TalkOpenStreamFails ==
    ASSUME PollInv, TalkInv, NEW p \in Side, OpenStreamFails(p)
    PROVE  TalkInv'
  <1> DEFINE s == <<p, opened[p] + 1>>
             e == NewYamuxStream
             nil == <<>>
  <1>1. /\ Native(p) /\ s \in Sid
        /\ opened' = [opened EXCEPT ![p] = @ + 1]
        /\ SetEnd(p, s, e)
        /\ UNCHANGED <<conf, wire, link, accepting, pending>>
    BY DEF OpenStreamFails
  <1>2. s[1] = p /\ s = <<p, opened[p] + 1>>
    OBVIOUS
  <1> HIDE DEF s
  <1>3. nil \in Seq(Frames)
    OBVIOUS
  <1>4. Send(p, nil)
    <2>1. wire \in [Side -> Seq(Frames)] /\ wire[p] \in Seq(Frames)
      BY DEF PollInv, TypeInv
    <2>2. wire[p] \o nil = wire[p]
      BY <2>1
    <2> HIDE DEF nil
    <2>3. [wire EXCEPT ![p] = wire[p] \o nil] = wire
      BY <2>1, <2>2
    <2> QED BY <1>1, <2>3 DEF Send
  <1>5. e \in End /\ Untouched(e) /\ e.known
    BY NoEndType, UntouchedEnds
  <1> HIDE DEF e
  <1>6. Blank(e) /\ e.stage = "None"
    BY <1>5 DEF Untouched, Blank
  <1>7. Local(p, s, e)
    <2>1. EndOk(e)
      BY <1>5 DEF Untouched, EndOk, Over
    <2>2. OpenerOk(e)
      BY <1>5 DEF Untouched, OpenerOk
    <2> QED BY <1>2, <1>6, <2>1, <2>2 DEF Local, Blank
  <1>8. nil = <<>>
    OBVIOUS
  <1> HIDE DEF nil
  <1>9. \A a \in Side : \A t \in pending'[a] :
            t \in pending[a] \/ (a = p /\ t = s /\ e.stage # "None")
    BY <1>1
  <1> QED BY <1>1, <1>2, <1>3, <1>4, <1>5, <1>6, <1>7, <1>8, <1>9, TalkOpens

LEMMA TalkForeignOpen ==
    ASSUME PollInv, TalkInv, NEW p \in Side, NEW s \in Sid, ForeignOpen(p, s)
    PROVE  TalkInv'
  <1> DEFINE e == st[p][s]
             frames == <<Frame(s, "SYN", <<>>)>>
  <1>1. /\ ~Native(p) /\ s[1] = p /\ s[2] = opened[p] + 1
        /\ opened' = [opened EXCEPT ![p] = @ + 1]
        /\ Send(p, frames)
        /\ UNCHANGED <<conf, st, link, accepting, pending>>
    BY DEF ForeignOpen
  <1>2. s = <<p, opened[p] + 1>>
    BY <1>1, StreamsAssumption DEF Sid
  <1>3. frames \in Seq(Frames)
    BY SynType
  <1>4. SetEnd(p, s, e) /\ e \in End
    BY <1>1 DEF SetEnd, PollInv, TypeInv
  <1>5. e = NoEnd
    <2>1. opened[p] \in Nat
      BY DEF PollInv, TypeInv
    <2>2. ~Begun(s)
      BY <1>1, <2>1 DEF Begun
    <2> QED BY <2>2 DEF TalkInv, FreshStreams
  <1>6. Blank(e)
    BY <1>5, UntouchedEnds DEF Untouched, Blank
  <1>7. Local(p, s, e)
    BY <1>1, <1>6 DEF Local, Blank
  <1>8. frames = <<Frame(s, "SYN", <<>>)>>
    OBVIOUS
  <1> HIDE DEF e, frames
  <1>9. \A a \in Side : \A t \in pending'[a] :
            t \in pending[a] \/ (a = p /\ t = s /\ e.stage # "None")
    BY <1>1
  <1> QED BY <1>1, <1>2, <1>3, <1>4, <1>6, <1>7, <1>8, <1>9, TalkOpens

\* Another implementation says something, or ends its side.
LEMMA ForeignTalks ==
    ASSUME NEW p \in Side, NEW s \in Sid, ~Native(p), NEW e, NEW w, NEW f, NEW v, NEW rp, NEW rq,
           Pair(p, s, e, w, f, v, rp, rq), NEW g, NEW w2, g.protocol = e.protocol,
           Heard(p, s, e, w, f, rq) => Heard(p, s, g, w2, f, rq)
    PROVE  Pair(p, s, g, w2, f, v, rp, rq)
  <1>1. Peer(p) \in Side /\ Peer(p) # p /\ Peer(Peer(p)) = p
    BY Sides
  <1>2. Half(p, s, g, w2, f, rq)
    BY DEF Pair, Half, Local
  <1>3. Half(Peer(p), s, f, v, g, rp)
    BY <1>1 DEF Pair, Half
  <1> QED BY <1>2, <1>3 DEF Pair

LEMMA TalkForeignSend ==
    ASSUME PollInv, TalkInv, NEW p \in Side, NEW s \in Sid, ForeignSend(p, s)
    PROVE  TalkInv'
  <1>1. /\ ~Native(p) /\ Begun(s)
        /\ UNCHANGED <<conf, opened, link, accepting, pending>>
    BY DEF ForeignSend, Begun
  <1>2. /\ st[p][s] \in End /\ wire[p] \in Seq(Frames) /\ st[Peer(p)][s] \in End
    BY Sides, StateTypes DEF PollInv
  <1>3. Pair(p, s, st[p][s], wire[p], st[Peer(p)][s], wire[Peer(p)],
             link[p] = "up", link[Peer(p)] = "up")
    BY PairOf
  <1>4. \A o : Told(p, s, o)
    BY <1>1 DEF Told
  <1>5. ASSUME NEW body \in ForeignBodies(p, s), Send(p, <<Frame(s, "DATA", body)>>),
               SetEnd(p, s, Says(st[p][s], body))
        PROVE  TalkInv'
    <2> DEFINE e == Says(st[p][s], body)
               frames == <<Frame(s, "DATA", body)>>
    <2>1. body \in Seq(Message)
      <3>1. Len(st[p][s].said) + 1 \in Nat
        BY SMTT(30), <1>2 DEF End
      <3> DEFINE m == App(Len(st[p][s].said) + 1)
      <3>2. m \in Message
        BY <3>1, MessageType
      <3>3. body \in {<<Header>>, <<Na>>, <<Bad>>, <<m>>} \cup {<<Token(x)>> : x \in Protocols}
        BY <1>5 DEF ForeignBodies
      <3> HIDE DEF m
      <3>4. \E n \in Message : body = <<n>>
        BY <3>2, <3>3, MessageType
      <3> QED BY <3>4
    <2>2. e \in End /\ e.said = st[p][s].said \o body /\ e.protocol = st[p][s].protocol
      <3> DEFINE o == st[p][s]
                 said == o.said \o body
                 g == [o EXCEPT !.said = said]
      <3>1. o \in End
        BY <1>2
      <3>2. e = g
        BY <3>1 DEF Says, End
      <3>3. said \in Seq(Message)
        BY <2>1, <3>1 DEF End
      <3> HIDE DEF said, e, o
      <3>4. g \in End /\ g.said = said /\ g.protocol = o.protocol
        BY <3>1, <3>3 DEF End
      <3> QED BY <3>2, <3>4 DEF said, o
    <2>3. frames \in Seq(Frames) /\ AllOf(frames, s)
      <3>1. Frame(s, "DATA", body) \in Frames /\ frames \in Seq(Frames)
        BY <2>1, FrameType
      <3>2. \A i \in DOMAIN frames : frames[i].s = s
        BY DEF Frame
      <3> QED BY <3>1, <3>2 DEF AllOf
    <2>4. SetEnd(p, s, e) /\ Send(p, frames)
      BY <1>5
    <2> HIDE DEF e
    <2>5. Heard(p, s, st[p][s], wire[p], st[Peer(p)][s], link[Peer(p)] = "up") =>
            Heard(p, s, e, wire[p] \o frames, st[Peer(p)][s], link[Peer(p)] = "up")
      BY <1>2, <1>4, <2>1, <2>2, HeardSays
    <2> HIDE DEF frames
    <2>6. Pair(p, s, e, wire[p] \o frames, st[Peer(p)][s], wire[Peer(p)],
               link[p] = "up", link[Peer(p)] = "up")
      BY <1>1, <1>3, <2>2, <2>5, ForeignTalks
    <2>7. \A a \in Side : pending'[a] \subseteq pending[a]
      BY <1>1
    <2> QED BY <1>1, <2>2, <2>3, <2>4, <2>6, <2>7, EndTalks
  <1>6. ASSUME NEW kind \in {"FIN", "RST"}, Send(p, <<Frame(s, kind, <<>>)>>), st' = st
        PROVE  TalkInv'
    <2> DEFINE e == st[p][s]
               frames == <<Frame(s, kind, <<>>)>>
    <2>1. /\ frames \in Seq(Frames) /\ NoData(frames, s) /\ NoSyn(frames, s)
          /\ AllOf(frames, s)
      BY EndFrame
    <2>2. SetEnd(p, s, e) /\ Send(p, frames)
      BY <1>6 DEF SetEnd, PollInv, TypeInv
    <2> HIDE DEF frames
    <2>3. Heard(p, s, e, wire[p], st[Peer(p)][s], link[Peer(p)] = "up") =>
            Heard(p, s, e, wire[p] \o frames, st[Peer(p)][s], link[Peer(p)] = "up")
      BY <1>2, <1>4, <2>1, HeardJoin
    <2>4. e \in End
      BY <1>2
    <2> HIDE DEF e
    <2>5. Pair(p, s, e, wire[p] \o frames, st[Peer(p)][s], wire[Peer(p)],
               link[p] = "up", link[Peer(p)] = "up")
      BY <1>1, <1>3, <2>3, ForeignTalks DEF e
    <2>6. \A a \in Side : pending'[a] \subseteq pending[a]
      BY <1>1
    <2> QED BY <1>1, <2>1, <2>2, <2>4, <2>5, <2>6, EndTalks
  <1> QED BY <1>5, <1>6 DEF ForeignSend

----------------------------------------------------------------------------
(* The invariant.                                                          *)

\* Initially no stream is opened.
LEMMA TalkInit ==
    ASSUME Init
    PROVE  TalkInv
  <1> DEFINE nil == <<>>
  <1>1. \A p \in Side : /\ wire[p] = nil /\ opened[p] = 0
                        /\ pending[p] = {} /\ accepting[p] = {}
                        /\ \A s \in Sid : st[p][s] = NoEnd
    BY DEF Init
  <1>2. nil \in Seq(Frames) /\ DOMAIN nil = {}
    OBVIOUS
  <1> HIDE DEF nil
  <1>3. FreshStreams /\ Roles
    BY <1>1, <1>2 DEF FreshStreams, Roles
  <1>4. Untouched(NoEnd) /\ Blank(NoEnd)
    BY UntouchedEnds DEF Untouched, Blank
  <1>5. ASSUME NEW p \in Side, NEW s \in Sid
        PROVE  Half(p, s, st[p][s], wire[p], st[Peer(p)][s], link[Peer(p)] = "up")
    <2>1. Peer(p) \in Side
      BY Sides
    <2>2. st[p][s] = NoEnd /\ st[Peer(p)][s] = NoEnd /\ wire[p] = nil
      BY <1>1, <2>1
    <2>3. ~Begun(s)
      <3>1. s[1] \in Side /\ s[2] \in 1 .. MaxOpens
        BY StreamsAssumption DEF Sid
      <3>2. opened[s[1]] = 0 /\ ~(s[2] <= 0)
        BY <1>1, <3>1, StreamsAssumption
      <3> QED BY <3>2 DEF Begun
    <2>4. Local(p, s, NoEnd)
      BY <1>4 DEF Untouched, Local, EndOk, OpenerOk, AcceptorOk, Over
    <2>5. ASSUME NEW up
          PROVE  Half(p, s, NoEnd, nil, NoEnd, up)
      <3>1. NoData(nil, s) /\ SynFirst(p, s, nil, NoEnd, up) /\ Undecided(s, nil, NoEnd)
        BY <1>2, <1>4 DEF NoData, SynFirst, Undecided, Untouched, Blank
      <3>2. Follows(s, NoEnd.said, nil, NoEnd, up)
        BY <1>2, <1>4, <3>1, SilentSees
      <3>3. Heard(p, s, NoEnd, nil, NoEnd, up)
        BY <1>4, <2>3, <3>1, <3>2 DEF Heard, Told, Untouched
      <3> QED BY <2>4, <3>1, <3>3 DEF Half
    <2> QED BY <2>2, <2>5
  <1> QED BY <1>3, <1>5 DEF TalkInv

LEMMA TalkStep ==
    ASSUME PollInv, TalkInv, [Next]_vars
    PROVE  TalkInv'
  <1>1. ASSUME NEW p \in Side, Application(p)
        PROVE  TalkInv'
    BY <1>1, TalkOpenStream, TalkOpenStreamFails, TalkTryRead, TalkTryWrite,
       TalkCloseWrite, TalkReset, TalkEnds DEF Application
  <1>2. ASSUME NEW p \in Side, PollOnce(p)
        PROVE  TalkInv'
    <2>1. ASSUME NEW s \in Sid, PollStream(p, s)
          PROVE  TalkInv'
      BY <2>1, TalkPollStream
    <2> QED BY <1>2, <2>1, TalkReceive, TalkEnds, TalkDrain DEF PollOnce
  <1>3. ASSUME NEW p \in Side, Foreign(p)
        PROVE  TalkInv'
    BY <1>3, TalkEnds, TalkForeignOpen, TalkForeignSend DEF Foreign
  <1>4. ASSUME UNCHANGED vars
        PROVE  TalkInv'
    <2>1. /\ UNCHANGED <<conf, opened, st, wire, link, accepting, pending>>
          /\ \A t : Begun(t)' = Begun(t)
      BY <1>4 DEF vars, Begun
    <2>2. FreshStreams' /\ Roles'
      BY <2>1 DEF TalkInv, FreshStreams, Roles
    <2>3. ASSUME NEW a \in Side, NEW t \in Sid
          PROVE  Talk(a, t)'
      <3>1. Half(a, t, st[a][t], wire[a], st[Peer(a)][t], link[Peer(a)] = "up")
        BY DEF TalkInv
      <3> QED BY <2>1, <3>1, TalkLift
    <2> QED BY <2>2, <2>3, TalkParts DEF AllTalk
  <1> QED BY <1>1, <1>2, <1>3, <1>4 DEF Next

\* At every moment each end of a stream has seen the beginning of what the
\* other has said, in order; as long as frames reach it, the frames in flight
\* carry the rest, behind one SYN; and the negotiation stands where these
\* messages put it (ProtocolNegotiatingStream::poll, handle_frame).
THEOREM TalkInvariant == Spec => [](PollInv /\ TalkInv)
  <1>1. Init => PollInv /\ TalkInv
    BY PollInit, TalkInit
  <1>2. PollInv /\ TalkInv /\ [Next]_vars => (PollInv /\ TalkInv)'
    BY PollStep, TalkStep
  <1> QED BY <1>1, <1>2, PTL DEF Spec

\* The length of a sequence without its first two elements.
LEMMA LengthAfterTwo ==
    ASSUME NEW n \in Nat, 2 <= n
    PROVE  (IF 3 <= n THEN n - 3 + 1 ELSE 0) = n - 2
  OBVIOUS

\* What is seen after the two messages of the negotiation is a prefix of the
\* data, and so is its beginning.
LEMMA DataSeen ==
    ASSUME NEW said \in Seq(Message), NEW seen \in Seq(Message),
           2 + Len(seen) <= Len(said), \A i \in DOMAIN seen : seen[i] = said[2 + i]
    PROVE  LET data == SubSeq(said, 3, Len(said)) IN
           /\ IsPrefixOf(seen, data)
           /\ 2 + Len(seen) = Len(said) => seen = data
  <1> DEFINE data == SubSeq(said, 3, Len(said))
  <1>1. Len(seen) \in Nat /\ Len(said) \in Nat /\ DOMAIN seen = 1 .. Len(seen)
    OBVIOUS
  <1>2. /\ data \in Seq(Message) /\ Len(data) = Len(said) - 2
        /\ \A i \in 1 .. Len(said) - 2 : data[i] = said[2 + i]
    <2>1. 2 <= Len(said) /\ Len(said) - 2 \in Nat
      BY <1>1
    <2>2. /\ data \in Seq(Message)
          /\ Len(data) = IF 3 <= Len(said) THEN Len(said) - 3 + 1 ELSE 0
          /\ \A i \in 1 .. Len(said) - 3 + 1 : data[i] = said[3 + i - 1]
      <3>1. \A i \in 3 .. Len(said) : said[i] \in Message
        BY <1>1
      <3> HIDE DEF data
      <3>2. 3 \in Int /\ Len(said) \in Int
        BY <1>1
      <3> QED BY <3>1, <3>2, SubSeqProperties DEF data
    <2> HIDE DEF data
    <2>3. Len(data) = Len(said) - 2
      <3>1. (IF 3 <= Len(said) THEN Len(said) - 3 + 1 ELSE 0) = Len(said) - 2
        BY <1>1, <2>1, LengthAfterTwo
      <3> QED BY <2>2, <3>1
    <2>4. ASSUME NEW i \in 1 .. Len(said) - 2
          PROVE  data[i] = said[2 + i]
      <3>1. i \in 1 .. Len(said) - 3 + 1 /\ 3 + i - 1 = 2 + i
        BY <1>1
      <3>2. data[i] = said[3 + i - 1]
        BY <2>2, <3>1
      <3> QED BY <3>1, <3>2
    <2> QED BY <2>2, <2>3, <2>4
  <1> HIDE DEF data
  <1>3. \A i \in 1 .. Len(seen) : seen[i] = data[i]
    <2>1. \A i \in 1 .. Len(seen) : i \in 1 .. Len(said) - 2 /\ i \in DOMAIN seen
      BY <1>1
    <2> QED BY <1>2, <2>1
  <1>4. Len(seen) <= Len(data)
    BY <1>1, <1>2
  <1>5. seen = SubSeq(data, 1, Len(seen))
    <2> DEFINE t == SubSeq(data, 1, Len(seen))
    <2>1. /\ t \in Seq(Message) /\ Len(t) = Len(seen)
          /\ \A i \in 1 .. Len(seen) : t[i] = data[i]
      BY <1>1, <1>2, <1>4
    <2> HIDE DEF t
    <2>2. seen = t
      BY SMTT(30), <1>1, <1>3, <2>1
    <2> QED BY <2>2 DEF t
  <1>6. 2 + Len(seen) = Len(said) => seen = data
    BY <1>1, <1>2, <1>3
  <1> QED BY <1>4, <1>5, <1>6 DEF IsPrefixOf, data

LEMMA PrefixPart ==
    ASSUME NEW a \in Seq(Message), NEW b \in Seq(Message), NEW d \in Seq(Message),
           IsPrefixOf(a \o b, d)
    PROVE  IsPrefixOf(a, d)
  <1> DEFINE c == a \o b
  <1>1. /\ c \in Seq(Message) /\ Len(c) = Len(a) + Len(b) /\ Len(a) \in Nat /\ Len(b) \in Nat
        /\ \A i \in 1 .. Len(a) : c[i] = a[i]
    OBVIOUS
  <1> HIDE DEF c
  <1>2. Len(c) <= Len(d) /\ c = SubSeq(d, 1, Len(c))
    BY DEF IsPrefixOf, c
  <1>3. \A i \in 1 .. Len(c) : c[i] = d[i]
    <2> DEFINE t == SubSeq(d, 1, Len(c))
    <2>1. \A i \in 1 .. Len(c) : t[i] = d[i]
      BY <1>1, <1>2
    <2> HIDE DEF t
    <2> QED BY <1>2, <2>1 DEF t
  <1>4. Len(a) <= Len(d)
    BY <1>1, <1>2
  <1>5. \A i \in 1 .. Len(a) : a[i] = d[i]
    BY <1>1, <1>3
  <1>6. a = SubSeq(d, 1, Len(a))
    <2> DEFINE t == SubSeq(d, 1, Len(a))
    <2>1. /\ t \in Seq(Message) /\ Len(t) = Len(a)
          /\ \A i \in 1 .. Len(a) : t[i] = d[i]
      BY <1>1, <1>4
    <2> HIDE DEF t
    <2>2. a = t
      BY SMTT(30), <1>1, <1>5, <2>1
    <2> QED BY <2>2 DEF t
  <1> QED BY <1>4, <1>6 DEF IsPrefixOf

\* The data at one end of a stream.
LEMMA DataOfEnd ==
    ASSUME PollInv, TalkInv, NEW p \in Side, NEW s \in Sid, Native(p)
    PROVE  LET e    == st[p][s]
               said == st[Peer(p)][s].said
               data == SubSeq(said, 3, Len(said))
               have == e.got \o e.appRx \o e.rx
           IN /\ IsPrefixOf(e.got \o e.appRx, data)
              /\ (e.stage = "Ready" /\ ~e.reset /\ link[p] = "up") =>
                    \/ have = data
                    \/ IsPrefixOf(have, data) /\ \E i \in DOMAIN wire[Peer(p)] : wire[Peer(p)][i].s = s
  <1> DEFINE q == Peer(p)
             e == st[p][s]
             said == st[q][s].said
             w == wire[q]
             data == SubSeq(said, 3, Len(said))
             read == e.got \o e.appRx
             have == read \o e.rx
  <1>1. q \in Side /\ e \in End /\ st[q][s] \in End
    BY Sides, StateTypes DEF PollInv
  <1>2. EndOk(e) /\ Heard(q, s, st[q][s], w, e, link[p] = "up")
    <2>1. Pair(p, s, e, wire[p], st[q][s], w, link[p] = "up", link[q] = "up")
      BY PairOf
    <2> QED BY <1>1, <2>1, PairFacts
  <1>3. said \in Seq(Message) /\ data \in Seq(Message)
    BY <1>1 DEF End
  <1>4. /\ e.got \in Seq(Message) /\ e.appRx \in Seq(Message) /\ e.rx \in Seq(Message)
        /\ read \in Seq(Message) /\ have \in Seq(Message)
    BY <1>1 DEF End
  <1>5. Sees(s, said, w, Skip(e), Seen(e), link[p] = "up" /\ ~e.reset)
    BY <1>2 DEF Heard, Follows
  <1>6. CASE e.protocol = "none"
    <2> DEFINE nil == <<>>
    <2>1. e.got = nil /\ e.appRx = nil
      BY <1>2, <1>6 DEF EndOk
    <2>2. read = nil
      BY <2>1
    <2>3. IsPrefixOf(nil, data)
      <3>1. Len(nil) = 0 /\ Len(data) \in Nat /\ SubSeq(data, 1, 0) = nil
        BY <1>3
      <3> HIDE DEF nil, data
      <3> QED BY <3>1 DEF IsPrefixOf
    <2>4. e.stage # "Ready"
      BY <1>2, <1>6 DEF EndOk
    <2> HIDE DEF nil
    <2> QED BY <2>2, <2>3, <2>4
  <1>7. CASE e.protocol # "none"
    <2>1. Skip(e) = 2 /\ Seen(e) = have
      <3>1. Seen(e) = e.got \o (e.appRx \o e.rx)
        BY <1>7 DEF Seen
      <3>2. ASSUME NEW x \in Seq(Message), NEW y \in Seq(Message), NEW z \in Seq(Message)
            PROVE  (x \o y) \o z = x \o (y \o z)
        BY ConcatAssociative
      <3> QED BY ZenonT(60), <1>4, <1>7, <3>1, <3>2 DEF Skip
    <2> HIDE DEF read, have, data, said, e
    <2>2. Sees(s, said, w, 2, have, link[p] = "up" /\ ~e.reset)
      BY <1>5, <2>1
    <2>3. 2 + Len(have) <= Len(said) /\ \A i \in DOMAIN have : have[i] = said[2 + i]
      BY <2>2 DEF Sees
    <2>4. /\ IsPrefixOf(have, data)
          /\ 2 + Len(have) = Len(said) => have = data
      BY <1>3, <1>4, <2>3, DataSeen DEF data
    <2>5. IsPrefixOf(read, data)
      BY <1>3, <1>4, <2>4, PrefixPart DEF have
    <2>6. ASSUME ~e.reset, link[p] = "up"
          PROVE  have = data \/ \E i \in DOMAIN w : w[i].s = s
      <3>1. Sees(s, said, w, 2, have, TRUE)
        BY <2>2, <2>6 DEF Sees
      <3> HIDE DEF w
      <3>2. 2 \in Nat /\ said \in Seq(Message) /\ have \in Seq(Message)
        BY <1>3, <1>4
      <3>3. 2 + Len(have) = Len(said) \/ \E i \in DOMAIN w : w[i].s = s
        BY <3>1, <3>2, SeesAll
      <3> QED BY <2>4, <3>3
    <2> QED BY <2>4, <2>5, <2>6 DEF read, have, data, said, e
  <1> QED BY <1>6, <1>7

\* What two ends of a stream make of its protocol.
LEMMA Agreed ==
    ASSUME PollInv, TalkInv, NEW s \in Sid, NEW p \in Side, s[1] = p
    PROVE  LET q == Peer(p)
               x == st[p][s].protocol
               y == st[q][s].protocol
           IN /\ (Native(p) /\ x # "none") => x = st[p][s].desired /\ Said(q, s, x)
              /\ (Native(q) /\ y # "none") => y \in conf.handlers[q] /\ Said(p, s, y)
              /\ (Native(q) /\ x # "none") => y = x
              /\ (conf.native = Side /\ st[q][s].detail = "protocol not supported") =>
                    \/ st[p][s].stage = "AwaitingOutboundResponse"
                    \/ st[p][s].detail \in {"protocol not supported", "stream reset locally"}
  <1> DEFINE q == Peer(p)
             e == st[p][s]
             f == st[q][s]
             x == e.protocol
             y == f.protocol
  <1>1. q \in Side /\ q # p /\ Peer(q) = p
    BY Sides
  <1>2. e \in End /\ f \in End
    BY <1>1, StateTypes DEF PollInv
  <1>3. Pair(p, s, e, wire[p], f, wire[q], link[p] = "up", link[q] = "up")
    BY <1>1, PairOf
  <1>4. Pair(q, s, f, wire[q], e, wire[p], link[q] = "up", link[p] = "up")
    BY <1>1, <1>3 DEF Pair
  <1>5. Native(p) => EndOk(e) /\ OpenerOk(e) /\ Heard(q, s, f, wire[q], e, link[p] = "up")
    BY ZenonT(60), <1>1, <1>2, <1>3, PairFacts
  <1>6. Native(q) => AcceptorOk(q, f) /\ Heard(p, s, e, wire[p], f, link[q] = "up")
    <2> HIDE DEF q, e, f
    <2>1. s[1] # q
      BY <1>1
    <2>2. Native(q) => AcceptorOk(q, f) /\ Heard(Peer(q), s, e, wire[p], f, link[q] = "up")
      BY <1>1, <1>2, <1>4, <2>1, PairFacts
    <2> QED BY <1>1, <2>2
  <1>7. ASSUME NEW a \in Side, NEW z, Names(st[a][s].said, z)
        PROVE  Said(a, s, z)
    <2> DEFINE t == st[a][s].said
    <2>1. t \in Seq(Message)
      BY StateTypes DEF PollInv, End
    <2>2. Len(t) >= 2 /\ t[1] = Header /\ t[2] = Token(z)
      BY <1>7 DEF Names
    <2>3. Said(a, s, z) = (SubSeq(t, 1, 2) = <<Header, Token(z)>>)
      BY DEF Said
    <2> HIDE DEF t
    <2>4. SubSeq(t, 1, 2) = <<t[1], t[2]>>
      <3> DEFINE u == SubSeq(t, 1, 2)
                 v == <<t[1], t[2]>>
      <3>1. u \in Seq(Message) /\ Len(u) = 2 /\ u[1] = t[1] /\ u[2] = t[2]
        BY <2>1, <2>2
      <3>2. v \in Seq(Message) /\ Len(v) = 2 /\ v[1] = t[1] /\ v[2] = t[2]
        BY <2>1, <2>2
      <3> HIDE DEF u, v
      <3>3. \A i \in 1 .. 2 : u[i] = v[i]
        BY <3>1, <3>2
      <3>4. u = v
        BY <3>1, <3>2, <3>3
      <3> QED BY <3>4 DEF u, v
    <2> QED BY <2>2, <2>3, <2>4
  <1>8. (Native(p) /\ x # "none") => x = e.desired /\ Said(q, s, x)
    BY <1>1, <1>5, <1>7 DEF OpenerOk, Heard
  <1>9. (Native(q) /\ y # "none") => y \in conf.handlers[q] /\ Said(p, s, y)
    BY <1>1, <1>6, <1>7 DEF AcceptorOk, Heard
  <1>10. ASSUME Native(q), x # "none"
         PROVE  y = x
    <2>1. Native(p)
      BY <1>1, <1>3, <1>10 DEF Pair, Half, Local
    <2>2. Names(f.said, x)
      BY <1>5, <1>10, <2>1 DEF Heard
    <2>3. y # "none"
      <3>1. y = "none" => f.said \in {<<>>, <<Header, Na>>}
        BY <1>6, <1>10 DEF AcceptorOk
      <3> QED BY <2>2, <3>1, NothingNamed
    <2>4. Names(f.said, y)
      BY <1>6, <1>10, <2>3 DEF AcceptorOk
    <2>5. Token(x) = Token(y)
      BY <2>2, <2>4 DEF Names
    <2> HIDE DEF x, y
    <2> QED BY <2>5 DEF Token, Msg
  <1>11. ASSUME conf.native = Side, f.detail = "protocol not supported"
         PROVE  \/ e.stage = "AwaitingOutboundResponse"
                \/ e.detail \in {"protocol not supported", "stream reset locally"}
    <2>1. Native(p) /\ Native(q)
      BY <1>1, <1>11 DEF Native
    <2>2. y = "none" /\ f.said # <<>>
      BY <1>6, <1>11, <2>1 DEF AcceptorOk
    <2>3. Len(e.said) >= 2
      BY <1>6, <2>1, <2>2 DEF Heard
    <2>4. e.said # <<>>
      <3>1. Len(<<>>) = 0 /\ ~(0 >= 2)
        OBVIOUS
      <3> QED BY <2>3, <3>1
    <2>5. e.stage \in {"AwaitingOutboundResponse", "Ready", "Failed"}
      BY <1>2, <1>5, <2>1, <2>4 DEF End, Stages, OpenerOk
    <2>6. e.stage # "Ready"
      BY <1>5, <1>10, <2>1, <2>2 DEF EndOk
    <2>7. e.detail # "write failed"
      BY <1>5, <2>1, <2>4 DEF OpenerOk
    <2>8. Undecided(s, wire[q], e)
      <3>1. f.protocol = "none" /\ Native(Peer(p)) /\ Native(p)
        BY <2>1, <2>2
      <3>2. s[1] # q /\ Native(q) /\ Native(Peer(q))
        BY <1>1, <2>1
      <3>3. Half(q, s, f, wire[q], e, link[p] = "up")
        BY <1>3 DEF Pair
      <3> HIDE DEF e, f, x, y
      <3> QED BY <3>1, <3>2, <3>3 DEF Half
    <2> QED BY <2>5, <2>6, <2>7, <2>8 DEF Undecided
  <1> QED BY <1>8, <1>9, <1>10, <1>11

\* A negotiated protocol is what the opener proposed and the acceptor has a
\* handler for, at both ends the same, in whatever frames the messages come
\* and whatever another implementation sends; a refusal is refused for the
\* same reason at both ends (read_outbound_response, negotiate_inbound, and
\* the comment at the close_write of poll).
THEOREM ProtocolsAgree == Spec => []ProtocolAgreed
  <1>1. PollInv /\ TalkInv => ProtocolAgreed
    <2> SUFFICES ASSUME PollInv, TalkInv
                 PROVE  ProtocolAgreed
      OBVIOUS
    <2>1. \A s \in Sid : s[1] \in Side
      BY StreamsAssumption DEF Sid
    <2> QED BY <2>1, Agreed DEF ProtocolAgreed
  <1> QED BY <1>1, TalkInvariant, PTL

\* The application reads exactly what the other end wrote after the two
\* messages of the negotiation, in order, and while frames reach the stream
\* nothing is missing but what is in flight (finish_negotiation, try_read).
THEOREM DataFollowsNegotiation == Spec => []DataAfterNegotiation
  <1>1. PollInv /\ TalkInv => DataAfterNegotiation
    <2> SUFFICES ASSUME PollInv, TalkInv
                 PROVE  DataAfterNegotiation
      OBVIOUS
    <2>1. \A p \in conf.native : p \in Side /\ Native(p)
      BY DEF PollInv, TypeInv, Native
    <2> QED BY <2>1, DataOfEnd DEF DataAfterNegotiation
  <1> QED BY <1>1, TalkInvariant, PTL
=============================================================================
