-------------------------- MODULE YamuxDataProofs --------------------------
(* Proofs about the data of Yamux, from the invariant of YamuxData.        *)
EXTENDS YamuxData, YamuxIdProofs, Integers, SequenceTheorems

----------------------------------------------------------------------------
(* Sequences of frames.                                                    *)

\* Sums of credit, and an order of numbers.
LEMMA CreditMoves ==
    ASSUME NEW a \in Int, NEW b \in Int, NEW k \in Int, NEW c \in Int
    PROVE  a - k + (b + k) - c = a + b - c
  OBVIOUS

LEMMA AtMost ==
    ASSUME NEW a \in Int, NEW b \in Int, NEW c \in Int, a <= b, b <= c
    PROVE  a <= c
  OBVIOUS

\* The frames after one more has joined.
LEMMA AppendFacts ==
    ASSUME NEW w \in Seq(Frame), NEW g \in Frame
    PROVE  /\ Append(w, g) \in Seq(Frame)
           /\ Len(w) \in Nat /\ Len(Append(w, g)) = Len(w) + 1
           /\ DOMAIN w = 1 .. Len(w)
           /\ DOMAIN Append(w, g) = DOMAIN w \cup {Len(w) + 1}
           /\ \A i \in DOMAIN w : Append(w, g)[i] = w[i] /\ i < Len(w) + 1
           /\ Append(w, g)[Len(w) + 1] = g
  OBVIOUS

\* The frames after the first has left.
LEMMA TailFacts ==
    ASSUME NEW w \in Seq(Frame), w # <<>>
    PROVE  /\ Tail(w) \in Seq(Frame) /\ Head(w) \in Frame
           /\ Len(w) \in Nat /\ Len(Tail(w)) = Len(w) - 1
           /\ DOMAIN w = 1 .. Len(w) /\ DOMAIN Tail(w) = 1 .. (Len(w) - 1)
           /\ 1 \in DOMAIN w /\ Head(w) = w[1]
           /\ \A i \in DOMAIN Tail(w) : i + 1 \in DOMAIN w /\ Tail(w)[i] = w[i + 1]
           /\ \A i \in DOMAIN w : i # 1 => i - 1 \in DOMAIN Tail(w) /\ Tail(w)[i - 1] = w[i]
  OBVIOUS

\* Members of a sequence of frames are frames, with numbers as they should.
LEMMA FrameNumbers ==
    ASSUME NEW w \in Seq(Frame), NEW i \in DOMAIN w
    PROVE  w[i] \in Frame /\ w[i].off \in Nat /\ w[i].len \in Nat /\ w[i].sid \in Nat
  <1>1. w[i] \in Frame
    OBVIOUS
  <1> QED BY <1>1, BoundsAssumption DEF Frame

----------------------------------------------------------------------------
(* Frames that carry bytes.                                                *)

\* A frame without bytes of this kind joins.
LEMMA CarriesAppendOther ==
    ASSUME NEW w \in Seq(Frame), NEW g \in Frame, NEW type, NEW s, NEW from \in Int,
           NEW to \in Int, Carries(w, type, s, from, to), ~HasBytes(g, type, s)
    PROVE  Carries(Append(w, g), type, s, from, to)
  <1> DEFINE v == Append(w, g)
  <1>1. /\ DOMAIN v = DOMAIN w \cup {Len(w) + 1} /\ v[Len(w) + 1] = g
        /\ \A i \in DOMAIN w : v[i] = w[i]
    BY AppendFacts
  <1>2. \A i \in DOMAIN v : HasBytes(v[i], type, s) => i \in DOMAIN w /\ v[i] = w[i]
    BY <1>1
  <1>3. \A i \in DOMAIN w : i \in DOMAIN v /\ v[i] = w[i]
    BY <1>1
  <1> HIDE DEF v
  <1>4. \A i \in DOMAIN v : HasBytes(v[i], type, s) =>
           from <= v[i].off /\ v[i].off + v[i].len <= to
    BY <1>2 DEF Carries
  <1>5. \A i, j \in DOMAIN v :
           (i < j /\ HasBytes(v[i], type, s) /\ HasBytes(v[j], type, s))
              => v[i].off + v[i].len <= v[j].off
    BY <1>2 DEF Carries
  <1>6. \A k \in from + 1 .. to : \E i \in DOMAIN v :
           HasBytes(v[i], type, s) /\ v[i].off < k /\ k <= v[i].off + v[i].len
    BY <1>3 DEF Carries
  <1> QED BY <1>4, <1>5, <1>6 DEF Carries, v

\* The next bytes join.
LEMMA CarriesAppend ==
    ASSUME NEW w \in Seq(Frame), NEW g \in Frame, NEW type, NEW s, NEW from \in Int,
           NEW to \in Int, Carries(w, type, s, from, to), HasBytes(g, type, s), g.off = to
    PROVE  Carries(Append(w, g), type, s, from, to + g.len)
  <1> DEFINE v == Append(w, g)
  <1>1. g.len \in Nat /\ g.len > 0
    BY DEF HasBytes, Frame
  <1>2. from <= to + g.len
    BY <1>1 DEF Carries
  <1>3. ASSUME NEW i \in DOMAIN v, HasBytes(v[i], type, s)
        PROVE  from <= v[i].off /\ v[i].off + v[i].len <= to + g.len
    BY <1>1, <1>3, AppendFacts, FrameNumbers DEF Carries
  <1>4. ASSUME NEW i \in DOMAIN v, NEW j \in DOMAIN v, i < j,
               HasBytes(v[i], type, s), HasBytes(v[j], type, s)
        PROVE  v[i].off + v[i].len <= v[j].off
    BY <1>4, AppendFacts, FrameNumbers DEF Carries
  <1>5. ASSUME NEW k \in from + 1 .. to + g.len
        PROVE  \E i \in DOMAIN v :
                  HasBytes(v[i], type, s) /\ v[i].off < k /\ k <= v[i].off + v[i].len
    <2>1. CASE k \in from + 1 .. to
      BY <2>1, AppendFacts DEF Carries
    <2>2. CASE k \notin from + 1 .. to
      <3>1. g.off < k /\ k <= g.off + g.len
        BY <1>1, <1>5, <2>2
      <3> QED BY <3>1, AppendFacts
    <2> QED BY <2>1, <2>2
  <1> QED BY <1>2, <1>3, <1>4, <1>5 DEF Carries

\* A frame without bytes of this kind leaves.
LEMMA CarriesTailOther ==
    ASSUME NEW w \in Seq(Frame), w # <<>>, NEW type, NEW s, NEW from \in Int,
           NEW to \in Int, Carries(w, type, s, from, to), ~HasBytes(Head(w), type, s)
    PROVE  Carries(Tail(w), type, s, from, to)
  <1> DEFINE v == Tail(w)
  <1>1. \A i \in DOMAIN v : i + 1 \in DOMAIN w /\ v[i] = w[i + 1]
    BY TailFacts
  <1>2. \A i, j \in DOMAIN v : i < j => i + 1 < j + 1
    BY TailFacts
  <1>3. ASSUME NEW k \in from + 1 .. to
        PROVE  \E i \in DOMAIN v :
                  HasBytes(v[i], type, s) /\ v[i].off < k /\ k <= v[i].off + v[i].len
    <2>1. PICK i \in DOMAIN w :
             HasBytes(w[i], type, s) /\ w[i].off < k /\ k <= w[i].off + w[i].len
      BY DEF Carries
    <2>2. i # 1
      BY <2>1, TailFacts
    <2> QED BY <2>1, <2>2, TailFacts
  <1>4. \A i \in DOMAIN v : HasBytes(v[i], type, s) =>
           from <= v[i].off /\ v[i].off + v[i].len <= to
    BY <1>1 DEF Carries
  <1>5. \A i, j \in DOMAIN v :
           (i < j /\ HasBytes(v[i], type, s) /\ HasBytes(v[j], type, s))
              => v[i].off + v[i].len <= v[j].off
    BY <1>1, <1>2 DEF Carries
  <1> QED BY <1>3, <1>4, <1>5 DEF Carries

\* The frame in front carries the first of the bytes; the others the rest.
LEMMA CarriesTail ==
    ASSUME NEW w \in Seq(Frame), w # <<>>, NEW type, NEW s, NEW from \in Int,
           NEW to \in Int, Carries(w, type, s, from, to), HasBytes(Head(w), type, s)
    PROVE  /\ Head(w).off = from
           /\ Carries(Tail(w), type, s, from + Head(w).len, to)
  <1> DEFINE v == Tail(w)
             f == Head(w)
  <1>1. /\ f \in Frame /\ f.off \in Nat /\ f.len \in Nat /\ f.len > 0
        /\ 1 \in DOMAIN w /\ f = w[1]
    BY TailFacts DEF HasBytes, Frame
  <1>2. from <= f.off /\ f.off + f.len <= to
    BY <1>1 DEF Carries
  <1>3. \A j \in DOMAIN w : j # 1 /\ HasBytes(w[j], type, s) => f.off + f.len <= w[j].off
    BY <1>1, TailFacts DEF Carries
  <1>4. f.off = from
    <2>1. from + 1 \in from + 1 .. to
      BY <1>1, <1>2
    <2>2. PICK i \in DOMAIN w :
             HasBytes(w[i], type, s) /\ w[i].off < from + 1 /\ from + 1 <= w[i].off + w[i].len
      BY <2>1 DEF Carries
    <2>3. i = 1
      BY <1>1, <1>2, <1>3, <2>2, FrameNumbers
    <2> QED BY <1>1, <1>2, <2>2, <2>3
  <1>5. \A i \in DOMAIN v : i + 1 \in DOMAIN w /\ i + 1 # 1 /\ v[i] = w[i + 1]
    BY TailFacts
  <1>6. \A i, j \in DOMAIN v : i < j => i + 1 < j + 1
    BY TailFacts
  <1>7. ASSUME NEW k \in from + f.len + 1 .. to
        PROVE  \E i \in DOMAIN v :
                  HasBytes(v[i], type, s) /\ v[i].off < k /\ k <= v[i].off + v[i].len
    <2>1. k \in from + 1 .. to /\ k > f.off + f.len
      BY <1>1, <1>4
    <2>2. PICK i \in DOMAIN w :
             HasBytes(w[i], type, s) /\ w[i].off < k /\ k <= w[i].off + w[i].len
      BY <2>1 DEF Carries
    <2>3. i # 1
      BY <1>1, <2>1, <2>2
    <2> QED BY <2>2, <2>3, TailFacts
  <1>8. \A i \in DOMAIN v : HasBytes(v[i], type, s) =>
           from + f.len <= v[i].off /\ v[i].off + v[i].len <= to
    BY <1>3, <1>4, <1>5 DEF Carries
  <1>9. \A i, j \in DOMAIN v :
           (i < j /\ HasBytes(v[i], type, s) /\ HasBytes(v[j], type, s))
              => v[i].off + v[i].len <= v[j].off
    BY <1>5, <1>6 DEF Carries
  <1> QED BY <1>1, <1>2, <1>4, <1>7, <1>8, <1>9 DEF Carries

\* Nothing is carried exactly when no frame has bytes.
LEMMA CarriesNothing ==
    ASSUME NEW w \in Seq(Frame), NEW type, NEW s, NEW from \in Int, NEW to \in Int,
           Carries(w, type, s, from, to)
    PROVE  from = to <=> \A i \in DOMAIN w : ~HasBytes(w[i], type, s)
  <1>1. ASSUME from = to, NEW i \in DOMAIN w PROVE ~HasBytes(w[i], type, s)
    BY <1>1, FrameNumbers DEF Carries, HasBytes
  <1>2. ASSUME \A i \in DOMAIN w : ~HasBytes(w[i], type, s) PROVE from = to
    <2>1. from + 1 \notin from + 1 .. to
      BY <1>2 DEF Carries
    <2> QED BY <2>1 DEF Carries
  <1> QED BY <1>1, <1>2
----------------------------------------------------------------------------
(* Frames that agree with the state of the sides.                          *)

\* The frames stay, the state grows: p's new streams are ones the peer has
\* had, and the peer has reset what is newly reset.
LEMMA ToldGrows ==
    ASSUME NEW p \in Side, NEW w \in Seq(Frame), NEW own, NEW ended, NEW broken,
           NEW known, NEW gone, Told(p, w, own, ended, broken, known, gone),
           NEW own2, NEW ended2, NEW broken2, NEW known2, NEW gone2,
           own \subseteq own2, ended \subseteq ended2, broken \subseteq broken2,
           known \subseteq known2, gone \subseteq gone2,
           own2 \ own \subseteq known2, broken2 \ broken \subseteq gone2
    PROVE  Told(p, w, own2, ended2, broken2, known2, gone2)
  <1>1. \A i \in DOMAIN w : FrameTold(p, w[i], own2, ended2, broken2)
    BY DEF Told, FrameTold
  <1> QED BY <1>1 DEF Told

\* A frame that is no SYN, and agrees with the state, joins.
LEMMA ToldAppend ==
    ASSUME NEW p \in Side, NEW w \in Seq(Frame), NEW g \in Frame,
           NEW own, NEW ended, NEW broken, NEW known, NEW gone,
           Told(p, w, own, ended, broken, known, gone),
           FrameTold(p, g, own, ended, broken),
           HasBytes(g, "Data", g.sid) => g.sid \notin ended
    PROVE  Told(p, Append(w, g), own, ended, broken, known, gone)
  <1> DEFINE v == Append(w, g)
             n == Len(w)
  <1>1. /\ n \in Nat /\ Len(v) = n + 1 /\ DOMAIN w = 1 .. n
        /\ DOMAIN v = DOMAIN w \cup {n + 1} /\ v[n + 1] = g
        /\ \A i \in DOMAIN w : v[i] = w[i] /\ i \in Nat /\ i <= n
    BY AppendFacts
  <1> HIDE DEF v, n
  <1>2. \A i \in DOMAIN v : FrameTold(p, v[i], own, ended, broken)
    BY <1>1 DEF Told
  <1>3. \A s \in own \ known : SynAmong(p, w, n, s)
    BY DEF Told, n
  <1>4. \A m \in Nat : \A s : SynAmong(p, w, m, s) => SynAmong(p, v, m, s)
    BY <1>1 DEF SynAmong
  <1>5. \A s : SynAmong(p, v, n, s) => SynAmong(p, v, Len(v), s)
    BY <1>1 DEF SynAmong
  <1>6. ASSUME NEW i \in DOMAIN v, IsStreamFrame(v[i]), "SYN" \notin v[i].flags,
               v[i].sid \notin known
        PROVE  SynAmong(p, v, i - 1, v[i].sid)
    <2>1. CASE i \in DOMAIN w
      <3>1. SynAmong(p, w, i - 1, w[i].sid)
        BY <1>1, <1>6, <2>1 DEF Told
      <3>2. i - 1 \in Nat
        BY <1>1, <2>1
      <3> QED BY <1>1, <1>4, <2>1, <3>1, <3>2
    <2>2. CASE i = n + 1
      <3>1. i - 1 = n /\ v[i] = g /\ g.sid \in own
        BY <1>1, <1>6, <2>2 DEF FrameTold
      <3> QED BY <1>1, <1>3, <1>4, <1>6, <3>1
    <2> QED BY <1>1, <2>1, <2>2
  <1>7. ASSUME NEW i \in DOMAIN v, NEW j \in DOMAIN v, i < j, "FIN" \in v[i].flags
        PROVE  ~HasBytes(v[j], "Data", v[i].sid)
    <2>1. i \in DOMAIN w /\ v[i] = w[i]
      BY <1>1, <1>7
    <2>2. CASE j \in DOMAIN w
      BY <1>1, <1>7, <2>1, <2>2 DEF Told
    <2>3. CASE j = n + 1
      <3>1. v[i].sid \in ended
        BY <1>2, <1>7 DEF FrameTold
      <3> QED BY <1>1, <2>3, <3>1 DEF HasBytes
    <2> QED BY <1>1, <2>2, <2>3
  <1>8. \A s \in broken \ gone : RstAmong(v, s)
    BY <1>1 DEF Told, RstAmong
  <1> QED BY <1>2, <1>3, <1>4, <1>5, <1>6, <1>7, <1>8, <1>1 DEF Told, v

\* The SYN of a new stream joins.
LEMMA ToldSyn ==
    ASSUME NEW p \in Side, NEW w \in Seq(Frame), NEW g \in Frame,
           NEW own, NEW ended, NEW broken, NEW known, NEW gone,
           Told(p, w, own, ended, broken, known, gone),
           IsSyn(p, g), FrameTold(p, g, own \cup {g.sid}, ended, broken),
           g.len = 0, g.sid \notin known
    PROVE  Told(p, Append(w, g), own \cup {g.sid}, ended, broken, known, gone)
  <1> DEFINE v == Append(w, g)
             n == Len(w)
             own2 == own \cup {g.sid}
  <1>1. /\ n \in Nat /\ Len(v) = n + 1 /\ DOMAIN w = 1 .. n
        /\ DOMAIN v = DOMAIN w \cup {n + 1} /\ v[n + 1] = g
        /\ \A i \in DOMAIN w : v[i] = w[i] /\ i \in Nat /\ i <= n
    BY AppendFacts
  <1> HIDE DEF v, n
  <1>2. \A i \in DOMAIN v : FrameTold(p, v[i], own2, ended, broken)
    BY <1>1 DEF Told, FrameTold
  <1>3. \A m \in Nat : \A s : SynAmong(p, w, m, s) => SynAmong(p, v, m, s)
    BY <1>1 DEF SynAmong
  <1>4. \A s \in own2 \ known : SynAmong(p, v, Len(v), s)
    <2>1. SynAmong(p, v, Len(v), g.sid)
      BY <1>1 DEF SynAmong
    <2>2. \A s \in own \ known : SynAmong(p, w, n, s)
      BY DEF Told, n
    <2>3. \A s : SynAmong(p, v, n, s) => SynAmong(p, v, Len(v), s)
      BY <1>1 DEF SynAmong
    <2> QED BY <1>1, <1>3, <2>1, <2>2, <2>3
  <1>5. ASSUME NEW i \in DOMAIN v, IsStreamFrame(v[i]), "SYN" \notin v[i].flags,
               v[i].sid \notin known
        PROVE  SynAmong(p, v, i - 1, v[i].sid)
    <2>1. i \in DOMAIN w
      BY <1>1, <1>5 DEF IsSyn
    <2>2. SynAmong(p, w, i - 1, w[i].sid)
      BY <1>1, <1>5, <2>1 DEF Told
    <2>3. i - 1 \in Nat
      BY <1>1, <2>1
    <2> QED BY <1>1, <1>3, <2>1, <2>2, <2>3
  <1>6. ASSUME NEW i \in DOMAIN v, NEW j \in DOMAIN v, i < j, "FIN" \in v[i].flags
        PROVE  ~HasBytes(v[j], "Data", v[i].sid)
    <2>1. i \in DOMAIN w /\ v[i] = w[i]
      BY <1>1, <1>6
    <2>2. CASE j \in DOMAIN w
      BY <1>1, <1>6, <2>1, <2>2 DEF Told
    <2>3. CASE j = n + 1
      BY <1>1, <2>3 DEF HasBytes
    <2> QED BY <1>1, <2>2, <2>3
  <1>7. \A s \in broken \ gone : RstAmong(v, s)
    BY <1>1 DEF Told, RstAmong
  <1> QED BY <1>2, <1>4, <1>5, <1>6, <1>7 DEF Told, v

\* The RST of a stream joins, and its write side is closed with it.
LEMMA ToldRst ==
    ASSUME NEW p \in Side, NEW w \in Seq(Frame), NEW g \in Frame,
           NEW own, NEW ended, NEW broken, NEW known, NEW gone,
           Told(p, w, own, ended, broken, known, gone),
           FrameTold(p, g, own, ended \cup {g.sid}, broken \cup {g.sid}),
           "RST" \in g.flags, g.len = 0
    PROVE  Told(p, Append(w, g), own, ended \cup {g.sid}, broken \cup {g.sid}, known, gone)
  <1> DEFINE gone2 == gone \cup {g.sid}
             ended2 == ended \cup {g.sid}
             broken2 == broken \cup {g.sid}
  <1>1. Told(p, w, own, ended2, broken2, known, gone2)
    BY ToldGrows
  <1>2. Told(p, Append(w, g), own, ended2, broken2, known, gone2)
    BY <1>1, ToldAppend DEF HasBytes
  <1>3. RstAmong(Append(w, g), g.sid)
    BY AppendFacts DEF RstAmong
  <1>4. \A s \in broken \ gone : RstAmong(Append(w, g), s)
    BY AppendFacts DEF Told, RstAmong
  <1> QED BY <1>2, <1>3, <1>4 DEF Told

\* The peer takes the frame in front: a SYN makes it know the stream, a RST
\* makes it reset the stream.
LEMMA ToldTail ==
    ASSUME NEW p \in Side, NEW w \in Seq(Frame), w # <<>>,
           NEW own, NEW ended, NEW broken, NEW known, NEW gone,
           Told(p, w, own, ended, broken, known, gone),
           IsSyn(p, Head(w)) => Head(w).sid \in known,
           "RST" \in Head(w).flags => Head(w).sid \in gone
    PROVE  Told(p, Tail(w), own, ended, broken, known, gone)
  <1> DEFINE v == Tail(w)
             n == Len(w)
  <1>1. /\ n \in Nat /\ Len(v) = n - 1 /\ DOMAIN w = 1 .. n /\ Head(w) = w[1]
        /\ DOMAIN v = 1 .. (n - 1)
        /\ \A i \in DOMAIN v : i + 1 \in DOMAIN w /\ v[i] = w[i + 1]
        /\ \A i \in DOMAIN w : i # 1 => i - 1 \in DOMAIN v /\ v[i - 1] = w[i]
    BY TailFacts
  <1> HIDE DEF v, n
  <1>2. \A i \in DOMAIN v : FrameTold(p, v[i], own, ended, broken)
    BY <1>1 DEF Told
  <1>3. ASSUME NEW m \in Int, NEW s, s \notin known, SynAmong(p, w, m, s)
        PROVE  SynAmong(p, v, m - 1, s)
    <2>1. PICK j \in DOMAIN w : j <= m /\ IsSyn(p, w[j]) /\ w[j].sid = s
      BY <1>3 DEF SynAmong
    <2>2. j # 1
      BY <1>1, <1>3, <2>1
    <2>3. j - 1 \in DOMAIN v /\ v[j - 1] = w[j] /\ j - 1 <= m - 1
      BY <1>1, <2>1, <2>2
    <2> QED BY <2>1, <2>3 DEF SynAmong
  <1>4. \A s \in own \ known : SynAmong(p, v, Len(v), s)
    <2>1. \A s \in own \ known : SynAmong(p, w, n, s)
      BY DEF Told, n
    <2> QED BY <1>1, <1>3, <2>1
  <1>5. ASSUME NEW i \in DOMAIN v, IsStreamFrame(v[i]), "SYN" \notin v[i].flags,
               v[i].sid \notin known
        PROVE  SynAmong(p, v, i - 1, v[i].sid)
    <2>1. i + 1 \in DOMAIN w /\ v[i] = w[i + 1] /\ i \in Int /\ i + 1 - 1 = i
      BY <1>1
    <2>2. SynAmong(p, w, i, v[i].sid)
      BY <1>5, <2>1 DEF Told
    <2> QED BY <1>3, <1>5, <2>1, <2>2
  <1>6. ASSUME NEW i \in DOMAIN v, NEW j \in DOMAIN v, i < j, "FIN" \in v[i].flags
        PROVE  ~HasBytes(v[j], "Data", v[i].sid)
    <2>1. i + 1 \in DOMAIN w /\ j + 1 \in DOMAIN w /\ i + 1 < j + 1
          /\ v[i] = w[i + 1] /\ v[j] = w[j + 1]
      BY <1>1, <1>6
    <2> QED BY <1>6, <2>1 DEF Told
  <1>7. ASSUME NEW s \in broken \ gone PROVE RstAmong(v, s)
    <2>1. PICK j \in DOMAIN w : w[j].sid = s /\ "RST" \in w[j].flags
      BY DEF Told, RstAmong
    <2>2. j # 1
      BY <1>1, <2>1
    <2> QED BY <1>1, <2>1, <2>2 DEF RstAmong
  <1> QED BY <1>2, <1>4, <1>5, <1>6, <1>7 DEF Told, v
----------------------------------------------------------------------------
(* Steps that send.                                                        *)

LEMMA Sides == \A p, q \in Side : q = p \/ q = Peer(p)
  BY DEF Side, Peer

\* The counters are numbers.
LEMMA Counters ==
    ASSUME TypeOK, NEW p \in Side, NEW s \in Sid
    PROVE  /\ Len(recvBuf[p][s]) \in Nat /\ taken[p][s] \in Nat /\ written[p][s] \in Nat
           /\ sendWindow[p][s] \in Nat /\ Arrived(p, s) \in Nat /\ Credited(p, s) \in Int
  <1>1. /\ recvBuf[p][s] \in Seq(Nat) /\ taken[p][s] \in Nat /\ written[p][s] \in Nat
        /\ sendWindow[p][s] \in 0 .. MaxU32
    BY DEF TypeOK
  <1>2. Len(recvBuf[p][s]) \in Nat /\ sendWindow[p][s] \in Nat
    BY <1>1, MaxU32Assumption
  <1>3. Arrived(p, s) \in Nat
    BY <1>1, <1>2 DEF Arrived
  <1>4. sendWindow[p][s] + written[p][s] - Window \in Int
    BY SMTT(30), <1>1, <1>2, WindowAssumption
  <1>5. Credited(p, s) \in Int
    BY <1>4 DEF Credited
  <1> QED BY <1>1, <1>2, <1>3, <1>5

LEMMA WireAfterSend ==
    ASSUME TypeOK, NEW p \in Side, NEW g, Send(p, g)
    PROVE  /\ wire'[p] = Append(wire[p], g)
           /\ \A q \in Side : q # p => wire'[q] = wire[q]
           /\ \A q \in Side : wire[q] \in Seq(Frame)
  BY DEF Send, TypeOK

\* What p sends leaves alone the bytes it has none of.
LEMMA CarriesSent ==
    ASSUME TypeOK, NEW p \in Side, NEW g \in Frame, Send(p, g), NEW q \in Side,
           NEW type, NEW s, NEW from \in Int, NEW to \in Int,
           Carries(wire[q], type, s, from, to), q = p => ~HasBytes(g, type, s)
    PROVE  Carries(wire'[q], type, s, from, to)
  <1>1. CASE q = p
    BY <1>1, WireAfterSend, CarriesAppendOther
  <1>2. CASE q # p
    BY <1>2, WireAfterSend
  <1> QED BY <1>1, <1>2

\* A step in which p sends a frame without bytes, the flow stays as it is.
LEMMA FlowKept ==
    ASSUME TypeOK, DataInv, NEW p \in Side, NEW g \in Frame, Send(p, g),
           \A type \in {"Data", "WindowUpdate"}, s \in Sid : ~HasBytes(g, type, s),
           UNCHANGED <<written, taken, recvBuf, reset>>,
           \A q \in Side, s \in Sid : Credited(q, s)' = Credited(q, s)
    PROVE  DataCarried' /\ CreditCarried' /\ InOrder'
  <1>1. \A q \in Side, s \in Sid : Arrived(q, s)' = Arrived(q, s)
    BY DEF Arrived
  <1>2. DataCarried'
    <2> SUFFICES ASSUME NEW q \in Side, NEW s \in Sid
                 PROVE  /\ Arrived(Peer(q), s) <= written[q][s]
                        /\ s \notin reset[Peer(q)] =>
                              Carries(wire'[q], "Data", s, Arrived(Peer(q), s), written[q][s])
      BY <1>1, PeerType DEF DataCarried
    <2>1. Arrived(Peer(q), s) \in Int /\ written[q][s] \in Int
      BY Counters, PeerType
    <2> QED BY <2>1, CarriesSent DEF DataInv, DataCarried
  <1>3. CreditCarried'
    <2> SUFFICES ASSUME NEW q \in Side, NEW s \in Sid, s \notin reset[q]
                 PROVE  Carries(wire'[Peer(q)], "WindowUpdate", s, Credited(q, s),
                                taken[Peer(q)][s])
      BY PeerType DEF CreditCarried
    <2>1. Credited(q, s) \in Int /\ taken[Peer(q)][s] \in Int /\ Peer(q) \in Side
      BY Counters, PeerType
    <2> QED BY <2>1, CarriesSent DEF DataInv, CreditCarried
  <1>4. InOrder'
    BY DEF DataInv, InOrder
  <1> QED BY <1>2, <1>3, <1>4

\* open_stream preserves the invariant.
LEMMA DataOpenStream ==
    ASSUME TypeOK, IdInv, DataInv, NEW p \in Side, OpenStream(p)
    PROVE  DataInv'
  <1> DEFINE s == nextStreamId[p]
             g == DataFrame(s, {"SYN"}, 0, 0)
             q == Peer(p)
  <1>1. /\ s \in Sid /\ s \in Nat /\ q \in Side /\ q # p /\ Peer(q) = p
        /\ wire[p] \in Seq(Frame) /\ wire[q] \in Seq(Frame)
    BY PeerType, BoundsAssumption DEF OpenStream, Sid, TypeOK
  <1>2. g \in Frame /\ g.flags = {"SYN"} /\ g.sid = s /\ g.type = "Data" /\ g.len = 0
    BY <1>1, FrameTypes DEF DataFrame, Flag
  <1>3. s \notin handles[p] /\ s \notin handles[q] /\ LocalStreamId(p, s)
    <2>1. LocalStreamId(p, s) /\ ~LocalStreamId(q, s)
      BY <1>1, Parity DEF IdInv, NextIdsLocal
    <2>2. s \in handles[p] => s < s
      BY <2>1 DEF IdInv, HandlesAllocated
    <2>3. s \in handles[q] => s < s
      BY <1>1, <2>1 DEF IdInv, HandlesAllocated
    <2> QED BY <1>1, <2>1, <2>2, <2>3
  <1>4. /\ Send(p, g)
        /\ handles' = [handles EXCEPT ![p] = @ \cup {s}]
        /\ streams' = [streams EXCEPT ![p] = @ \cup {s}]
        /\ sendWindow' = [sendWindow EXCEPT ![p][s] = Window]
        /\ UNCHANGED <<recvBuf, readClosed, writeClosed, reset, written, taken>>
    BY DEF OpenStream, history
  <1> HIDE DEF s, g
  <1>5. AllTold'
    <2>1. Told(p, wire[p], handles[p], writeClosed[p], reset[p], handles[q], reset[q])
      BY DEF DataInv, AllTold
    <2>2. Told(q, wire[q], handles[q], writeClosed[q], reset[q], handles[p], reset[p])
      BY <1>1 DEF DataInv, AllTold
    <2>3. IsSyn(p, g) /\ FrameTold(p, g, handles[p] \cup {g.sid}, writeClosed[p], reset[p])
      BY <1>1, <1>2, <1>3 DEF IsSyn, FrameTold
    <2>4. Told(p, Append(wire[p], g), handles[p] \cup {s}, writeClosed[p], reset[p],
               handles[q], reset[q])
      BY <1>1, <1>2, <1>3, <2>1, <2>3, ToldSyn
    <2>5. Told(q, wire[q], handles[q], writeClosed[q], reset[q], handles[p] \cup {s}, reset[p])
      BY <1>1, <2>2, ToldGrows
    <2>6. wire'[p] = Append(wire[p], g) /\ wire'[q] = wire[q]
      BY <1>1, <1>4, WireAfterSend
    <2>7. handles'[p] = handles[p] \cup {s} /\ handles'[q] = handles[q]
      BY <1>1, <1>4 DEF TypeOK
    <2> QED BY <1>1, <1>4, <2>4, <2>5, <2>6, <2>7, Sides DEF AllTold
  <1>6. StreamsLocal'
    <2>1. s \notin reset[p]
      BY <1>3 DEF DataInv, StreamsLocal
    <2>2. /\ handles'[p] = handles[p] \cup {s} /\ handles'[q] = handles[q]
          /\ streams'[p] = streams[p] \cup {s} /\ streams'[q] = streams[q]
      BY <1>1, <1>4 DEF TypeOK
    <2> QED BY <1>1, <1>4, <2>1, <2>2, Sides DEF DataInv, StreamsLocal
  <1>7. ASSUME NEW r \in Side, NEW t \in Sid
        PROVE  Credited(r, t)' = Credited(r, t)
    <2>1. CASE r = p /\ t = s
      <3>1. written[p][s] = 0 /\ sendWindow'[p][s] = Window /\ s \in handles'[p]
        BY <1>1, <1>3, <1>4 DEF DataInv, StreamsLocal, TypeOK
      <3> QED BY <1>3, <1>4, <2>1, <3>1, WindowAssumption DEF Credited
    <2>2. CASE ~(r = p /\ t = s)
      <3>1. sendWindow'[r][t] = sendWindow[r][t] /\ (t \in handles'[r] <=> t \in handles[r])
        BY <1>4, <2>2 DEF TypeOK
      <3> QED BY <1>4, <3>1 DEF Credited
    <2> QED BY <2>1, <2>2
  <1>8. DataCarried' /\ CreditCarried' /\ InOrder'
    BY <1>2, <1>4, <1>7, FlowKept DEF HasBytes
  <1>9. EofComplete'
    BY <1>4 DEF DataInv, EofComplete
  <1> QED BY <1>5, <1>6, <1>8, <1>9 DEF DataInv
\* The frames of the two sides after p has sent a frame that agrees with its
\* state, in a step that changes nothing the frames depend on.
LEMMA ToldSent ==
    ASSUME TypeOK, AllTold, NEW p \in Side, NEW g \in Frame, Send(p, g),
           FrameTold(p, g, handles[p], writeClosed[p], reset[p]),
           HasBytes(g, "Data", g.sid) => g.sid \notin writeClosed[p],
           UNCHANGED <<handles, writeClosed, reset>>
    PROVE  AllTold'
  <1> DEFINE q == Peer(p)
  <1>1. /\ q \in Side /\ q # p /\ Peer(q) = p
        /\ wire'[p] = Append(wire[p], g) /\ wire'[q] = wire[q]
        /\ wire[p] \in Seq(Frame)
    BY PeerType, WireAfterSend
  <1>2. Told(p, wire[p], handles[p], writeClosed[p], reset[p], handles[q], reset[q])
    BY DEF AllTold
  <1>3. Told(p, wire'[p], handles[p], writeClosed[p], reset[p], handles[q], reset[q])
    BY <1>1, <1>2, ToldAppend
  <1>4. Told(q, wire[q], handles[q], writeClosed[q], reset[q], handles[p], reset[p])
    BY <1>1 DEF AllTold
  <1> QED BY <1>1, <1>3, <1>4, Sides DEF AllTold

\* try_write preserves the invariant: the bytes join the ones in flight.
LEMMA DataTryWrite ==
    ASSUME TypeOK, DataInv, NEW p \in Side, NEW s \in Sid, NEW n \in 1 .. MaxIo,
           TryWrite(p, s, n)
    PROVE  DataInv'
  <1> DEFINE k == Lesser(n, sendWindow[p][s])
             g == DataFrame(s, {}, written[p][s], k)
             q == Peer(p)
  <1>1. /\ k \in Nat /\ k > 0 /\ written[p][s] \in Nat /\ sendWindow[p][s] \in Nat
        /\ q \in Side /\ q # p /\ Peer(q) = p /\ wire[p] \in Seq(Frame)
    BY Counters, PeerType, BoundsAssumption DEF TryWrite, Lesser, TypeOK
  <1>2. /\ s \in handles[p] /\ s \notin writeClosed[p]
        /\ Send(p, g)
        /\ sendWindow' = [sendWindow EXCEPT ![p][s] = @ - k]
        /\ written' = [written EXCEPT ![p][s] = @ + k]
        /\ UNCHANGED <<streams, handles, recvBuf, readClosed, writeClosed, reset, taken>>
    BY DEF TryWrite, Writable
  <1> HIDE DEF k
  <1>3. /\ g \in Frame /\ g.flags = {} /\ g.sid = s /\ g.type = "Data"
        /\ g.off = written[p][s] /\ g.len = k
    BY <1>1, FrameTypes DEF DataFrame
  <1> HIDE DEF g
  <1>4. AllTold'
    <2>1. FrameTold(p, g, handles[p], writeClosed[p], reset[p])
      BY <1>2, <1>3 DEF FrameTold, IsSyn
    <2> QED BY <1>2, <1>3, <2>1, ToldSent DEF DataInv
  <1>5. /\ written'[p][s] = written[p][s] + k
        /\ sendWindow'[p][s] = sendWindow[p][s] - k
        /\ \A r \in Side, t \in Sid : ~(r = p /\ t = s) =>
              written'[r][t] = written[r][t] /\ sendWindow'[r][t] = sendWindow[r][t]
    BY <1>2 DEF TypeOK
  <1>6. StreamsLocal'
    BY <1>2, <1>5 DEF DataInv, StreamsLocal
  <1>7. /\ \A r \in Side, t \in Sid : Arrived(r, t)' = Arrived(r, t)
        /\ \A r \in Side, t \in Sid : Credited(r, t)' = Credited(r, t)
    <2>1. sendWindow[p][s] - k + (written[p][s] + k) - Window
             = sendWindow[p][s] + written[p][s] - Window
      <3>1. /\ sendWindow[p][s] \in Int /\ written[p][s] \in Int
            /\ k \in Int /\ Window \in Int
        BY <1>1, WindowAssumption
      <3> HIDE DEF k
      <3> QED BY <3>1, CreditMoves
    <2> QED BY <1>2, <1>5, <2>1 DEF Arrived, Credited
  <1>8. DataCarried'
    <2> SUFFICES ASSUME NEW r \in Side, NEW t \in Sid
                 PROVE  /\ Arrived(Peer(r), t) <= written'[r][t]
                        /\ t \notin reset[Peer(r)] =>
                              Carries(wire'[r], "Data", t, Arrived(Peer(r), t), written'[r][t])
      BY <1>2, <1>7, PeerType DEF DataCarried
    <2>1. /\ Arrived(Peer(r), t) \in Nat /\ written[r][t] \in Nat
          /\ Arrived(Peer(r), t) <= written[r][t]
          /\ t \notin reset[Peer(r)] =>
                Carries(wire[r], "Data", t, Arrived(Peer(r), t), written[r][t])
      BY Counters, PeerType DEF DataInv, DataCarried
    <2>2. CASE r = p /\ t = s
      <3>1. wire'[r] = Append(wire[r], g) /\ HasBytes(g, "Data", t)
        BY <1>1, <1>2, <1>3, <2>2, WireAfterSend DEF HasBytes
      <3>2. t \notin reset[Peer(r)] =>
               Carries(wire'[r], "Data", t, Arrived(Peer(r), t), written[r][t] + g.len)
        BY <1>1, <1>3, <2>1, <2>2, <3>1, CarriesAppend
      <3> QED BY <1>1, <1>3, <1>5, <2>1, <2>2, <3>2
    <2>3. CASE ~(r = p /\ t = s)
      <3>1. r = p => ~HasBytes(g, "Data", t)
        BY <1>3, <2>3 DEF HasBytes
      <3>2. written'[r][t] = written[r][t] /\ Peer(r) \in Side
        BY <1>5, <2>3, PeerType
      <3>3. Arrived(Peer(r), t) \in Int /\ written[r][t] \in Int
        BY <2>1
      <3> QED BY <1>2, <1>3, <2>1, <3>1, <3>2, <3>3, CarriesSent
    <2> QED BY <2>2, <2>3
  <1>9. CreditCarried'
    <2> SUFFICES ASSUME NEW r \in Side, NEW t \in Sid, t \notin reset[r]
                 PROVE  Carries(wire'[Peer(r)], "WindowUpdate", t, Credited(r, t),
                                taken[Peer(r)][t])
      BY <1>2, <1>7, PeerType DEF CreditCarried
    <2>1. Credited(r, t) \in Int /\ taken[Peer(r)][t] \in Int /\ Peer(r) \in Side
      BY Counters, PeerType
    <2>2. ~HasBytes(g, "WindowUpdate", t)
      BY <1>3 DEF HasBytes
    <2> QED BY <1>2, <1>3, <2>1, <2>2, CarriesSent DEF DataInv, CreditCarried
  <1>10. InOrder'
    BY <1>2 DEF DataInv, InOrder
  <1>11. EofComplete'
    BY <1>1, <1>2, <1>5, PeerType DEF DataInv, EofComplete
  <1> QED BY <1>4, <1>6, <1>8, <1>9, <1>10, <1>11 DEF DataInv

\* A buffer holds the bytes from a + 1 on, byte by byte.
Holds(b, a) == \A i \in 1 .. Len(b) : b[i] = a + i

LEMMA BufferHolds ==
    ASSUME NEW b \in Seq(Nat), NEW a \in Nat
    PROVE  Holds(b, a) <=> b = [i \in 1 .. Len(b) |-> a + i]
  <1>1. b = [i \in 1 .. Len(b) |-> b[i]]
    OBVIOUS
  <1>2. ASSUME Holds(b, a) PROVE b = [i \in 1 .. Len(b) |-> a + i]
    <2>1. [i \in 1 .. Len(b) |-> b[i]] = [i \in 1 .. Len(b) |-> a + i]
      BY <1>2 DEF Holds
    <2> QED BY <1>1, <2>1
  <1>3. ASSUME b = [i \in 1 .. Len(b) |-> a + i] PROVE Holds(b, a)
    <2> DEFINE n == Len(b)
    <2>1. b = [i \in 1 .. n |-> a + i]
      BY <1>3
    <2> HIDE DEF n
    <2>2. \A i \in 1 .. n : b[i] = a + i
      BY <2>1
    <2> QED BY <2>2 DEF Holds, n
  <1> QED BY <1>2, <1>3

LEMMA BufferRest ==
    ASSUME NEW b \in Seq(Nat), NEW a \in Nat, Holds(b, a), NEW k \in 1 .. Len(b)
    PROVE  LET c == SubSeq(b, k + 1, Len(b))
           IN c \in Seq(Nat) /\ Len(c) = Len(b) - k /\ Holds(c, a + k)
  <1> DEFINE c == SubSeq(b, k + 1, Len(b))
  <1>1. k + 1 \in Int /\ Len(b) \in Int /\ k \in Int /\ Len(b) >= k
    OBVIOUS
  <1>2. \A i \in k + 1 .. Len(b) : b[i] \in Nat
    OBVIOUS
  <1>3. /\ c \in Seq(Nat)
        /\ Len(c) = IF k + 1 <= Len(b) THEN Len(b) - (k + 1) + 1 ELSE 0
        /\ \A i \in 1 .. Len(b) - (k + 1) + 1 : c[i] = b[k + 1 + i - 1]
    BY <1>1, <1>2, SubSeqProperties
  <1> HIDE DEF c
  <1>4. Len(c) = Len(b) - k
    BY <1>1, <1>3
  <1>5. \A i \in 1 .. Len(c) : i \in 1 .. Len(b) - (k + 1) + 1 /\ k + 1 + i - 1 = k + i
                               /\ k + i \in 1 .. Len(b) /\ a + (k + i) = a + k + i
    BY <1>1, <1>4
  <1>6. Holds(c, a + k)
    BY <1>3, <1>5 DEF Holds
  <1> QED BY <1>3, <1>4, <1>6 DEF c

\* try_read preserves the invariant: the credit joins what is in flight.
LEMMA DataTryRead ==
    ASSUME TypeOK, DataInv, NEW p \in Side, NEW s \in Sid, NEW n \in 1 .. MaxIo,
           TryRead(p, s, n)
    PROVE  DataInv'
  <1> DEFINE b == recvBuf[p][s]
             k == Lesser(n, Len(b))
             c == SubSeq(b, k + 1, Len(b))
             g == WindowUpdateFrame(s, taken[p][s], k)
             q == Peer(p)
  <1>1. /\ b \in Seq(Nat) /\ taken[p][s] \in Nat /\ Len(b) \in Nat
        /\ q \in Side /\ q # p /\ Peer(q) = p /\ wire[p] \in Seq(Frame)
    BY Counters, PeerType DEF TypeOK
  <1>2. k \in 1 .. Len(b) /\ k \in Nat /\ k > 0 /\ b # <<>>
    BY SMTT(30), <1>1, BoundsAssumption DEF TryRead, Lesser
  <1>3. /\ s \in handles[p]
        /\ Send(p, g)
        /\ recvBuf' = [recvBuf EXCEPT ![p][s] = c]
        /\ taken' = [taken EXCEPT ![p][s] = @ + k]
        /\ UNCHANGED <<streams, sendWindow, handles, readClosed, writeClosed, reset, written>>
    BY DEF TryRead
  <1>4. /\ c \in Seq(Nat) /\ Len(c) = Len(b) - k
        /\ Holds(c, taken[p][s] + k)
    <2>1. Holds(b, taken[p][s])
      BY <1>1, BufferHolds DEF DataInv, InOrder
    <2> HIDE DEF b, k
    <2> QED BY <1>1, <1>2, <2>1, BufferRest
  <1>5. /\ g \in Frame /\ g.flags = {} /\ g.sid = s /\ g.type = "WindowUpdate"
        /\ g.off = taken[p][s] /\ g.len = k
    BY <1>1, <1>2, FrameTypes DEF WindowUpdateFrame
  <1> HIDE DEF k, g, c
  <1>6. /\ recvBuf'[p][s] = c /\ taken'[p][s] = taken[p][s] + k
        /\ \A r \in Side, t \in Sid : ~(r = p /\ t = s) =>
              recvBuf'[r][t] = recvBuf[r][t] /\ taken'[r][t] = taken[r][t]
    BY <1>3 DEF TypeOK
  <1> HIDE DEF b
  <1>7. AllTold'
    <2>1. FrameTold(p, g, handles[p], writeClosed[p], reset[p])
      BY <1>3, <1>5 DEF FrameTold, IsSyn
    <2> QED BY <1>3, <1>5, <2>1, ToldSent DEF DataInv, HasBytes
  <1>8. s \notin reset[p]
    BY <1>2 DEF DataInv, StreamsLocal, b
  <1>9. StreamsLocal'
    BY <1>3, <1>6, <1>8 DEF DataInv, StreamsLocal
  <1>10. /\ \A r \in Side, t \in Sid : Arrived(r, t)' = Arrived(r, t)
         /\ \A r \in Side, t \in Sid : Credited(r, t)' = Credited(r, t)
    <2>1. taken[p][s] + k + Len(c) = taken[p][s] + Len(b)
      BY <1>1, <1>2, <1>4
    <2> QED BY <1>3, <1>6, <2>1 DEF Arrived, Credited, b
  <1>11. DataCarried'
    <2> SUFFICES ASSUME NEW r \in Side, NEW t \in Sid
                 PROVE  /\ Arrived(Peer(r), t) <= written[r][t]
                        /\ t \notin reset[Peer(r)] =>
                              Carries(wire'[r], "Data", t, Arrived(Peer(r), t), written[r][t])
      BY <1>3, <1>10, PeerType DEF DataCarried
    <2>1. Arrived(Peer(r), t) \in Int /\ written[r][t] \in Int
      BY Counters, PeerType
    <2>2. ~HasBytes(g, "Data", t)
      BY <1>5 DEF HasBytes
    <2> QED BY <1>3, <1>5, <2>1, <2>2, CarriesSent DEF DataInv, DataCarried
  <1>12. CreditCarried'
    <2> SUFFICES ASSUME NEW r \in Side, NEW t \in Sid, t \notin reset[r]
                 PROVE  Carries(wire'[Peer(r)], "WindowUpdate", t, Credited(r, t),
                                taken'[Peer(r)][t])
      BY <1>3, <1>10, PeerType DEF CreditCarried
    <2>1. /\ Credited(r, t) \in Int /\ taken[Peer(r)][t] \in Int /\ Peer(r) \in Side
          /\ Carries(wire[Peer(r)], "WindowUpdate", t, Credited(r, t), taken[Peer(r)][t])
      BY SMTT(30), Counters, PeerType DEF DataInv, CreditCarried
    <2>2. CASE Peer(r) = p /\ t = s
      <3>1. wire'[p] = Append(wire[p], g) /\ HasBytes(g, "WindowUpdate", t)
        BY <1>2, <1>3, <1>5, <2>2, WireAfterSend DEF HasBytes
      <3>2. Carries(wire'[p], "WindowUpdate", t, Credited(r, t), taken[p][t] + g.len)
        BY <1>1, <1>5, <2>1, <2>2, <3>1, CarriesAppend
      <3> QED BY <1>5, <1>6, <2>2, <3>2
    <2>3. CASE ~(Peer(r) = p /\ t = s)
      <3>1. Peer(r) = p => ~HasBytes(g, "WindowUpdate", t)
        BY <1>5, <2>3 DEF HasBytes
      <3> QED BY <1>3, <1>5, <1>6, <2>1, <2>3, <3>1, CarriesSent
    <2> QED BY <2>2, <2>3
  <1>13. InOrder'
    <2> SUFFICES ASSUME NEW r \in Side, NEW t \in Sid
                 PROVE  recvBuf'[r][t]
                           = [i \in 1 .. Len(recvBuf'[r][t]) |-> taken'[r][t] + i]
      BY DEF InOrder
    <2>1. CASE r = p /\ t = s
      <3> DEFINE a == taken[p][s] + k
      <3>1. a \in Nat /\ c \in Seq(Nat) /\ Holds(c, a)
        BY SMTT(30), <1>1, <1>2, <1>4
      <3>2. recvBuf'[r][t] = c /\ taken'[r][t] = a
        BY <1>6, <2>1
      <3> HIDE DEF a
      <3>3. c = [i \in 1 .. Len(c) |-> a + i]
        BY <3>1, BufferHolds
      <3> QED BY <3>2, <3>3
    <2>2. CASE ~(r = p /\ t = s)
      BY <1>6, <2>2 DEF DataInv, InOrder
    <2> QED BY <2>1, <2>2
  <1>14. EofComplete'
    BY <1>3, <1>10, PeerType DEF DataInv, EofComplete, Arrived
  <1> QED BY <1>7, <1>9, <1>11, <1>12, <1>13, <1>14 DEF DataInv
\* close_write preserves the invariant: its FIN is the last of the stream.
LEMMA DataCloseWrite ==
    ASSUME TypeOK, DataInv, NEW p \in Side, NEW s \in Sid, CloseWrite(p, s)
    PROVE  DataInv'
  <1> DEFINE g == DataFrame(s, {"FIN"}, written[p][s], 0)
             q == Peer(p)
             ended == writeClosed[p] \cup {s}
  <1>1. q \in Side /\ q # p /\ Peer(q) = p /\ wire[p] \in Seq(Frame)
    BY PeerType DEF TypeOK
  <1>2. /\ s \in handles[p] /\ Send(p, g)
        /\ writeClosed' = [writeClosed EXCEPT ![p] = ended]
        /\ UNCHANGED <<streams, sendWindow, handles, recvBuf, readClosed, reset,
                       written, taken>>
    BY DEF CloseWrite, history
  <1>3. g \in Frame /\ g.flags = {"FIN"} /\ g.sid = s /\ g.type = "Data" /\ g.len = 0
    BY Counters, FrameTypes DEF DataFrame, Flag
  <1> HIDE DEF g
  <1>4. writeClosed'[p] = ended /\ writeClosed'[q] = writeClosed[q]
    BY <1>1, <1>2 DEF TypeOK
  <1>5. AllTold'
    <2>1. /\ Told(p, wire[p], handles[p], writeClosed[p], reset[p], handles[q], reset[q])
          /\ Told(q, wire[q], handles[q], writeClosed[q], reset[q], handles[p], reset[p])
      BY <1>1 DEF DataInv, AllTold
    <2>2. Told(p, wire[p], handles[p], ended, reset[p], handles[q], reset[q])
      BY <1>1, <2>1, ToldGrows
    <2>3. FrameTold(p, g, handles[p], ended, reset[p])
      BY <1>2, <1>3 DEF FrameTold, IsSyn
    <2>4. ~HasBytes(g, "Data", g.sid)
      BY <1>3 DEF HasBytes
    <2>5. Told(p, Append(wire[p], g), handles[p], ended, reset[p], handles[q], reset[q])
      BY <1>1, <1>3, <2>2, <2>3, <2>4, ToldAppend
    <2>6. wire'[p] = Append(wire[p], g) /\ wire'[q] = wire[q]
      BY <1>1, <1>2, WireAfterSend
    <2> HIDE DEF ended
    <2> QED BY <1>1, <1>2, <1>4, <2>1, <2>5, <2>6, Sides DEF AllTold
  <1>6. StreamsLocal'
    BY <1>1, <1>2, <1>4, Sides DEF DataInv, StreamsLocal
  <1>7. DataCarried' /\ CreditCarried' /\ InOrder'
    <2>1. \A r \in Side, t \in Sid : Credited(r, t)' = Credited(r, t)
      BY <1>2 DEF Credited
    <2>2. \A type \in {"Data", "WindowUpdate"}, t \in Sid : ~HasBytes(g, type, t)
      BY <1>3 DEF HasBytes
    <2> QED BY <1>2, <1>3, <2>1, <2>2, FlowKept
  <1>8. EofComplete'
    BY <1>1, <1>2, <1>4, Sides, PeerType DEF DataInv, EofComplete
  <1> QED BY <1>5, <1>6, <1>7, <1>8 DEF DataInv

\* reset preserves the invariant: its RST will tell the peer.
LEMMA DataReset ==
    ASSUME TypeOK, DataInv, NEW p \in Side, NEW s \in Sid, Reset(p, s)
    PROVE  DataInv'
  <1> DEFINE g == DataFrame(s, {"RST"}, written[p][s], 0)
             q == Peer(p)
             ended  == writeClosed[p] \cup {s}
             broken == reset[p] \cup {s}
  <1>1. q \in Side /\ q # p /\ Peer(q) = p /\ wire[p] \in Seq(Frame) /\ wire[q] \in Seq(Frame)
    BY PeerType DEF TypeOK
  <1>2. /\ s \in handles[p] /\ Send(p, g)
        /\ readClosed'  = [readClosed EXCEPT ![p] = @ \cup {s}]
        /\ writeClosed' = [writeClosed EXCEPT ![p] = ended]
        /\ reset'       = [reset EXCEPT ![p] = broken]
        /\ recvBuf'     = [recvBuf EXCEPT ![p][s] = <<>>]
        /\ streams'     = [streams EXCEPT ![p] = @ \ {s}]
        /\ UNCHANGED <<sendWindow, handles, written, taken>>
    BY DEF Reset, history
  <1>3. g \in Frame /\ g.flags = {"RST"} /\ g.sid = s /\ g.type = "Data" /\ g.len = 0
    BY Counters, FrameTypes DEF DataFrame, Flag
  <1> HIDE DEF g
  <1>4. /\ writeClosed'[p] = ended /\ writeClosed'[q] = writeClosed[q]
        /\ reset'[p] = broken /\ reset'[q] = reset[q]
        /\ readClosed'[p] = readClosed[p] \cup {s} /\ readClosed'[q] = readClosed[q]
        /\ streams'[p] = streams[p] \ {s} /\ streams'[q] = streams[q]
        /\ recvBuf'[p][s] = <<>> /\ recvBuf'[q] = recvBuf[q]
        /\ \A t \in Sid : t # s => recvBuf'[p][t] = recvBuf[p][t]
    BY <1>1, <1>2 DEF TypeOK
  <1>5. AllTold'
    <2>1. /\ Told(p, wire[p], handles[p], writeClosed[p], reset[p], handles[q], reset[q])
          /\ Told(q, wire[q], handles[q], writeClosed[q], reset[q], handles[p], reset[p])
      BY <1>1 DEF DataInv, AllTold
    <2>2. FrameTold(p, g, handles[p], ended, broken)
      BY <1>2, <1>3 DEF FrameTold, IsSyn
    <2>3. Told(p, Append(wire[p], g), handles[p], ended, broken, handles[q], reset[q])
      BY <1>1, <1>3, <2>1, <2>2, ToldRst
    <2>4. Told(q, wire[q], handles[q], writeClosed[q], reset[q], handles[p], broken)
      BY <1>1, <2>1, ToldGrows
    <2>5. wire'[p] = Append(wire[p], g) /\ wire'[q] = wire[q]
      BY <1>1, <1>2, WireAfterSend
    <2> HIDE DEF ended, broken
    <2> QED BY ZenonT(60), <1>1, <1>2, <1>4, <2>3, <2>4, <2>5, Sides DEF AllTold
  <1>6. StreamsLocal'
    BY <1>1, <1>2, <1>4, Sides DEF DataInv, StreamsLocal
  <1>7. \A r \in Side, t \in Sid : Credited(r, t)' = Credited(r, t)
    BY <1>2 DEF Credited
  <1>8. \A type \in {"Data", "WindowUpdate"}, t \in Sid : ~HasBytes(g, type, t)
    BY <1>3 DEF HasBytes
  <1>9. \A r \in Side, t \in Sid : ~(r = p /\ t = s) =>
           /\ Arrived(r, t)' = Arrived(r, t)
           /\ t \in reset'[r] <=> t \in reset[r]
           /\ recvBuf'[r][t] = recvBuf[r][t]
    BY <1>1, <1>2, <1>4, Sides DEF Arrived
  <1>10. Arrived(p, s)' = taken[p][s]
    <2>1. Len(<<>>) = 0 /\ taken[p][s] + 0 = taken[p][s]
      BY Counters
    <2> QED BY <1>2, <1>4, <2>1 DEF Arrived
  <1>11. DataCarried'
    <2> SUFFICES ASSUME NEW r \in Side, NEW t \in Sid
                 PROVE  /\ Arrived(Peer(r), t)' <= written[r][t]
                        /\ t \notin reset'[Peer(r)] =>
                              Carries(wire'[r], "Data", t, Arrived(Peer(r), t)', written[r][t])
      BY <1>2, PeerType DEF DataCarried
    <2>1. /\ Arrived(Peer(r), t) \in Int /\ written[r][t] \in Int /\ Peer(r) \in Side
          /\ Arrived(Peer(r), t) <= written[r][t]
          /\ t \notin reset[Peer(r)] =>
                Carries(wire[r], "Data", t, Arrived(Peer(r), t), written[r][t])
      BY Counters, PeerType DEF DataInv, DataCarried
    <2>2. CASE Peer(r) = p /\ t = s
      <3>1. t \in reset'[Peer(r)]
        BY <1>4, <2>2
      <3>2. taken[p][s] <= Arrived(p, s)
        BY Counters DEF Arrived
      <3> QED BY <1>10, <2>1, <2>2, <3>1, <3>2, Counters
    <2>3. CASE ~(Peer(r) = p /\ t = s)
      <3>1. Arrived(Peer(r), t)' = Arrived(Peer(r), t) /\ (t \in reset'[Peer(r)] <=> t \in reset[Peer(r)])
        BY <1>9, <2>1, <2>3
      <3>2. ~HasBytes(g, "Data", t)
        BY <1>8
      <3> QED BY <1>2, <1>3, <2>1, <3>1, <3>2, CarriesSent
    <2> QED BY <2>2, <2>3
  <1>12. CreditCarried'
    <2> SUFFICES ASSUME NEW r \in Side, NEW t \in Sid, t \notin reset'[r]
                 PROVE  Carries(wire'[Peer(r)], "WindowUpdate", t, Credited(r, t),
                                taken[Peer(r)][t])
      BY <1>2, <1>7, PeerType DEF CreditCarried
    <2>1. t \notin reset[r]
      BY <1>1, <1>4, Sides
    <2>2. Credited(r, t) \in Int /\ taken[Peer(r)][t] \in Int /\ Peer(r) \in Side
      BY Counters, PeerType
    <2>3. ~HasBytes(g, "WindowUpdate", t)
      BY <1>8
    <2> QED BY <1>2, <1>3, <2>1, <2>2, <2>3, CarriesSent DEF DataInv, CreditCarried
  <1>13. InOrder'
    <2> SUFFICES ASSUME NEW r \in Side, NEW t \in Sid
                 PROVE  recvBuf'[r][t] = [i \in 1 .. Len(recvBuf'[r][t]) |-> taken[r][t] + i]
      BY <1>2 DEF InOrder
    <2>1. CASE r = p /\ t = s
      <3>1. <<>> \in Seq(Nat) /\ Holds(<<>>, taken[r][t]) /\ taken[r][t] \in Nat
        BY Counters DEF Holds
      <3> QED BY <1>4, <2>1, <3>1, BufferHolds
    <2>2. CASE ~(r = p /\ t = s)
      BY <1>9, <2>2 DEF DataInv, InOrder
    <2> QED BY <2>1, <2>2
  <1>14. EofComplete'
    <2> SUFFICES ASSUME NEW r \in Side, NEW t \in readClosed'[r] \ reset'[r]
                 PROVE  /\ taken[r][t] + Len(recvBuf'[r][t]) = written[Peer(r)][t]
                        /\ t \in writeClosed'[Peer(r)]
      BY <1>2 DEF EofComplete
    <2>1. t \in readClosed[r] \ reset[r] /\ ~(r = p /\ t = s) /\ t \in Sid
      BY ZenonT(60), <1>1, <1>4, Sides DEF TypeOK
    <2>2. recvBuf'[r][t] = recvBuf[r][t]
      BY <1>9, <2>1
    <2>3. writeClosed[Peer(r)] \subseteq writeClosed'[Peer(r)]
      BY <1>1, <1>4, Sides, PeerType
    <2> QED BY <2>1, <2>2, <2>3 DEF DataInv, EofComplete
  <1> QED BY <1>5, <1>6, <1>11, <1>12, <1>13, <1>14 DEF DataInv

\* Frames of another implementation preserve the invariant.
LEMMA DataForeign ==
    ASSUME TypeOK, DataInv, NEW p \in Side, ForeignSend(p)
    PROVE  DataInv'
  <1>1. PICK g \in ForeignFrames(p) : Send(p, g)
    BY DEF ForeignSend
  <1>2. g \in Frame
    BY FrameTypes DEF ForeignFrames, Flag
  <1>3. /\ \A type \in {"Data", "WindowUpdate"}, t \in Sid : ~HasBytes(g, type, t)
        /\ ~HasBytes(g, "Data", g.sid)
        /\ FrameTold(p, g, handles[p], writeClosed[p], reset[p])
    <2>1. CASE g \in {PingFrame({}, 7), PingFrame({"ACK"}, 7), GoAwayFrame(0)}
      BY <2>1 DEF PingFrame, GoAwayFrame, HasBytes, FrameTold, IsSyn, IsStreamFrame
    <2>2. ASSUME NEW s \in Sid, ~LocalStreamId(p, s), g = DataFrame(s, {"SYN"}, 0, 0)
          PROVE  /\ \A type \in {"Data", "WindowUpdate"}, t \in Sid : ~HasBytes(g, type, t)
                 /\ ~HasBytes(g, "Data", g.sid)
                 /\ FrameTold(p, g, handles[p], writeClosed[p], reset[p])
      BY <2>2 DEF DataFrame, HasBytes, FrameTold, IsSyn
    <2> QED BY <2>1, <2>2 DEF ForeignFrames
  <1>4. UNCHANGED <<streams, sendWindow, handles, recvBuf, readClosed, writeClosed, reset,
                    written, taken>>
    BY DEF ForeignSend, streamVars, history
  <1>5. AllTold'
    BY <1>1, <1>2, <1>3, <1>4, ToldSent DEF DataInv
  <1>6. StreamsLocal' /\ EofComplete'
    BY <1>4 DEF DataInv, StreamsLocal, EofComplete
  <1>7. DataCarried' /\ CreditCarried' /\ InOrder'
    <2>1. \A r \in Side, t \in Sid : Credited(r, t)' = Credited(r, t)
      BY <1>4 DEF Credited
    <2> QED BY <1>1, <1>2, <1>3, <1>4, <2>1, FlowKept
  <1> QED BY <1>5, <1>6, <1>7 DEF DataInv
----------------------------------------------------------------------------
(* Steps that receive.                                                     *)

\* What p may rely on when it takes the frame in front.
LEMMA IncomingTold ==
    ASSUME TypeOK, DataInv, NEW p \in Side, wire[Peer(p)] # <<>>
    PROVE  LET f == Incoming(p)
               q == Peer(p)
           IN /\ f \in Frame /\ f.sid \in Nat /\ f.len \in Nat /\ f.off \in Nat
              /\ FrameTold(q, f, handles[q], writeClosed[q], reset[q])
              /\ (IsStreamFrame(f) /\ "SYN" \notin f.flags) => f.sid \in handles[p]
              /\ "FIN" \in f.flags => \A j \in DOMAIN wire[q] :
                    j # 1 => ~HasBytes(wire[q][j], "Data", f.sid)
  <1> DEFINE f == Incoming(p)
             q == Peer(p)
             w == wire[q]
  <1>1. q \in Side /\ Peer(q) = p /\ w \in Seq(Frame) /\ w # <<>>
    BY PeerType DEF TypeOK
  <1>2. /\ f = w[1] /\ 1 \in DOMAIN w /\ DOMAIN w = 1 .. Len(w) /\ Len(w) \in Nat
    BY <1>1, TailFacts DEF Incoming
  <1>3. f \in Frame /\ f.sid \in Nat /\ f.len \in Nat /\ f.off \in Nat
    BY <1>1, <1>2, FrameNumbers
  <1>4. Told(q, w, handles[q], writeClosed[q], reset[q], handles[p], reset[p])
    BY <1>1 DEF DataInv, AllTold
  <1> HIDE DEF w, f
  <1>5. FrameTold(q, f, handles[q], writeClosed[q], reset[q])
    BY <1>2, <1>4 DEF Told
  <1>6. ASSUME IsStreamFrame(f), "SYN" \notin f.flags PROVE f.sid \in handles[p]
    <2>1. ~SynAmong(q, w, 1 - 1, f.sid)
      BY <1>2 DEF SynAmong
    <2> QED BY <1>2, <1>4, <1>6, <2>1 DEF Told
  <1>7. ASSUME "FIN" \in f.flags, NEW j \in DOMAIN w, j # 1
        PROVE  ~HasBytes(w[j], "Data", f.sid)
    <2>1. 1 < j
      BY <1>2, <1>7
    <2> QED BY <1>2, <1>4, <1>7, <2>1 DEF Told
  <1> QED BY <1>3, <1>5, <1>6, <1>7 DEF w, f

\* Bytes the frame in front has none of stay as they are.
LEMMA CarriesTaken ==
    ASSUME TypeOK, NEW q \in Side, wire[q] # <<>>, NEW type, NEW s, NEW from \in Int,
           NEW to \in Int, Carries(wire[q], type, s, from, to),
           ~HasBytes(Head(wire[q]), type, s)
    PROVE  Carries(Tail(wire[q]), type, s, from, to)
  <1>1. wire[q] \in Seq(Frame)
    BY DEF TypeOK
  <1> QED BY <1>1, CarriesTailOther

\* p takes a frame that changes no stream, and answers it with one that is
\* about no stream, if at all.
LEMMA DataTaken ==
    ASSUME TypeOK, DataInv, NEW p \in Side, wire[Peer(p)] # <<>>,
           \/ Take(p)
           \/ \E g \in Frame : TakeAndSend(p, g) /\ g.type \notin {"Data", "WindowUpdate"}
                               /\ {"SYN", "FIN", "RST"} \cap g.flags = {},
           ~IsSyn(Peer(p), Incoming(p)),
           "RST" \in Incoming(p).flags => Incoming(p).sid \in reset[p],
           \A type \in {"Data", "WindowUpdate"}, s \in Sid :
              s \notin reset[p] => ~HasBytes(Incoming(p), type, s),
           UNCHANGED <<streams, sendWindow, handles, recvBuf, readClosed, writeClosed,
                       reset, written, taken>>
    PROVE  DataInv'
  <1> DEFINE q == Peer(p)
             f == Incoming(p)
  <1>1. /\ q \in Side /\ q # p /\ Peer(q) = p /\ f = Head(wire[q])
        /\ wire[p] \in Seq(Frame) /\ wire[q] \in Seq(Frame)
    BY PeerType DEF TypeOK, Incoming
  <1>2. wire'[q] = Tail(wire[q])
    BY WireAfterTake
  <1>3. \/ wire'[p] = wire[p]
        \/ \E g \in Frame : /\ wire'[p] = Append(wire[p], g)
                            /\ g.type \notin {"Data", "WindowUpdate"}
                            /\ {"SYN", "FIN", "RST"} \cap g.flags = {}
    BY WireAfterTake
  <1>4. AllTold'
    <2>1. /\ Told(p, wire[p], handles[p], writeClosed[p], reset[p], handles[q], reset[q])
          /\ Told(q, wire[q], handles[q], writeClosed[q], reset[q], handles[p], reset[p])
      BY <1>1 DEF DataInv, AllTold
    <2>2. Told(q, wire'[q], handles[q], writeClosed[q], reset[q], handles[p], reset[p])
      BY <1>1, <1>2, <2>1, ToldTail
    <2>3. Told(p, wire'[p], handles[p], writeClosed[p], reset[p], handles[q], reset[q])
      <3>1. ASSUME NEW g \in Frame, g.type \notin {"Data", "WindowUpdate"},
                   {"SYN", "FIN", "RST"} \cap g.flags = {}
            PROVE  /\ FrameTold(p, g, handles[p], writeClosed[p], reset[p])
                   /\ ~HasBytes(g, "Data", g.sid)
        BY <3>1 DEF FrameTold, IsSyn, IsStreamFrame, HasBytes
      <3> QED BY <1>1, <1>3, <2>1, <3>1, ToldAppend
    <2> QED BY <1>1, <2>2, <2>3, Sides DEF AllTold
  <1>5. ASSUME NEW type \in {"Data", "WindowUpdate"}, NEW s \in Sid, NEW r \in Side,
               NEW from \in Int, NEW to \in Int, s \notin reset[p] \/ r = p,
               Carries(wire[r], type, s, from, to)
        PROVE  Carries(wire'[r], type, s, from, to)
    <2>1. CASE r = p
      <3>1. \A g \in Frame : g.type \notin {"Data", "WindowUpdate"} => ~HasBytes(g, type, s)
        BY DEF HasBytes
      <3>2. CASE wire'[p] = wire[p]
        BY <1>5, <2>1, <3>2
      <3>3. ASSUME NEW g \in Frame, wire'[p] = Append(wire[p], g),
                   g.type \notin {"Data", "WindowUpdate"}
            PROVE  Carries(wire'[r], type, s, from, to)
        BY <1>1, <1>5, <2>1, <3>1, <3>3, CarriesAppendOther
      <3> QED BY <1>3, <3>2, <3>3
    <2>2. CASE r = q
      BY ZenonT(60), <1>1, <1>2, <1>5, <2>2, CarriesTaken
    <2> QED BY <2>1, <2>2, Sides
  <1>6. /\ \A r \in Side, s \in Sid : Arrived(r, s)' = Arrived(r, s)
        /\ \A r \in Side, s \in Sid : Credited(r, s)' = Credited(r, s)
    BY DEF Arrived, Credited
  <1>7. DataCarried'
    <2> SUFFICES ASSUME NEW r \in Side, NEW s \in Sid
                 PROVE  /\ Arrived(Peer(r), s) <= written[r][s]
                        /\ s \notin reset[Peer(r)] =>
                              Carries(wire'[r], "Data", s, Arrived(Peer(r), s), written[r][s])
      BY <1>6, PeerType DEF DataCarried
    <2>1. Arrived(Peer(r), s) \in Int /\ written[r][s] \in Int
      BY Counters, PeerType
    <2>2. s \notin reset[Peer(r)] => s \notin reset[p] \/ r = p
      BY <1>1, Sides
    <2> QED BY <1>5, <2>1, <2>2 DEF DataInv, DataCarried
  <1>8. CreditCarried'
    <2> SUFFICES ASSUME NEW r \in Side, NEW s \in Sid, s \notin reset[r]
                 PROVE  Carries(wire'[Peer(r)], "WindowUpdate", s, Credited(r, s),
                                taken[Peer(r)][s])
      BY <1>6, PeerType DEF CreditCarried
    <2>1. Credited(r, s) \in Int /\ taken[Peer(r)][s] \in Int /\ Peer(r) \in Side
      BY Counters, PeerType
    <2>2. s \notin reset[p] \/ Peer(r) = p
      BY <1>1, Sides
    <2> QED BY <1>5, <2>1, <2>2 DEF DataInv, CreditCarried
  <1>9. StreamsLocal' /\ InOrder' /\ EofComplete'
    BY DEF DataInv, StreamsLocal, InOrder, EofComplete
  <1> QED BY <1>4, <1>7, <1>8, <1>9 DEF DataInv

\* Pings, go-aways, refused SYNs and frames for unknown streams.
LEMMA DataReceiveOther ==
    ASSUME TypeOK, DataInv, NEW p \in Side, wire[Peer(p)] # <<>>,
           RecvPing(p) \/ RecvGoAway(p) \/ RecvBadSyn(p) \/ RecvUnknown(p)
    PROVE  DataInv'
  <1> DEFINE f == Incoming(p)
             q == Peer(p)
  <1>1. /\ f \in Frame /\ f.sid \in Nat
        /\ FrameTold(q, f, handles[q], writeClosed[q], reset[q])
        /\ (IsStreamFrame(f) /\ "SYN" \notin f.flags) => f.sid \in handles[p]
    BY IncomingTold
  <1>2. UNCHANGED <<streams, sendWindow, handles, recvBuf, readClosed, writeClosed,
                    reset, written, taken>>
    BY DEF RecvPing, RecvGoAway, RecvBadSyn, RecvUnknown, streamVars, history
  <1> HIDE DEF f
  <1>3. CASE RecvPing(p) \/ RecvGoAway(p)
    <2>1. f.type \in {"Ping", "GoAway"}
      BY <1>3 DEF RecvPing, RecvGoAway, f
    <2>2. ~IsSyn(q, f) /\ "RST" \notin f.flags
      BY <1>1, <2>1 DEF FrameTold, IsSyn
    <2>3. \A type \in {"Data", "WindowUpdate"}, s \in Sid : ~HasBytes(f, type, s)
      BY <2>1 DEF HasBytes
    <2>4. \/ Take(p)
          \/ \E g \in Frame : TakeAndSend(p, g) /\ g.type \notin {"Data", "WindowUpdate"}
                              /\ {"SYN", "FIN", "RST"} \cap g.flags = {}
      <3>1. f.len \in Nat /\ {"ACK"} \in SUBSET Flag
        BY <1>1 DEF Frame, Flag
      <3>2. PingFrame({"ACK"}, f.len) \in Frame
        BY <3>1, FrameTypes
      <3>3. /\ PingFrame({"ACK"}, f.len).type = "Ping"
            /\ {"SYN", "FIN", "RST"} \cap PingFrame({"ACK"}, f.len).flags = {}
        BY DEF PingFrame
      <3> QED BY <1>3, <3>2, <3>3 DEF RecvPing, RecvGoAway, f
    <2> QED BY <1>2, <2>2, <2>3, <2>4, DataTaken DEF f
  <1>4. CASE RecvBadSyn(p)
    <2>1. IsStreamFrame(f) /\ "SYN" \in f.flags /\ ~IsRemoteStreamId(p, f.sid)
          /\ TakeAndSend(p, GoAwayFrame(ProtocolError))
      BY <1>4 DEF RecvBadSyn, f
    <2>2. f.flags = {"SYN"} /\ f.type = "Data" /\ f.len = 0 /\ f.sid # 0
      BY <1>1, <2>1 DEF FrameTold, IsStreamFrame
    <2>3. ~IsSyn(q, f)
      BY <1>1, <2>1, <2>2, Parity DEF IsSyn
    <2>4. \A type \in {"Data", "WindowUpdate"}, s \in Sid : ~HasBytes(f, type, s)
      BY <2>2 DEF HasBytes
    <2>5. /\ GoAwayFrame(ProtocolError) \in Frame
          /\ GoAwayFrame(ProtocolError).type = "GoAway"
          /\ {"SYN", "FIN", "RST"} \cap GoAwayFrame(ProtocolError).flags = {}
      BY FrameTypes DEF GoAwayFrame, ProtocolError
    <2> QED BY <1>2, <2>1, <2>2, <2>3, <2>4, <2>5, DataTaken DEF f
  <1>5. CASE RecvUnknown(p)
    <2>1. IsStreamFrame(f) /\ "SYN" \notin f.flags /\ f.sid \notin streams[p] /\ Take(p)
      BY <1>5 DEF RecvUnknown, f
    <2>2. f.sid \in reset[p]
      BY <1>1, <2>1 DEF DataInv, StreamsLocal
    <2>3. ~IsSyn(q, f)
      BY <2>1 DEF IsSyn
    <2>4. \A type \in {"Data", "WindowUpdate"}, s \in Sid :
             s \notin reset[p] => ~HasBytes(f, type, s)
      BY <2>2 DEF HasBytes
    <2> QED BY <1>2, <2>1, <2>2, <2>3, <2>4, DataTaken DEF f
  <1> QED BY <1>3, <1>4, <1>5

\* A SYN creates a stream: it is untouched, and its window full.
LEMMA DataAccept ==
    ASSUME TypeOK, IdInv, DataInv, NEW p \in Side, wire[Peer(p)] # <<>>,
           RecvStream(p), Opens(p, Incoming(p))
    PROVE  DataInv'
  <1> DEFINE f == Incoming(p)
             s == f.sid
             q == Peer(p)
             g == DataFrame(s, {"ACK"}, 0, 0)
             own == handles[p] \cup {s}
  <1>1. /\ q \in Side /\ q # p /\ Peer(q) = p /\ f = Head(wire[q])
        /\ wire[p] \in Seq(Frame) /\ wire[q] \in Seq(Frame)
    BY PeerType DEF TypeOK, Incoming
  <1>2. /\ f \in Frame /\ s \in Nat /\ FrameTold(q, f, handles[q], writeClosed[q], reset[q])
    BY IncomingTold
  <1>3. /\ IsStreamFrame(f) /\ "SYN" \in f.flags /\ IsRemoteStreamId(p, s)
        /\ TakeAndSend(p, g)
    BY DEF RecvStream, Opens
  <1>4. f.flags = {"SYN"} /\ f.type = "Data" /\ f.len = 0 /\ s \in Sid
    BY <1>2, <1>3 DEF FrameTold, IsStreamFrame
  <1>5. IsSyn(q, f) /\ s \in handles[q]
    BY <1>2, <1>3, Parity DEF IsSyn, FrameTold
  <1>6. s \notin handles[p]
    <2>1. WireOk(q, wire[q], nextStreamId[q], handles[p], foreign = 0)
      BY <1>1 DEF IdInv, WiresOk
    <2>2. 1 \in DOMAIN wire[q] /\ f = wire[q][1]
      BY <1>1, TailFacts
    <2> QED BY <1>5, <2>1, <2>2 DEF WireOk
  <1>7. /\ written[p][s] = 0 /\ recvBuf[p][s] = <<>> /\ s \notin reset[p]
        /\ s \notin readClosed[p] /\ s \notin writeClosed[p]
    BY <1>4, <1>6 DEF DataInv, StreamsLocal
  <1>8. /\ WindowAfter(p, f) = Window /\ BufferAfter(p, f) = <<>>
    <2>1. Payload(f) = <<>>
      <3>1. 1 .. f.len = {}
        BY <1>4
      <3> QED BY <1>4, <3>1 DEF Payload
    <2> QED BY <1>4, <1>7, <2>1 DEF WindowAfter, BufferAfter
  <1>9. /\ handles' = [handles EXCEPT ![p] = own]
        /\ streams' = [streams EXCEPT ![p] = @ \cup {s}]
        /\ sendWindow' = [sendWindow EXCEPT ![p][s] = Window]
        /\ recvBuf' = [recvBuf EXCEPT ![p][s] = <<>>]
        /\ readClosed' = [readClosed EXCEPT ![p] = @]
        /\ writeClosed' = [writeClosed EXCEPT ![p] = @]
        /\ reset' = [reset EXCEPT ![p] = @]
        /\ UNCHANGED <<written, taken>>
    BY <1>4, <1>8 DEF RecvStream
  <1>10. g \in Frame /\ g.flags = {"ACK"} /\ g.sid = s /\ g.type = "Data" /\ g.len = 0
    <2>1. {"ACK"} \in SUBSET Flag
      BY DEF Flag
    <2>2. g \in Frame
      BY <1>4, <2>1, FrameTypes
    <2> QED BY <2>2 DEF DataFrame
  <1> HIDE DEF f, s, g
  <1>11. UNCHANGED <<recvBuf, readClosed, writeClosed, reset, written, taken>>
    BY <1>4, <1>7, <1>9 DEF TypeOK
  <1>12. /\ handles'[p] = own /\ handles'[q] = handles[q]
         /\ streams'[p] = streams[p] \cup {s} /\ streams'[q] = streams[q]
         /\ sendWindow'[p][s] = Window
         /\ \A r \in Side, t \in Sid : ~(r = p /\ t = s) =>
               sendWindow'[r][t] = sendWindow[r][t] /\ (t \in handles'[r] <=> t \in handles[r])
    BY <1>1, <1>4, <1>9 DEF TypeOK
  <1>13. wire'[p] = Append(wire[p], g) /\ wire'[q] = Tail(wire[q])
    BY <1>3, WireAfterTake
  <1>14. AllTold'
    <2>1. /\ Told(p, wire[p], handles[p], writeClosed[p], reset[p], handles[q], reset[q])
          /\ Told(q, wire[q], handles[q], writeClosed[q], reset[q], handles[p], reset[p])
      BY <1>1 DEF DataInv, AllTold
    <2>2. Told(q, wire[q], handles[q], writeClosed[q], reset[q], own, reset[p])
      BY <1>1, <2>1, ToldGrows
    <2>3. "RST" \notin Head(wire[q]).flags /\ Head(wire[q]).sid \in own
      BY <1>1, <1>4 DEF s
    <2>4. Told(q, Tail(wire[q]), handles[q], writeClosed[q], reset[q], own, reset[p])
      BY <1>1, <2>2, <2>3, ToldTail
    <2>5. Told(p, wire[p], own, writeClosed[p], reset[p], handles[q], reset[q])
      BY <1>1, <1>5, <2>1, ToldGrows
    <2>6. FrameTold(p, g, own, writeClosed[p], reset[p]) /\ ~HasBytes(g, "Data", g.sid)
      BY <1>4, <1>10 DEF FrameTold, IsSyn, HasBytes
    <2>7. Told(p, Append(wire[p], g), own, writeClosed[p], reset[p], handles[q], reset[q])
      BY <1>1, <1>10, <2>5, <2>6, ToldAppend
    <2> HIDE DEF own
    <2> QED BY ZenonT(60), <1>1, <1>11, <1>12, <1>13, <2>4, <2>7, Sides DEF AllTold
  <1>15. StreamsLocal'
    BY <1>1, <1>7, <1>11, <1>12, Sides DEF DataInv, StreamsLocal
  <1>16. ASSUME NEW type, NEW t, NEW r \in Side, NEW from \in Int, NEW to \in Int,
                Carries(wire[r], type, t, from, to)
         PROVE  Carries(wire'[r], type, t, from, to)
    <2>1. CASE r = p
      <3>1. ~HasBytes(g, type, t)
        BY <1>10 DEF HasBytes
      <3>2. Carries(wire[p], type, t, from, to)
        BY <1>16, <2>1
      <3>3. Carries(Append(wire[p], g), type, t, from, to)
        BY <1>1, <1>10, <3>1, <3>2, CarriesAppendOther
      <3> QED BY <1>13, <2>1, <3>3
    <2>2. CASE r = q
      <3>1. ~HasBytes(Head(wire[q]), type, t)
        BY <1>1, <1>4 DEF HasBytes
      <3> QED BY <1>1, <1>13, <1>16, <2>2, <3>1, CarriesTaken
    <2> QED BY <2>1, <2>2, Sides
  <1>17. DataCarried'
    <2>1. \A r \in Side, t \in Sid : Arrived(r, t)' = Arrived(r, t)
      BY <1>11 DEF Arrived
    <2> SUFFICES ASSUME NEW r \in Side, NEW t \in Sid
                 PROVE  /\ Arrived(Peer(r), t) <= written[r][t]
                        /\ t \notin reset[Peer(r)] =>
                              Carries(wire'[r], "Data", t, Arrived(Peer(r), t), written[r][t])
      BY <1>11, <2>1, PeerType DEF DataCarried
    <2>2. Arrived(Peer(r), t) \in Int /\ written[r][t] \in Int
      BY Counters, PeerType
    <2> QED BY <1>16, <2>2 DEF DataInv, DataCarried
  <1>18. CreditCarried'
    <2>1. ASSUME NEW r \in Side, NEW t \in Sid PROVE Credited(r, t)' = Credited(r, t)
      <3>1. CASE r = p /\ t = s
        <4>1. s \in handles'[p] /\ Window + 0 - Window = 0
          BY <1>12, WindowAssumption
        <4> QED BY <1>6, <1>7, <1>11, <1>12, <3>1, <4>1 DEF Credited
      <3>2. CASE ~(r = p /\ t = s)
        BY <1>11, <1>12, <3>2 DEF Credited
      <3> QED BY <3>1, <3>2
    <2> SUFFICES ASSUME NEW r \in Side, NEW t \in Sid, t \notin reset[r]
                 PROVE  Carries(wire'[Peer(r)], "WindowUpdate", t, Credited(r, t),
                                taken[Peer(r)][t])
      BY <1>11, <2>1, PeerType DEF CreditCarried
    <2>2. Credited(r, t) \in Int /\ taken[Peer(r)][t] \in Int /\ Peer(r) \in Side
      BY Counters, PeerType
    <2> QED BY <1>16, <2>2 DEF DataInv, CreditCarried
  <1>19. InOrder' /\ EofComplete'
    BY <1>11 DEF DataInv, InOrder, EofComplete
  <1> QED BY <1>14, <1>15, <1>17, <1>18, <1>19 DEF DataInv

\* What p knows of a frame for a stream it keeps.
LEMMA IncomingKnown ==
    ASSUME TypeOK, IdInv, DataInv, NEW p \in Side, wire[Peer(p)] # <<>>,
           RecvStream(p), ~Opens(p, Incoming(p))
    PROVE  LET f == Incoming(p)
               s == f.sid
           IN /\ s \in Sid /\ s \in streams[p] /\ s \in handles[p] /\ s \notin reset[p]
              /\ s \in handles[Peer(p)]
              /\ "SYN" \notin f.flags /\ f.type \in {"Data", "WindowUpdate"}
              /\ Take(p) /\ handles' = handles
              /\ UNCHANGED <<written, taken>>
  <1> DEFINE f == Incoming(p)
             s == f.sid
             q == Peer(p)
  <1>1. /\ f \in Frame /\ s \in Nat /\ FrameTold(q, f, handles[q], writeClosed[q], reset[q])
    BY IncomingTold
  <1>2. /\ s \in streams[p] /\ IsStreamFrame(f) /\ Take(p)
        /\ "SYN" \in f.flags => IsRemoteStreamId(p, s)
        /\ handles' = [handles EXCEPT ![p] = @ \cup {s}]
        /\ UNCHANGED <<written, taken>>
    BY DEF RecvStream
  <1>3. s \in Sid /\ s \in handles[p] /\ s \notin reset[p]
    BY <1>2 DEF TypeOK, DataInv, StreamsLocal
  <1>4. "SYN" \notin f.flags
    <2> SUFFICES ASSUME "SYN" \in f.flags PROVE FALSE
      OBVIOUS
    <2>1. IsSyn(q, f)
      BY <1>1, <1>2, Parity DEF IsSyn
    <2>2. WireOk(q, wire[q], nextStreamId[q], handles[p], foreign = 0)
      BY PeerType DEF IdInv, WiresOk
    <2>3. 1 \in DOMAIN wire[q] /\ f = wire[q][1]
      BY PeerType, TailFacts DEF TypeOK, Incoming
    <2> QED BY <1>3, <2>1, <2>2, <2>3 DEF WireOk
  <1>5. s \in handles[q]
    BY <1>1, <1>2, <1>4 DEF FrameTold
  <1>6. handles' = handles
    BY <1>2, <1>3 DEF TypeOK
  <1> QED BY <1>2, <1>3, <1>4, <1>5, <1>6 DEF IsStreamFrame

\* A RST removes the stream: the peer has reset it before.
LEMMA DataRecvRst ==
    ASSUME TypeOK, IdInv, DataInv, NEW p \in Side, wire[Peer(p)] # <<>>,
           NEW f, f = Incoming(p), NEW s \in Sid, s = f.sid,
           RecvStream(p), ~Opens(p, f), "RST" \in f.flags
    PROVE  DataInv'
  <1> DEFINE q == Peer(p)
             ended  == writeClosed[p] \cup {s}
             broken == reset[p] \cup {s}
  <1>1. /\ q \in Side /\ q # p /\ Peer(q) = p /\ f = Head(wire[q])
        /\ wire[p] \in Seq(Frame) /\ wire[q] \in Seq(Frame) /\ wire[q] # <<>>
    BY PeerType DEF TypeOK, Incoming
  <1>2. /\ s \in handles[p] /\ s \notin reset[p] /\ "SYN" \notin f.flags
        /\ Take(p) /\ UNCHANGED <<handles, written, taken>>
    BY IncomingKnown
  <1>3. f.type = "Data" /\ f.len = 0 /\ s \in reset[q] /\ "RST" \in f.flags
    <2>1. FrameTold(q, f, handles[q], writeClosed[q], reset[q])
      BY IncomingTold
    <2> QED BY <2>1 DEF FrameTold
  <1>4. WindowAfter(p, f) = sendWindow[p][s]
    BY <1>3 DEF WindowAfter
  <1>5. /\ sendWindow' = [sendWindow EXCEPT ![p][s] = sendWindow[p][s]]
        /\ recvBuf' = [recvBuf EXCEPT ![p][s] = <<>>]
        /\ readClosed' = [readClosed EXCEPT ![p] = @ \cup {s}]
        /\ writeClosed' = [writeClosed EXCEPT ![p] = ended]
        /\ reset' = [reset EXCEPT ![p] = broken]
        /\ streams' = [streams EXCEPT ![p] = @ \ {s}]
    BY <1>3, <1>4 DEF RecvStream
  <1>6. /\ writeClosed'[p] = ended /\ writeClosed'[q] = writeClosed[q]
        /\ reset'[p] = broken /\ reset'[q] = reset[q]
        /\ readClosed'[p] = readClosed[p] \cup {s} /\ readClosed'[q] = readClosed[q]
        /\ streams'[p] = streams[p] \ {s} /\ streams'[q] = streams[q]
        /\ recvBuf'[p][s] = <<>> /\ recvBuf'[q] = recvBuf[q]
        /\ \A t \in Sid : t # s => recvBuf'[p][t] = recvBuf[p][t]
    BY <1>1, <1>2, <1>5 DEF TypeOK
  <1>7. sendWindow' = sendWindow
    BY <1>2, <1>5 DEF TypeOK
  <1>8. wire'[p] = wire[p] /\ wire'[q] = Tail(wire[q])
    BY <1>1, <1>2 DEF Take, TypeOK
  <1>9. AllTold'
    <2>1. /\ Told(p, wire[p], handles[p], writeClosed[p], reset[p], handles[q], reset[q])
          /\ Told(q, wire[q], handles[q], writeClosed[q], reset[q], handles[p], reset[p])
      BY <1>1 DEF DataInv, AllTold
    <2>2. Told(q, wire[q], handles[q], writeClosed[q], reset[q], handles[p], broken)
      BY <1>1, <2>1, ToldGrows
    <2>3. ~IsSyn(q, Head(wire[q])) /\ Head(wire[q]).sid \in broken
      BY <1>1, <1>2 DEF IsSyn
    <2>4. Told(q, Tail(wire[q]), handles[q], writeClosed[q], reset[q], handles[p], broken)
      BY <1>1, <2>2, <2>3, ToldTail
    <2>5. Told(p, wire[p], handles[p], ended, broken, handles[q], reset[q])
      BY <1>1, <1>3, <2>1, ToldGrows
    <2> HIDE DEF ended, broken
    <2> QED BY <1>1, <1>2, <1>6, <1>8, <2>4, <2>5, Sides DEF AllTold
  <1>10. StreamsLocal'
    <2>1. StreamsLocal
      BY DEF DataInv
    <2>2. ASSUME NEW r \in Side, r # p
          PROVE  /\ r = q /\ handles'[r] = handles[r] /\ streams'[r] = streams[r]
                 /\ reset'[r] = reset[r] /\ readClosed'[r] = readClosed[r]
                 /\ writeClosed'[r] = writeClosed[r] /\ recvBuf'[r] = recvBuf[r]
      BY <1>2, <1>6, <2>2, Sides
    <2>3. /\ handles[p] = streams'[p] \cup broken
          /\ streams'[p] \cap broken = {}
          /\ readClosed'[p] \cup ended \subseteq handles[p]
      BY <1>2, <1>6, <2>1 DEF StreamsLocal
    <2>4. \A t \in Sid \ handles[p] : written[p][t] = 0 /\ recvBuf'[p][t] = <<>>
      BY <1>2, <1>6, <2>1 DEF StreamsLocal
    <2>5. \A t \in broken :
             recvBuf'[p][t] = <<>> /\ t \in readClosed'[p] /\ t \in ended
      BY SMTT(30), <1>2, <1>6, <2>1 DEF StreamsLocal, TypeOK
    <2> HIDE DEF q, ended, broken
    <2> QED BY <1>2, <1>6, <2>1, <2>2, <2>3, <2>4, <2>5 DEF StreamsLocal
  <1>11. ASSUME NEW type, NEW t, NEW r \in Side, NEW from \in Int, NEW to \in Int,
                Carries(wire[r], type, t, from, to)
         PROVE  Carries(wire'[r], type, t, from, to)
    <2>1. CASE r = p
      BY <1>8, <1>11, <2>1
    <2>2. CASE r = q
      <3>1. ~HasBytes(Head(wire[q]), type, t)
        BY <1>1, <1>3 DEF HasBytes
      <3> QED BY <1>1, <1>8, <1>11, <2>2, <3>1, CarriesTaken
    <2> QED BY <2>1, <2>2, Sides
  <1>12. \A r \in Side, t \in Sid : ~(r = p /\ t = s) =>
           /\ Arrived(r, t)' = Arrived(r, t)
           /\ t \in reset'[r] <=> t \in reset[r]
           /\ recvBuf'[r][t] = recvBuf[r][t]
    BY <1>1, <1>2, <1>6, Sides DEF Arrived
  <1>13. Arrived(p, s)' = taken[p][s]
    <2>1. Len(<<>>) = 0 /\ taken[p][s] + 0 = taken[p][s]
      BY <1>2, Counters
    <2> QED BY <1>2, <1>6, <2>1 DEF Arrived
  <1>14. DataCarried'
    <2> SUFFICES ASSUME NEW r \in Side, NEW t \in Sid
                 PROVE  /\ Arrived(Peer(r), t)' <= written[r][t]
                        /\ t \notin reset'[Peer(r)] =>
                              Carries(wire'[r], "Data", t, Arrived(Peer(r), t)', written[r][t])
      BY <1>2, PeerType DEF DataCarried
    <2>1. /\ Arrived(Peer(r), t) \in Int /\ written[r][t] \in Int /\ Peer(r) \in Side
          /\ Arrived(Peer(r), t) <= written[r][t]
          /\ t \notin reset[Peer(r)] =>
                Carries(wire[r], "Data", t, Arrived(Peer(r), t), written[r][t])
      BY SMTT(30), Counters, PeerType DEF DataInv, DataCarried
    <2>2. CASE Peer(r) = p /\ t = s
      <3>1. t \in reset'[Peer(r)]
        BY <1>6, <2>2
      <3>2. taken[p][s] <= Arrived(p, s)
        <4>1. taken[p][s] \in Nat /\ Len(recvBuf[p][s]) \in Nat
          BY Counters
        <4> QED BY <4>1 DEF Arrived
      <3> QED BY <1>2, <1>13, <2>1, <2>2, <3>1, <3>2, Counters
    <2>3. CASE ~(Peer(r) = p /\ t = s)
      <3>1. Arrived(Peer(r), t)' = Arrived(Peer(r), t) /\ (t \in reset'[Peer(r)] <=> t \in reset[Peer(r)])
        BY <1>12, <2>1, <2>3
      <3> QED BY <1>11, <2>1, <3>1
    <2> QED BY <2>2, <2>3
  <1>15. CreditCarried'
    <2> SUFFICES ASSUME NEW r \in Side, NEW t \in Sid, t \notin reset'[r]
                 PROVE  Carries(wire'[Peer(r)], "WindowUpdate", t, Credited(r, t),
                                taken[Peer(r)][t])
      BY <1>2, <1>7, PeerType DEF CreditCarried, Credited
    <2>1. t \notin reset[r]
      BY <1>1, <1>6, Sides
    <2>2. Peer(r) \in Side
      BY PeerType
    <2>3. Credited(r, t) \in Int
      BY Counters
    <2>4. taken[Peer(r)][t] \in Int
      BY <2>2, Counters
    <2> QED BY <1>11, <2>1, <2>2, <2>3, <2>4 DEF DataInv, CreditCarried
  <1>16. InOrder'
    <2> SUFFICES ASSUME NEW r \in Side, NEW t \in Sid
                 PROVE  recvBuf'[r][t] = [i \in 1 .. Len(recvBuf'[r][t]) |-> taken[r][t] + i]
      BY <1>2 DEF InOrder
    <2>1. CASE r = p /\ t = s
      <3>1. <<>> \in Seq(Nat) /\ Holds(<<>>, taken[r][t]) /\ taken[r][t] \in Nat
        BY Counters DEF Holds
      <3> QED BY <1>6, <2>1, <3>1, BufferHolds
    <2>2. CASE ~(r = p /\ t = s)
      BY <1>12, <2>2 DEF DataInv, InOrder
    <2> QED BY <2>1, <2>2
  <1>17. EofComplete'
    <2> SUFFICES ASSUME NEW r \in Side, NEW t \in readClosed'[r] \ reset'[r]
                 PROVE  /\ taken[r][t] + Len(recvBuf'[r][t]) = written[Peer(r)][t]
                        /\ t \in writeClosed'[Peer(r)]
      BY <1>2 DEF EofComplete
    <2>1. t \in readClosed[r] \ reset[r] /\ ~(r = p /\ t = s) /\ t \in Sid
      <3>1. readClosed[r] \subseteq Sid
        BY DEF TypeOK
      <3>2. CASE r = p
        BY <1>6, <3>1, <3>2
      <3>3. CASE r # p
        BY <1>6, <3>1, <3>3, Sides
      <3> QED BY <3>2, <3>3
    <2>2. recvBuf'[r][t] = recvBuf[r][t]
      BY <1>12, <2>1
    <2>3. writeClosed[Peer(r)] \subseteq writeClosed'[Peer(r)]
      BY <1>1, <1>6, Sides, PeerType
    <2> QED BY <2>1, <2>2, <2>3 DEF DataInv, EofComplete
  <1> QED BY <1>9, <1>10, <1>14, <1>15, <1>16, <1>17 DEF DataInv

\* A step in which p takes f, a frame without RST for a stream s it keeps.
StreamStep(p, f, s) ==
    /\ UNCHANGED <<streams, handles, writeClosed, reset, written, taken>>
    /\ wire'[p] = wire[p] /\ wire'[Peer(p)] = Tail(wire[Peer(p)])
    /\ sendWindow'[p][s] = WindowAfter(p, f) /\ recvBuf'[p][s] = BufferAfter(p, f)
    /\ readClosed'[p] = IF "FIN" \in f.flags THEN readClosed[p] \cup {s} ELSE readClosed[p]
    /\ readClosed'[Peer(p)] = readClosed[Peer(p)]
    /\ \A r \in Side, t \in Sid : ~(r = p /\ t = s) =>
          recvBuf'[r][t] = recvBuf[r][t] /\ sendWindow'[r][t] = sendWindow[r][t]

\* What handle_frame does with such a frame.
LEMMA RecvKept ==
    ASSUME TypeOK, IdInv, DataInv, NEW p \in Side, wire[Peer(p)] # <<>>,
           NEW f, f = Incoming(p), NEW s \in Sid, s = f.sid,
           RecvStream(p), ~Opens(p, f), "RST" \notin f.flags
    PROVE  StreamStep(p, f, s)
  <1> DEFINE q == Peer(p)
  <1>1. q \in Side /\ q # p
    BY PeerType
  <1>2. /\ s \in streams[p] /\ Take(p) /\ UNCHANGED <<handles, written, taken>>
    BY IncomingKnown
  <1>3. /\ sendWindow' = [sendWindow EXCEPT ![p][s] = WindowAfter(p, f)]
        /\ recvBuf' = [recvBuf EXCEPT ![p][s] = BufferAfter(p, f)]
        /\ readClosed' = [readClosed EXCEPT ![p] = IF "FIN" \in f.flags THEN @ \cup {s} ELSE @]
        /\ writeClosed' = [writeClosed EXCEPT ![p] = @]
        /\ reset' = [reset EXCEPT ![p] = @]
        /\ streams' = [streams EXCEPT ![p] = @ \cup {s}]
    BY DEF RecvStream
  <1>4. UNCHANGED <<streams, writeClosed, reset>>
    BY <1>2, <1>3 DEF TypeOK
  <1>5. wire'[p] = wire[p] /\ wire'[q] = Tail(wire[q])
    BY <1>1, <1>2 DEF Take, TypeOK
  <1>6. /\ sendWindow'[p][s] = WindowAfter(p, f) /\ recvBuf'[p][s] = BufferAfter(p, f)
        /\ readClosed'[p] = IF "FIN" \in f.flags THEN readClosed[p] \cup {s} ELSE readClosed[p]
        /\ readClosed'[q] = readClosed[q]
    BY <1>1, <1>3 DEF TypeOK
  <1>7. \A r \in Side, t \in Sid : ~(r = p /\ t = s) =>
           recvBuf'[r][t] = recvBuf[r][t] /\ sendWindow'[r][t] = sendWindow[r][t]
    BY <1>3 DEF TypeOK
  <1> QED BY <1>2, <1>4, <1>5, <1>6, <1>7 DEF StreamStep

\* Such a frame leaves what the sides have told each other in place.
LEMMA RecvKeptTold ==
    ASSUME TypeOK, IdInv, DataInv, NEW p \in Side, wire[Peer(p)] # <<>>,
           NEW f, f = Incoming(p), NEW s \in Sid, s = f.sid,
           RecvStream(p), ~Opens(p, f), "RST" \notin f.flags
    PROVE  AllTold' /\ StreamsLocal'
  <1> DEFINE q == Peer(p)
  <1>1. /\ q \in Side /\ q # p /\ Peer(q) = p /\ f = Head(wire[q])
        /\ wire[q] \in Seq(Frame) /\ wire[q] # <<>>
    BY PeerType DEF TypeOK, Incoming
  <1>2. StreamStep(p, f, s)
    BY RecvKept
  <1>3. s \in handles[p] /\ s \notin reset[p] /\ "SYN" \notin f.flags
    BY IncomingKnown
  <1>4. AllTold'
    <2>1. /\ Told(p, wire[p], handles[p], writeClosed[p], reset[p], handles[q], reset[q])
          /\ Told(q, wire[q], handles[q], writeClosed[q], reset[q], handles[p], reset[p])
      BY <1>1 DEF DataInv, AllTold
    <2>2. ~IsSyn(q, Head(wire[q])) /\ "RST" \notin Head(wire[q]).flags
      BY <1>1, <1>3 DEF IsSyn
    <2>3. Told(q, Tail(wire[q]), handles[q], writeClosed[q], reset[q], handles[p], reset[p])
      BY <1>1, <2>1, <2>2, ToldTail
    <2> QED BY <1>1, <1>2, <2>1, <2>3, Sides DEF AllTold, StreamStep
  <1>5. StreamsLocal'
    <2>1. StreamsLocal /\ reset \in [Side -> SUBSET Sid]
      BY DEF DataInv, TypeOK
    <2>2. ASSUME NEW r \in Side
          PROVE  /\ readClosed'[r] \cup writeClosed[r] \subseteq handles[r]
                 /\ readClosed[r] \subseteq readClosed'[r]
      BY <1>1, <1>2, <1>3, <2>1, Sides DEF StreamsLocal, StreamStep
    <2>3. \A r \in Side : \A t \in Sid \ handles[r] : recvBuf'[r][t] = <<>>
      BY <1>2, <1>3, <2>1 DEF StreamsLocal, StreamStep
    <2>4. \A r \in Side : \A t \in reset[r] : recvBuf'[r][t] = <<>>
      BY <1>2, <1>3, <2>1 DEF StreamsLocal, StreamStep
    <2> QED BY <1>2, <2>1, <2>2, <2>3, <2>4 DEF StreamsLocal, StreamStep
  <1> QED BY <1>4, <1>5

\* The bytes that follow join a buffer.
LEMMA BufferJoin ==
    ASSUME NEW b \in Seq(Nat), NEW a \in Nat, Holds(b, a), NEW f \in Frame, f.type = "Data",
           f.len > 0 => f.off = a + Len(b)
    PROVE  LET c == b \o Payload(f)
           IN c \in Seq(Nat) /\ Len(c) = Len(b) + f.len /\ Holds(c, a)
  <1> DEFINE d == Payload(f)
             c == b \o d
             m == Len(b)
  <1>1. f.len \in Nat /\ f.off \in Nat
    BY DEF Frame
  <1>2. d = [i \in 1 .. f.len |-> f.off + i] /\ d \in Seq(Nat)
    BY PayloadType DEF Payload
  <1>3. Len(d) = f.len /\ \A i \in 1 .. f.len : d[i] = f.off + i
    BY <1>1, <1>2
  <1> HIDE DEF d
  <1>4. /\ c \in Seq(Nat) /\ m \in Nat /\ Len(c) = m + f.len
        /\ \A i \in 1 .. m + f.len : c[i] = IF i <= m THEN b[i] ELSE d[i - m]
    <2>1. d \in Seq(Nat)
      BY <1>2
    <2>2. /\ c \in Seq(Nat) /\ m \in Nat /\ Len(c) = m + Len(d)
          /\ \A i \in 1 .. m + Len(d) : c[i] = IF i <= m THEN b[i] ELSE d[i - m]
      BY <2>1
    <2> QED BY <1>3, <2>2
  <1> HIDE DEF c
  <1>5. ASSUME NEW i \in 1 .. m + f.len PROVE c[i] = a + i
    <2>1. CASE i <= m
      <3>1. i \in 1 .. Len(b)
        BY <1>4, <2>1
      <3> QED BY <1>4, <1>5, <2>1, <3>1 DEF Holds
    <2>2. CASE i > m
      <3>1. i - m \in 1 .. f.len /\ f.len > 0 /\ ~(i <= m)
        BY <1>1, <1>4, <2>2
      <3>2. d[i - m] = f.off + (i - m) /\ f.off = a + m
        BY <1>3, <3>1
      <3>3. f.off + (i - m) = a + i
        BY <1>1, <1>4, <3>2
      <3> QED BY <1>4, <1>5, <3>1, <3>2, <3>3
    <2> QED BY <1>4, <2>1, <2>2
  <1>6. Holds(c, a)
    BY <1>4, <1>5 DEF Holds
  <1> QED BY <1>4, <1>6 DEF c, d

\* The data in front of the wire is what the stream waits for.
LEMMA DataInFront ==
    ASSUME TypeOK, DataInv, NEW p \in Side, wire[Peer(p)] # <<>>,
           NEW f, f = Incoming(p), NEW s \in Sid, s = f.sid, f.type = "Data",
           s \notin reset[p]
    PROVE  /\ f.len > 0 => f.off = Arrived(p, s)
           /\ Carries(Tail(wire[Peer(p)]), "Data", s, Arrived(p, s) + f.len,
                      written[Peer(p)][s])
           /\ ("FIN" \in f.flags \/ s \in readClosed[p]) =>
                 f.len = 0 /\ Arrived(p, s) = written[Peer(p)][s] /\ s \in writeClosed[Peer(p)]
  <1> DEFINE q == Peer(p)
             w == wire[q]
             from == Arrived(p, s)
             to == written[q][s]
  <1>1. /\ q \in Side /\ Peer(q) = p /\ f = Head(w) /\ w \in Seq(Frame) /\ w # <<>>
    BY PeerType DEF TypeOK, Incoming
  <1>2. from \in Int /\ to \in Int
    BY <1>1, Counters
  <1>3. f.len \in Nat /\ FrameTold(q, f, handles[q], writeClosed[q], reset[q])
    BY IncomingTold
  <1>4. Carries(w, "Data", s, from, to)
    BY <1>1 DEF DataInv, DataCarried
  <1>5. "FIN" \in f.flags => \A j \in DOMAIN w : j # 1 => ~HasBytes(w[j], "Data", s)
    BY IncomingTold
  <1>6. 1 \in DOMAIN w /\ f = w[1]
    BY <1>1, TailFacts
  <1>7. ASSUME s \in readClosed[p] PROVE from = to /\ s \in writeClosed[q]
    BY <1>7 DEF DataInv, EofComplete, Arrived
  <1> HIDE DEF q, w, from, to
  <1>8. CASE f.len > 0
    <2>1. HasBytes(Head(w), "Data", s)
      BY <1>1, <1>8 DEF HasBytes
    <2>2. f.off = from /\ Carries(Tail(w), "Data", s, from + f.len, to)
      BY <1>1, <1>2, <1>4, <2>1, CarriesTail
    <2>3. "FIN" \notin f.flags
      BY <1>3, <1>8 DEF FrameTold
    <2>4. from # to
      BY <1>1, <1>2, <1>4, <1>6, <2>1, CarriesNothing
    <2> QED BY <1>7, <2>2, <2>3, <2>4 DEF from, to, w, q
  <1>9. CASE f.len = 0
    <2>1. ~HasBytes(Head(w), "Data", s)
      BY <1>1, <1>9 DEF HasBytes
    <2>2. Carries(Tail(w), "Data", s, from, to)
      BY <1>1, <1>2, <1>4, <2>1, CarriesTailOther
    <2>3. from + f.len = from
      BY <1>2, <1>9
    <2>4. "FIN" \in f.flags => from = to /\ s \in writeClosed[q]
      <3> SUFFICES ASSUME "FIN" \in f.flags PROVE from = to /\ s \in writeClosed[q]
        OBVIOUS
      <3>1. \A j \in DOMAIN w : ~HasBytes(w[j], "Data", s)
        BY <1>1, <1>5, <1>6, <2>1
      <3>2. from = to
        BY <1>1, <1>2, <1>4, <3>1, CarriesNothing
      <3>3. s \in writeClosed[q]
        BY <1>3 DEF FrameTold
      <3> QED BY <3>2, <3>3
    <2> QED BY <1>7, <1>9, <2>2, <2>3, <2>4 DEF from, to, w, q
  <1> QED BY <1>3, <1>8, <1>9

\* Data for a stream p keeps joins its buffer; a FIN ends it.
LEMMA DataRecvData ==
    ASSUME TypeOK, IdInv, DataInv, NEW p \in Side, wire[Peer(p)] # <<>>,
           NEW f, f = Incoming(p), NEW s \in Sid, s = f.sid, f.type = "Data",
           RecvStream(p), ~Opens(p, f), "RST" \notin f.flags
    PROVE  DataInv'
  <1> DEFINE q == Peer(p)
             n == f.len
  <1>1. /\ q \in Side /\ q # p /\ Peer(q) = p /\ f = Head(wire[q])
        /\ wire[q] \in Seq(Frame) /\ wire[q] # <<>>
    BY PeerType DEF TypeOK, Incoming
  <1>2. StreamStep(p, f, s) /\ AllTold' /\ StreamsLocal'
    BY RecvKept, RecvKeptTold
  <1>3. s \notin reset[p] /\ s \in handles[p]
    BY IncomingKnown
  <1>4. f \in Frame /\ n \in Nat
    BY IncomingTold
  <1>5. /\ n > 0 => f.off = Arrived(p, s)
        /\ Carries(Tail(wire[q]), "Data", s, Arrived(p, s) + n, written[q][s])
        /\ ("FIN" \in f.flags \/ s \in readClosed[p]) =>
              n = 0 /\ Arrived(p, s) = written[q][s] /\ s \in writeClosed[q]
    BY <1>3, DataInFront
  <1>6. /\ recvBuf[p][s] \in Seq(Nat) /\ taken[p][s] \in Nat /\ Holds(recvBuf[p][s], taken[p][s])
        /\ Len(recvBuf[p][s]) \in Nat
    <2>1. recvBuf[p][s] \in Seq(Nat) /\ taken[p][s] \in Nat
      BY DEF TypeOK
    <2>2. recvBuf[p][s] = [i \in 1 .. Len(recvBuf[p][s]) |-> taken[p][s] + i]
      BY DEF DataInv, InOrder
    <2>3. Holds(recvBuf[p][s], taken[p][s])
      BY <2>1, <2>2, BufferHolds
    <2>4. Len(recvBuf[p][s]) \in Nat
      BY <2>1
    <2> QED BY <2>1, <2>3, <2>4
  <1>7. /\ BufferAfter(p, f) \in Seq(Nat) /\ Len(BufferAfter(p, f)) = Len(recvBuf[p][s]) + n
        /\ Holds(BufferAfter(p, f), taken[p][s])
    <2>1. n > 0 => f.off = taken[p][s] + Len(recvBuf[p][s])
      BY <1>5 DEF Arrived
    <2> QED BY <1>4, <1>6, <2>1, BufferJoin DEF BufferAfter
  <1>8. Arrived(p, s)' = Arrived(p, s) + n
    <2>1. recvBuf'[p][s] = BufferAfter(p, f) /\ taken' = taken
      BY <1>2 DEF StreamStep
    <2>2. Len(recvBuf'[p][s]) = Len(recvBuf[p][s]) + n /\ Len(recvBuf[p][s]) \in Nat
          /\ taken[p][s] \in Nat
      BY <1>6, <1>7, <2>1
    <2> HIDE DEF n
    <2>3. taken[p][s] + (Len(recvBuf[p][s]) + n) = taken[p][s] + Len(recvBuf[p][s]) + n
      BY <1>4, <2>2
    <2> QED BY <2>1, <2>2, <2>3 DEF Arrived
  <1>9. \A r \in Side, t \in Sid : ~(r = p /\ t = s) =>
           Arrived(r, t)' = Arrived(r, t) /\ recvBuf'[r][t] = recvBuf[r][t]
    BY <1>2 DEF StreamStep, Arrived
  <1>10. \A r \in Side, t \in Sid : Credited(r, t)' = Credited(r, t)
    <2>1. WindowAfter(p, f) = sendWindow[p][s]
      BY DEF WindowAfter
    <2>2. \A r \in Side, t \in Sid : sendWindow'[r][t] = sendWindow[r][t]
      BY <1>2, <2>1 DEF StreamStep
    <2> QED BY <1>2, <2>2 DEF StreamStep, Credited
  <1>11. ASSUME NEW type, NEW t, NEW r \in Side, NEW from \in Int, NEW to \in Int,
                Carries(wire[r], type, t, from, to), ~(r = q /\ type = "Data" /\ t = s)
         PROVE  Carries(wire'[r], type, t, from, to)
    <2>1. CASE r = p
      BY <1>2, <1>11, <2>1 DEF StreamStep
    <2>2. CASE r = q
      <3>1. ~HasBytes(Head(wire[q]), type, t)
        BY <1>1, <1>11, <2>2 DEF HasBytes
      <3>2. Carries(Tail(wire[q]), type, t, from, to)
        BY <1>1, <1>11, <2>2, <3>1, CarriesTaken
      <3> QED BY <1>2, <2>2, <3>2 DEF StreamStep
    <2> QED BY <2>1, <2>2, Sides
  <1>12. DataCarried'
    <2> SUFFICES ASSUME NEW r \in Side, NEW t \in Sid
                 PROVE  /\ Arrived(Peer(r), t)' <= written[r][t]
                        /\ t \notin reset[Peer(r)] =>
                              Carries(wire'[r], "Data", t, Arrived(Peer(r), t)', written[r][t])
      BY <1>2, PeerType DEF DataCarried, StreamStep
    <2>1. CASE r = q /\ t = s
      <3>1. Carries(wire'[r], "Data", t, Arrived(Peer(r), t)', written[r][t])
        BY <1>1, <1>2, <1>5, <1>8, <2>1 DEF StreamStep
      <3> QED BY <3>1 DEF Carries
    <2>2. CASE ~(r = q /\ t = s)
      <3>1. Peer(r) \in Side /\ ~(Peer(r) = p /\ t = s)
        BY <1>1, <2>2, Sides, PeerType
      <3>2. Arrived(Peer(r), t)' = Arrived(Peer(r), t)
        BY <1>9, <3>1
      <3>3. Arrived(Peer(r), t) \in Int /\ written[r][t] \in Int
        BY <3>1, Counters
      <3>4. /\ Arrived(Peer(r), t) <= written[r][t]
            /\ t \notin reset[Peer(r)] =>
                  Carries(wire[r], "Data", t, Arrived(Peer(r), t), written[r][t])
        BY DEF DataInv, DataCarried
      <3> QED BY <1>11, <2>2, <3>2, <3>3, <3>4
    <2> QED BY <2>1, <2>2
  <1>13. CreditCarried'
    <2> SUFFICES ASSUME NEW r \in Side, NEW t \in Sid, t \notin reset[r]
                 PROVE  Carries(wire'[Peer(r)], "WindowUpdate", t, Credited(r, t),
                                taken[Peer(r)][t])
      BY <1>2, <1>10, PeerType DEF CreditCarried, StreamStep
    <2>1. Peer(r) \in Side
      BY PeerType
    <2>2. Credited(r, t) \in Int
      BY Counters
    <2>3. taken[Peer(r)][t] \in Int
      BY <2>1, Counters
    <2> QED BY <1>11, <2>1, <2>2, <2>3 DEF DataInv, CreditCarried
  <1>14. InOrder'
    <2> SUFFICES ASSUME NEW r \in Side, NEW t \in Sid
                 PROVE  recvBuf'[r][t] = [i \in 1 .. Len(recvBuf'[r][t]) |-> taken[r][t] + i]
      BY <1>2 DEF InOrder, StreamStep
    <2>1. CASE r = p /\ t = s
      <3>1. recvBuf'[r][t] = BufferAfter(p, f)
        BY <1>2, <2>1 DEF StreamStep
      <3> QED BY <1>6, <1>7, <2>1, <3>1, BufferHolds
    <2>2. CASE ~(r = p /\ t = s)
      BY <1>9, <2>2 DEF DataInv, InOrder
    <2> QED BY <2>1, <2>2
  <1>15. EofComplete'
    <2> SUFFICES ASSUME NEW r \in Side, NEW t \in readClosed'[r] \ reset[r]
                 PROVE  /\ Arrived(r, t)' = written[Peer(r)][t]
                        /\ t \in writeClosed[Peer(r)]
      BY <1>2 DEF EofComplete, StreamStep, Arrived
    <2>1. CASE r = p /\ t = s
      <3>1. "FIN" \in f.flags \/ s \in readClosed[p]
        BY <1>2, <2>1 DEF StreamStep
      <3>2. Arrived(p, s) \in Nat
        BY Counters
      <3> QED BY <1>5, <1>8, <2>1, <3>1, <3>2
    <2>2. CASE ~(r = p /\ t = s)
      <3>1. t \in readClosed[r] /\ t \in Sid
        <4>1. readClosed[r] \subseteq Sid
          BY DEF TypeOK
        <4>2. t \in readClosed[r]
          BY <1>1, <1>2, <2>2, Sides DEF StreamStep
        <4> QED BY <4>1, <4>2
      <3>2. Arrived(r, t)' = Arrived(r, t)
        BY <1>9, <2>2, <3>1
      <3> QED BY <3>1, <3>2 DEF DataInv, EofComplete, Arrived
    <2> QED BY <2>1, <2>2
  <1> QED BY <1>2, <1>12, <1>13, <1>14, <1>15 DEF DataInv

\* A window update for a stream p keeps credits it; the sum never clips.
LEMMA DataRecvUpdate ==
    ASSUME TypeOK, IdInv, DataInv, NEW p \in Side, wire[Peer(p)] # <<>>,
           NEW f, f = Incoming(p), NEW s \in Sid, s = f.sid, f.type = "WindowUpdate",
           RecvStream(p), ~Opens(p, f), "RST" \notin f.flags
    PROVE  DataInv'
  <1> DEFINE q == Peer(p)
             n == f.len
             from == Credited(p, s)
             to == taken[q][s]
  <1>1. /\ q \in Side /\ q # p /\ Peer(q) = p /\ f = Head(wire[q])
        /\ wire[q] \in Seq(Frame) /\ wire[q] # <<>>
    BY PeerType DEF TypeOK, Incoming
  <1>2. StreamStep(p, f, s) /\ AllTold' /\ StreamsLocal'
    BY RecvKept, RecvKeptTold
  <1>3. s \notin reset[p] /\ s \in handles[p]
    BY IncomingKnown
  <1>4. n \in Nat /\ "FIN" \notin f.flags
    <2>1. n \in Nat /\ FrameTold(q, f, handles[q], writeClosed[q], reset[q])
      BY IncomingTold
    <2> QED BY <2>1 DEF FrameTold
  <1>5. /\ readClosed'[p] = readClosed[p] /\ readClosed'[q] = readClosed[q]
    BY <1>2, <1>4 DEF StreamStep
  <1>6. BufferAfter(p, f) = recvBuf[p][s]
    <2>1. Payload(f) = <<>> /\ recvBuf[p][s] \in Seq(Nat)
      BY DEF Payload, TypeOK
    <2> QED BY <2>1 DEF BufferAfter
  <1>7. \A r \in Side, t \in Sid :
           Arrived(r, t)' = Arrived(r, t) /\ recvBuf'[r][t] = recvBuf[r][t]
    <2>1. \A r \in Side, t \in Sid : recvBuf'[r][t] = recvBuf[r][t]
      BY <1>2, <1>6 DEF StreamStep
    <2> QED BY <1>2, <2>1 DEF StreamStep, Arrived
  <1>8. from \in Int /\ to \in Int /\ sendWindow[p][s] \in Nat /\ written[p][s] \in Nat
    BY <1>1, Counters
  <1>9. Carries(Tail(wire[q]), "WindowUpdate", s, from + n, to)
    <2>1. Carries(wire[q], "WindowUpdate", s, from, to)
      BY <1>1, <1>3 DEF DataInv, CreditCarried
    <2> HIDE DEF from, to
    <2>2. CASE n > 0
      <3>1. HasBytes(Head(wire[q]), "WindowUpdate", s)
        BY <1>1, <2>2 DEF HasBytes
      <3> QED BY <1>1, <1>8, <2>1, <3>1, CarriesTail
    <2>3. CASE n = 0
      <3>1. ~HasBytes(Head(wire[q]), "WindowUpdate", s)
        BY <1>1, <2>3 DEF HasBytes
      <3>2. from + n = from
        BY <1>8, <2>3
      <3> QED BY <1>1, <1>8, <2>1, <3>1, <3>2, CarriesTailOther
    <2> QED BY <1>4, <2>2, <2>3
  <1>10. from = sendWindow[p][s] + written[p][s] - Window
    BY <1>3 DEF Credited
  <1>11. WindowAfter(p, f) = sendWindow[p][s] + n
    <2>1. to <= written[p][s]
      <3>1. Arrived(q, s) <= written[p][s]
        BY <1>1 DEF DataInv, DataCarried
      <3>2. to <= Arrived(q, s)
        <4>1. to \in Nat /\ Len(recvBuf[q][s]) \in Nat
          BY <1>1, Counters
        <4> QED BY <4>1 DEF Arrived
      <3>3. Arrived(q, s) \in Nat
        BY <1>1, Counters
      <3>4. to \in Int /\ written[p][s] \in Int
        BY <1>8
      <3> HIDE DEF to
      <3> QED BY <3>1, <3>2, <3>3, <3>4, AtMost
    <2>2. from + n <= to
      BY <1>9 DEF Carries
    <2> HIDE DEF from, to
    <2>3. n \in Int
      BY <1>4
    <2> HIDE DEF n
    <2>4. sendWindow[p][s] + n <= Window
      <3>1. /\ sendWindow[p][s] \in Int /\ written[p][s] \in Int
            /\ from \in Int /\ to \in Int /\ Window \in Int
        BY <1>8, WindowAssumption
      <3>2. from + n <= written[p][s]
        BY <2>1, <2>2, <2>3, <3>1
      <3> QED BY SMTT(30), <1>10, <2>3, <3>1, <3>2
    <2>5. sendWindow[p][s] + n <= MaxU32
      <3>1. /\ sendWindow[p][s] + n \in Int /\ Window \in Int /\ MaxU32 \in Int
            /\ Window <= MaxU32
        BY <1>8, <2>3, WindowAssumption, MaxU32Assumption
      <3> QED BY <2>4, <3>1, AtMost
    <2> USE DEF n
    <2> QED BY <2>5 DEF WindowAfter, Lesser
  <1>12. Credited(p, s)' = from + n
    <2>1. sendWindow'[p][s] = sendWindow[p][s] + n /\ written' = written /\ handles' = handles
      BY <1>2, <1>11 DEF StreamStep
    <2>2. Credited(p, s)' = sendWindow[p][s] + n + written[p][s] - Window
      BY <1>3, <2>1 DEF Credited
    <2> HIDE DEF from
    <2> QED BY SMTT(30), <1>4, <1>8, <1>10, <2>2, WindowAssumption
  <1>13. \A r \in Side, t \in Sid : ~(r = p /\ t = s) => Credited(r, t)' = Credited(r, t)
    BY <1>2 DEF StreamStep, Credited
  <1>14. ASSUME NEW type, NEW t, NEW r \in Side, NEW a \in Int, NEW b \in Int,
                Carries(wire[r], type, t, a, b), ~(r = q /\ type = "WindowUpdate" /\ t = s)
         PROVE  Carries(wire'[r], type, t, a, b)
    <2>1. CASE r = p
      BY <1>2, <1>14, <2>1 DEF StreamStep
    <2>2. CASE r = q
      <3>1. ~HasBytes(Head(wire[q]), type, t)
        BY <1>1, <1>14, <2>2 DEF HasBytes
      <3>2. Carries(Tail(wire[q]), type, t, a, b)
        BY <1>1, <1>14, <2>2, <3>1, CarriesTaken
      <3> QED BY <1>2, <2>2, <3>2 DEF StreamStep
    <2> QED BY <2>1, <2>2, Sides
  <1>15. DataCarried'
    <2> SUFFICES ASSUME NEW r \in Side, NEW t \in Sid
                 PROVE  /\ Arrived(Peer(r), t) <= written[r][t]
                        /\ t \notin reset[Peer(r)] =>
                              Carries(wire'[r], "Data", t, Arrived(Peer(r), t), written[r][t])
      BY <1>2, <1>7, PeerType DEF DataCarried, StreamStep
    <2>1. Peer(r) \in Side
      BY PeerType
    <2>2. Arrived(Peer(r), t) \in Int /\ written[r][t] \in Int
      BY <2>1, Counters
    <2> QED BY <1>14, <2>2 DEF DataInv, DataCarried
  <1>16. CreditCarried'
    <2> SUFFICES ASSUME NEW r \in Side, NEW t \in Sid, t \notin reset[r]
                 PROVE  Carries(wire'[Peer(r)], "WindowUpdate", t, Credited(r, t)',
                                taken[Peer(r)][t])
      BY <1>2, PeerType DEF CreditCarried, StreamStep
    <2>1. CASE r = p /\ t = s
      BY <1>2, <1>9, <1>12, <2>1 DEF StreamStep
    <2>2. CASE ~(r = p /\ t = s)
      <3>1. Peer(r) \in Side /\ ~(Peer(r) = q /\ t = s)
        BY <1>1, <2>2, Sides, PeerType
      <3>2. Credited(r, t) \in Int /\ Credited(r, t)' = Credited(r, t)
        BY <1>13, <2>2, Counters
      <3>3. taken[Peer(r)][t] \in Int
        BY <3>1, Counters
      <3>4. Carries(wire[Peer(r)], "WindowUpdate", t, Credited(r, t), taken[Peer(r)][t])
        BY DEF DataInv, CreditCarried
      <3> QED BY <1>14, <3>1, <3>2, <3>3, <3>4
    <2> QED BY <2>1, <2>2
  <1>17. InOrder'
    BY <1>2, <1>7 DEF DataInv, InOrder, StreamStep
  <1>18. EofComplete'
    <2> SUFFICES ASSUME NEW r \in Side, NEW t \in readClosed'[r] \ reset[r]
                 PROVE  /\ Arrived(r, t)' = written[Peer(r)][t]
                        /\ t \in writeClosed[Peer(r)]
      BY <1>2 DEF EofComplete, StreamStep, Arrived
    <2>1. t \in readClosed[r] /\ t \in Sid
      <3>1. readClosed[r] \subseteq Sid
        BY DEF TypeOK
      <3>2. t \in readClosed[r]
        BY <1>1, <1>5, Sides
      <3> QED BY <3>1, <3>2
    <2>2. Arrived(r, t)' = Arrived(r, t)
      BY <1>7, <2>1
    <2> QED BY <2>1, <2>2 DEF DataInv, EofComplete, Arrived
  <1> QED BY <1>2, <1>15, <1>16, <1>17, <1>18 DEF DataInv

----------------------------------------------------------------------------
(* The invariant, and what follows from it.                                *)

\* Nothing is open and nothing in flight at the start.
LEMMA DataInit == Init => DataInv
  <1> SUFFICES ASSUME Init PROVE DataInv
    OBVIOUS
  <1>1. \A p \in Side : wire[p] = <<>> /\ handles[p] = {} /\ streams[p] = {} /\ reset[p] = {}
                        /\ readClosed[p] = {} /\ writeClosed[p] = {}
    BY DEF Init
  <1>2. \A p \in Side, s \in Sid : recvBuf[p][s] = <<>> /\ written[p][s] = 0 /\ taken[p][s] = 0
    BY DEF Init
  <1>3. \A p \in Side : Peer(p) \in Side
    BY PeerType
  <1>4. AllTold
    BY <1>1, <1>3 DEF AllTold, Told
  <1>5. StreamsLocal
    BY <1>1, <1>2 DEF StreamsLocal
  <1>6. \A p \in Side, s \in Sid : Arrived(p, s) = 0 /\ Credited(p, s) = 0
    BY <1>1, <1>2 DEF Arrived, Credited
  <1>7. \A type, s : Carries(<<>>, type, s, 0, 0)
    BY DEF Carries
  <1>8. DataCarried /\ CreditCarried
    BY <1>1, <1>2, <1>3, <1>6, <1>7 DEF DataCarried, CreditCarried
  <1>9. InOrder
    <2> SUFFICES ASSUME NEW p \in Side, NEW s \in Sid
                 PROVE  recvBuf[p][s] = [i \in 1 .. Len(recvBuf[p][s]) |-> taken[p][s] + i]
      BY DEF InOrder
    <2>1. <<>> \in Seq(Nat) /\ Holds(<<>>, 0) /\ 0 \in Nat
      BY DEF Holds
    <2> QED BY <1>2, <2>1, BufferHolds
  <1>10. EofComplete
    BY <1>1 DEF EofComplete
  <1> QED BY <1>4, <1>5, <1>8, <1>9, <1>10 DEF DataInv

\* Every step preserves the invariant.
LEMMA DataNext == TypeOK /\ IdInv /\ DataInv /\ [Next]_vars => DataInv'
  <1> SUFFICES ASSUME TypeOK, IdInv, DataInv, [Next]_vars PROVE DataInv'
    OBVIOUS
  <1>1. ASSUME NEW p \in Side, Application(p) PROVE DataInv'
    BY <1>1, DataOpenStream, DataTryWrite, DataTryRead, DataCloseWrite, DataReset
       DEF Application
  <1>2. ASSUME NEW p \in Side, Receive(p) PROVE DataInv'
    <2>1. wire[Peer(p)] # <<>>
      BY <1>2 DEF Receive
    <2>2. CASE RecvPing(p) \/ RecvGoAway(p) \/ RecvBadSyn(p) \/ RecvUnknown(p)
      BY <2>1, <2>2, DataReceiveOther
    <2>3. CASE RecvStream(p)
      <3>1. CASE Opens(p, Incoming(p))
        BY <2>1, <2>3, <3>1, DataAccept
      <3>2. CASE ~Opens(p, Incoming(p))
        <4>1. Incoming(p).sid \in Sid /\ Incoming(p).type \in {"Data", "WindowUpdate"}
          BY <2>1, <2>3, <3>2, IncomingKnown
        <4>2. PICK f : f = Incoming(p)
          OBVIOUS
        <4>3. PICK s \in Sid : s = f.sid
          BY <4>1, <4>2
        <4>4. CASE "RST" \in f.flags
          BY <2>1, <2>3, <3>2, <4>2, <4>3, <4>4, DataRecvRst
        <4>5. CASE "RST" \notin f.flags /\ f.type = "Data"
          BY <2>1, <2>3, <3>2, <4>2, <4>3, <4>5, DataRecvData
        <4>6. CASE "RST" \notin f.flags /\ f.type = "WindowUpdate"
          BY <2>1, <2>3, <3>2, <4>2, <4>3, <4>6, DataRecvUpdate
        <4> QED BY <4>1, <4>2, <4>4, <4>5, <4>6
      <3> QED BY <3>1, <3>2
    <2> QED BY <1>2, <2>2, <2>3 DEF Receive
  <1>3. ASSUME NEW p \in Side, ForeignSend(p) PROVE DataInv'
    BY <1>3, DataForeign
  <1>4. CASE UNCHANGED vars
    <2>1. UNCHANGED <<streams, sendWindow, handles, recvBuf, readClosed, writeClosed, reset,
                      wire, written, taken>>
      BY <1>4 DEF vars
    <2> QED BY <2>1 DEF DataInv, AllTold, StreamsLocal, DataCarried, CreditCarried, InOrder,
                        EofComplete, Arrived, Credited
  <1> QED BY <1>1, <1>2, <1>3, <1>4 DEF Next

\* In every reachable state the frames in flight carry exactly the bytes and
\* the credits that are sent and have not arrived, and tell the peer what it
\* has to know (write_stream_data, handle_frame, reset_stream).
THEOREM DataInvariant == Spec => []DataInv
  <1>1. Init => DataInv
    BY DataInit
  <1>2. TypeOK /\ IdInv /\ DataInv /\ [Next]_vars => DataInv'
    BY DataNext
  <1> QED BY <1>1, <1>2, TypeCorrect, IdsInvariant, PTL DEF Spec

\* try_read returns the peer's bytes in order, without gap or repetition.
THEOREM BytesInOrder == Spec => []InOrder
  <1>1. DataInv => InOrder
    BY DEF DataInv
  <1> QED BY <1>1, DataInvariant, PTL

\* End of stream is only reported when all the peer wrote has arrived and
\* its write side is closed (receive_fin).
THEOREM EofNeverEarly == Spec => []EofComplete
  <1>1. DataInv => EofComplete
    BY DEF DataInv
  <1> QED BY <1>1, DataInvariant, PTL

\* A stream kept on one side only is about to be created on the other, or
\* to be removed (open_stream, reset_stream).
THEOREM StreamsNeverHalfOpen == Spec => []NoHalfOpen
  <1>1. TypeOK /\ DataInv => NoHalfOpen
    <2> SUFFICES ASSUME TypeOK, DataInv, NEW p \in Side,
                        NEW s \in streams[p] \ streams[Peer(p)]
                 PROVE  OnWire(p, s, "SYN") \/ OnWire(Peer(p), s, "RST")
      BY DEF NoHalfOpen
    <2> DEFINE q == Peer(p)
    <2>1. q \in Side /\ Peer(q) = p
      BY PeerType
    <2>2. /\ s \in handles[p] /\ s \notin reset[p]
          /\ handles[q] = streams[q] \cup reset[q]
      BY <2>1 DEF DataInv, StreamsLocal
    <2>3. /\ Told(p, wire[p], handles[p], writeClosed[p], reset[p], handles[q], reset[q])
          /\ Told(q, wire[q], handles[q], writeClosed[q], reset[q], handles[p], reset[p])
      BY <2>1 DEF DataInv, AllTold
    <2>4. CASE s \notin handles[q]
      <3>1. SynAmong(p, wire[p], Len(wire[p]), s)
        BY <2>2, <2>3, <2>4 DEF Told
      <3> QED BY <3>1 DEF SynAmong, OnWire, IsSyn
    <2>5. CASE s \in handles[q]
      <3>1. RstAmong(wire[q], s)
        BY <2>2, <2>3, <2>5 DEF Told
      <3> QED BY <3>1 DEF RstAmong, OnWire
    <2> QED BY <2>4, <2>5
  <1> QED BY <1>1, TypeCorrect, DataInvariant, PTL
=============================================================================
