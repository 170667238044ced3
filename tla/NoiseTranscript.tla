-------------------------- MODULE NoiseTranscript --------------------------
(***************************************************************************)
(* The inductive invariant behind the properties of Noise.  An end that    *)
(* has completed has accepted ciphertexts only its peer can have made, and *)
(* their associated data is the peer's handshake hash: so the session of a *)
(* completed end is determined by the two identities alone, whatever was   *)
(* altered on the way.  Until then the responder's session is determined   *)
(* by the key k and the payload c that it took for the first message.      *)
(***************************************************************************)
EXTENDS Noise

I == "initiator"
R == "responder"

\* Constants under names of their own: the provers treat them as values.
Nil == <<>>
No  == FALSE
Yes == TRUE

\* The payload of the first message.
FirstPayload == Seal(NoKey, 0, <<>>, NoPayload)

\* Chaining keys and hashes of the responder, from k and c.
Ck1(k) == <<Dh(Ephemeral(R), k)>>
Ck2(k) == <<Dh(Ephemeral(R), k), Dh(Static(R), k)>>
H3(k, c) == <<k, c, Ephemeral(R)>>
SealedKey2(k, c) == Seal(Output(Ck1(k), 2), 0, H3(k, c), Static(R))
H4(k, c) == Append(H3(k, c), SealedKey2(k, c))
SealedPayload2(k, c) == Seal(Output(Ck2(k), 2), 0, H4(k, c), MakeLocalPayload(R))
H5(k, c) == Append(H4(k, c), SealedPayload2(k, c))
Msg2(k, c) == <<Ephemeral(R), SealedKey2(k, c), SealedPayload2(k, c)>>

\* The rest, for a handshake in which both ends saw the same.
E == Ephemeral(I)
Hash == H5(E, FirstPayload)
Ck3 == <<Dh(Ephemeral(R), E), Dh(Static(R), E), Dh(Static(I), Ephemeral(R))>>
Ck4 == <<Dh(Ephemeral(R), E), Dh(Static(R), E), Dh(Static(I), Ephemeral(R)), {}>>
SealedKey3 == Seal(Output(Ck2(E), 2), 1, Hash, Static(I))
H6 == Append(Hash, SealedKey3)
SealedPayload3 == Seal(Output(Ck3, 2), 0, H6, MakeLocalPayload(I))
H7 == Append(H6, SealedPayload3)
Msg3 == <<SealedKey3, SealedPayload3>>

SendKey(r) == Output(Ck4, IF r = I THEN 1 ELSE 2)

\* Keys and nonces that r has used: two in the handshake, then one a text.
FirstUses(r, k) ==
    IF r = I THEN << <<Output(Ck2(k), 2), 1>>, <<Output(Ck3, 2), 0>> >>
    ELSE << <<Output(Ck1(k), 2), 0>>, <<Output(Ck2(k), 2), 0>> >>
Uses(r, n) ==
    [j \in 1 .. 2 + n |-> IF j <= 2 THEN FirstUses(r, E)[j] ELSE <<SendKey(r), j - 3>>]

\* A NoiseSession.
Session(stage, ck, h, key, n, re, rs, send, recv, peer, ext, complete, sealed) ==
    [stage |-> stage, ck |-> ck, h |-> h, key |-> key, n |-> n, re |-> re, rs |-> rs,
     send |-> send, recv |-> recv, peer |-> peer, ext |-> ext, complete |-> complete,
     sealed |-> sealed]

\* The sessions at each stage of the handshake; stage may also be Failed.
Half(stage, ck, h, key, n, re, sealed) ==
    Session(stage, ck, h, key, n, re, JunkKey, NoCipher, NoCipher, "none", Nil, No, sealed)
Begin(stage)    == Half(stage, Nil, Nil, NoKey, 0, JunkKey, Nil)
Waiting2(stage) == Half(stage, Nil, <<E, FirstPayload>>, NoKey, 0, JunkKey, Nil)
Waiting3(stage, k, c) ==
    Half(stage, Ck2(k), H5(k, c), Output(Ck2(k), 2), 1, k, FirstUses(R, k))
Cipher(key, n) == [key |-> key, n |-> n]
Done(r, stage) ==
    LET o == Remote(r) IN
    Session(stage, Ck3, H7, Output(Ck3, 2), 1, Ephemeral(o), Static(o),
            Cipher(SendKey(r), texts[r]), Cipher(SendKey(o), Len(received[r])),
            MakeLocalPayload(o).id, MakeLocalPayload(o).ext, Yes, Uses(r, texts[r]))

\* A session is one of these.
InitiatorShape ==
    \/ session[I] = Begin("Idle")
    \/ \E stage \in {"AwaitingMsg2", "Failed"} : session[I] = Waiting2(stage)
    \/ \E stage \in {"Complete", "Failed"} : session[I] = Done(I, stage)

Keys1     == {E, JunkKey}
Payloads1 == {FirstPayload, Seal(NoKey, 0, <<>>, JunkText)}
ResponderShape ==
    \/ \E stage \in {"AwaitingMsg1", "Failed"} : session[R] = Begin(stage)
    \/ \E stage \in {"AwaitingMsg3", "Failed"}, k \in Keys1, c \in Payloads1 :
          session[R] = Waiting3(stage, k, c)
    \/ \E stage \in {"Complete", "Failed"} : session[R] = Done(R, stage)

\* Both ends saw the same first message.
SameFirst == session[R].re = E /\ session[R].h \in {Hash, H7}

\* What one end's progress says of the other's.
Progress ==
    LET x == session[I] y == session[R] IN
    /\ x.stage = "Idle" => y.stage = "AwaitingMsg1"
    /\ x.complete => SameFirst
    /\ damaged = 0 /\ y.h # <<>> => SameFirst
    /\ y.complete => x.complete

\* Transport messages.
Counts ==
    /\ texts \in [Role -> 0 .. MaxNonce]
    /\ \A r \in Role :
          /\ received[r] = [j \in 1 .. Len(received[r]) |-> j]
          /\ Len(received[r]) <= texts[Remote(r)]
          /\ ~session[r].complete => texts[r] = 0 /\ received[r] = <<>>

\* The j-th message of an end, as it was sent, and how many it has sent and
\* its peer has taken.
SentMsg(r, j) ==
    IF r = I THEN IF j = 1 THEN <<E, FirstPayload>>
                  ELSE IF j = 2 THEN Msg3
                  ELSE <<Seal(SendKey(I), j - 3, <<>>, j - 2)>>
    ELSE IF j = 1 THEN Msg2(session[R].re, session[R].h[2])
         ELSE <<Seal(SendKey(R), j - 2, <<>>, j - 1)>>
Hands(r) == IF r = I THEN 2 ELSE 1
SentCount(r) ==
    IF session[r].complete THEN Hands(r) + texts[r]
    ELSE IF session[r].h = <<>> THEN 0 ELSE 1
TakenCount(r) ==
    LET o == Remote(r) IN
    IF session[o].complete THEN Hands(r) + Len(received[o])
    ELSE IF r = I /\ session[o].h # <<>> THEN 1 ELSE 0

\* s is a sequence, whatever it holds.
IsSequence(s) == s \in Seq({s[i] : i \in DOMAIN s})

\* m is message o, perhaps altered in parts and cut short.
Near(m, o) ==
    /\ IsSequence(m)
    /\ Len(m) <= Len(o)
    /\ \A i \in DOMAIN m : m[i] = o[i] \/ m[i] = Altered(o[i])
    /\ damaged = 0 => m = o

\* w holds the messages of r after the n-th, up to the s-th; the first of
\* them may be altered.
Carries(r, w, n, s) ==
    /\ Len(w) = s - n
    /\ \A j \in DOMAIN w :
          /\ j = 1 => Near(w[1], SentMsg(r, n + 1))
          /\ j > 1 => w[j] = SentMsg(r, n + j)

\* What is in flight is what was sent and is not taken; an end that has
\* failed takes nothing more.
InFlight(r) ==
    session[Remote(r)].stage # "Failed" => Carries(r, sent[r], TakenCount(r), SentCount(r))

Channels ==
    /\ damaged \in Nat
    /\ session = [r \in Role |-> session[r]]
    /\ received \in [Role -> Seq(Nat)]
    /\ sent = [r \in Role |-> sent[r]]
    /\ \A r \in Role : IsSequence(sent[r]) /\ InFlight(r)

\* Every step of the two ends preserves this conjunction (process_msg1,
\* process_msg2, process_msg3, encrypt, decrypt).
TranscriptInv ==
    /\ InitiatorShape
    /\ ResponderShape
    /\ Progress
    /\ Counts
    /\ Channels
    /\ FailureHasCause

\* An end that has completed has verified its peer (verify_remote_identity).
Signed ==
    \A r \in Role :
       session[r].complete =>
          LET p == MakeLocalPayload(Remote(r)) IN p = NoPayload \/ p.over = Static(Remote(r))

NoiseInv == TranscriptInv /\ Signed
=============================================================================
