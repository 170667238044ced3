------------------------------- MODULE Noise -------------------------------
(***************************************************************************)
(* The Noise XX handshake between two ends and the transport ciphers it    *)
(* leads to (protocol/noise/noise.cpp).  Cryptography is symbolic: a       *)
(* Diffie-Hellman secret is the set of its two keys, the chaining key and  *)
(* the handshake hash are the sequences of what was mixed into them, and a *)
(* ciphertext opens only under its key, its nonce and its associated data. *)
(*                                                                         *)
(* The messages of an end arrive in order, whole; one of them may arrive   *)
(* altered in one part, or cut short.                                      *)
(***************************************************************************)
EXTENDS Naturals, Sequences

CONSTANTS
    MaxNonce,   \* UINT64_MAX, the nonce that is never used
    MaxTexts,   \* bound: transport messages per end
    MaxDamage   \* bound: messages that arrive altered

ASSUME NoiseAssumption == MaxNonce \in Nat /\ MaxTexts \in Nat /\ MaxDamage \in Nat

Role == {"initiator", "responder"}
Remote(r) == IF r = "initiator" THEN "responder" ELSE "initiator"

VARIABLES
    local,    \* local[r]: identity and extensions of end r, never changed
    session,  \* session[r]: the NoiseSession of end r and its stage
    sent,     \* sent[r]: messages of r that have not arrived
    damaged,  \* number of messages altered so far
    texts,    \* history: texts[r], the transport messages r has encrypted
    received  \* history: received[r], the ones r has decrypted

noiseVars == <<local, session, sent, damaged, texts, received>>

----------------------------------------------------------------------------
(* Keys, ciphertexts and payloads.                                         *)

Key(kind, r) == [kind |-> kind, owner |-> r]
JunkKey      == Key("junk", "nobody")
Ephemeral(r) == Key("ephemeral", r)
Static(r)    == Key("static", r)

\* compute_shared_secret: both ends get the same from their halves.
Dh(a, b) == {a, b}

\* hkdf2 after input was mixed in: the new chaining key and two outputs.
NoKey            == [ck |-> <<>>, out |-> 0]
Output(ck, i)    == [ck |-> ck, out |-> i]

\* encrypt_with_key; text in the clear is "sealed" under NoKey.
Seal(key, n, ad, text) == [key |-> key, n |-> n, ad |-> ad, text |-> text]

\* make_handshake_payload: an identity that signs a static key, extensions.
NoPayload == [id |-> "none", over |-> JunkKey, ext |-> <<>>]
JunkText  == [id |-> "junk", over |-> JunkKey, ext |-> <<>>]

MakeLocalPayload(r) ==
    IF ~local[r].identity THEN NoPayload
    ELSE [id |-> r, over |-> IF local[r].goodSignature THEN Static(r) ELSE JunkKey,
          ext |-> local[r].ext]

NoCipher == [key |-> NoKey, n |-> 0]

\* A NoiseSession after initialize_symmetric.  sealed is a history: the keys
\* and nonces used to encrypt.
Fresh(stage) ==
    [stage |-> stage, ck |-> <<>>, h |-> <<>>, key |-> NoKey, n |-> 0,
     re |-> JunkKey, rs |-> JunkKey, send |-> NoCipher, recv |-> NoCipher,
     peer |-> "none", ext |-> <<>>, complete |-> FALSE, sealed |-> <<>>]

NoiseInit ==
    /\ local \in [Role -> [identity : BOOLEAN, goodSignature : BOOLEAN,
                           ext : {<<>>, <<"yamux">>}]]
    /\ session  = [r \in Role |-> Fresh(IF r = "initiator" THEN "Idle" ELSE "AwaitingMsg1")]
    /\ sent     = [r \in Role |-> <<>>]
    /\ damaged  = 0
    /\ texts    = [r \in Role |-> 0]
    /\ received = [r \in Role |-> <<>>]

----------------------------------------------------------------------------
(* The symmetric state.                                                    *)

MixHash(x, d) == [x EXCEPT !.h = Append(@, d)]

MixKey(x, secret) ==
    LET ck == Append(x.ck, secret) IN
    [x EXCEPT !.ck = ck, !.key = Output(ck, 2), !.n = 0]

\* What encrypt_and_hash produces of text, and the session after it.
Sealed(x, text) == IF x.key = NoKey THEN Seal(NoKey, 0, <<>>, text)
                   ELSE Seal(x.key, x.n, x.h, text)
EncryptAndHash(x, text) ==
    LET y == MixHash(x, Sealed(x, text)) IN
    IF x.key = NoKey THEN y
    ELSE [y EXCEPT !.n = @ + 1, !.sealed = Append(@, <<x.key, x.n>>)]

\* decrypt_and_hash of c succeeds, and the session after it.
FaultyOpens(x, c) == x.key # NoKey => c.key = x.key /\ c.n = x.n
Opens(x, c) == x.key # NoKey => c.key = x.key /\ c.n = x.n /\ c.ad = x.h
DecryptAndHash(x, c) ==
    [MixHash(x, c) EXCEPT !.n = IF x.key = NoKey THEN @ ELSE @ + 1]

SplitTransport(x, r) ==
    LET ck     == Append(x.ck, {})
        first  == [key |-> Output(ck, 1), n |-> 0]
        second == [key |-> Output(ck, 2), n |-> 0]
    IN [x EXCEPT !.send = IF r = "initiator" THEN first ELSE second,
                 !.recv = IF r = "initiator" THEN second ELSE first,
                 !.complete = TRUE]

\* verify_remote_identity: an empty payload names nobody; another one must be
\* readable and signed over the static key the session has.
FaultyVerifies(x, payload) == payload = NoPayload \/ payload.id # "junk"
Verifies(x, payload) == payload = NoPayload \/ payload.over = x.rs
Identified(x, payload) == [x EXCEPT !.peer = payload.id, !.ext = payload.ext]

----------------------------------------------------------------------------
(* The messages.                                                           *)

Become(r, x)  == session' = [session EXCEPT ![r] = x]
Fail(x)       == [x EXCEPT !.stage = "Failed"]
Incoming(r)   == Head(sent[Remote(r)])
Answer(r, ms) == sent' = [sent EXCEPT ![Remote(r)] = Tail(@), ![r] = @ \o ms]

WriteMsg1 ==
    LET e == Ephemeral("initiator")
        x == MixHash(Fresh("AwaitingMsg2"), e)
    IN /\ session["initiator"].stage = "Idle"
       /\ Become("initiator", EncryptAndHash(x, NoPayload))
       /\ sent' = [sent EXCEPT !["initiator"] = Append(@, <<e, Sealed(x, NoPayload)>>)]
       /\ UNCHANGED <<local, damaged, texts, received>>

\* process_msg1: e and a payload in; e, ee, s, es and a payload out.
FaultyAfterMsg1(m) ==
    LET r  == "responder"
        a  == [MixHash(Fresh("AwaitingMsg3"), m[1]) EXCEPT !.re = m[1]]
        b  == DecryptAndHash(a, m[2])
        c  == MixKey(b, Dh(Ephemeral(r), m[1]))
        d  == EncryptAndHash(c, Static(r))
        e  == MixKey(d, Dh(Static(r), m[1]))
    IN [x |-> EncryptAndHash(e, MakeLocalPayload(r)),
        out |-> <<Ephemeral(r), Sealed(c, Static(r)), Sealed(e, MakeLocalPayload(r))>>]
AfterMsg1(m) ==
    LET r  == "responder"
        a  == [MixHash(Fresh("AwaitingMsg3"), m[1]) EXCEPT !.re = m[1]]
        b  == MixHash(DecryptAndHash(a, m[2]), Ephemeral(r))
        c  == MixKey(b, Dh(Ephemeral(r), m[1]))
        d  == EncryptAndHash(c, Static(r))
        e  == MixKey(d, Dh(Static(r), m[1]))
    IN [x |-> EncryptAndHash(e, MakeLocalPayload(r)),
        out |-> <<Ephemeral(r), Sealed(c, Static(r)), Sealed(e, MakeLocalPayload(r))>>]

ProcessMsg1 ==
    LET m == Incoming("responder") IN
    /\ session["responder"].stage = "AwaitingMsg1" /\ sent["initiator"] # <<>>
    /\ \/ /\ Len(m) = 2
          /\ Become("responder", AfterMsg1(m).x)
          /\ Answer("responder", <<AfterMsg1(m).out>>)
       \/ /\ Len(m) < 2
          /\ Become("responder", Fail(session["responder"]))
          /\ Answer("responder", <<>>)
    /\ UNCHANGED <<local, damaged, texts, received>>

\* The end takes the sealed static key c1 of its peer, mixes the secret that
\* it shares with it, and takes the sealed payload c2: es or se for the
\* receiver, whose half is its ephemeral key.
TakesIdentity(r, x, c1, c2) ==
    /\ Opens(x, c1)
    /\ LET y == MixKey([DecryptAndHash(x, c1) EXCEPT !.rs = c1.text],
                       Dh(Ephemeral(r), c1.text))
       IN Opens(y, c2) /\ Verifies(y, c2.text)
AfterIdentity(r, x, c1, c2) ==
    LET y == MixKey([DecryptAndHash(x, c1) EXCEPT !.rs = c1.text],
                    Dh(Ephemeral(r), c1.text))
    IN Identified(DecryptAndHash(y, c2), c2.text)

\* process_msg2: e, ee, s, es and a payload in; s, se and a payload out.
ProcessMsg2 ==
    LET r == "initiator"
        m == Incoming(r)
        x == [MixHash(session[r], m[1]) EXCEPT !.re = m[1]]
        y == MixKey(x, Dh(Ephemeral(r), m[1]))
        a == AfterIdentity(r, y, m[2], m[3])
        b == MixKey(EncryptAndHash(a, Static(r)), Dh(Static(r), m[1]))
        c == EncryptAndHash(b, MakeLocalPayload(r))
        good == Len(m) = 3 /\ TakesIdentity(r, y, m[2], m[3])
    IN /\ session[r].stage = "AwaitingMsg2" /\ sent["responder"] # <<>>
       /\ \/ /\ good
             /\ Become(r, [SplitTransport(c, r) EXCEPT !.stage = "Complete"])
             /\ Answer(r, <<<<Sealed(a, Static(r)), Sealed(b, MakeLocalPayload(r))>>>>)
          \/ /\ ~good
             /\ Become(r, Fail(session[r]))
             /\ Answer(r, <<>>)
       /\ UNCHANGED <<local, damaged, texts, received>>

\* process_msg3: s, se and a payload in.
ProcessMsg3 ==
    LET r == "responder"
        m == Incoming(r)
        x == session[r]
        good == Len(m) = 2 /\ TakesIdentity(r, x, m[1], m[2])
    IN /\ x.stage = "AwaitingMsg3" /\ sent["initiator"] # <<>>
       /\ Answer(r, <<>>)
       /\ \/ /\ good
             /\ Become(r, [SplitTransport(AfterIdentity(r, x, m[1], m[2]), r)
                              EXCEPT !.stage = "Complete"])
          \/ /\ ~good
             /\ Become(r, Fail(x))
       /\ UNCHANGED <<local, damaged, texts, received>>

----------------------------------------------------------------------------
(* Transport messages.  The text of message i is i; nonces are 64 bits.    *)

Bump(c) == [c EXCEPT !.n = (@ + 1) % (MaxNonce + 1)]

FaultyUsable(c) == c.key # NoKey
Usable(c) == c.key # NoKey /\ c.n # MaxNonce

Encrypt(r) ==
    LET c == session[r].send IN
    /\ session[r].stage = "Complete" /\ Usable(c)
    /\ texts[r] < MaxTexts
    /\ texts' = [texts EXCEPT ![r] = @ + 1]
    /\ Become(r, [session[r] EXCEPT !.send = Bump(c),
                                    !.sealed = Append(@, <<c.key, c.n>>)])
    /\ sent' = [sent EXCEPT ![r] = Append(@, <<Seal(c.key, c.n, <<>>, texts[r] + 1)>>)]
    /\ UNCHANGED <<local, damaged, received>>

Decrypt(r) ==
    LET c == session[r].recv
        m == Incoming(r)
        good == Usable(c) /\ Len(m) = 1 /\ m[1].key = c.key /\ m[1].n = c.n
    IN /\ session[r].stage = "Complete" /\ sent[Remote(r)] # <<>>
       /\ Answer(r, <<>>)
       /\ \/ /\ good
             /\ Become(r, [session[r] EXCEPT !.recv = Bump(c)])
             /\ received' = [received EXCEPT ![r] = Append(@, m[1].text)]
          \/ /\ ~good
             /\ Become(r, Fail(session[r]))
             /\ UNCHANGED received
       /\ UNCHANGED <<local, damaged, texts>>

\* External: a part of the message in front arrives altered, or the message
\* arrives cut short, without its last part (the payload of the first one is
\* empty: there the cut is in the key).
Altered(part) ==
    IF "owner" \in DOMAIN part THEN JunkKey
    ELSE Seal(NoKey, 0, <<>>, JunkText)

Damage(r) ==
    /\ damaged < MaxDamage /\ sent[r] # <<>>
    /\ damaged' = damaged + 1
    /\ \/ \E i \in DOMAIN Head(sent[r]) :
             sent' = [sent EXCEPT ![r][1][i] = Altered(@)]
       \/ sent' = [sent EXCEPT ![r][1] = SubSeq(@, 1, Len(@) - 1)]
    /\ UNCHANGED <<local, session, texts, received>>

NoiseNext ==
    \/ WriteMsg1 \/ ProcessMsg1 \/ ProcessMsg2 \/ ProcessMsg3
    \/ \E r \in Role : Encrypt(r) \/ Decrypt(r) \/ Damage(r)

NoiseSpec == NoiseInit /\ [][NoiseNext]_noiseVars

----------------------------------------------------------------------------
(* Properties.                                                             *)

IsPrefixOf(a, b) == Len(a) <= Len(b) /\ a = SubSeq(b, 1, Len(a))

\* An end that completes the handshake has seen what the other end has seen:
\* no message was altered unnoticed, the clear parts of the first included,
\* and each sends with the key the other receives with; transport messages
\* are decrypted as they were encrypted, in order, without a gap (mix_hash,
\* mix_key, split_transport, decrypt).
SameChannel ==
    LET i == session["initiator"] p == session["responder"] IN
    /\ i.complete => IsPrefixOf(p.h, i.h)
    /\ p.complete => /\ i.complete /\ i.h = p.h
                     /\ i.send.key = p.recv.key /\ i.recv.key = p.send.key
                     /\ i.send.key # p.send.key
    /\ \A r \in Role :
          /\ Len(received[r]) <= texts[Remote(r)]
          /\ \A k \in DOMAIN received[r] : received[r][k] = k

\* The remote peer of a completed handshake is the identity of the other
\* end, it signed the static key that the other end used, and its extensions
\* are the ones it sent; without an identity there is none
\* (verify_remote_identity, make_local_payload).
PeerAuthentic ==
    \A r \in Role :
       LET x == session[r] o == Remote(r) IN
       x.complete =>
          /\ x.rs = Static(o)
          /\ x.peer = (IF local[o].identity THEN o ELSE "none")
          /\ x.peer = o => local[o].goodSignature
          /\ x.ext = (IF local[o].identity THEN local[o].ext ELSE <<>>)

\* The two roles mix the same things in the same order: a handshake fails,
\* and a transport message is refused, only if something was altered or an
\* identity has a signature over another key (process_msg1, process_msg2,
\* process_msg3, encrypt, decrypt).
FailureHasCause ==
    (\E r \in Role : session[r].stage = "Failed") =>
        \/ damaged > 0
        \/ \E r \in Role : local[r].identity /\ ~local[r].goodSignature

\* No key is used twice with the same nonce, by either end, in the handshake
\* or after it, up to the last nonce (mix_key, split_transport, encrypt).
NonceOnce ==
    LET all == session["initiator"].sealed \o session["responder"].sealed IN
    \A i, j \in DOMAIN all : all[i] = all[j] => i = j

=============================================================================
