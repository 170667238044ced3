------------------------------- MODULE PeerIds -------------------------------
(***************************************************************************)
(* The text form of a PeerId (types.cpp): base58 of a fixed header and the *)
(* key.  Bytes and text symbols are numbers below ByteRadix and TextRadix  *)
(* (256 and 58 in the code); the symbol 0 is '1', the symbol TextRadix is  *)
(* a character outside of the alphabet.                                    *)
(***************************************************************************)
EXTENDS Naturals, Sequences, SequencesExt

CONSTANTS
    ByteRadix,    \* 256
    TextRadix,    \* 58
    Header,       \* multihash code 0, payload length, key prefix
    KeyLength,    \* 32
    MaxText       \* bound: symbols of a text

ASSUME PeerIdsAssumption ==
    /\ ByteRadix \in Nat /\ TextRadix \in 2 .. ByteRadix - 1
    /\ Header \in Seq(0 .. ByteRadix - 1) /\ Len(Header) > 0 /\ Header[1] = 0
    /\ KeyLength \in Nat \ {0} /\ MaxText \in Nat

Symbol == 0 .. TextRadix
PeerId == [1 .. KeyLength -> 0 .. ByteRadix - 1]

VARIABLE text  \* a text given to from_string, one symbol longer in every step

----------------------------------------------------------------------------
(* base58.                                                                 *)

LeadingZeroes(s) ==
    LET nonzero == {i \in DOMAIN s : s[i] # 0} IN
    IF nonzero = {} THEN Len(s) ELSE Min(nonzero) - 1

Zeroes(n) == [i \in 1 .. n |-> 0]

\* The digits a carry is pushed as, low digit first.
Digits(carry, radix) ==
    LET push[c \in 0 .. carry] ==
            IF c = 0 THEN <<>> ELSE <<c % radix>> \o push[c \div radix]
    IN push[carry]

\* One turn of the outer loops: digits, low first, times factor plus value.
FaultyMulAdd(digits, value, factor, radix) ==
    LET step(acc, d) ==
            LET c == acc.carry + d * factor IN
            [carry |-> c \div radix, digits |-> Append(acc.digits, c % radix)]
        done == FoldLeft(step, [carry |-> value, digits |-> <<>>], digits)
    IN done.digits \o (IF done.carry = 0 THEN <<>> ELSE <<done.carry % radix>>)
MulAdd(digits, value, factor, radix) ==
    LET step(acc, d) ==
            LET c == acc.carry + d * factor IN
            [carry |-> c \div radix, digits |-> Append(acc.digits, c % radix)]
        done == FoldLeft(step, [carry |-> value, digits |-> <<>>], digits)
    IN done.digits \o Digits(done.carry, radix)

Convert(s, from, to) ==
    Zeroes(LeadingZeroes(s)) \o
    Reverse(FoldLeft(LAMBDA digits, v : MulAdd(digits, v, from, to), <<>>, s))

EncodeBase58(data) ==
    IF data = <<>> THEN <<0>> ELSE Convert(data, ByteRadix, TextRadix)

\* An error is the empty set of results.
DecodeBase58(t) ==
    IF TextRadix \in {t[i] : i \in DOMAIN t} THEN {}
    ELSE {Convert(t, TextRadix, ByteRadix)}

PeerToString(peer) == EncodeBase58(Header \o peer)

PeerFromString(t) ==
    {SubSeq(d, Len(Header) + 1, Len(d)) :
        d \in {e \in DecodeBase58(t) : /\ Len(e) = Len(Header) + KeyLength
                                       /\ SubSeq(e, 1, Len(Header)) = Header}}

----------------------------------------------------------------------------
PeerIdsInit == text = <<>>

Type(c) == Len(text) < MaxText /\ text' = Append(text, c)

PeerIdsNext == \E c \in Symbol : Type(c)

----------------------------------------------------------------------------
(* Properties.                                                             *)

\* The number a sequence of digits stands for.
ValueOf(s, radix) == FoldLeft(LAMBDA n, d : n * radix + d, 0, s)

\* decode_base58 keeps the number and the leading zeroes, every byte in its
\* range, and encode_base58 gives the text back: the carry loops lose no
\* digit, whatever the length.
Base58Exact ==
    \A d \in DecodeBase58(text) :
        /\ ValueOf(d, ByteRadix) = ValueOf(text, TextRadix)
        /\ LeadingZeroes(d) = LeadingZeroes(text)
        /\ \A i \in DOMAIN d : d[i] < ByteRadix
        /\ text # <<>> => EncodeBase58(d) = text

\* base58 is exact, and so a peer has one text: to_string is read back by
\* from_string, and a text that from_string takes is the one to_string writes.
\* A dialed address names the peer whose key the handshake must show
\* (validate_expected_remote_peer).
PeerIdCanonical ==
    /\ Base58Exact
    /\ \A peer \in PeerFromString(text) : peer \in PeerId /\ PeerToString(peer) = text
    /\ text = <<>> => \A peer \in PeerId : PeerFromString(PeerToString(peer)) = {peer}
=============================================================================
