------------------------------- MODULE Framing -------------------------------
(***************************************************************************)
(* multistream-select messages on the byte level: a varint length and a    *)
(* text that ends in a newline.  The same bytes are read by two parsers:   *)
(* swarm.cpp measures the exchange in its negotiation buffer while it      *)
(* arrives, and multistream_select.cpp decodes it.  A byte carries         *)
(* GroupBits bits and a continuation bit, and lengths are Width bits wide  *)
(* (7 and 64 in the code).                                                 *)
(***************************************************************************)
EXTENDS Naturals, Sequences, FiniteSetsExt

CONSTANTS
    GroupBits,  \* 7
    Width,      \* 64
    MaxBuffer   \* bound: bytes that arrive

ASSUME FramingAssumption ==
    GroupBits \in Nat \ {0} /\ Width \in Nat \ {0} /\ MaxBuffer \in Nat

Group   == 2 ^ GroupBits
Byte    == 0 .. 2 * Group - 1
Newline == 1

VARIABLE buffer  \* negotiation_buffer_

----------------------------------------------------------------------------
(* Results: the value and the bytes behind it, or the error.               *)

Ok(v, rest) == [ok |-> TRUE, value |-> v, rest |-> rest]
Err(what)   == [ok |-> FALSE, error |-> what]

From(s, i)  == SubSeq(s, i, Len(s))

\* encode_uvarint: low group first, a continuation bit on all but the last.
EncodeUvarint(v) ==
    LET enc[n \in 0 .. 2 ^ Width - 1] ==
            IF n < Group THEN <<n>>
            ELSE <<Group + (n % Group)>> \o enc[n \div Group]
    IN enc[v]

\* The number of bytes after which shift has reached the width.
MaxGroups == (Width + GroupBits - 1) \div GroupBits

\* decode_uvarint and decode_multistream_length: the bits that are shifted
\* out of the last group are lost.
DecodeUvarint(buf) ==
    LET last  == {i \in DOMAIN buf : buf[i] < Group}
        n     == Min(last)
        value == MapThenSumSet(LAMBDA i : (buf[i] % Group) * Group ^ (i - 1), 1 .. n)
    IN IF last # {} /\ n <= MaxGroups THEN Ok(value % (2 ^ Width), From(buf, n + 1))
       ELSE IF Len(buf) >= MaxGroups THEN Err("invalid length")
       ELSE Err("incomplete")

----------------------------------------------------------------------------
(* MultistreamSelect: one message.                                         *)

EnsureNewline(msg) ==
    IF msg # <<>> /\ msg[Len(msg)] = Newline THEN msg ELSE Append(msg, Newline)

EncodeMessage(msg) == EncodeUvarint(Len(EnsureNewline(msg))) \o EnsureNewline(msg)

DecodeNext(buf) ==
    LET len == DecodeUvarint(buf) IN
    IF ~len.ok THEN len
    ELSE IF Len(len.rest) < len.value THEN Err("incomplete")
    ELSE LET token == SubSeq(len.rest, 1, len.value) IN
         IF token = <<>> \/ token[Len(token)] # Newline THEN Err("invalid message")
         ELSE Ok(SubSeq(token, 1, Len(token) - 1), From(len.rest, len.value + 1))

\* The two messages that read_outbound_response and negotiate_inbound take.
DecodeTwo(buf) ==
    LET first == DecodeNext(buf) IN
    IF ~first.ok THEN first ELSE DecodeNext(first.rest)

----------------------------------------------------------------------------
(* The spans of ProtocolNegotiatingStream.                                 *)

FaultyMessageSpan(buf) ==
    LET len == DecodeUvarint(buf) IN
    IF ~len.ok THEN len
    ELSE IF Len(buf) < len.value THEN Err("incomplete")
    ELSE Ok(Len(buf) - Len(len.rest) + len.value, <<>>)
MessageSpan(buf) ==
    LET len == DecodeUvarint(buf) IN
    IF ~len.ok THEN len
    ELSE IF Len(len.rest) < len.value THEN Err("incomplete")
    ELSE Ok(Len(buf) - Len(len.rest) + len.value, <<>>)

FaultyExchangeSpan(buf) ==
    LET first == MessageSpan(buf) IN
    IF ~first.ok THEN first
    ELSE LET second == MessageSpan(From(buf, first.value + 1)) IN
         IF ~second.ok THEN second ELSE Ok(Len(buf), <<>>)
ExchangeSpan(buf) ==
    LET first == MessageSpan(buf) IN
    IF ~first.ok THEN first
    ELSE LET second == MessageSpan(From(buf, first.value + 1)) IN
         IF ~second.ok THEN second ELSE Ok(first.value + second.value, <<>>)

Incomplete(result) == ~result.ok /\ result.error = "incomplete"

----------------------------------------------------------------------------
(* The buffer grows as bytes arrive.                                       *)

FramingInit == buffer = <<>>

\* External: the stream delivers the next byte.
Arrive(b) == Len(buffer) < MaxBuffer /\ buffer' = Append(buffer, b)

FramingNext == \E b \in Byte : Arrive(b)

----------------------------------------------------------------------------
(* Properties.                                                             *)

\* Every length is read back from its varint, whatever follows, up to the
\* last of its width, and every text from its message (encode_uvarint,
\* decode_uvarint, encode_message, decode_next).
RoundTrip ==
    /\ \A v \in 0 .. 2 ^ Width - 1 : DecodeUvarint(EncodeUvarint(v) \o buffer) = Ok(v, buffer)
    /\ Len(buffer) + 1 < 2 ^ Width =>
          LET d == DecodeNext(EncodeMessage(buffer) \o buffer) IN
          d.ok /\ EnsureNewline(buffer) = Append(d.value, Newline) /\ d.rest = buffer

\* The two parsers and the encoder agree: what encode_message writes is read
\* back, an exchange is measured exactly when it can be decoded or is
\* malformed, and the bytes behind its span, the first of the application,
\* are the ones the decoder leaves (multistream_exchange_span, decode_next).
ParsersAgree ==
    LET s == ExchangeSpan(buffer) IN
    /\ RoundTrip
    /\ s.ok => LET d == DecodeTwo(SubSeq(buffer, 1, s.value)) IN
               /\ s.value <= Len(buffer)
               /\ IF d.ok THEN d.rest = <<>> ELSE d.error = "invalid message"
    /\ Incomplete(s) => ~DecodeTwo(buffer).ok

\* Once the exchange has been measured or refused, more bytes change nothing:
\* what is read early with the exchange is application data (the loop of
\* read_into_negotiation_buffer reads ahead).
SpanStable ==
    [][~Incomplete(ExchangeSpan(buffer)) => ExchangeSpan(buffer') = ExchangeSpan(buffer)]_buffer
=============================================================================
