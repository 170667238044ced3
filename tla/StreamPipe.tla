----------------------------- MODULE StreamPipe -----------------------------
(***************************************************************************)
(* What one direction of a muxed stream promises (include/peercore/        *)
(* muxed_stream.hpp): a reliable pipe of bounded capacity.  The writer can *)
(* be at most Capacity bytes ahead of the reader, the reader gets a prefix *)
(* of what was written, and it is told end of stream only when it has      *)
(* everything and the writer has closed, or when a side has reset the      *)
(* stream.                                                                 *)
(***************************************************************************)
EXTENDS Naturals

CONSTANT Capacity  \* a positive number of bytes

VARIABLES
    sent,    \* bytes accepted from the writer
    got,     \* bytes returned to the reader
    ended,   \* the writer has closed its side
    eof,     \* the reader is told end of stream
    broken   \* one of the sides has reset the stream

pipeVars == <<sent, got, ended, eof, broken>>

PipeInit == sent = 0 /\ got = 0 /\ ~ended /\ ~eof /\ ~broken

\* try_write takes some bytes.
Write ==
    /\ ~ended
    /\ sent' \in sent + 1 .. got + Capacity
    /\ UNCHANGED <<got, ended, eof, broken>>

\* try_read returns some bytes; with the last of them end of stream shows.
Read ==
    /\ got' \in got + 1 .. sent
    /\ eof' \in {eof, eof \/ broken \/ (ended /\ got' = sent)}
    /\ UNCHANGED <<sent, ended, broken>>

\* close_write.
Close == ~ended /\ ended' = TRUE /\ UNCHANGED <<sent, got, eof, broken>>

\* The end of the stream reaches the reader.
End ==
    /\ ended /\ got = sent
    /\ eof' = TRUE
    /\ UNCHANGED <<sent, got, ended, broken>>

\* reset by one side, and its effects on either side.
Break ==
    /\ broken' = TRUE
    /\ ended' \in {ended, TRUE}
    /\ eof' \in {eof, TRUE}
    /\ UNCHANGED <<sent, got>>

PipeNext == Write \/ Read \/ Close \/ End \/ Break

PipeSpec == PipeInit /\ [][PipeNext]_pipeVars
=============================================================================
