----------------------------- MODULE YamuxData -----------------------------
(***************************************************************************)
(* The inductive invariant behind the data of Yamux.  That try_read        *)
(* returns the peer's bytes in order, that end of stream is never early    *)
(* and that no stream stays half-open rest on what is still on the wire:   *)
(* the frames in flight carry exactly the bytes that are written and have  *)
(* not arrived, and the credits that are granted and have not arrived,     *)
(* each once and in order; nothing follows a FIN; a SYN goes ahead of the  *)
(* other frames of its stream.                                             *)
(***************************************************************************)
EXTENDS YamuxIds

HasBytes(f, type, s) == f.type = type /\ f.sid = s /\ f.len > 0

\* The frames w carry the bytes from + 1 .. to of stream s, of one kind,
\* each once and in order.
Carries(w, type, s, from, to) ==
    /\ from <= to
    /\ \A i \in DOMAIN w : HasBytes(w[i], type, s) =>
          from <= w[i].off /\ w[i].off + w[i].len <= to
    /\ \A i, j \in DOMAIN w :
          (i < j /\ HasBytes(w[i], type, s) /\ HasBytes(w[j], type, s))
             => w[i].off + w[i].len <= w[j].off
    /\ \A k \in from + 1 .. to : \E i \in DOMAIN w :
          HasBytes(w[i], type, s) /\ w[i].off < k /\ k <= w[i].off + w[i].len

\* A frame of p agrees with p's state: own are the streams p has had, ended
\* the ones whose write side is closed, broken the ones it has reset.
FrameTold(p, f, own, ended, broken) ==
    /\ f.type \in {"Data", "WindowUpdate"} => f.sid \in Sid
    /\ f.type # "Data" => {"SYN", "FIN", "RST"} \cap f.flags = {}
    /\ (f.type = "Data" /\ f.flags # {}) => f.len = 0
    /\ "SYN" \in f.flags => f.flags = {"SYN"}
    /\ IsSyn(p, f) => f.sid \in own
    /\ (IsStreamFrame(f) /\ "SYN" \notin f.flags) => f.sid \in own
    /\ "FIN" \in f.flags => f.sid \in ended
    /\ "RST" \in f.flags => f.sid \in broken

\* One of the first n frames of w, frames of p, is the SYN of stream s.
SynAmong(p, w, n, s) ==
    \E j \in DOMAIN w : j <= n /\ IsSyn(p, w[j]) /\ w[j].sid = s

RstAmong(w, s) == \E j \in DOMAIN w : w[j].sid = s /\ "RST" \in w[j].flags

\* The frames w of p towards a peer that has had the streams known and has
\* reset the streams gone.  The peer knows a stream when a frame of it
\* arrives, since a SYN has told it first; no data follows a FIN; and what p
\* has reset the peer has reset, or a RST will tell it.
Told(p, w, own, ended, broken, known, gone) ==
    /\ \A i \in DOMAIN w : FrameTold(p, w[i], own, ended, broken)
    /\ \A s \in own \ known : SynAmong(p, w, Len(w), s)
    /\ \A i \in DOMAIN w :
          (IsStreamFrame(w[i]) /\ "SYN" \notin w[i].flags /\ w[i].sid \notin known)
             => SynAmong(p, w, i - 1, w[i].sid)
    /\ \A i, j \in DOMAIN w :
          (i < j /\ "FIN" \in w[i].flags) => ~HasBytes(w[j], "Data", w[i].sid)
    /\ \A s \in broken \ gone : RstAmong(w, s)

AllTold ==
    \A p \in Side : Told(p, wire[p], handles[p], writeClosed[p], reset[p],
                         handles[Peer(p)], reset[Peer(p)])

\* A stream p has had is kept or reset; one it has not had is untouched.
StreamsLocal ==
    \A p \in Side :
       /\ handles[p] = streams[p] \cup reset[p]
       /\ streams[p] \cap reset[p] = {}
       /\ readClosed[p] \cup writeClosed[p] \subseteq handles[p]
       /\ \A s \in Sid \ handles[p] : written[p][s] = 0 /\ recvBuf[p][s] = <<>>
       /\ \A s \in reset[p] :
             recvBuf[p][s] = <<>> /\ s \in readClosed[p] /\ s \in writeClosed[p]

\* Bytes of its peer's that have arrived at p, and credit that has.
Arrived(p, s)  == taken[p][s] + Len(recvBuf[p][s])
Credited(p, s) == IF s \in handles[p] THEN sendWindow[p][s] + written[p][s] - Window ELSE 0

DataCarried ==
    \A p \in Side, s \in Sid :
       /\ Arrived(Peer(p), s) <= written[p][s]
       /\ s \notin reset[Peer(p)] =>
             Carries(wire[p], "Data", s, Arrived(Peer(p), s), written[p][s])

CreditCarried ==
    \A p \in Side, s \in Sid : s \notin reset[p] =>
       Carries(wire[Peer(p)], "WindowUpdate", s, Credited(p, s), taken[Peer(p)][s])

\* Every step of the two sessions preserves this conjunction, given IdInv; it
\* implies NoHalfOpen and makes each direction of a stream a StreamPipe
\* (handle_frame, write_stream_data, try_read, close_write, reset).
DataInv ==
    /\ AllTold
    /\ StreamsLocal
    /\ DataCarried
    /\ CreditCarried
    /\ InOrder
    /\ EofComplete
=============================================================================
