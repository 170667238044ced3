----------------------------- MODULE YamuxIds -----------------------------
(***************************************************************************)
(* The inductive invariant behind the stream ids of Yamux.  AcceptOnce     *)
(* says that no stream is accepted twice; that rests on what is still on   *)
(* the wire: a SYN in flight carries an id its sender has allocated, its   *)
(* receiver has never had, and no other SYN in flight carries.             *)
(***************************************************************************)
EXTENDS Yamux

IsSyn(p, f) == "SYN" \in f.flags /\ LocalStreamId(p, f.sid)

\* The frames w of side p, whose next id is next, towards a peer that has had
\* the streams had; own says that p has sent nothing foreign.
WireOk(p, w, next, had, own) ==
    /\ \A i \in DOMAIN w : IsSyn(p, w[i]) => w[i].sid < next /\ w[i].sid \notin had
    /\ \A i, j \in DOMAIN w :
          (IsSyn(p, w[i]) /\ IsSyn(p, w[j]) /\ w[i].sid = w[j].sid) => i = j
    /\ own => \A i \in DOMAIN w :
          w[i].type # "GoAway" /\ ("SYN" \in w[i].flags => IsSyn(p, w[i]))

NextIdsLocal   == \A p \in Side : LocalStreamId(p, nextStreamId[p])
StreamsHandled == \A p \in Side : streams[p] \subseteq handles[p]
HandlesAllocated ==
    \A p \in Side : \A s \in handles[p] :
       /\ LocalStreamId(p, s) => s < nextStreamId[p]
       /\ ~LocalStreamId(p, s) => s < nextStreamId[Peer(p)]
WiresOk ==
    \A p \in Side : WireOk(p, wire[p], nextStreamId[p], handles[Peer(p)], foreign = 0)
AcceptedOnce ==
    \A p \in Side :
       /\ \A i \in DOMAIN accepted[p] :
             accepted[p][i] \in handles[p] /\ LocalStreamId(Peer(p), accepted[p][i])
       /\ \A i, j \in DOMAIN accepted[p] : accepted[p][i] = accepted[p][j] => i = j
NoGoAway == foreign = 0 => \A p \in Side : ~remoteGoAway[p]

\* Every step of the two sessions preserves this conjunction; it implies
\* AcceptOnce and NoProtocolError (open_stream, get_or_create_stream,
\* is_remote_stream_id).
IdInv ==
    /\ NextIdsLocal
    /\ StreamsHandled
    /\ HandlesAllocated
    /\ WiresOk
    /\ AcceptedOnce
    /\ NoGoAway
=============================================================================
