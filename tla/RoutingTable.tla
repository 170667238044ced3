---------------------------- MODULE RoutingTable ----------------------------
(***************************************************************************)
(* The flat routing table (routing_table.cpp).  Peer ids are numbers of    *)
(* IdBits bits; the distance is their XOR.                                 *)
(***************************************************************************)
EXTENDS Naturals, Sequences, SequencesExt, Bitwise

CONSTANTS
    IdBits,   \* 256
    LocalId,  \* local_id_
    MaxPeers  \* bound: peers in the table

ASSUME RoutingTableAssumption ==
    IdBits \in Nat /\ LocalId \in 0 .. 2 ^ IdBits - 1 /\ MaxPeers \in Nat

Id == 0 .. 2 ^ IdBits - 1

VARIABLE peers  \* peers_

RoutingTableInit == peers = <<>>

InsertPeer(peer) ==
    /\ Len(peers) < MaxPeers
    /\ peer # LocalId /\ ~Contains(peers, peer)
    /\ peers' = Append(peers, peer)

RemovePeer(peer) == peers' = SelectSeq(peers, LAMBDA p : p # peer)

\* The comparison std::sort is given: both distances to the target, the
\* first byte first.
Nearer(target, a, b) == (a ^^ target) < (b ^^ target)

FaultyClosestPeers(target, k) ==
    LET first == SubSeq(peers, 1, IF Len(peers) > k THEN k ELSE Len(peers))
    IN SortSeq(first, LAMBDA a, b : Nearer(target, a, b))
ClosestPeers(target, k) ==
    LET sorted == SortSeq(peers, LAMBDA a, b : Nearer(target, a, b))
    IN IF Len(sorted) > k THEN SubSeq(sorted, 1, k) ELSE sorted

RoutingTableNext == \E peer \in Id : InsertPeer(peer) \/ RemovePeer(peer)

----------------------------------------------------------------------------
(* Properties.                                                             *)

\* closest_peers returns k peers, or all if there are fewer, nearest first,
\* each once and never the local one, and leaves out only peers that are
\* farther: after any sequence of insertions and removals, in any order.
ClosestAreNearest ==
    \A target \in Id, k \in 0 .. MaxPeers + 1 :
       LET found == ClosestPeers(target, k)
           known == ToSet(peers)
       IN /\ Len(found) = (IF Cardinality(known) < k THEN Cardinality(known) ELSE k)
          /\ ToSet(found) \subseteq known \ {LocalId}
          /\ \A i \in DOMAIN found :
                /\ \A j \in 1 .. i - 1 : Nearer(target, found[j], found[i])
                /\ \A p \in known \ ToSet(found) : Nearer(target, found[i], p)
=============================================================================
