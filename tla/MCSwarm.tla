------------------------------ MODULE MCSwarm ------------------------------
(* Instances of Swarm for TLC.                                             *)
EXTENDS Swarm, TLC

PeerSymmetry == Permutations(Peers)
=============================================================================
