------------------------------ MODULE MCLibrary ------------------------------
(* The parts of the library that work alone, side by side in one run: a    *)
(* behaviour takes the steps of one of them and the others stay as they     *)
(* begin.                                                                   *)
EXTENDS Timers, Noise, Framing, PeerIds, RoutingTable

MCHeader == <<0, 2>>

VARIABLE part

LibraryInit ==
    /\ part \in {"timers", "noise", "framing", "peer ids", "routing table"}
    /\ Init /\ NoiseInit /\ FramingInit /\ PeerIdsInit /\ RoutingTableInit
    /\ part # "noise" =>
          local = [r \in Role |-> [identity |-> TRUE, goodSignature |-> TRUE, ext |-> <<>>]]

LibraryNext ==
    /\ \/ part = "timers" /\ Next /\ UNCHANGED <<noiseVars, buffer, text, peers>>
       \/ part = "noise" /\ NoiseNext /\ UNCHANGED <<vars, buffer, text, peers>>
       \/ part = "framing" /\ FramingNext /\ UNCHANGED <<vars, noiseVars, text, peers>>
       \/ part = "peer ids" /\ PeerIdsNext /\ UNCHANGED <<vars, noiseVars, buffer, peers>>
       \/ part = "routing table" /\ RoutingTableNext /\ UNCHANGED <<vars, noiseVars, buffer, text>>
    /\ UNCHANGED part

LibrarySpec == LibraryInit /\ [][LibraryNext]_<<part, vars, noiseVars, buffer, text, peers>>
=============================================================================
