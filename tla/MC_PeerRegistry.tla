-------------------------- MODULE MC_PeerRegistry --------------------------
(* One padawan that was registered before, for the run of PeerRegistry. *)
EXTENDS PeerRegistry

CONSTANTS p1, p2

SecondAway == <<p2>>
=============================================================================
