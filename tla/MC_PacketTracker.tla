--------------------------- MODULE MC_PacketTracker ---------------------------
(* The ids are interchangeable: symmetry for the run of PacketTracker. *)
EXTENDS PacketTracker, TLC

SymmetricIds == Permutations(Ids)
=============================================================================
