---------------------------- MODULE MCCoordinator ----------------------------
(* Small instances of the coordinator. *)
EXTENDS CoordinatorCore, TLC

MCSymmetry == Permutations(Miners) \cup Permutations(Patches)
=============================================================================
