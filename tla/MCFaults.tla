------------------------------ MODULE MCFaults ------------------------------
(***************************************************************************)
(* Two small instances of the coordinator in one: reorganisations and      *)
(* failing reads under two receipts, and a freeze, a restart, failing      *)
(* reads and a rollover under one.                                         *)
(***************************************************************************)
EXTENDS MCCoordinator

ReorgBound ==
  /\ now' = 1 /\ freezeGeneration' = 0 /\ boots' <= 1 /\ recomputes' = 0
  /\ ~rolled' /\ failingSince' = 0
FreezeBound ==
  /\ Cardinality(signed') <= 1 /\ (signed' # {} => job' = NoJob)
  /\ Len(chain') <= 2 /\ reorgs' = 0 /\ \A root \in baselines' : Len(root) <= 1
FaultsBound == ReorgBound \/ FreezeBound
=============================================================================
