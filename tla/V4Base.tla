-------------------------------- MODULE V4Base --------------------------------
(***************************************************************************)
(* What both mining contracts share: the miners, the epoch numbers and the *)
(* two clocks.  block.timestamp and the immutable epochSource (the V3      *)
(* contract) are external; all that is assumed of them is that they never  *)
(* go back.                                                                *)
(***************************************************************************)
EXTENDS Integers, Sequences, FiniteSets

CONSTANTS Miners,
          MaxEpoch, MaxTime     \* bounds: the clocks stop here

ASSUME BoundsAssumption == MaxEpoch \in Nat /\ MaxTime \in Nat
ASSUME MinersAssumption == IsFiniteSet(Miners)

Epochs == 0..MaxEpoch

VARIABLES epoch,                \* currentEpoch()
          now                   \* block.timestamp

NextEpoch == epoch < MaxEpoch /\ epoch' = epoch + 1 /\ now' = now
Tick      == now < MaxTime /\ now' = now + 1 /\ epoch' = epoch
=============================================================================
