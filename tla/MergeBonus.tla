----------------------------- MODULE MergeBonus -----------------------------
(***************************************************************************)
(* The merge-bonus rail of reducer/: the eligibility ledger of an epoch    *)
(* (eligibility.ts), one capped leaf per merged miner (multiplier-cap.ts)  *)
(* and the funding root with its claim proofs (funding-tx.ts).  hashPair   *)
(* sorts its arguments; hashes are free of collisions.                     *)
(***************************************************************************)
EXTENDS Integers, Sequences, FiniteSets, SequencesExt

CONSTANTS
  Passes,        \* the (miner, patch) pairs the events of the epoch name; miners are numbers
  ClaimBase,     \* claim base of a miner
  Uplift         \* multiplierBps - 10000

VARIABLES screenerEvents, mergedEvents   \* delivered so far, duplicates dropped by key

mergeVars == <<screenerEvents, mergedEvents>>

MergeInit == screenerEvents = {} /\ mergedEvents = {}

\* buildEpochEligibility: a merge accrues once, and only after a screener pass.
Accruals == mergedEvents \cap screenerEvents

\* computeMinerBonus: the cap of a leaf is its bonus.
Leaf(m) == [miner |-> m, bonus |-> (Uplift * ClaimBase[m]) \div 10000,
            cap |-> (Uplift * ClaimBase[m]) \div 10000]

\* Mutant: a leaf for every merged patch.
LeavesPerPatch ==
  LET accruals == SetToSortSeq(Accruals, LAMBDA a, b : a[1] < b[1] \/ (a[1] = b[1] /\ a[2] < b[2]))
  IN [i \in 1..Len(accruals) |-> Leaf(accruals[i][1])]

\* buildEpochBonusLeaves: one leaf per merged miner with something to pay,
\* in the order of the addresses.
Leaves ==
  LET merged == {a[1] : a \in Accruals}
      order == SetToSortSeq({m \in merged : Leaf(m).bonus # 0}, LAMBDA a, b : a < b)
  IN [i \in 1..Len(order) |-> Leaf(order[i])]

TotalBonus == FoldLeft(LAMBDA sum, leaf : sum + leaf.bonus, 0, Leaves)

\* A hash is what was hashed: the contents of a leaf, or two siblings in either order.
LeafHash(leaf) == [leaf |-> leaf, siblings |-> {}]

HashPair(a, b) == [leaf |-> [miner |-> 0, bonus |-> 0, cap |-> 0], siblings |-> {a, b}]

\* An unpaired node is carried up unchanged.
NextLevel(level) ==
  [i \in 1..((Len(level) + 1) \div 2) |->
     IF 2 * i > Len(level) THEN level[2 * i - 1] ELSE HashPair(level[2 * i - 1], level[2 * i])]

\* buildLevels over at least one leaf; levels of one node repeat and change nothing.
Levels(leaves) ==
  FoldLeft(LAMBDA levels, d : IF Len(Last(levels)) > 1
                              THEN Append(levels, NextLevel(Last(levels))) ELSE levels,
           <<[i \in 1..Len(leaves) |-> LeafHash(leaves[i])]>>, [d \in 1..Len(leaves) |-> d])

MerkleRoot(leaves) == Last(Levels(leaves))[1]

\* buildMinerClaimProof: the siblings from the leaf at pos up to the root.
ClaimProof(leaves, pos) ==
  LET levels == Levels(leaves)
      step(acc, level) ==
        [pos |-> (acc.pos + 1) \div 2,
         proof |-> IF acc.pos = Len(level) /\ acc.pos % 2 = 1 THEN acc.proof
                   ELSE Append(acc.proof, IF acc.pos % 2 = 1 THEN level[acc.pos + 1]
                                          ELSE level[acc.pos - 1])]
  IN FoldLeft(step, [pos |-> pos, proof |-> <<>>], Front(levels)).proof

\* verifyMinerClaimProof, and the claim the contract accepts.
Verifies(leaf, proof, root) ==
  FoldLeft(LAMBDA computed, sibling : HashPair(computed, sibling), LeafHash(leaf), proof) = root

\* An event of the epoch is delivered, in any order, perhaps again.
Screened(pass) == screenerEvents' = screenerEvents \cup {pass} /\ UNCHANGED mergedEvents

Merged(pass) == mergedEvents' = mergedEvents \cup {pass} /\ UNCHANGED screenerEvents

MergeNext == \E pass \in Passes : Screened(pass) \/ Merged(pass)

MergeSpec == MergeInit /\ [][MergeNext]_mergeVars

-----------------------------------------------------------------------------
\* The funded total is what the leaves pay: each miner is paid at most one
\* uplift, and only for a patch that both passed the screener and merged.  Every
\* leaf of the funding root can be claimed, at every number of leaves and with
\* an unpaired node at any level, for its own amount only.
FundedOnce ==
  LET funded == {m \in {p[1] : p \in Passes} :
                   \E p \in screenerEvents \cap mergedEvents : p[1] = m}
  IN /\ TotalBonus = FoldLeft(LAMBDA sum, m : sum + Leaf(m).bonus, 0,
                              SetToSortSeq(funded, LAMBDA a, b : a < b))
     /\ \A i \in 1..Len(Leaves) :
          LET proof == ClaimProof(Leaves, i) IN
          /\ Verifies(Leaves[i], proof, MerkleRoot(Leaves))
          /\ ~Verifies([Leaves[i] EXCEPT !.bonus = @ + 1], proof, MerkleRoot(Leaves))
=============================================================================
