------------------------------ MODULE CoordChain ------------------------------
(***************************************************************************)
(* The chain as the coordinator sees it: one epoch of BotcoinMiningV4 and  *)
(* its registry, read through an RPC node, with blocks that may be         *)
(* reorganised away.  Everything the coordinator reads (counters, roots,   *)
(* events) is a function of the blocks, because a reorganisation takes it  *)
(* all back together.  Module V4Receipts models the contracts themselves.  *)
(*                                                                         *)
(* A block holds at most one transaction.  A state root is modelled by the *)
(* sequence of patches that leads to it from the epoch's parent root, so   *)
(* roots do not recur in an epoch.  Block number and stamp together        *)
(* identify a block, as its hash does: the stamp counts reorganisations.   *)
(***************************************************************************)
EXTENDS Integers, Sequences, FiniteSets, FiniteSetsExt

CONSTANTS Miners, Patches,
          Cap,            \* coreTexScreenerCapPerMinerPerEpoch
          MaxBlocks,      \* bound: length of the chain
          MaxTime,        \* bound: the clock
          MaxReorgs,      \* bound: reorganisations
          ReorgDepth,     \* bound: blocks one of them may replace
          Settling,       \* bound: blocks kept free at the end, so that all events become final
          MaxStandard,    \* bound: standard-lane receipts
          MayRoll         \* whether the epoch may end

ASSUME ChainAssumption ==
  /\ {Cap, MaxBlocks, MaxTime, MaxReorgs, ReorgDepth, Settling, MaxStandard} \subseteq Nat
  /\ MayRoll \in BOOLEAN

VARIABLES now,            \* the clock of the chain and of the coordinator's host
          chain, peak,    \* peak: the greatest height so far
          reorgs,
          rolled,         \* V4.currentEpoch has left the epoch
          signed          \* every CoreTex receipt ever signed; its holder may submit it

chainVars == <<now, chain, peak, reorgs, rolled, signed>>

\* Last element and prefix order of sequences (of roots and blocks).
Last(s) == s[Len(s)]
IsPrefix(s, t) == Len(s) <= Len(t) /\ SubSeq(s, 1, Len(s)) = SubSeq(t, 1, Len(s))
IsStrictPrefix(s, t) == IsPrefix(s, t) /\ s # t

\* The zero receipt hash, and the block without a transaction.
NoReceipt == [outcome |-> "None"]

\* The blocks of chain c with a transaction, with one of miner m, and with a
\* CoreTexStateAdvanced event.
TxBlocks(c) == {i \in DOMAIN c : c[i].tx # NoReceipt}
BlocksOf(c, m) == {i \in TxBlocks(c) : c[i].tx.miner = m}
AdvanceBlocks(c) == {i \in TxBlocks(c) : c[i].tx.outcome = "StateAdvance"}

\* What the coordinator reads at a chain c.
NextIndex(c, m) == Cardinality(BlocksOf(c, m))
LastReceipt(c, m) == IF BlocksOf(c, m) = {} THEN NoReceipt ELSE c[Max(BlocksOf(c, m))].tx
Screeners(c, m) == Cardinality({i \in BlocksOf(c, m) : c[i].tx.outcome = "ScreenerPass"})
Transitions(c) == Cardinality(AdvanceBlocks(c))
RootAfter(x) == Append(x.parent, x.patch)
LiveRootOf(c) == IF AdvanceBlocks(c) = {} THEN << >> ELSE RootAfter(c[Max(AdvanceBlocks(c))].tx)

\* qualifiedScreenerPassesSinceLastStateAdvance
Difficulty(c) ==
  Cardinality({i \in TxBlocks(c) : /\ c[i].tx.outcome = "ScreenerPass"
                                   /\ \A a \in AdvanceBlocks(c) : a < i})

\* The blocks a..b of chain c that carry a CoreTexStateAdvanced event, in order:
\* the one sequence that lists them.
EventLists(c, a, b) ==
  LET events == AdvanceBlocks(c) \cap a..b IN
  {q \in [1..Cardinality(events) -> events] :
     /\ \A e \in events : \E i \in DOMAIN q : q[i] = e
     /\ \A i, j \in DOMAIN q : i < j => q[i] < q[j]}

\* coreTexPatchCredited: the hash of a patch covers its parent root and, by the
\* score delta in it, the outcome.
PatchKey(x) == <<x.parent, x.patch, x.outcome>>
CreditedPatches(c) ==
  {PatchKey(c[i].tx) : i \in {i \in TxBlocks(c) : c[i].tx.outcome # "Standard"}}

-----------------------------------------------------------------------------
\* Whether V4 accepts receipt x, signed by this coordinator, on chain c at t.
V4Accepts(x, c, t) ==
  /\ ~rolled
  /\ x.index = NextIndex(c, x.miner) /\ x.prev = LastReceipt(c, x.miner)
  /\ x.issuedAt <= t /\ t <= x.expiresAt
  /\ x.difficulty = Difficulty(c)
  /\ PatchKey(x) \notin CreditedPatches(c)
  /\ x.parent = LiveRootOf(c)
  /\ x.outcome = "ScreenerPass" => Screeners(c, x.miner) < Cap

Mine(tx) ==
  /\ Len(chain) < MaxBlocks
  /\ chain' = Append(chain, [tx |-> tx, stamp |-> reorgs])
  /\ peak' = Max({peak, Len(chain) + 1})
  /\ UNCHANGED <<now, reorgs, rolled, signed>>

HasRoom == Len(chain) + Settling < MaxBlocks

\* A miner's transaction is mined; a block without one.
Land(x) == HasRoom /\ V4Accepts(x, chain, now) /\ Mine(x)
MineEmpty == Mine(NoReceipt)

\* submitReceipt: the standard lane shares the miner's receipt chain.
LandStandard(m) ==
  /\ ~rolled /\ HasRoom
  /\ Cardinality({i \in TxBlocks(chain) : chain[i].tx.outcome = "Standard"}) < MaxStandard
  /\ Mine([miner |-> m, outcome |-> "Standard", index |-> NextIndex(chain, m), prev |-> LastReceipt(chain, m)])

\* The blocks above height n are replaced; the new ones are mined one by one.
Reorg(n) ==
  /\ reorgs < MaxReorgs /\ peak - n <= ReorgDepth
  /\ chain' = SubSeq(chain, 1, n)
  /\ reorgs' = reorgs + 1
  /\ UNCHANGED <<now, peak, rolled, signed>>

Tick == now < MaxTime /\ now' = now + 1 /\ UNCHANGED <<chain, peak, reorgs, rolled, signed>>

RollEpoch == MayRoll /\ ~rolled /\ rolled' = TRUE /\ UNCHANGED <<now, chain, peak, reorgs, signed>>

ChainInit == now = 1 /\ chain = << >> /\ peak = 0 /\ reorgs = 0 /\ rolled = FALSE /\ signed = {}

ChainStep ==
  \/ \E x \in signed : Land(x)
  \/ MineEmpty
  \/ \E m \in Miners : LandStandard(m)
  \/ \E n \in 0..(Len(chain) - 1) : Reorg(n)
  \/ Tick
  \/ RollEpoch
=============================================================================
