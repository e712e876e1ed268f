------------------------------ MODULE StateLane ------------------------------
(***************************************************************************)
(* The substrate state of an epoch and the three programs that must agree  *)
(* on it: the live lane (reducer/live-epoch.ts), the end-of-epoch reducer  *)
(* (reducer/reducer.ts) and the replays from chain events (replay/v4.ts,   *)
(* verify-epoch/index.ts), over applyPatch and the Merkle tree of state/.  *)
(* A word is zero, one of two well-formed contents, or "bad": contents     *)
(* that break its region's grammar.  Hashes are free of collisions: the    *)
(* hash of a pair is the pair.                                             *)
(***************************************************************************)
EXTENDS Naturals, Sequences, FiniteSets, SequencesExt

CONSTANTS
  Depth,          \* the tree has 2^Depth leaves
  HeaderWords, CompanionWords, PolicyWords, ZeroWords, ReservedWords, \* the regions
  PolicyAtoms,    \* policyAtomsMode of the pinned profile
  Patches,        \* the patches miners build: [id, type, writes, dup, delta, needs]
  Threshold,      \* the marginal gain an accepted patch must show
  MaxBatch, MaxAdvances   \* bounds on the model

Words == 0..(2^Depth - 1)

Budget == 4

Zeroed == [w \in Words |-> "zero"]

VARIABLES
  lane,       \* the live state of the epoch
  tree,       \* its incremental Merkle cache
  advanceLog, \* the advances of the live lane, as logged
  collected   \* the screener passes of the epoch, in arrival order

laneVars == <<lane, tree, advanceLog, collected>>

-----------------------------------------------------------------------------
(* state/merkle.ts *)

Level(nodes) == [i \in 0..((Cardinality(DOMAIN nodes) \div 2) - 1) |->
                   <<nodes[2 * i], nodes[2 * i + 1]>>]

\* buildMerkleCache: every level, from the leaves to the root.
BuildTree(state) ==
  FoldLeft(LAMBDA levels, d : Append(levels, Level(Last(levels))),
           <<[w \in Words |-> state[w]]>>, [d \in 1..Depth |-> d])

Root(levels) == Last(levels)[0]

\* updateMerkleCache: only the paths above the written leaves are rehashed.
UpdateTree(levels, writes) ==
  LET leaves == [w \in Words |-> IF w \in DOMAIN writes THEN writes[w] ELSE levels[1][w]]
      step(acc, d) ==
        LET parents == {n \div 2 : n \in acc.dirty}
            level == [i \in DOMAIN levels[d + 1] |->
                        IF i \in parents
                        THEN <<Last(acc.levels)[2 * i], Last(acc.levels)[2 * i + 1]>>
                        ELSE levels[d + 1][i]]
        IN [levels |-> Append(acc.levels, level), dirty |-> parents]
  IN FoldLeft(step, [levels |-> <<leaves>>, dirty |-> DOMAIN writes],
              [d \in 1..Depth |-> d]).levels

RootOf(state) == Root(BuildTree(state))

-----------------------------------------------------------------------------
(* state/patch.ts, state/validate.ts *)

Targets(p) == DOMAIN p.writes

\* The words a patch type may write.
RangeOf(type) ==
  CASE type = "mixed"  -> Words
    [] type = "header" -> HeaderWords
    [] type = "memory" -> CompanionWords
    [] type = "policy" -> PolicyWords
    [] type = "key"    -> PolicyWords
    [] OTHER           -> {}

ValidType(p) == ~p.dup /\ Targets(p) \subseteq RangeOf(p.type) \ ReservedWords

\* Pure policy writes are "policy"; a "mixed" patch that writes policy words
\* must also change a companion word.
Canonical(state, p) ==
  Targets(p) \cap PolicyWords # {} =>
    \/ p.type = "policy"
    \/ p.type = "mixed" /\ \E w \in Targets(p) \cap CompanionWords : p.writes[w] # state[w]

Written(state, p) == [w \in Words |-> IF w \in Targets(p) THEN p.writes[w] ELSE state[w]]

ReservedBitSet(state) == \E w \in HeaderWords \cup CompanionWords : state[w] = "bad"

BadAtom(state) == \E w \in PolicyWords : state[w] = "bad"

SpamsZeroRegion(state) == \E w \in ZeroWords : state[w] # "zero"

\* applyPatchOntoCurrent: the code of the refusal, or "ok" when Written is the
\* new state.
ApplyOnto(state, p, policy) ==
  CASE Cardinality(Targets(p)) \notin 1..Budget                    -> "E03"
    [] ~ValidType(p)                                               -> "E02"
    [] policy /\ Targets(p) \cap HeaderWords # {}                  -> "E02"
    [] policy /\ ~Canonical(state, p)                              -> "E02"
    [] Written(state, p) = state                                   -> "E05"
    [] ReservedBitSet(Written(state, p))                           -> "E04"
    [] policy /\ BadAtom(Written(state, p))                        -> "E02"
    [] policy /\ SpamsZeroRegion(Written(state, p))                -> "E04"
    [] OTHER                                                       -> "ok"

\* applyPatch: as above, for a patch that names its parent root.
ApplyPatch(state, p, parent, policy) ==
  IF Cardinality(Targets(p)) \in 1..Budget /\ parent # RootOf(state) THEN "E01"
  ELSE ApplyOnto(state, p, policy)

-----------------------------------------------------------------------------
(* reducer/accept-core.ts, reducer/reducer.ts *)

\* The marginal gain of p on top of `state`: gone once the word it builds on
\* has moved.
Gain(state, p) == IF p.needs \in Words /\ state[p.needs] # "zero" THEN 0 ELSE p.delta

\* comparePatchPriority: gain, then size, then hash (the order of the ids).
Priority(p, q) ==
  \/ p.delta > q.delta
  \/ p.delta = q.delta /\ Cardinality(Targets(p)) < Cardinality(Targets(q))
  \/ p.delta = q.delta /\ Cardinality(Targets(p)) = Cardinality(Targets(q)) /\ p.id < q.id

Sorted(patches) == SortSeq(patches, Priority)

Take(acc, p) == [state |-> Written(acc.state, p), accepted |-> Append(acc.accepted, p)]

Taken(acc) == UNION {Targets(acc.accepted[i]) : i \in 1..Len(acc.accepted)}

\* reduce: greedy, in priority order, over patches that name the epoch parent.
Reduce(parent, patches) ==
  FoldLeft(LAMBDA acc, p :
             IF /\ Targets(p) \cap Taken(acc) = {}
                /\ Gain(acc.state, p) >= Threshold
                /\ ApplyOnto(acc.state, p, PolicyAtoms) = "ok"
             THEN Take(acc, p) ELSE acc,
           [state |-> parent, accepted |-> <<>>], Sorted(patches))

\* runReducer of verify-epoch: the same order and the same writes, with no
\* gain to go by.
RunReducer(parent, events) ==
  FoldLeft(LAMBDA acc, p :
             IF /\ Targets(p) \cap Taken(acc) = {}
                /\ ApplyOnto(acc.state, p, PolicyAtoms) = "ok"
             THEN Take(acc, p) ELSE acc,
           [state |-> parent, accepted |-> <<>>], Sorted(events))

-----------------------------------------------------------------------------
(* replay/v4.ts *)

\* Mutant: the logs are replayed as they were delivered.
InLogOrderAsDelivered(logs) == logs

\* The logs of the advances by block and log index.
InLogOrder(logs) == SortSeq(logs, LAMBDA a, b : a.index < b.index)

\* replayV4TransitionsFromLogs, with the grammar of r4: no policy checks.
ReplayV4(parent, logs) ==
  LET step(acc, log) ==
        IF acc.ok /\ acc.last < log.index + 1 /\ log.parent = RootOf(acc.state)
           /\ ApplyPatch(acc.state, log.patch, log.parent, FALSE) = "ok"
           /\ RootOf(Written(acc.state, log.patch)) = log.root
        THEN [ok |-> TRUE, state |-> Written(acc.state, log.patch), last |-> log.index + 1]
        ELSE [acc EXCEPT !.ok = FALSE]
  IN FoldLeft(step, [ok |-> TRUE, state |-> parent, last |-> 0], InLogOrder(logs))

-----------------------------------------------------------------------------
(* reducer/live-epoch.ts *)

LaneInit ==
  /\ lane = Zeroed
  /\ tree = BuildTree(Zeroed)
  /\ advanceLog = <<>>
  /\ collected = <<>>

Logged(p, newTree) ==
  [index |-> Len(advanceLog), patch |-> p, parent |-> Root(tree), root |-> Root(newTree)]

\* advanceEpochState, one patch: it names the live root, improves strictly and
\* applies.  A patch refused changes nothing.
Arrive(p, parent) ==
  /\ Len(advanceLog) < MaxAdvances
  /\ parent = Root(tree)
  /\ Gain(lane, p) > Threshold
  /\ ApplyOnto(lane, p, PolicyAtoms) = "ok"
  /\ lane' = Written(lane, p)
  /\ tree' = UpdateTree(tree, p.writes)
  /\ advanceLog' = Append(advanceLog, Logged(p, tree'))
  /\ UNCHANGED collected

\* A screener pass joins the inputs of the epoch's reduction.
Collect(p) ==
  /\ Len(collected) < MaxBatch
  /\ collected' = Append(collected, p)
  /\ UNCHANGED <<lane, tree, advanceLog>>

LaneNext ==
  \E p \in Patches :
    \/ \E parent \in {RootOf(lane), RootOf(Zeroed)} : Arrive(p, parent)
    \/ Collect(p)

LaneSpec == LaneInit /\ [][LaneNext]_laneVars

-----------------------------------------------------------------------------
(* What the lane promises *)

Orders(seq) == {[i \in 1..Len(seq) |-> seq[f[i]]] : f \in Permutations(1..Len(seq))}

\* Whatever a lane computed can be computed again from its logs, in whatever
\* order an RPC delivers them.  A replay of the live lane from the epoch parent
\* accepts every transition and ends in the live state, whose cached tree is
\* the one merkleizeState builds from nothing; the reduction of an epoch does
\* not depend on the order its screener passes arrived in, and verify-epoch
\* reproduces it from the accepted patches.
LaneReplays ==
  /\ advanceLog # <<>> => tree = BuildTree(lane)
  /\ \A logs \in Orders(advanceLog) :
       LET replay == ReplayV4(Zeroed, logs) IN replay.ok /\ replay.state = lane
  /\ LET reduced == Reduce(Zeroed, collected) IN
     /\ \A patches \in Orders(collected) : Reduce(Zeroed, patches) = reduced
     /\ \A events \in Orders(reduced.accepted) : RunReducer(Zeroed, events) = reduced
=============================================================================
