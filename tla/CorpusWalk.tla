----------------------------- MODULE CorpusWalk -----------------------------
(***************************************************************************)
(* How a validator gets the corpus an older advance was scored against     *)
(* (the score replay of validator-sync-cli.ts): the coordinator publishes  *)
(* one signed delta per epoch, and the drain of the backlog walks them     *)
(* forward from the nearest corpus it holds, keeping the last ones it made *)
(* in a bounded cache.                                                     *)
(*                                                                         *)
(* Corpora are those of CorpusDelta.  An entry of the backlog is the epoch *)
(* of its advance with the corpus root and the bundle pinned there; the    *)
(* entries are sorted by block.  A drain is one process: between the       *)
(* entries and between the fetches only the publisher moves.               *)
(***************************************************************************)
EXTENDS CorpusDelta

CONSTANTS
  Launch,        \* the events of the launch corpus
  Changes,       \* <<additions, removals>> an epoch may ask for
  Defects,       \* what may be wrong with a published delta, or with its fetch
  MaxChain,      \* bound on the published epochs
  MaxEntries,    \* bound on the backlog
  CacheLimit,    \* DEFAULT_MATERIALIZED_CORPUS_CACHE_LIMIT
  Bundles,       \* the bundles advances were pinned to
  LoadedBundle,
  NoWalk

ASSUME WalkAssumption ==
  /\ Launch \subseteq CorpusEvents /\ LoadedBundle \in Bundles
  /\ Changes \subseteq (SUBSET CorpusEvents) \X (SUBSET EventIds)
  /\ MaxChain \in Nat /\ MaxEntries \in Nat /\ CacheLimit \in Nat \ {0}

VARIABLES
  corpora,    \* the publisher's corpus of each epoch; corpora[1] is the launch one
  deltas,     \* the published deltas, [delta, defect]
  backlog,    \* [epoch, root, bundle]
  at,         \* the entry the drain is at, 0 before it starts
  loaded,     \* the corpus of the scorer context
  supplied,   \* the roots of the corpora the operator supplied
  held,       \* materializedByRoot: corpora, least recently used first
  known,      \* knownCorpusEpoch: <<root, epoch>> in the order of insertion
  walk,       \* the walk in progress, or NoWalk
  outcome     \* per entry, the corpus it was scored with or why it stays

drainVars == <<loaded, supplied, held, known, walk, outcome>>
walkVars == <<corpora, deltas, backlog, at, drainVars>>

LaunchCorpus == corpora[1]
Idle == at > 0 /\ at <= Len(backlog) /\ walk = NoWalk

WalkInit ==
  /\ \E c \in {NoCache, CacheOf(Launch)} : corpora = <<Corpus(Launch, c)>>
  /\ deltas = <<>> /\ backlog = <<>> /\ at = 0
  /\ loaded = LaunchCorpus /\ supplied = {} /\ held = <<>> /\ known = <<>>
  /\ walk = NoWalk /\ outcome = <<>>
-----------------------------------------------------------------------------
(***************************************************************************)
(* The coordinator.                                                        *)
(***************************************************************************)
\* The artifact of a delta: one that names another parent or another result,
\* or has a record that is not fit, carries a valid signature all the same.
Artifact(delta, defect) ==
  [defect |-> defect,
   delta |-> CASE defect = "parent" -> [delta EXCEPT !.previousRoot = <<0>>]
               [] defect = "result" -> [delta EXCEPT !.nextRoot = <<0>>]
               [] defect = "unfit" -> [delta EXCEPT !.fit = FALSE]
               [] OTHER -> delta]

Publish(change, defect) ==
  /\ Len(deltas) < MaxChain /\ at = 0
  /\ LET delta == BuildCorpusDelta(Last(corpora), change[1], change[2]) IN
     /\ deltas' = Append(deltas, Artifact(delta, defect))
     /\ corpora' = Append(corpora, [Applied(Last(corpora), delta) EXCEPT
          !.cache = IF Last(corpora).cache = NoCache THEN NoCache ELSE @])
  /\ UNCHANGED <<backlog, at, drainVars>>

\* An advance of the epoch is pinned to the corpus of the epoch.
Advance(bundle) ==
  /\ Len(backlog) < MaxEntries /\ at = 0
  /\ backlog' = Append(backlog, [epoch |-> Len(deltas), root |-> Last(corpora).root, bundle |-> bundle])
  /\ UNCHANGED <<corpora, deltas, at, drainVars>>
-----------------------------------------------------------------------------
(***************************************************************************)
(* MaterializedCorpusCache and knownCorpusEpoch.                           *)
(***************************************************************************)
Holds(cache, root) == \E i \in DOMAIN cache : cache[i].root = root
Held(cache, root) == cache[CHOOSE i \in DOMAIN cache : cache[i].root = root]
Dropped(cache, root) == SelectSeq(cache, LAMBDA c : c.root # root)

Refreshed(cache, root) ==
  IF Holds(cache, root) THEN Append(Dropped(cache, root), Held(cache, root)) ELSE cache

Stored(cache, corpus) ==
  LET all == Append(Dropped(cache, corpus.root), corpus) IN
  IF Len(all) > CacheLimit THEN Tail(all) ELSE all

EpochKnown(root) == \E i \in DOMAIN known : known[i][1] = root
KnownEpoch(root) == known[CHOOSE i \in DOMAIN known : known[i][1] = root][2]
Noted(list, root, epoch) ==
  IF \E i \in DOMAIN list : list[i][1] = root
  THEN [i \in DOMAIN list |-> IF list[i][1] = root THEN <<root, epoch>> ELSE list[i]]
  ELSE Append(list, <<root, epoch>>)

\* The operator's corpus may be any of the published ones, and counts as
\* supplied; the launch corpus is kept beside it (setup.baseCorpusPath).
StartDrain(corpus, given) ==
  /\ at = 0 /\ backlog # <<>>
  /\ at' = 1 /\ loaded' = corpus /\ supplied' = given \cup {corpus.root}
  /\ held' = Stored(Stored(<<>>, corpus), LaunchCorpus)
  /\ known' = <<<<LaunchCorpus.root, 0>>>>
  /\ UNCHANGED <<corpora, deltas, backlog, walk, outcome>>
-----------------------------------------------------------------------------
(***************************************************************************)
(* One entry: the loaded context, the operator's file, the cache, or a     *)
(* walk.                                                                   *)
(***************************************************************************)
Entry == backlog[at]
Bound == IF Entry.epoch < 1 THEN 1 ELSE Entry.epoch

MatchesLoaded == Entry.root = loaded.root /\ Entry.bundle = LoadedBundle

Settle(result) == outcome' = Append(outcome, result) /\ at' = at + 1
ScoredWith(corpus) == [scored |-> TRUE, events |-> corpus.events, bundle |-> LoadedBundle]
Pending == [scored |-> FALSE, events |-> {}, bundle |-> LoadedBundle]

UseLoaded ==
  /\ Idle /\ MatchesLoaded
  /\ Settle(ScoredWith(loaded))
  /\ UNCHANGED <<corpora, deltas, backlog, loaded, supplied, held, known, walk>>

\* loadProductionCorpus verifies the file's root.
UseSupplied ==
  /\ Idle /\ ~MatchesLoaded /\ Entry.root \in supplied
  /\ \E i \in DOMAIN corpora : corpora[i].root = Entry.root /\ Settle(ScoredWith(corpora[i]))
  /\ UNCHANGED <<corpora, deltas, backlog, loaded, supplied, held, known, walk>>

AutoResolves == Idle /\ ~MatchesLoaded /\ Entry.root \notin supplied

\* The cache is asked before the bundle is compared.
UseHeld ==
  /\ AutoResolves /\ Holds(held, Entry.root)
  /\ held' = Refreshed(held, Entry.root)
  /\ Settle(ScoredWith(Held(held, Entry.root)))
  /\ UNCHANGED <<corpora, deltas, backlog, loaded, supplied, known, walk>>

\* The corpora that may start a walk: the launch corpus, the loaded one when
\* its epoch is known, and those held whose epoch is not above the bound.
Near == SelectSeq(known, LAMBDA k : k[2] <= Bound /\ k[1] \notin {LaunchCorpus.root, loaded.root})
Candidates ==
  {c \in {LaunchCorpus, loaded} : EpochKnown(c.root)}
  \cup {Held(held, Near[i][1]) : i \in {j \in DOMAIN Near : Holds(held, Near[j][1])}}

\* Mutant: the corpus of the epoch before does not start a walk.
WalkStartFarther ==
  LET ancestors == {c \in Candidates : KnownEpoch(c.root) <= Bound} IN
  {c \in ancestors : /\ \A d \in ancestors : KnownEpoch(d.root) <= KnownEpoch(c.root)
                     /\ KnownEpoch(c.root) + 1 < Bound}

\* chooseAutoResolveWalkStart: the nearest one below the bound.
WalkStart ==
  LET ancestors == {c \in Candidates : KnownEpoch(c.root) <= Bound} IN
  {c \in ancestors : /\ \A d \in ancestors : KnownEpoch(d.root) <= KnownEpoch(c.root)
                     /\ KnownEpoch(c.root) < Bound}

\* Looking the candidates up refreshes them; a start that is the target itself
\* needs no delta.
Resolve ==
  /\ AutoResolves /\ ~Holds(held, Entry.root)
  /\ LET found == FoldLeft(LAMBDA c, k : Refreshed(c, k[1]), held, Near) IN
     \/ Entry.bundle # LoadedBundle /\ Settle(Pending) /\ UNCHANGED <<held, walk>>
     \/ /\ Entry.bundle = LoadedBundle /\ WalkStart = {}
        /\ held' = found /\ Settle(Pending) /\ UNCHANGED walk
     \/ \E c \in WalkStart :
          /\ Entry.bundle = LoadedBundle
          /\ IF ComputeCorpusRoot(c.events) = Entry.root
             THEN held' = Stored(found, c) /\ Settle(ScoredWith(c)) /\ UNCHANGED walk
             ELSE /\ held' = found
                  /\ walk' = [corpus |-> c, next |-> KnownEpoch(c.root) + 1]
                  /\ UNCHANGED <<at, outcome>>
  /\ UNCHANGED <<corpora, deltas, backlog, loaded, supplied, known>>

Fetched == deltas[walk.next]
Usable ==
  /\ walk.next <= Len(deltas)
  /\ Fetched.defect \notin {"missing", "transport", "signature"}
  /\ DeltaApplies(walk.corpus, Fetched.delta)

\* A delta that is not there, not signed or does not apply ends the walk.
WalkFails ==
  /\ walk # NoWalk /\ ~Usable
  /\ walk' = NoWalk /\ Settle(Pending)
  /\ UNCHANGED <<corpora, deltas, backlog, loaded, supplied, held, known>>

\* Every corpus on the way is kept; the walk ends at the pinned root, when a
\* second merkleisation agrees, or at the bound.
WalkOn ==
  /\ walk # NoWalk /\ Usable
  /\ LET next == Applied(walk.corpus, Fetched.delta) IN
     /\ held' = Stored(held, next)
     /\ known' = Noted(known, next.root, walk.next)
     /\ IF next.root = Entry.root
        THEN /\ walk' = NoWalk
             /\ Settle(IF ComputeCorpusRoot(next.events) = Entry.root THEN ScoredWith(next) ELSE Pending)
        ELSE IF walk.next < Bound
        THEN walk' = [corpus |-> next, next |-> walk.next + 1] /\ UNCHANGED <<at, outcome>>
        ELSE walk' = NoWalk /\ Settle(Pending)
  /\ UNCHANGED <<corpora, deltas, backlog, loaded, supplied>>

WalkNext ==
  \/ \E change \in Changes, defect \in Defects : Publish(change, defect)
  \/ \E bundle \in Bundles : Advance(bundle)
  \/ \E i \in DOMAIN corpora, given \in {{}} \cup {{corpora[j].root} : j \in DOMAIN corpora} :
       StartDrain(corpora[i], given)
  \/ UseLoaded \/ UseSupplied \/ UseHeld \/ Resolve \/ WalkFails \/ WalkOn

WalkSpec == WalkInit /\ [][WalkNext]_walkVars
-----------------------------------------------------------------------------
(***************************************************************************)
(* Properties.                                                             *)
(***************************************************************************)
\* Reference: the root of a perfect binary tree over the sorted leaves,
\* padded with zero words to a power of two.
RECURSIVE MerkleRoot(_)
MerkleRoot(hashes) ==
  IF Len(hashes) = 1 THEN hashes[1]
  ELSE LET half == Len(hashes) \div 2 IN
       <<MerkleRoot(SubSeq(hashes, 1, half)), MerkleRoot(SubSeq(hashes, half + 1, Len(hashes)))>>
PaddedHashes(events) ==
  LET leaves == SortedLeaves({Leaf(e) : e \in events})
      width == CHOOSE t \in PowersOfTwo : t >= Len(leaves) /\ t < 2 * Len(leaves) IN
  [i \in 1..width |-> IF i <= Len(leaves) THEN leaves[i].hash ELSE <<>>]
ReferenceRoot(events) == IF events = {} THEN <<>> ELSE MerkleRoot(PaddedHashes(events))

\* Whatever sequence of additions, replacements and removals led to it, and
\* with or without a leaf cache carried along, a published corpus has the
\* root of its events.
CorpusRootExact ==
  \A i \in DOMAIN corpora : corpora[i].root = ReferenceRoot(corpora[i].events)

\* An advance is only scored with the corpus it was pinned to, whichever of
\* the loaded one, a file, the cache or a walk it came from; and an entry of
\* the loaded bundle whose deltas are all published and sound is scored,
\* whatever entries were resolved before it and whatever the cache has
\* evicted: the walk always has an ancestor to start from.
DrainResolves ==
  \A i \in DOMAIN outcome :
    /\ outcome[i].scored => ReferenceRoot(outcome[i].events) = backlog[i].root
    /\ (backlog[i].bundle = LoadedBundle /\ \A e \in 1..backlog[i].epoch : deltas[e].defect = "none")
         => outcome[i].scored

\* What the decision's comment says: no advance is scored under another
\* bundle than the one it was pinned to.
NeverMismatchedBundle ==
  \A i \in DOMAIN outcome : outcome[i].scored => outcome[i].bundle = backlog[i].bundle
=============================================================================
