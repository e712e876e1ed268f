---------------------------- MODULE CorpusDelta ----------------------------
(***************************************************************************)
(* The corpus's Merkle root with its leaf cache (eval/retrieval-corpus.ts) *)
(* and the deltas that lead from one corpus to the next (corpus/delta.ts). *)
(*                                                                         *)
(* An event is its id and its content.  A hash is a sequence that shows    *)
(* what was hashed: <<>> is the zero word, <<n>> the hash of an event's    *)
(* canonical JSON, <<l, r>> the hash of two hashes.                        *)
(***************************************************************************)
EXTENDS Integers, SequencesExt

CONSTANTS
  EventIds,   \* 1..n, in the order of codePointCompare
  Contents,   \* what an event of one id can contain, below 10
  NoCache

ASSUME CorpusAssumption == EventIds \subseteq Nat /\ Contents \subseteq 0..9

CorpusEvents == [id : EventIds, content : Contents]
-----------------------------------------------------------------------------
(***************************************************************************)
(* The root of a corpus: a forest of perfect trees, padded with zeros.     *)
(***************************************************************************)
Leaf(e) == [id |-> e.id, hash |-> <<10 * e.id + e.content>>]
Rank(leaves, l) == Cardinality({k \in leaves : k.id <= l.id})
SortedLeaves(leaves) ==
  [i \in 1..Cardinality(leaves) |-> CHOOSE l \in leaves : Rank(leaves, l) = i]

CombineNodes(l, r) == [size |-> l.size + r.size, root |-> <<l.root, r.root>>]

RECURSIVE AppendNodeToForest(_, _)
AppendNodeToForest(forest, node) ==
  IF forest # <<>> /\ Last(forest).size = node.size
  THEN AppendNodeToForest(Front(forest), CombineNodes(Last(forest), node))
  ELSE Append(forest, node)

AppendLeaves(forest, leaves) ==
  FoldLeft(LAMBDA f, l : AppendNodeToForest(f, [size |-> 1, root |-> l.hash]), forest, leaves)

RECURSIVE ZeroNode(_)
ZeroNode(size) ==
  IF size = 1 THEN [size |-> 1, root |-> <<>>]
  ELSE CombineNodes(ZeroNode(size \div 2), ZeroNode(size \div 2))

PowersOfTwo == {1, 2, 4, 8, 16}

\* Mutant: the padding is not aligned to its position.
LargestBlock(position, remaining) ==
  CHOOSE s \in PowersOfTwo : s <= remaining /\ 2 * s > remaining

LargestAlignedBlock(position, remaining) ==
  CHOOSE s \in PowersOfTwo :
    /\ s <= remaining /\ position % s = 0
    /\ 2 * s > remaining \/ position % (2 * s) # 0

RECURSIVE Padded(_, _, _)
Padded(forest, position, remaining) ==
  IF remaining = 0 THEN forest
  ELSE LET size == LargestAlignedBlock(position, remaining) IN
       Padded(AppendNodeToForest(forest, ZeroNode(size)), position + size, remaining - size)

RootFromForest(forest, count) ==
  IF count = 0 THEN <<>>
  ELSE LET target == CHOOSE t \in PowersOfTwo : t >= count /\ t < 2 * count IN
       Last(Padded(forest, count, target - count)).root

LeafCache(leaves, forest) ==
  [leaves |-> leaves, forest |-> forest, root |-> RootFromForest(forest, Len(leaves))]
CacheFromLeaves(leaves) ==
  LET sorted == SortedLeaves(leaves) IN LeafCache(sorted, AppendLeaves(<<>>, sorted))
CacheOf(events) == CacheFromLeaves({Leaf(e) : e \in events})
ComputeCorpusRoot(events) == CacheOf(events).root

\* updateCorpusRootLeafCache: new ids above all the old ones extend the
\* forest, anything else builds it anew.
UpdateCache(cache, additions, removals) ==
  LET added == {Leaf(e) : e \in additions}
      replaced == removals \cup {e.id : e \in additions}
      tailAppend == /\ removals = {}
                    /\ cache.leaves # <<>> => \A l \in added : Last(cache.leaves).id < l.id IN
  IF additions = {} /\ removals = {} THEN cache
  ELSE IF tailAppend
  THEN LeafCache(cache.leaves \o SortedLeaves(added), AppendLeaves(cache.forest, SortedLeaves(added)))
  ELSE CacheFromLeaves({l \in ToSet(cache.leaves) : l.id \notin replaced} \cup added)
-----------------------------------------------------------------------------
(***************************************************************************)
(* Deltas.  "fit" stands for the checks on each record: its split, its     *)
(* bi-encoder, and that addedIds and addedRecords name the same ids.       *)
(***************************************************************************)
Corpus(events, cache) ==
  [events |-> events, cache |-> cache,
   root |-> IF cache = NoCache THEN ComputeCorpusRoot(events) ELSE cache.root]

Without(events, ids) == {e \in events : e.id \notin ids}

\* buildCorpusDelta: a record whose id stays is not added again.
BuildCorpusDelta(corpus, additions, removals) ==
  LET remaining == Without(corpus.events, removals)
      new == {e \in additions : \A r \in remaining : r.id # e.id} IN
  [previousRoot |-> corpus.root, added |-> new,
   nextRoot |-> IF corpus.cache # NoCache THEN UpdateCache(corpus.cache, new, removals).root
                ELSE ComputeCorpusRoot(remaining \cup new),
   removed |-> {id \in removals : \E e \in corpus.events : e.id = id}, fit |-> TRUE]

\* withVerifiedCorpusRootCache: a corpus without a cache gets one.
VerifiedCache(corpus) == IF corpus.cache # NoCache THEN corpus.cache ELSE CacheOf(corpus.events)

Applied(corpus, delta) ==
  [events |-> Without(corpus.events, delta.removed \cup {e.id : e \in delta.added}) \cup delta.added,
   cache |-> UpdateCache(VerifiedCache(corpus), delta.added, delta.removed),
   root |-> delta.nextRoot]

\* applyCorpusDelta throws unless the delta continues this corpus, its
\* records are fit, and it leads to the root it declares.
DeltaApplies(corpus, delta) ==
  /\ delta.previousRoot = corpus.root
  /\ delta.fit
  /\ Applied(corpus, delta).cache.root = delta.nextRoot
=============================================================================
