--------------------------- MODULE RerankerStream ---------------------------
(***************************************************************************)
(* The streaming reranker client of eval/reranker.ts: one long-lived child *)
(* process answers numbered batches over a pipe, behind an LRU cache of    *)
(* scores (createStreamingQwen3Reranker, withRerankerCache, LRUCache).     *)
(* Several score() calls overlap at their awaits.  The child is external:  *)
(* it answers a batch with one score per pair, in any order, with an error *)
(* or not at all, and it may exit at any time.  The true score of a pair   *)
(* is the pair itself.                                                     *)
(***************************************************************************)
EXTENDS Naturals, Sequences, Functions

CONSTANTS
  ScoreCalls, Pairs, CallLists,  \* the pair lists a call may ask for
  BatchSize, CacheSize

ASSUME RerankInputs ==
  /\ CallLists \subseteq Seq(Pairs)
  /\ BatchSize \in Nat \ {0} /\ CacheSize \in Nat

VARIABLES
  child,     \* "loading", "ready" or "exited"
  nextId,
  sent,      \* requests at the child: [id, batch]
  responses, \* the Map of pending requests: [id, call]
  calls,     \* [state, pairs, missing, computed, results]; missing holds positions
  cache      \* LRU order, oldest first: <<key, score>>

rerankVars == <<child, nextId, sent, responses, calls, cache>>

NewCall == [state |-> "new", pairs |-> <<>>, missing |-> <<>>, computed |-> <<>>, results |-> <<>>]

RerankInit ==
  /\ child = "loading" /\ nextId = 1
  /\ sent = {} /\ responses = {}
  /\ calls = [c \in ScoreCalls |-> NewCall]
  /\ cache = <<>>

Cached(store, key) == \E i \in 1..Len(store) : store[i][1] = key

Place(store, key) == CHOOSE i \in 1..Len(store) : store[i][1] = key

Value(store, key) == store[Place(store, key)][2]

\* map.delete(key)
Without(store, key) ==
  IF Cached(store, key)
  THEN SubSeq(store, 1, Place(store, key) - 1) \o SubSeq(store, Place(store, key) + 1, Len(store))
  ELSE store

\* LRUCache.get of a key that is there: moved to the end.
Refresh(store, key) == Append(Without(store, key), <<key, Value(store, key)>>)

\* LRUCache.set: the oldest entry goes when the cache is over its size.
CachePut(store, key, score) ==
  LET kept == Append(Without(store, key), <<key, score>>)
  IN IF Len(kept) > CacheSize THEN Tail(kept) ELSE kept

\* The hits of a call are refreshed in the order of its pairs.
RefreshAll(store, pairs) ==
  LET upTo[i \in 0..Len(pairs)] ==
        IF i = 0 THEN store
        ELSE IF Cached(upTo[i - 1], pairs[i]) THEN Refresh(upTo[i - 1], pairs[i]) ELSE upTo[i - 1]
  IN upTo[Len(pairs)]

\* missingIndices: the positions of the pairs without a cached score.
MissingIndices(store, pairs) ==
  LET upTo[i \in 0..Len(pairs)] ==
        IF i = 0 THEN <<>>
        ELSE IF Cached(store, pairs[i]) THEN upTo[i - 1] ELSE Append(upTo[i - 1], i)
  IN upTo[Len(pairs)]

\* slice(i, i + batchSize) of missingPairs
NextBatch(call) ==
  LET from == Len(call.computed)
      size == IF from + BatchSize > Len(call.missing) THEN Len(call.missing) - from ELSE BatchSize
  IN [k \in 1..size |-> call.pairs[call.missing[from + k]]]

\* scoreBatch past `await ready`: the request is numbered, recorded and written.
Send(c, call) ==
  /\ nextId' = nextId + 1
  /\ sent' = sent \cup {[id |-> nextId, batch |-> NextBatch(call)]}
  /\ responses' = responses \cup {[id |-> nextId, call |-> c]}

\* A call with cached scores only: no await.
ScoreHits(c, pairs) ==
  /\ calls[c].state = "new" /\ \A i \in 1..Len(pairs) : Cached(cache, pairs[i])
  /\ calls' = [calls EXCEPT ![c] = [NewCall EXCEPT !.state = "resolved", !.pairs = pairs,
                 !.results = [i \in 1..Len(pairs) |-> Value(cache, pairs[i])]]]
  /\ cache' = RefreshAll(cache, pairs)
  /\ UNCHANGED <<child, nextId, sent, responses>>

\* A call with misses: it sends its first batch, waits for the model to load,
\* or throws when the child is gone.
ScoreMisses(c, pairs) ==
  LET call == [NewCall EXCEPT !.pairs = pairs,
                 !.missing = MissingIndices(cache, pairs),
                 !.results = [i \in 1..Len(pairs) |->
                                IF Cached(cache, pairs[i]) THEN Value(cache, pairs[i]) ELSE pairs[1]]]
      state == CASE child = "loading" -> "loading" [] child = "ready" -> "waiting"
                 [] OTHER -> "rejected"
  IN /\ calls[c].state = "new" /\ call.missing # <<>>
     /\ calls' = [calls EXCEPT ![c] = [call EXCEPT !.state = state]]
     /\ cache' = RefreshAll(cache, pairs)
     /\ IF state = "waiting" THEN Send(c, call) ELSE UNCHANGED <<nextId, sent, responses>>
     /\ UNCHANGED child

\* {"ready": true}: the calls that waited go on one by one.
Ready == /\ child = "loading" /\ child' = "ready"
         /\ UNCHANGED <<nextId, sent, responses, calls, cache>>

Resume(c) ==
  /\ child = "ready" /\ calls[c].state = "loading"
  /\ calls' = [calls EXCEPT ![c].state = "waiting"]
  /\ Send(c, calls[c])
  /\ UNCHANGED <<child, cache>>

\* Every missing pair has a score: results are filled and the cache is fed.
Filled(call) ==
  LET positions == 1..Len(call.missing)
      score(i) == call.computed[CHOOSE j \in positions : call.missing[j] = i]
  IN [call EXCEPT !.state = "resolved",
        !.results = [i \in 1..Len(call.pairs) |->
                       IF \E j \in positions : call.missing[j] = i THEN score(i) ELSE call.results[i]]]

Fed(call) ==
  LET upTo[j \in 0..Len(call.missing)] ==
        IF j = 0 THEN cache
        ELSE CachePut(upTo[j - 1], call.pairs[call.missing[j]], call.computed[j])
  IN upTo[Len(call.missing)]

\* Mutant: an answer goes to the oldest pending request, whatever its id.
AddresseeOldest(request) ==
  CHOOSE r \in responses : \A q \in responses : r.id <= q.id

\* responses.get(id)
Addressee(request) == CHOOSE r \in responses : r.id = request.id

\* A line with scores: the call that sent the batch goes on with its next one,
\* or is done.
OnScores(request) ==
  LET entry == Addressee(request)
      c == entry.call
      call == [calls[c] EXCEPT !.computed = @ \o request.batch]
  IN /\ child = "ready" /\ request \in sent
     /\ IF Len(call.computed) >= Len(call.missing)
        THEN /\ calls' = [calls EXCEPT ![c] = Filled(call)]
             /\ cache' = Fed(call)
             /\ sent' = sent \ {request}
             /\ responses' = responses \ {entry}
             /\ UNCHANGED nextId
        ELSE /\ calls' = [calls EXCEPT ![c] = call]
             /\ nextId' = nextId + 1
             /\ sent' = (sent \ {request}) \cup {[id |-> nextId, batch |-> NextBatch(call)]}
             /\ responses' = (responses \ {entry}) \cup {[id |-> nextId, call |-> c]}
             /\ UNCHANGED cache
     /\ UNCHANGED child

\* A line with an error, or a write that failed.
OnError(request) ==
  /\ child = "ready" /\ request \in sent
  /\ sent' = sent \ {request}
  /\ responses' = responses \ {Addressee(request)}
  /\ calls' = [calls EXCEPT ![Addressee(request).call].state = "rejected"]
  /\ UNCHANGED <<child, nextId, cache>>

\* 'exit' or 'error' of the child: every pending call is rejected.  Calls that
\* `ready` has released run before the next event.
OnExit ==
  /\ child # "exited" /\ child' = "exited"
  /\ child = "ready" => \A c \in ScoreCalls : calls[c].state # "loading"
  /\ calls' = [c \in ScoreCalls |->
                 IF calls[c].state \in {"waiting", "loading"}
                 THEN [calls[c] EXCEPT !.state = "rejected"] ELSE calls[c]]
  /\ responses' = {} /\ sent' = {}
  /\ UNCHANGED <<nextId, cache>>

RerankNext ==
  \/ Ready \/ OnExit
  \/ \E c \in ScoreCalls :
       \/ \E pairs \in CallLists : ScoreHits(c, pairs) \/ ScoreMisses(c, pairs)
       \/ Resume(c)
  \/ \E request \in sent : OnScores(request) \/ OnError(request)

RerankSpec == RerankInit /\ [][RerankNext]_rerankVars

-----------------------------------------------------------------------------
\* Type invariant; the cache never outgrows its limit.
RerankTypeOK ==
  /\ child \in {"loading", "ready", "exited"} /\ nextId \in Nat \ {0}
  /\ \A request \in sent : request.id \in 1..(nextId - 1) /\ Range(request.batch) \subseteq Pairs
  /\ responses \subseteq [id : 1..(nextId - 1), call : ScoreCalls]
  /\ \A c \in ScoreCalls :
       calls[c].state \in {"new", "loading", "waiting", "resolved", "rejected"}
  /\ Len(cache) <= CacheSize
  /\ \A i, j \in 1..Len(cache) : cache[i][1] = cache[j][1] => i = j

\* Every score a call returns is the score of the pair at its position, and
\* every cached score that of its key: whatever calls overlapped, in whatever
\* order their batches were answered, and whatever was evicted meanwhile.
ScoresAreTheirs ==
  /\ \A c \in ScoreCalls : calls[c].state = "resolved" => calls[c].results = calls[c].pairs
  /\ \A i \in 1..Len(cache) : cache[i][1] = cache[i][2]

\* No call is left waiting for an answer that cannot come: one that waits for
\* the model has a child that may still load it, one that waits for scores has
\* exactly one request at a live child.
NoCallStranded ==
  \A c \in ScoreCalls :
    /\ calls[c].state = "loading" => child # "exited"
    /\ calls[c].state = "waiting" =>
         /\ child = "ready"
         /\ \E r \in responses : /\ \A q \in responses : q.call = c <=> q = r
                                 /\ \E request \in sent : request.id = r.id
=============================================================================
