----------------------------- MODULE Evaluator -----------------------------
(***************************************************************************)
(* The production evaluator of the coordinator: scorePatch, the durable    *)
(* attempt and dedup stores, the per-patch dual-pack evaluation and the    *)
(* future block hash that seeds it (coordinator/production-evaluator.ts,   *)
(* per-patch-evaluator.ts, base-blockhash.ts, eval/live-eval-admission.ts). *)
(*                                                                         *)
(* A key is an (epochId, parentStateRoot, patchHash) of one epoch.  The    *)
(* coordinator's submit queue runs one call at a time, so there is one     *)
(* call; it is cut at every await that a crash, a new block or a           *)
(* reorganisation can use.  The stores and the published artifacts outlive *)
(* a crash, the call does not.                                             *)
(***************************************************************************)
EXTENDS Integers, Sequences, FiniteSets

CONSTANTS
  Miners,
  Keys,
  NoMiner,      \* the miner of a key nobody has drawn for
  NoCall,       \* no scorePatch call is in progress
  Cap,          \* perMinerCap
  Offset,       \* targetBlockOffset
  Finality,     \* a block this far below the head is never replaced
  MaxBlocks,    \* bound on the height of the chain
  MaxForks,     \* bound on reorganisations
  MaxFaults     \* bound on crashes and failed calls

ASSUME EvaluatorAssumption ==
  /\ Cap \in Nat \ {0} /\ Offset \in Nat \ {0} /\ MaxBlocks \in Nat \ {0}
  /\ Finality \in Nat /\ MaxForks \in Nat /\ MaxFaults \in Nat
  /\ NoMiner \notin Miners /\ IsFiniteSet(Keys)

VARIABLES
  chain,      \* chain[b] is the fork block b belongs to: its hash
  attempts,   \* the attempt store: seed, miner and state of every drawn key
  records,    \* the dedup store: the outcome of every completed key
  artifacts,  \* the published artifacts
  packs,      \* the packs scored so far, with their scores
  pc, call,   \* where the call in progress is, and its locals
  answers,    \* what completed calls returned, and to whom
  faults      \* faults so far

vars == <<chain, attempts, records, artifacts, packs, pc, call, answers, faults>>

\* What scoring a pack yields: below the screener threshold or refused by an
\* acceptance floor; at least the screener threshold; at least the
\* state-advance threshold.
Scores == 0..2
Screener == 1
StateThreshold == 2

Seeds == [received : 1..MaxBlocks, target : 1..(MaxBlocks + Offset), hash : 0..MaxForks]
NoSeed == [received |-> 0, target |-> 0, hash |-> 0]
Outcomes == {"reject", "screener_pass", "state_advance"}
NoAttempt == [state |-> "none", seed |-> NoSeed, miner |-> NoMiner, outcome |-> "none"]
Attempt == [state : {"drawn", "rejected", "accepted"}, seed : Seeds, miner : Miners,
            outcome : Outcomes \cup {"none"}]
Call == [key : Keys, miner : Miners, seed : Seeds \cup {NoSeed}, outcome : Outcomes \cup {"none"}]
Steps == {"draw", "wait", "pin", "gate", "confirm", "publish", "record", "put", "answer"}

\* Type invariant; a pack is only ever scored with a drawn seed.
EvaluatorTypeOK ==
  /\ chain \in Seq(0..MaxForks) /\ Len(chain) \in 1..MaxBlocks
  /\ attempts \in [Keys -> Attempt \cup {NoAttempt}]
  /\ records \in [Keys -> Outcomes \cup {"none"}]
  /\ artifacts \subseteq [key : Keys, seed : Seeds, miner : Miners, outcome : Outcomes]
  /\ packs \subseteq [key : Keys, seed : Seeds, pack : {"gate", "confirm"}, score : Scores]
  /\ pc \in Steps \cup {"idle"}
  /\ IF pc = "idle" THEN call = NoCall ELSE call \in Call
  /\ answers \subseteq [key : Keys, miner : Miners, outcome : Outcomes]
  /\ faults \in 0..MaxFaults

Init ==
  /\ chain = <<0>>
  /\ attempts = [k \in Keys |-> NoAttempt]
  /\ records = [k \in Keys |-> "none"]
  /\ artifacts = {} /\ packs = {} /\ answers = {}
  /\ pc = "idle" /\ call = NoCall
  /\ faults = 0
-----------------------------------------------------------------------------
(***************************************************************************)
(* The chain the block hashes come from.                                   *)
(***************************************************************************)
Fork == chain[Len(chain)]

NewBlock ==
  /\ Len(chain) < MaxBlocks
  /\ chain' = Append(chain, Fork)
  /\ UNCHANGED <<attempts, records, artifacts, packs, pc, call, answers, faults>>

\* The blocks from b on are replaced by those of a fork.
Reorg(b) ==
  /\ b > Len(chain) - Finality
  /\ Fork < MaxForks
  /\ chain' = [i \in DOMAIN chain |-> IF i < b THEN chain[i] ELSE Fork + 1]
  /\ UNCHANGED <<attempts, records, artifacts, packs, pc, call, answers, faults>>
-----------------------------------------------------------------------------
(***************************************************************************)
(* scorePatch.                                                             *)
(***************************************************************************)
\* A call's local state moves on; the step the call takes next.
Goto(step, c) == pc' = step /\ call' = c
Return == pc' = "idle" /\ call' = NoCall

\* The admission count is derived from the attempt rows.
MinerAdmissions(m) == Cardinality({k \in Keys : attempts[k].miner = m})

\* Mutant: the cap admits one draw too many.
AdmittedOneMore(m) == MinerAdmissions(m) <= Cap

\* liveEvalAdmissionDecision; the other refusals cannot happen on this path.
Admitted(m) == MinerAdmissions(m) < Cap

\* Mutant: the attempt store is not looked up.
LookUpForgetful(m, k) ==
  \/ records[k] # "none" /\ UNCHANGED <<pc, call>>
  \/ /\ records[k] = "none" /\ Admitted(m)
     /\ Goto("draw", [key |-> k, miner |-> m, seed |-> NoSeed, outcome |-> "none"])
\* The store reads at the head of scorePatch: a completed key is refused
\* (duplicate_submission), so is another miner's attempt
\* (duplicate_in_flight); the miner's own attempt is taken up with the seed
\* it pinned, uncharged; a new key is drawn for if the cap admits it.
LookUp(m, k) ==
  \/ records[k] # "none" /\ UNCHANGED <<pc, call>>
  \/ /\ records[k] = "none" /\ attempts[k] # NoAttempt /\ attempts[k].miner # m
     /\ UNCHANGED <<pc, call>>
  \/ /\ records[k] = "none" /\ attempts[k].miner = m
     /\ Goto("gate", [key |-> k, miner |-> m, seed |-> attempts[k].seed, outcome |-> "none"])
  \/ /\ records[k] = "none" /\ attempts[k] = NoAttempt /\ Admitted(m)
     /\ Goto("draw", [key |-> k, miner |-> m, seed |-> NoSeed, outcome |-> "none"])
  \/ /\ records[k] = "none" /\ attempts[k] = NoAttempt /\ ~Admitted(m)
     /\ UNCHANGED <<pc, call>>

Submit(m, k) ==
  /\ pc = "idle"
  /\ LookUp(m, k)
  /\ UNCHANGED <<chain, attempts, records, artifacts, packs, answers, faults>>

\* receivedAtBlock is the head, the target block lies Offset blocks ahead.
Draw ==
  /\ pc = "draw"
  /\ Goto("wait", [call EXCEPT !.seed = [received |-> Len(chain), target |-> Len(chain) + Offset,
                                         hash |-> 0]])
  /\ UNCHANGED <<chain, attempts, records, artifacts, packs, answers, faults>>

\* waitForBlock returns the hash of the target block once the head is there.
WaitForBlock ==
  /\ pc = "wait" /\ Len(chain) >= call.seed.target
  /\ Goto("pin", [call EXCEPT !.seed.hash = chain[call.seed.target]])
  /\ UNCHANGED <<chain, attempts, records, artifacts, packs, answers, faults>>

\* The wait for the block times out: the call throws and nothing is written.
WaitTimesOut ==
  /\ pc = "wait" /\ Len(chain) < call.seed.target
  /\ Return
  /\ UNCHANGED <<chain, attempts, records, artifacts, packs, answers, faults>>

\* recordSeedDrawnAndAdmission: the seed is pinned and the miner charged in
\* one write; an attempt that exists is left alone.
Pin ==
  /\ pc = "pin"
  /\ attempts' = IF attempts[call.key] # NoAttempt THEN attempts
                 ELSE [attempts EXCEPT ![call.key] =
                         [state |-> "drawn", seed |-> call.seed, miner |-> call.miner,
                          outcome |-> "none"]]
  /\ Goto("gate", call)
  /\ UNCHANGED <<chain, records, artifacts, packs, answers, faults>>

\* A pack's score is a function of the key and the seed: a pack scored
\* before scores the same again.
Score(pack, s) ==
  /\ \A p \in packs : (p.key = call.key /\ p.seed = call.seed /\ p.pack = pack) => p.score = s
  /\ packs' = packs \cup {[key |-> call.key, seed |-> call.seed, pack |-> pack, score |-> s]}

\* The gate pack is scored first and ends the evaluation when it fails.
Gate(s) ==
  /\ pc = "gate" /\ Score("gate", s)
  /\ IF s < Screener THEN Goto("record", [call EXCEPT !.outcome = "reject"])
                     ELSE Goto("confirm", call)
  /\ UNCHANGED <<chain, attempts, records, artifacts, answers, faults>>

GateScore == CHOOSE s \in Scores :
  [key |-> call.key, seed |-> call.seed, pack |-> "gate", score |-> s] \in packs

\* A state advance needs both packs above its threshold.
Verdict(g, s) == IF s < Screener THEN "reject"
                 ELSE IF g >= StateThreshold /\ s >= StateThreshold THEN "state_advance"
                 ELSE "screener_pass"

Confirm(s) ==
  /\ pc = "confirm" /\ Score("confirm", s)
  /\ LET c == [call EXCEPT !.outcome = Verdict(GateScore, s)] IN
     Goto(IF s < Screener THEN "record" ELSE "publish", c)
  /\ UNCHANGED <<chain, attempts, records, artifacts, answers, faults>>

\* Mutant: the artifact is built but not published.
PublishNothing ==
  /\ pc = "publish"
  /\ Goto("record", call)
  /\ UNCHANGED <<chain, attempts, records, artifacts, packs, answers, faults>>

\* publishArtifact, before the outcome is recorded.
Publish ==
  /\ pc = "publish"
  /\ artifacts' = artifacts \cup
       {[key |-> call.key, seed |-> call.seed, miner |-> call.miner, outcome |-> call.outcome]}
  /\ Goto("record", call)
  /\ UNCHANGED <<chain, attempts, records, packs, answers, faults>>

\* recordAttemptOutcome: the seed and the charge stay.
RecordOutcome ==
  /\ pc = "record"
  /\ attempts' = [attempts EXCEPT
       ![call.key].state = IF call.outcome = "reject" THEN "rejected" ELSE "accepted",
       ![call.key].outcome = call.outcome]
  /\ Goto("put", call)
  /\ UNCHANGED <<chain, records, artifacts, packs, answers, faults>>

\* Mutant: the dedup record is never written.
PutNothing ==
  /\ pc = "put"
  /\ Goto("answer", call)
  /\ UNCHANGED <<chain, attempts, records, artifacts, packs, answers, faults>>

\* The dedup record, in a write of its own.
Put ==
  /\ pc = "put"
  /\ records' = [records EXCEPT ![call.key] = call.outcome]
  /\ Goto("answer", call)
  /\ UNCHANGED <<chain, attempts, artifacts, packs, answers, faults>>

Answer ==
  /\ pc = "answer"
  /\ answers' = answers \cup {[key |-> call.key, miner |-> call.miner, outcome |-> call.outcome]}
  /\ Return
  /\ UNCHANGED <<chain, attempts, records, artifacts, packs, faults>>

\* The process dies, or the scorer, a store or the publication throws: the call is gone, what was written stays.
Abort ==
  /\ pc # "idle" /\ faults < MaxFaults
  /\ faults' = faults + 1
  /\ Return
  /\ UNCHANGED <<chain, attempts, records, artifacts, packs, answers>>

CallStep == Draw \/ WaitForBlock \/ WaitTimesOut \/ Pin \/ (\E s \in Scores : Gate(s) \/ Confirm(s))
            \/ Publish \/ RecordOutcome \/ Put \/ Answer
Next ==
  \/ NewBlock
  \/ \E b \in DOMAIN chain : Reorg(b)
  \/ \E m \in Miners, k \in Keys : Submit(m, k)
  \/ CallStep
  \/ Abort

Spec == Init /\ [][Next]_vars

\* A miner whose attempt is unfinished submits its patch again; submissions
\* queue first in, first out, so others cannot keep it out for ever.
Resubmit == \E m \in Miners, k \in Keys : attempts[k].miner = m /\ records[k] = "none" /\ Submit(m, k)
EvaluatorFairSpec == Spec /\ WF_vars(CallStep) /\ SF_vars(Resubmit)
-----------------------------------------------------------------------------
(***************************************************************************)
(* Properties.                                                             *)
(***************************************************************************)
\* Only one pair of packs is ever scored for a key: neither a crash at any
\* point, nor a timeout, nor a resubmission, nor a reorganisation between
\* two attempts lets a patch be scored against a second seed (the attempt
\* record of recordSeedDrawnAndAdmission).
OnePackPerKey ==
  \A p, q \in packs : p.key = q.key => p.seed = q.seed

\* Every scored pack was charged to the miner it was scored for, and nobody
\* is charged above the cap, however calls crash and are retried
\* (minerAdmissions is derived from the attempt rows).
AdmissionsCharged ==
  /\ \A p \in packs : attempts[p.key] # NoAttempt /\ attempts[p.key].seed = p.seed
  /\ \A m \in Miners : MinerAdmissions(m) <= Cap

\* An accepting outcome is never recorded or answered before the artifact a
\* validator replays it from was published, with the pinned seed and miner.
AcceptedIsPublished ==
  \A k \in Keys :
    (attempts[k].state = "accepted" \/ records[k] \in {"screener_pass", "state_advance"})
      => \E a \in artifacts : /\ a.key = k /\ a.seed = attempts[k].seed
                              /\ a.miner = attempts[k].miner /\ a.outcome = attempts[k].outcome

\* A key is answered to one miner only, with one outcome, the recorded one:
\* crashes between the outcome, the dedup record and the answer do not make
\* a second credited advance.
OneAnswerPerKey ==
  /\ \A a \in answers : records[a.key] = a.outcome /\ attempts[a.key].miner = a.miner
  /\ \A k \in Keys : records[k] # "none" => attempts[k].outcome = records[k]

\* A pinned attempt keeps its seed and its miner, and a recorded outcome
\* never changes.
PinIsFinal ==
  [][\A k \in Keys :
       /\ attempts[k] # NoAttempt => /\ attempts'[k].seed = attempts[k].seed
                                      /\ attempts'[k].miner = attempts[k].miner
       /\ attempts[k].outcome # "none" => attempts'[k].outcome = attempts[k].outcome
       /\ records[k] # "none" => records'[k] = records[k]]_vars

\* When faults stop and the miner resubmits, every drawn key gets its
\* outcome recorded: an attempt never blocks its key for good.
DrawnSettles == \A k \in Keys : attempts[k] # NoAttempt ~> records[k] # "none"
=============================================================================
