---------------------------- MODULE ScorerServer ----------------------------
(***************************************************************************)
(* The keyless scorer (packages/coretex/src/scorer-server-cli.ts): a       *)
(* bounded first-in first-out queue in front of handleScoreJob, one traced *)
(* reranker shared by all jobs (coordinator/scorer-pair-trace.ts), and the *)
(* coordinator that verifies each result against its live context before   *)
(* it signs (coordinator/remote-scorer-verify.ts).  The live context       *)
(* (epoch, parent state root, corpus root, bundle, core version and policy *)
(* hashes) is abstracted to a generation number `context' and the live     *)
(* screener threshold.                                                     *)
(***************************************************************************)
EXTENDS Integers, Sequences, FiniteSets

CONSTANTS Jobs,          \* job ids; every dispatch has its own
          Concurrency,   \* CORETEX_SCORER_CONCURRENCY
          MaxQueueDepth, \* CORETEX_SCORER_MAX_QUEUE_DEPTH
          MaxBatches,    \* bound: batches of pairs one job scores
          MaxMoves,      \* bound: how often the live context or threshold changes
          JobDefects,    \* the ways the jobs of this instance fail their checks
          MaxScore       \* bound: the largest score

ASSUME ScorerAssumption == /\ Concurrency \in Nat \ {0}
                           /\ MaxQueueDepth \in Nat \ {0}
                           /\ MaxBatches \in Nat
                           /\ MaxMoves \in Nat
                           /\ MaxScore \in Nat
                           /\ JobDefects \subseteq {"none", "invalid-job", "pin-mismatch", "parent-mismatch", "seed-context"}

VARIABLES queue,       \* jobs waiting for the scorer
          active,      \* jobs handleScoreJob is running
          phase,       \* where each job is
          job,         \* what each job was dispatched with
          batches,     \* how many batches of pairs the job has scored
          trace,       \* the shared chain: the job of every folded batch
          reply,       \* the scorer's answer to each job
          live,        \* the coordinator's live context and threshold
          outstanding, \* jobs the coordinator waits for
          signable     \* jobs whose result passed verifyScorerResult

scorerVars == <<queue, active, phase, job, batches, trace, reply, live, outstanding, signable>>

\* How a job can fail its checks before anything is scored, with the status.
Defects == {"none", "invalid-job", "pin-mismatch", "parent-mismatch", "seed-context"}

Status(d) == CASE d = "none" -> 200
               [] d = "invalid-job" -> 400
               [] d = "pin-mismatch" -> 409
               [] OTHER -> 422

\* The fields of a job and of a reply that the checks read.
Job == [context : 0..MaxMoves, threshold : 0..MaxScore, defect : Defects]

NoJob == [context |-> 0, threshold |-> 0, defect |-> "none"]

Reply == [status : {0, 200, 400, 409, 422, 500, 503}, score : 0..MaxScore, trace : Seq(Jobs)]

NoReply == [status |-> 0, score |-> 0, trace |-> <<>>]

\* Type invariant, with the two limits of createScorerJobQueue.
ScorerTypeOK ==
    /\ queue \in Seq(Jobs) /\ Len(queue) <= MaxQueueDepth
    /\ active \subseteq Jobs /\ Cardinality(active) <= Concurrency
    /\ phase \in [Jobs -> {"new", "waiting", "refusing", "scoring", "replied"}]
    /\ job \in [Jobs -> Job]
    /\ batches \in [Jobs -> 0..MaxBatches]
    /\ trace \in Seq(Jobs)
    /\ reply \in [Jobs -> Reply]
    /\ live \in [context : 0..MaxMoves, threshold : 0..MaxScore, moves : 0..MaxMoves]
    /\ outstanding \subseteq Jobs
    /\ signable \subseteq Jobs

ScorerInit ==
    /\ queue = <<>>
    /\ active = {}
    /\ phase = [j \in Jobs |-> "new"]
    /\ job = [j \in Jobs |-> NoJob]
    /\ batches = [j \in Jobs |-> 0]
    /\ trace = <<>>
    /\ reply = [j \in Jobs |-> NoReply]
    /\ live = [context |-> 0, threshold |-> 0, moves |-> 0]
    /\ outstanding = {}
    /\ signable = {}

----------------------------------------------------------------------------
(* The queue and the handler *)

\* handleScoreJob up to its first await: the checks, then resetTrace.
Started(j) == IF job'[j].defect = "none" THEN "scoring" ELSE "refusing"

ResetTrace(j) == trace' = IF job'[j].defect = "none" THEN <<>> ELSE trace

\* The coordinator dispatches a job with its live context and threshold.
Ship(j, d) ==
    /\ phase[j] = "new"
    /\ job' = [job EXCEPT ![j] = [context |-> live.context, threshold |-> live.threshold, defect |-> d]]
    /\ outstanding' = outstanding \cup {j}
    /\ UNCHANGED <<batches, live, signable>>

\* enqueue, with the queue full: 503.
EnqueueFull(j, d) ==
    /\ Len(queue) >= MaxQueueDepth
    /\ Ship(j, d)
    /\ phase' = [phase EXCEPT ![j] = "replied"]
    /\ reply' = [reply EXCEPT ![j] = [NoReply EXCEPT !.status = 503]]
    /\ UNCHANGED <<queue, active, trace>>

\* enqueue and drain, with a free slot: the job starts at once.
EnqueueAndStart(j, d) ==
    /\ Len(queue) < MaxQueueDepth
    /\ Cardinality(active) < Concurrency
    /\ Ship(j, d)
    /\ active' = active \cup {j}
    /\ phase' = [phase EXCEPT ![j] = Started(j)]
    /\ ResetTrace(j)
    /\ UNCHANGED <<queue, reply>>

\* Mutant: the depth check is off by one.
EnqueueOneMore(j, d) ==
    /\ Len(queue) <= MaxQueueDepth
    /\ Cardinality(active) >= Concurrency
    /\ Ship(j, d)
    /\ queue' = Append(queue, j)
    /\ phase' = [phase EXCEPT ![j] = "waiting"]
    /\ UNCHANGED <<active, trace, reply>>

\* enqueue and drain, with every slot taken: the job waits.
Enqueue(j, d) ==
    /\ Len(queue) < MaxQueueDepth
    /\ Cardinality(active) >= Concurrency
    /\ Ship(j, d)
    /\ queue' = Append(queue, j)
    /\ phase' = [phase EXCEPT ![j] = "waiting"]
    /\ UNCHANGED <<active, trace, reply>>

\* The wrapped reranker folds one scored batch of the job into the chain.
ScorePairs(j) ==
    /\ phase[j] = "scoring"
    /\ batches[j] < MaxBatches
    /\ batches' = [batches EXCEPT ![j] = @ + 1]
    /\ trace' = Append(trace, j)
    /\ UNCHANGED <<queue, active, phase, job, reply, live, outstanding, signable>>

\* Mutant: the slot is released and nobody is taken from the queue.
ReleaseOnly(j) ==
    /\ active' = active \ {j}
    /\ phase' = [phase EXCEPT ![j] = "replied"]
    /\ UNCHANGED <<queue, trace, job>>

\* The finally of drain: the slot is released and the next job starts.
Release(j) ==
    /\ UNCHANGED job
    /\ \/ /\ queue = <<>>
          /\ active' = active \ {j}
          /\ phase' = [phase EXCEPT ![j] = "replied"]
          /\ UNCHANGED <<queue, trace>>
       \/ /\ queue # <<>>
          /\ queue' = Tail(queue)
          /\ active' = (active \ {j}) \cup {Head(queue)}
          /\ phase' = [phase EXCEPT ![j] = "replied", ![Head(queue)] = Started(Head(queue))]
          /\ ResetTrace(Head(queue))

\* A job that failed a check is answered with its status, unscored.
Refused(j) ==
    /\ phase[j] = "refusing"
    /\ reply' = [reply EXCEPT ![j] = [NoReply EXCEPT !.status = Status(job[j].defect)]]
    /\ Release(j)
    /\ UNCHANGED <<batches, live, outstanding, signable>>

\* scorePatch returns: the answer carries its score and the trace snapshot.
Returned(j, s) ==
    /\ phase[j] = "scoring"
    /\ reply' = [reply EXCEPT ![j] = [status |-> 200, score |-> s, trace |-> trace]]
    /\ Release(j)
    /\ UNCHANGED <<batches, live, outstanding, signable>>

\* scorePatch throws: 500.
Threw(j) ==
    /\ phase[j] = "scoring"
    /\ reply' = [reply EXCEPT ![j] = [NoReply EXCEPT !.status = 500]]
    /\ Release(j)
    /\ UNCHANGED <<batches, live, outstanding, signable>>

----------------------------------------------------------------------------
(* The coordinator *)

\* The live context moves: an advance, a rotation, a new epoch.
Move ==
    /\ live.moves < MaxMoves
    /\ live' = [live EXCEPT !.context = @ + 1, !.moves = @ + 1]
    /\ UNCHANGED <<queue, active, phase, job, batches, trace, reply, outstanding, signable>>

\* The difficulty controller changes the live threshold.
Retune(t) ==
    /\ live.moves < MaxMoves
    /\ live.threshold # t
    /\ live' = [live EXCEPT !.threshold = t, !.moves = @ + 1]
    /\ UNCHANGED <<queue, active, phase, job, batches, trace, reply, outstanding, signable>>

\* The coordinator stops waiting for a job; a late answer finds it gone.
GiveUp(j) ==
    /\ j \in outstanding
    /\ outstanding' = outstanding \ {j}
    /\ UNCHANGED <<queue, active, phase, job, batches, trace, reply, live, signable>>

\* Mutant: the threshold shipped with the job is used, not the live one.
VerifyAsShipped(j) ==
    IF j \notin outstanding THEN "NOT_OUTSTANDING"
    ELSE IF job[j].context # live.context THEN "STALE_CONTEXT"
    ELSE IF reply[j].score < job[j].threshold THEN "REJECTED" ELSE "ok"

\* verifyScorerResult: the verdict on a 200 answer, against the context and the
\* threshold that are live when it is read.
VerifyScorerResult(j) ==
    IF j \notin outstanding THEN "NOT_OUTSTANDING"
    ELSE IF job[j].context # live.context THEN "STALE_CONTEXT"
    ELSE IF reply[j].score < job[j].threshold THEN "REJECTED"
    ELSE IF reply[j].score < live.threshold THEN "BELOW_THRESHOLD" ELSE "ok"

\* The coordinator reads an answer; answer and job are gone afterwards.
ReadAnswer(j) ==
    /\ reply[j].status # 0
    /\ signable' = IF reply[j].status = 200 /\ VerifyScorerResult(j) = "ok" THEN signable \cup {j} ELSE signable
    /\ outstanding' = outstanding \ {j}
    /\ reply' = [reply EXCEPT ![j] = NoReply]
    /\ job' = [job EXCEPT ![j] = NoJob]
    /\ batches' = [batches EXCEPT ![j] = 0]
    /\ UNCHANGED <<queue, active, phase, trace, live>>

JobStep(j) == \/ ScorePairs(j) \/ Refused(j) \/ Threw(j)
              \/ \E s \in 0..MaxScore : Returned(j, s)

ScorerNext ==
    \/ \E j \in Jobs, d \in JobDefects : EnqueueFull(j, d) \/ EnqueueAndStart(j, d) \/ Enqueue(j, d)
    \/ \E j \in Jobs : JobStep(j) \/ GiveUp(j) \/ ReadAnswer(j)
    \/ Move
    \/ \E t \in 0..MaxScore : Retune(t)

ScorerSpec == ScorerInit /\ [][ScorerNext]_scorerVars

\* The model answers or throws in bounded time, so a running job goes on.
ScorerFairness == \A j \in Jobs : WF_scorerVars(JobStep(j))

----------------------------------------------------------------------------
(* Properties *)

\* The trace hashes a 200 answer carries are those of its own pairs: every
\* batch the job scored, in order, and no batch of another job, although all
\* jobs share one traced reranker (resetTrace and traceSnapshot in
\* handleScoreJob).  It needs Concurrency = 1.
TraceIsOwn ==
    \A j \in Jobs : reply[j].status = 200 =>
        /\ Len(reply[j].trace) = batches[j]
        /\ \A i \in DOMAIN reply[j].trace : reply[j].trace[i] = j

\* No job waits while a slot is free: drain leaves nothing behind, whatever
\* mix of refusals, failures and answers released the slots.
NoJobLeftBehind == queue # <<>> => Cardinality(active) = Concurrency

\* A result the coordinator goes on to sign was scored under a context that
\* was still the live one when it was verified, and cleared the threshold
\* that was live at that moment, not only the one shipped with the job.
VerifiedIsLive ==
    [][\A j \in signable' \ signable :
          /\ job[j].context = live.context
          /\ reply[j].score >= live.threshold
          /\ reply[j].score >= job[j].threshold]_scorerVars

\* The queue keeps the promise of RequestService.
ScorerService == INSTANCE RequestService
    WITH Requests <- Jobs, Servers <- Concurrency, Room <- MaxQueueDepth,
         waiting <- queue, running <- active,
         settled <- {j \in Jobs : phase[j] = "replied"}

\* The refinement: every step of the scorer is a step of the bounded service
\* or leaves it unchanged (createScorerJobQueue).
ScorerIsService == ScorerService!ServiceSpec

\* Every job that is accepted into the queue gets an answer.
JobsAnswered == \A j \in Jobs : phase[j] \in {"waiting", "refusing", "scoring"} ~> phase[j] = "replied"
=============================================================================
