--------------------------- MODULE Services_proofs --------------------------
(***************************************************************************)
(* The scorer's job queue and the evaluator's worker pool, for any number  *)
(* of jobs, slots, workers and queue places: both implement RequestService *)
(* and leave no job, worker or caller behind.                              *)
(*                                                                         *)
(* None of the properties is inductive.  QueueInv says which phase a job   *)
(* in the queue, in a slot or new to the server is in; TraceInv what the   *)
(* shared trace holds while a job scores; PoolInv where each call and each *)
(* worker of the pool is.                                                  *)
(***************************************************************************)
EXTENDS ScorerServer, WorkerPool, FiniteSetTheorems, TLAPS
-----------------------------------------------------------------------------
(* Sequences. *)

LEMMA NilSeq ==
  ASSUME NEW S
  PROVE  <<>> \in Seq(S) /\ Len(<<>>) = 0 /\ \A s \in Seq(S) : s # <<>> => Len(s) \in Nat \ {0}
OBVIOUS

LEMMA SeqIsFunction ==
  ASSUME NEW S, NEW s \in Seq(S)
  PROVE  Len(s) \in Nat /\ s \in [1..Len(s) -> S] /\ DOMAIN s = 1..Len(s)
OBVIOUS

LEMMA HeadAndTail ==
  ASSUME NEW S, NEW s \in Seq(S), s # <<>>
  PROVE  /\ Head(s) \in S /\ Tail(s) \in Seq(S) /\ Len(Tail(s)) = Len(s) - 1
         /\ \A i \in 1..Len(Tail(s)) : Tail(s)[i] = s[i + 1]
OBVIOUS

LEMMA AppendToSeq ==
  ASSUME NEW S, NEW s \in Seq(S), NEW e \in S
  PROVE  /\ Append(s, e) \in Seq(S) /\ Append(s, e) # <<>> /\ Len(Append(s, e)) = Len(s) + 1
         /\ \A i \in 1..Len(s) : Append(s, e)[i] = s[i]
         /\ Append(s, e)[Len(s) + 1] = e
OBVIOUS

-----------------------------------------------------------------------------
(* The job queue of the scorer. *)

Phase == {"new", "waiting", "refusing", "scoring", "replied"}

\* Where a job is, for the queue, the slots and the phases at once.
QueueInv ==
    /\ queue \in Seq(Jobs) /\ Len(queue) <= MaxQueueDepth
    /\ phase \in [Jobs -> Phase]
    /\ active \subseteq Jobs /\ IsFiniteSet(active) /\ Cardinality(active) <= Concurrency
    /\ \A i \in 1..Len(queue) : phase[queue[i]] = "waiting"
    /\ \A i, k \in 1..Len(queue) : queue[i] = queue[k] => i = k
    /\ \A j \in Jobs : j \in active <=> phase[j] \in {"refusing", "scoring"}
    /\ NoJobLeftBehind

LEMMA QueueInvInit == ScorerInit => QueueInv
BY FS_EmptySet, ScorerAssumption DEF ScorerInit, QueueInv, NoJobLeftBehind, Phase

\* A job's phase after handleScoreJob's checks.
LEMMA StartedRuns ==
    ASSUME NEW j PROVE Started(j) \in {"refusing", "scoring"}
BY Zenon DEF Started

LEMMA EnqueueKeepsQueueInv ==
    ASSUME QueueInv, NEW j \in Jobs, NEW d \in JobDefects,
           EnqueueFull(j, d) \/ EnqueueAndStart(j, d) \/ Enqueue(j, d)
    PROVE  QueueInv'
<1>1. CASE EnqueueFull(j, d)
  BY <1>1 DEF EnqueueFull, Ship, QueueInv, NoJobLeftBehind, Phase
<1>2. CASE EnqueueAndStart(j, d)
  <2>0. active' = active \cup {j} /\ Cardinality(active) < Concurrency /\ IsFiniteSet(active)
    BY <1>2, Zenon DEF EnqueueAndStart, QueueInv
  <2>1. IsFiniteSet(active') /\ Cardinality(active') <= Concurrency
    <3>1. Cardinality(active) \in Nat
      BY <2>0, FS_CardinalityType, Zenon
    <3>2. /\ IsFiniteSet(active \cup {j})
          /\ Cardinality(active \cup {j}) = IF j \in active THEN Cardinality(active) ELSE Cardinality(active) + 1
      BY <2>0, FS_AddElement, Zenon
    <3>. QED
      BY <2>0, <3>1, <3>2, ScorerAssumption
  <2>2. queue = <<>>
    BY <2>0, FS_CardinalityType, ScorerAssumption DEF QueueInv, NoJobLeftBehind
  <2>. QED
    BY <1>2, <2>1, <2>2, StartedRuns DEF EnqueueAndStart, Ship, QueueInv, NoJobLeftBehind, Phase
<1>3. CASE Enqueue(j, d)
  <2>1. /\ queue' \in Seq(Jobs) /\ Len(queue') = Len(queue) + 1
        /\ \A i \in 1..Len(queue) : queue'[i] = queue[i]
        /\ queue'[Len(queue) + 1] = j
    BY <1>3, AppendToSeq DEF Enqueue, QueueInv
  <2>2. Cardinality(active') = Concurrency
    BY <1>3, FS_CardinalityType, ScorerAssumption DEF Enqueue, QueueInv
  <2>3. phase' = [phase EXCEPT ![j] = "waiting"] /\ phase[j] = "new" /\ UNCHANGED active
    BY <1>3, Zenon DEF Enqueue, Ship
  <2>4. Len(queue') <= MaxQueueDepth
    BY <1>3, <2>1, ScorerAssumption DEF Enqueue, QueueInv
  <2>5. \A i \in 1..Len(queue') : phase'[queue'[i]] = "waiting"
    BY <2>1, <2>3 DEF QueueInv
  <2>6. \A i, k \in 1..Len(queue') : queue'[i] = queue'[k] => i = k
    BY <2>1, <2>3 DEF QueueInv
  <2>. QED
    BY <2>1, <2>2, <2>3, <2>4, <2>5, <2>6, ZenonT(40) DEF QueueInv, NoJobLeftBehind, Phase
<1>. QED
  BY <1>1, <1>2, <1>3, Zenon

LEMMA ReleaseKeepsQueueInv ==
    ASSUME QueueInv, NEW j \in Jobs, phase[j] \in {"refusing", "scoring"}, Release(j)
    PROVE  QueueInv'
<1>0. j \in active
  BY Zenon DEF QueueInv
<1>1. CASE queue = <<>>
  <2>1. IsFiniteSet(active \ {j}) /\ Cardinality(active \ {j}) = Cardinality(active) - 1
    BY <1>0, FS_RemoveElement, Zenon DEF QueueInv
  <2>2. Cardinality(active) \in Nat
    BY FS_CardinalityType, Zenon DEF QueueInv
  <2>3. UNCHANGED queue /\ active' = active \ {j} /\ phase' = [phase EXCEPT ![j] = "replied"]
    BY <1>1, Zenon DEF Release
  <2>4. Cardinality(active') <= Concurrency
    BY <2>1, <2>2, <2>3, ScorerAssumption DEF QueueInv
  <2>. QED
    BY <1>0, <1>1, <2>1, <2>3, <2>4 DEF QueueInv, NoJobLeftBehind, Phase
<1>2. CASE queue # <<>>
  <2> DEFINE h == Head(queue)
  <2>1. /\ queue' = Tail(queue) /\ active' = (active \ {j}) \cup {h}
        /\ phase' = [phase EXCEPT ![j] = "replied", ![h] = Started(h)]
    BY <1>2, Zenon DEF Release
  <2>2. /\ h \in Jobs /\ h = queue[1]
        /\ queue' \in Seq(Jobs) /\ Len(queue') = Len(queue) - 1
        /\ \A i \in 1..Len(queue') : queue'[i] = queue[i + 1]
    BY <1>2, <2>1, HeadAndTail DEF QueueInv
  <2>3. Len(queue) \in Nat \ {0}
    BY <1>2, NilSeq, Zenon DEF QueueInv
  <2>4. phase[h] = "waiting" /\ h # j /\ h \notin active
    BY <2>2, <2>3, <1>0 DEF QueueInv
  <2>5. IsFiniteSet(active') /\ Cardinality(active') = Cardinality(active)
    <3>1. IsFiniteSet(active) /\ Cardinality(active) \in Nat
      BY FS_CardinalityType, Zenon DEF QueueInv
    <3>2. IsFiniteSet(active \ {j}) /\ Cardinality(active \ {j}) = Cardinality(active) - 1
      BY <1>0, <3>1, FS_RemoveElement, Zenon
    <3>3. /\ IsFiniteSet((active \ {j}) \cup {h})
          /\ Cardinality((active \ {j}) \cup {h}) = Cardinality(active \ {j}) + 1
      BY <2>4, <3>2, FS_AddElement, Zenon
    <3>. QED
      BY <2>1, <3>1, <3>2, <3>3
  <2>6. \A i \in 1..Len(queue') : /\ i + 1 \in 1..Len(queue)
                                  /\ queue'[i] # h /\ queue'[i] # j
                                  /\ queue'[i] \in Jobs /\ phase[queue'[i]] = "waiting"
    BY <2>2, <2>3, SMTT(30) DEF QueueInv
  <2>7. \A i \in 1..Len(queue') : phase'[queue'[i]] = "waiting"
    BY <2>1, <2>6, Zenon DEF QueueInv
  <2>8. \A i, k \in 1..Len(queue') : queue'[i] = queue'[k] => i = k
    <3>1. \A i, k \in 1..Len(queue) : queue[i] = queue[k] => i = k
      BY Zenon DEF QueueInv
    <3>2. \A i, k \in 1..Len(queue') : queue'[i] = queue'[k] => i + 1 = k + 1
      <4>1. ASSUME NEW i \in 1..Len(queue'), NEW k \in 1..Len(queue'), queue'[i] = queue'[k]
            PROVE  i + 1 = k + 1
        <5>1. /\ i + 1 \in 1..Len(queue) /\ queue'[i] = queue[i + 1]
              /\ k + 1 \in 1..Len(queue) /\ queue'[k] = queue[k + 1]
          BY <2>2, <2>6, Zenon
        <5>. QED BY <3>1, <4>1, <5>1, Zenon
      <4>. QED BY <4>1, Zenon
    <3>3. \A i, k \in 1..Len(queue') : i \in Int /\ k \in Int
      BY <2>2, SMTT(30)
    <3>4. \A i, k \in Int : i + 1 = k + 1 => i = k
      OBVIOUS
    <3>. QED BY <3>2, <3>3, <3>4, Zenon
  <2>9. phase' \in [Jobs -> Phase] /\ \A k \in Jobs : k \in active' <=> phase'[k] \in {"refusing", "scoring"}
    BY <1>0, <2>1, <2>2, <2>4, StartedRuns, ZenonT(40) DEF QueueInv, Phase
  <2>. QED
    <3>1. Len(queue') <= MaxQueueDepth
      <4>1. Len(queue) <= MaxQueueDepth /\ MaxQueueDepth \in Int
        BY ScorerAssumption DEF QueueInv
      <4>. QED BY <2>2, <2>3, <4>1, SMTT(30)
    <3>2. Cardinality(active) = Concurrency /\ Cardinality(active) <= Concurrency
      BY <1>2, Zenon DEF QueueInv, NoJobLeftBehind
    <3>3. active' \subseteq Jobs
      BY <2>1, <2>2, Zenon DEF QueueInv
    <3>. QED BY <2>2, <2>5, <2>7, <2>8, <2>9, <3>1, <3>2, <3>3, Zenon DEF QueueInv, NoJobLeftBehind
<1>. QED
  BY <1>1, <1>2, Zenon

LEMMA QueueInvNext == QueueInv /\ [ScorerNext]_scorerVars => QueueInv'
<1> SUFFICES ASSUME QueueInv, [ScorerNext]_scorerVars PROVE QueueInv'
  BY Zenon 
<1>1. ASSUME NEW j \in Jobs, NEW d \in JobDefects,
             EnqueueFull(j, d) \/ EnqueueAndStart(j, d) \/ Enqueue(j, d)
      PROVE  QueueInv'
  BY <1>1, EnqueueKeepsQueueInv, Zenon
<1>2. ASSUME NEW j \in Jobs, Refused(j) \/ Threw(j) \/ \E s \in 0..MaxScore : Returned(j, s)
      PROVE  QueueInv'
  BY <1>2, ReleaseKeepsQueueInv, ZenonT(40) DEF Refused, Threw, Returned
<1>3. ASSUME UNCHANGED <<queue, active, phase>> PROVE QueueInv'
  BY <1>3, ZenonT(40) DEF QueueInv, NoJobLeftBehind
<1>. QED
  BY <1>1, <1>2, <1>3, Zenon
     DEF ScorerNext, JobStep, ScorePairs, GiveUp, ReadAnswer, Move, Retune, scorerVars

\* No job waits while a slot is free, for any number of slots: drain starts the
\* next job in the very step that releases one.
THEOREM QueueDrained == ScorerSpec => []NoJobLeftBehind
<1>1. QueueInv => NoJobLeftBehind
  BY Zenon DEF QueueInv
<1>. QED
  BY <1>1, QueueInvInit, QueueInvNext, PTL DEF ScorerSpec

-----------------------------------------------------------------------------
(* The queue implements RequestService. *)

LEMMA ServiceStart == ScorerInit => ScorerService!ServiceInit
BY Zenon DEF ScorerInit, ScorerService!ServiceInit

\* A job that was never shipped is unknown to the service.
LEMMA NewIsUnknown ==
    ASSUME QueueInv, NEW j \in Jobs, phase[j] = "new"
    PROVE  j \notin ScorerService!Known
<1>1. \A i \in DOMAIN queue : queue[i] # j
  BY SeqIsFunction, Zenon DEF QueueInv
<1>. QED
  BY <1>1, Zenon DEF QueueInv, ScorerService!Known

LEMMA ReleaseIsSettle ==
    ASSUME QueueInv, NEW j \in Jobs, phase[j] \in {"refusing", "scoring"}, Release(j)
    PROVE  ScorerService!Settle(j) \/ ScorerService!SettleAndTakeNext(j)
<1>0. j \in active /\ phase \in [Jobs -> Phase]
  BY Zenon DEF QueueInv
<1>1. CASE queue = <<>>
  <2>1. {k \in Jobs : phase'[k] = "replied"} = {k \in Jobs : phase[k] = "replied"} \cup {j}
    BY <1>0, <1>1, Zenon DEF Release
  <2>. QED
    BY <1>0, <1>1, <2>1, Zenon DEF Release, ScorerService!Settle
<1>2. CASE queue # <<>>
  <2>1. Head(queue) \in Jobs /\ phase[Head(queue)] = "waiting"
    BY <1>2, HeadAndTail, NilSeq DEF QueueInv
  <2>2. {k \in Jobs : phase'[k] = "replied"} = {k \in Jobs : phase[k] = "replied"} \cup {j}
    BY <1>0, <1>2, <2>1, StartedRuns, Zenon DEF Release
  <2>. QED
    BY <1>0, <1>2, <2>2, Zenon DEF Release, ScorerService!SettleAndTakeNext
<1>. QED
  BY <1>1, <1>2, Zenon

LEMMA ServiceStep ==
    QueueInv /\ [ScorerNext]_scorerVars => [ScorerService!ServiceNext]_(ScorerService!serviceVars)
<1> SUFFICES ASSUME QueueInv, [ScorerNext]_scorerVars
             PROVE  [ScorerService!ServiceNext]_(ScorerService!serviceVars)
  BY Zenon 
<1> DEFINE settled(p) == {k \in Jobs : p[k] = "replied"}
<1>1. ASSUME NEW j \in Jobs, NEW d \in JobDefects, EnqueueFull(j, d)
      PROVE  ScorerService!Refuse(j)
  <2>1. settled(phase') = settled(phase) \cup {j}
    BY <1>1, Zenon DEF EnqueueFull, QueueInv
  <2>2. j \notin ScorerService!Known
    BY <1>1, NewIsUnknown, Zenon DEF EnqueueFull, Ship
  <2>. QED
    BY <1>1, <2>1, <2>2, Zenon DEF EnqueueFull, ScorerService!Refuse
<1>2. ASSUME NEW j \in Jobs, NEW d \in JobDefects, EnqueueAndStart(j, d)
      PROVE  ScorerService!Begin(j)
  <2>1. settled(phase') = settled(phase)
    BY <1>2, StartedRuns, Zenon DEF EnqueueAndStart, Ship, QueueInv
  <2>2. j \notin ScorerService!Known
    BY <1>2, NewIsUnknown, Zenon DEF EnqueueAndStart, Ship
  <2>. QED
    BY <1>2, <2>1, <2>2, Zenon DEF EnqueueAndStart, ScorerService!Begin, Cardinality, ScorerService!Cardinality
<1>3. ASSUME NEW j \in Jobs, NEW d \in JobDefects, Enqueue(j, d)
      PROVE  ScorerService!Join(j)
  <2>1. settled(phase') = settled(phase)
    BY <1>3, Zenon DEF Enqueue, Ship, QueueInv
  <2>2. j \notin ScorerService!Known
    BY <1>3, NewIsUnknown, Zenon DEF Enqueue, Ship
  <2>. QED
    BY <1>3, <2>1, <2>2, Zenon DEF Enqueue, ScorerService!Join
<1>4. ASSUME NEW j \in Jobs, Refused(j) \/ Threw(j) \/ \E s \in 0..MaxScore : Returned(j, s)
      PROVE  ScorerService!Settle(j) \/ ScorerService!SettleAndTakeNext(j)
  BY <1>4, ReleaseIsSettle, ZenonT(40) DEF Refused, Threw, Returned
<1>5. ASSUME UNCHANGED <<queue, active, phase>>
      PROVE  UNCHANGED ScorerService!serviceVars
  BY <1>5, Zenon DEF ScorerService!serviceVars
<1>6. ASSUME NEW j \in Jobs,
             \/ ScorerService!Refuse(j) \/ ScorerService!Begin(j) \/ ScorerService!Join(j)
             \/ ScorerService!Settle(j) \/ ScorerService!SettleAndTakeNext(j)
      PROVE  ScorerService!ServiceNext
  BY <1>6, Zenon DEF ScorerService!ServiceNext
<1>. QED
  BY <1>1, <1>2, <1>3, <1>4, <1>5, <1>6, Zenon
     DEF ScorerNext, JobStep, ScorePairs, GiveUp, ReadAnswer, Move, Retune, scorerVars

\* Every behaviour of the scorer's queue is one of the bounded first-in
\* first-out service (createScorerJobQueue implements RequestService): each step
\* maps to a step of the service or leaves it unchanged.
THEOREM ScorerImplementsService == ScorerSpec => ScorerIsService
BY QueueInvInit, QueueInvNext, ServiceStart, ServiceStep, PTL
   DEF ScorerSpec, ScorerIsService, ScorerService!ServiceSpec

-----------------------------------------------------------------------------
(* The shared trace. *)

\* The batches folded into a trace are n batches of job j.
OwnBatches(t, n, j) == t \in Seq(Jobs) /\ Len(t) = n /\ \A i \in 1..Len(t) : t[i] = j

\* While a job scores, the shared trace holds its batches and nothing else; a
\* job that has not started has scored nothing, and a 200 answer keeps what the
\* trace held when the job returned.
TraceInv ==
    /\ batches \in [Jobs -> Nat] /\ DOMAIN job = Jobs
    /\ reply \in [Jobs -> [status : Nat, score : Nat, trace : Seq(Jobs)]]
    /\ \A i, j \in active : i = j
    /\ \A j \in Jobs :
         /\ phase[j] \in {"new", "waiting"} => batches[j] = 0
         /\ phase[j] # "replied" => reply[j] = NoReply
         /\ phase[j] = "refusing" => job[j].defect # "none"
         /\ phase[j] = "scoring" => OwnBatches(trace, batches[j], j)
         /\ reply[j].status = 200 => OwnBatches(reply[j].trace, batches[j], j)

LEMMA TraceInvOwn == TraceInv => TraceIsOwn
<1> SUFFICES ASSUME TraceInv, NEW j \in Jobs, reply[j].status = 200
             PROVE  /\ Len(reply[j].trace) = batches[j]
                    /\ \A i \in DOMAIN reply[j].trace : reply[j].trace[i] = j
  BY DEF TraceIsOwn
<1>1. OwnBatches(reply[j].trace, batches[j], j)
  BY DEF TraceInv
<1>2. DOMAIN reply[j].trace = 1..Len(reply[j].trace)
  BY <1>1, SeqIsFunction DEF OwnBatches
<1>. QED
  BY <1>1, <1>2 DEF OwnBatches

LEMMA TraceInvInit == ScorerInit => TraceInv
<1>1. <<>> \in Seq(Jobs)
  BY NilSeq, Zenon
<1>. QED
  BY <1>1 DEF ScorerInit, TraceInv, NoReply

\* A job that starts begins with an empty trace.
LEMMA StartIsClean ==
    ASSUME NEW j \in Jobs, ResetTrace(j), Started(j) = "scoring"
    PROVE  OwnBatches(trace', 0, j)
BY NilSeq DEF Started, ResetTrace, OwnBatches

\* An answer without a result carries its status and no trace.
LEMMA BareReply ==
    ASSUME NEW n \in Nat
    PROVE  /\ [NoReply EXCEPT !.status = n] \in [status : Nat, score : Nat, trace : Seq(Jobs)]
           /\ [NoReply EXCEPT !.status = n].status = n
<1>1. [NoReply EXCEPT !.status = n] = [status |-> n, score |-> 0, trace |-> <<>>]
  BY DEF NoReply
<1>2. <<>> \in Seq(Jobs)
  BY NilSeq, Zenon
<1>3. /\ [status |-> n, score |-> 0, trace |-> <<>>] \in [status : Nat, score : Nat, trace : Seq(Jobs)]
      /\ [status |-> n, score |-> 0, trace |-> <<>>].status = n
  BY <1>2, Zenon
<1>. QED
  BY <1>1, <1>3, Zenon

LEMMA EnqueueKeepsTraceInv ==
    ASSUME Concurrency = 1, QueueInv, TraceInv, NEW j \in Jobs, NEW d \in JobDefects,
           EnqueueFull(j, d) \/ EnqueueAndStart(j, d) \/ Enqueue(j, d)
    PROVE  TraceInv'
<1>0. /\ phase \in [Jobs -> Phase] /\ phase[j] = "new" /\ UNCHANGED batches
      /\ batches[j] = 0 /\ reply[j] = NoReply /\ 200 # 0 /\ 200 # 503
      /\ DOMAIN job' = Jobs /\ \A k \in Jobs \ {j} : job'[k] = job[k]
  BY DEF EnqueueFull, EnqueueAndStart, Enqueue, Ship, QueueInv, TraceInv
<1>1. CASE EnqueueFull(j, d)
  <2> DEFINE full == [NoReply EXCEPT !.status = 503]
  <2>1. /\ reply' = [reply EXCEPT ![j] = full]
        /\ phase' = [phase EXCEPT ![j] = "replied"] /\ UNCHANGED <<active, trace>>
    BY <1>1 DEF EnqueueFull
  <2>2. full \in [status : Nat, score : Nat, trace : Seq(Jobs)] /\ full.status = 503
    BY BareReply, SMTT(30)
  <2> HIDE DEF full
  <2>3. /\ reply' \in [Jobs -> [status : Nat, score : Nat, trace : Seq(Jobs)]]
        /\ phase'[j] = "replied" /\ reply'[j].status # 200
    BY <1>0, <2>1, <2>2 DEF TraceInv
  <2>4. \A k \in Jobs \ {j} : phase'[k] = phase[k] /\ reply'[k] = reply[k]
    BY <1>0, <2>1 DEF TraceInv
  <2>. QED
    BY <1>0, <2>1, <2>3, <2>4, SMTT(60) DEF TraceInv
<1>2. CASE EnqueueAndStart(j, d)
  <2>1. active = {}
    <3>1. Cardinality(active) < 1 /\ IsFiniteSet(active)
      BY <1>2 DEF EnqueueAndStart, QueueInv
    <3>. QED
      BY <3>1, FS_CardinalityType, FS_EmptySet
  <2>2. /\ active' = {j} /\ phase' = [phase EXCEPT ![j] = Started(j)] /\ ResetTrace(j)
        /\ UNCHANGED reply
    BY <1>2, <2>1 DEF EnqueueAndStart
  <2>3. \A k \in Jobs : phase[k] # "scoring"
    BY <2>1 DEF QueueInv
  <2>4. \A k \in Jobs : phase'[k] = "scoring" => k = j /\ OwnBatches(trace', batches'[k], k)
    BY <1>0, <2>2, <2>3, StartIsClean
  <2>5. \A k \in Jobs : phase'[k] \in {"new", "waiting"} => batches'[k] = 0
    BY <1>0, <2>2, StartedRuns DEF TraceInv
  <2>6. \A k \in Jobs : phase'[k] = "refusing" => job'[k].defect # "none"
    BY <1>0, <2>2, SMTT(30) DEF TraceInv, Started
  <2>. QED
    BY <1>0, <2>2, <2>4, <2>5, <2>6 DEF TraceInv
<1>3. CASE Enqueue(j, d)
  BY <1>0, <1>3 DEF Enqueue, TraceInv
<1>. QED
  BY <1>1, <1>2, <1>3

LEMMA ReleaseKeepsTraceInv ==
    ASSUME QueueInv, TraceInv, NEW j \in Jobs, phase[j] \in {"refusing", "scoring"}, Release(j),
           NEW answer \in [status : Nat, score : Nat, trace : Seq(Jobs)],
           answer.status = 200 => OwnBatches(answer.trace, batches[j], j),
           reply' = [reply EXCEPT ![j] = answer], UNCHANGED batches
    PROVE  TraceInv'
<1>0. j \in active /\ phase \in [Jobs -> Phase] /\ \A k \in Jobs \ {j} : phase[k] # "scoring"
  BY DEF QueueInv, TraceInv
<1>1. CASE queue = <<>>
  <2>1. /\ active' = active \ {j} /\ UNCHANGED <<trace, job>>
        /\ phase' = [phase EXCEPT ![j] = "replied"]
    BY <1>1 DEF Release
  <2>. QED
    BY <1>0, <2>1, SMTT(30) DEF TraceInv
<1>2. CASE queue # <<>>
  <2> DEFINE h == Head(queue)
  <2>1. h \in Jobs /\ phase[h] = "waiting" /\ h # j
    BY <1>2, HeadAndTail, NilSeq DEF QueueInv
  <2>2. /\ active' = (active \ {j}) \cup {h} /\ ResetTrace(h)
        /\ phase' = [phase EXCEPT ![j] = "replied", ![h] = Started(h)]
    BY <1>2 DEF Release
  <2> HIDE DEF h
  <2>3. active' = {h}
    BY <1>0, <2>2 DEF TraceInv
  <2>4. batches[h] = 0 /\ reply[h] = NoReply
    BY <2>1 DEF TraceInv
  <2>5. \A k \in Jobs : phase'[k] = "scoring" => k = h /\ OwnBatches(trace', batches'[k], k)
    BY <1>0, <2>1, <2>2, <2>4, StartIsClean
  <2>6. \A k \in Jobs : phase'[k] \in {"new", "waiting"} => batches'[k] = 0
    BY <1>0, <2>1, <2>2, StartedRuns, SMTT(30) DEF TraceInv
  <2>7. \A k \in Jobs : phase'[k] # "replied" => reply'[k] = NoReply
    BY <1>0, <2>1, <2>2, <2>4, ZenonT(60) DEF TraceInv
  <2>8. UNCHANGED job /\ \A k \in Jobs : phase'[k] = "refusing" => job'[k].defect # "none"
    BY <1>0, <2>1, <2>2, ZenonT(60) DEF TraceInv, Started, Release
  <2>9. reply' \in [Jobs -> [status : Nat, score : Nat, trace : Seq(Jobs)]]
    BY DEF TraceInv
  <2>10. \A k \in Jobs : reply'[k].status = 200 => OwnBatches(reply'[k].trace, batches'[k], k)
    BY DEF TraceInv
  <2>. QED
    BY <2>3, <2>5, <2>6, <2>7, <2>8, <2>9, <2>10, ZenonT(60) DEF TraceInv
<1>. QED
  BY <1>1, <1>2

LEMMA TraceInvNext ==
    Concurrency = 1 /\ QueueInv /\ TraceInv /\ [ScorerNext]_scorerVars => TraceInv'
<1> SUFFICES ASSUME Concurrency = 1, QueueInv, TraceInv, [ScorerNext]_scorerVars PROVE TraceInv'
  OBVIOUS
<1>1. ASSUME NEW j \in Jobs, NEW d \in JobDefects,
             EnqueueFull(j, d) \/ EnqueueAndStart(j, d) \/ Enqueue(j, d)
      PROVE  TraceInv'
  BY <1>1, EnqueueKeepsTraceInv
<1>2. ASSUME NEW j \in Jobs, ScorePairs(j) PROVE TraceInv'
  <2>1. /\ phase[j] = "scoring" /\ j \in active /\ reply[j] = NoReply
        /\ \A k \in Jobs \ {j} : phase[k] # "scoring"
    BY <1>2 DEF ScorePairs, QueueInv, TraceInv
  <2>2. /\ batches' = [batches EXCEPT ![j] = @ + 1] /\ trace' = Append(trace, j)
        /\ UNCHANGED <<active, phase, reply, job>>
    BY <1>2 DEF ScorePairs
  <2>3. OwnBatches(trace', batches'[j], j)
    <3>1. /\ trace \in Seq(Jobs) /\ Len(trace) = batches[j]
          /\ \A i \in 1..Len(trace) : trace[i] = j
          /\ batches'[j] = batches[j] + 1
      BY <2>1, <2>2, Zenon DEF TraceInv, OwnBatches
    <3>2. /\ trace' \in Seq(Jobs) /\ Len(trace') = Len(trace) + 1
          /\ \A i \in 1..Len(trace) : trace'[i] = trace[i]
          /\ trace'[Len(trace) + 1] = j
      BY <2>2, <3>1, AppendToSeq
    <3>. QED
      BY <3>1, <3>2, SMTT(30) DEF OwnBatches
  <2>. QED
    BY <2>1, <2>2, <2>3 DEF TraceInv, NoReply
<1>3. ASSUME NEW j \in Jobs, Refused(j) PROVE TraceInv'
  <2> DEFINE answer == [NoReply EXCEPT !.status = Status(job[j].defect)]
  <2>1. Status(job[j].defect) \in Nat /\ Status(job[j].defect) # 200
    BY <1>3 DEF Status, Refused, TraceInv
  <2>2. /\ answer \in [status : Nat, score : Nat, trace : Seq(Jobs)]
        /\ answer.status # 200
    BY <2>1, BareReply
  <2>3. /\ phase[j] = "refusing" /\ Release(j)
        /\ reply' = [reply EXCEPT ![j] = answer] /\ UNCHANGED batches
    BY <1>3 DEF Refused
  <2> HIDE DEF answer
  <2>. QED
    BY <2>2, <2>3, ReleaseKeepsTraceInv, Zenon
<1>4. ASSUME NEW j \in Jobs, NEW s \in 0..MaxScore, Returned(j, s) PROVE TraceInv'
  <2>1. OwnBatches(trace, batches[j], j) /\ trace \in Seq(Jobs) /\ s \in Nat
    <3>1. phase[j] = "scoring"
      BY <1>4, Zenon DEF Returned
    <3>2. OwnBatches(trace, batches[j], j)
      BY <3>1, Zenon DEF TraceInv
    <3>3. s \in Nat
      BY ScorerAssumption
    <3>. QED BY <3>2, <3>3, Zenon DEF OwnBatches
  <2> DEFINE answer == [status |-> 200, score |-> s, trace |-> trace]
  <2>2. /\ answer \in [status : Nat, score : Nat, trace : Seq(Jobs)]
        /\ OwnBatches(answer.trace, batches[j], j)
    BY <2>1
  <2>3. /\ phase[j] = "scoring" /\ Release(j)
        /\ reply' = [reply EXCEPT ![j] = answer] /\ UNCHANGED batches
    BY <1>4 DEF Returned
  <2> HIDE DEF answer
  <2>. QED
    BY <2>2, <2>3, ReleaseKeepsTraceInv, Zenon
<1>5. ASSUME NEW j \in Jobs, Threw(j) PROVE TraceInv'
  <2>1. PICK n \in Nat : n = 500
    OBVIOUS
  <2> DEFINE answer == [NoReply EXCEPT !.status = n]
  <2>2. /\ answer \in [status : Nat, score : Nat, trace : Seq(Jobs)]
        /\ answer.status = n
    BY BareReply, Zenon
  <2>3. /\ phase[j] = "scoring" /\ Release(j)
        /\ reply' = [reply EXCEPT ![j] = answer] /\ UNCHANGED batches
    BY <1>5, <2>1 DEF Threw
  <2> HIDE DEF answer
  <2>4. answer.status # 200
    BY <2>1, <2>2
  <2>. QED
    BY <2>2, <2>3, <2>4, ReleaseKeepsTraceInv, ZenonT(60)
<1>6. ASSUME NEW j \in Jobs, ReadAnswer(j) PROVE TraceInv'
  BY <1>6, SMTT(30) DEF ReadAnswer, TraceInv, NoReply
<1>7. ASSUME UNCHANGED <<active, phase, batches, trace, reply, job>> PROVE TraceInv'
  BY <1>7 DEF TraceInv
<1>. QED
  BY <1>1, <1>2, <1>3, <1>4, <1>5, <1>6, <1>7, Zenon
     DEF ScorerNext, JobStep, GiveUp, Move, Retune, scorerVars

\* With one slot, which is the default of CORETEX_SCORER_CONCURRENCY, the trace
\* hashes of an answer are those of its own pairs, for any number of jobs and
\* any queue: handleScoreJob resets the shared trace before it scores.
THEOREM TraceOfOneJob == ASSUME Concurrency = 1 PROVE ScorerSpec => []TraceIsOwn
<1>1. TraceInv /\ QueueInv /\ [ScorerNext]_scorerVars => TraceInv'
  BY TraceInvNext, Zenon
<1>. QED
  BY <1>1, TraceInvInit, QueueInvInit, QueueInvNext, TraceInvOwn, PTL DEF ScorerSpec

-----------------------------------------------------------------------------
(* The worker pool. *)

\* Where a call is, for the queue, the workers and the promises at once: an
\* idle worker runs nothing and is on the stack once, a call is queued or run
\* at most once, and a queued or running call has a pending promise.
PoolInv ==
    /\ idle \in Seq(Workers)
    /\ poolQueue \in Seq(Calls) /\ Len(poolQueue) <= MaxQueueSize
    /\ pending \in [Workers -> Calls \cup {NoEntry}]
    /\ promise \in [Calls -> {"none", "pending", "resolved", "rejected"}]
    /\ \A i, k \in 1..Len(idle) : idle[i] = idle[k] => i = k
    /\ \A i \in 1..Len(idle) : pending[idle[i]] = NoEntry
    /\ \A i, k \in 1..Len(poolQueue) : poolQueue[i] = poolQueue[k] => i = k
    /\ \A i \in 1..Len(poolQueue) : /\ promise[poolQueue[i]] = "pending"
                                    /\ \A w \in Workers : pending[w] # poolQueue[i]
    /\ \A w \in Workers : pending[w] # NoEntry => promise[pending[w]] = "pending"
    /\ \A v, w \in Workers : pending[v] = pending[w] /\ pending[v] # NoEntry => v = w

\* The stack is filled with every worker once.
LEMMA PoolInvInit == PoolInit => PoolInv
<1>. SUFFICES ASSUME PoolInit PROVE PoolInv
  BY Zenon 
<1>1. PICK n \in Nat : n = Cardinality(Workers)
  BY PoolAssumption, FS_CardinalityType, Zenon
<1>2. idle \in [1..n -> Workers] /\ {idle[i] : i \in 1..n} = Workers
  BY <1>1, Zenon DEF PoolInit
<1>3. idle \in Surjection(1..n, Workers)
  BY <1>2, Zenon DEF Surjection
<1>4. IsFiniteSet(1..n) /\ Cardinality(1..n) = n
  BY FS_Interval
<1>5. idle \in Injection(1..n, Workers)
  BY <1>1, <1>3, <1>4, FS_SurjSameCardinalityImpliesInj, ZenonT(40)
<1>6. idle \in Seq(Workers) /\ Len(idle) = n
  BY <1>2
<1>7. \A i, k \in 1..Len(idle) : idle[i] = idle[k] => i = k
  BY <1>2, <1>5, <1>6, ZenonT(40) DEF Injection, IsInjective
<1>8. poolQueue \in Seq(Calls) /\ Len(poolQueue) = 0
  BY DEF PoolInit
<1>9. /\ pending \in [Workers -> Calls \cup {NoEntry}]
      /\ \A w \in Workers : pending[w] = NoEntry
      /\ promise \in [Calls -> {"none", "pending", "resolved", "rejected"}]
  BY Zenon DEF PoolInit
<1>10. \A i \in 1..Len(idle) : idle[i] \in Workers
  BY <1>6
<1>. QED BY <1>6, <1>7, <1>8, <1>9, <1>10, PoolAssumption DEF PoolInv

\* The stack t is s without w.
IsWithout(t, s, w) ==
    /\ t \in Seq(Workers)
    /\ \A i \in 1..Len(t) : t[i] # w /\ \E k \in 1..Len(s) : t[i] = s[k]
    /\ \A i, k \in 1..Len(t) : t[i] = t[k] => i = k
    /\ \A k \in 1..Len(s) : s[k] # w => \E i \in 1..Len(t) : t[i] = s[k]

\* Splicing a worker out of a stack that holds each once.
LEMMA SplicedFacts ==
    ASSUME NEW s \in Seq(Workers), NEW w \in Workers,
           \A i, k \in 1..Len(s) : s[i] = s[k] => i = k,
           NEW t, t = Spliced(s, w)
    PROVE  IsWithout(t, s, w)
<1>0. Len(s) \in Nat /\ DOMAIN s = 1..Len(s) /\ \A i \in 1..Len(s) : s[i] \in Workers
  OBVIOUS
<1>1. CASE \E i \in 1..Len(s) : s[i] = w
  <2>1. PICK k \in 1..Len(s) : s[k] = w
    BY <1>1, Zenon
  <2>2. \A j \in 1..Len(s) : (s[j] = w /\ \A i \in 1..(j - 1) : s[i] # w) <=> j = k
    BY <1>0, <2>1
  <2>3. (CHOOSE j \in 1..Len(s) : s[j] = w /\ \A i \in 1..(j - 1) : s[i] # w) = k
    BY <2>1, <2>2, Zenon
  <2>4. t = [i \in 1..(Len(s) - 1) |-> s[IF i < k THEN i ELSE i + 1]]
    BY <1>1, <2>3, ZenonT(60) DEF Spliced
  <2>5. t \in Seq(Workers) /\ Len(t) = Len(s) - 1
    BY <1>0, <2>1, <2>4
  <2>6. \A i \in 1..Len(t) : t[i] = s[IF i < k THEN i ELSE i + 1]
    BY <1>0, <2>4, <2>5, Zenon
  <2>7. PICK n \in Nat : n = Len(s) /\ Len(t) = n - 1
    BY <1>0, <2>5, Zenon
  <2>8. \A i \in 1..(n - 1) : t[i] # w /\ \E j \in 1..n : t[i] = s[j]
    BY <2>1, <2>6, <2>7
  <2>9. \A i, j \in 1..(n - 1) : t[i] = t[j] => i = j
    BY <2>1, <2>6, <2>7
  <2>10. ASSUME NEW j \in 1..n, s[j] # w
         PROVE  \E i \in 1..(n - 1) : t[i] = s[j]
    <3>1. CASE j < k
      <4>1. j \in 1..(n - 1) /\ t[j] = s[j]
        BY <2>1, <2>6, <2>7, <3>1
      <4>. QED BY <4>1, Zenon
    <3>2. CASE j > k
      <4>1. j - 1 \in 1..(n - 1) /\ t[j - 1] = s[j]
        BY <2>1, <2>6, <2>7, <3>2
      <4>. QED BY <4>1, Zenon
    <3>. QED BY <2>1, <2>10, <3>1, <3>2
  <2>. QED BY <2>5, <2>7, <2>8, <2>9, <2>10, SMTT(30) DEF IsWithout
<1>2. CASE ~ \E i \in 1..Len(s) : s[i] = w
  BY <1>0, <1>2, Zenon DEF Spliced, IsWithout
<1>. QED BY <1>1, <1>2, Zenon

\* A call that was never made is neither queued nor run.
LEMMA NewCallIsNowhere ==
    ASSUME PoolInv, NEW c \in Calls, promise[c] = "none"
    PROVE  /\ \A i \in 1..Len(poolQueue) : poolQueue[i] # c
           /\ \A w \in Workers : pending[w] # c
<1>1. NoEntry # c
  BY PoolAssumption, Zenon
<1>. QED BY <1>1, Zenon DEF PoolInv

LEMMA RejectKeepsPoolInv ==
    ASSUME PoolInv, NEW c \in Calls, EvalClosed(c) \/ EvalSaturated(c)
    PROVE  PoolInv'
<1>1. /\ promise[c] = "none" /\ promise' = [promise EXCEPT ![c] = "rejected"]
      /\ UNCHANGED <<idle, poolQueue, pending>>
  BY Zenon DEF EvalClosed, EvalSaturated
<1>2. /\ \A i \in 1..Len(poolQueue) : poolQueue[i] # c
      /\ \A w \in Workers : pending[w] # c
  BY <1>1, NewCallIsNowhere, Zenon
<1>3. promise' \in [Calls -> {"none", "pending", "resolved", "rejected"}]
  BY <1>1, Zenon DEF PoolInv
<1>4. \A d \in Calls : d # c => promise'[d] = promise[d]
  BY <1>1, Zenon DEF PoolInv
<1>5. \A i \in 1..Len(poolQueue) : poolQueue[i] \in Calls
  BY DEF PoolInv
<1>6. \A w \in Workers : pending[w] # NoEntry => pending[w] \in Calls
  BY ZenonT(40) DEF PoolInv
<1>. QED BY <1>1, <1>2, <1>3, <1>4, <1>5, <1>6 DEF PoolInv

LEMMA EvalIdleKeepsPoolInv ==
    ASSUME PoolInv, NEW c \in Calls, EvalIdle(c)
    PROVE  PoolInv'
<1>1. PICK n \in Nat : n = Len(idle)
  BY DEF PoolInv
<1>2. n > 0 /\ idle[n] \in Workers /\ \A i \in 1..n : idle[i] \in Workers
  BY <1>1, NilSeq DEF PoolInv, EvalIdle
<1>3. PICK w \in Workers : w = idle[n]
  BY <1>2, Zenon
<1>4. /\ idle' = SubSeq(idle, 1, n - 1)
      /\ pending' = [pending EXCEPT ![w] = c]
      /\ promise' = [promise EXCEPT ![c] = "pending"]
      /\ promise[c] = "none" /\ poolQueue' = poolQueue
  BY <1>1, <1>3, Zenon DEF EvalIdle, Pop, Top, Dispatch
<1>5. idle' \in Seq(Workers) /\ Len(idle') = n - 1 /\ \A i \in 1..(n - 1) : idle'[i] = idle[i]
  BY <1>1, <1>2, <1>4 DEF PoolInv
<1>6. /\ \A i \in 1..Len(poolQueue) : poolQueue[i] # c
      /\ \A v \in Workers : pending[v] # c
  BY <1>4, NewCallIsNowhere, Zenon
<1>7. /\ promise' \in [Calls -> {"none", "pending", "resolved", "rejected"}]
      /\ promise'[c] = "pending" /\ \A d \in Calls : d # c => promise'[d] = promise[d]
  BY <1>4, Zenon DEF PoolInv
<1>8. /\ pending' \in [Workers -> Calls \cup {NoEntry}]
      /\ pending'[w] = c /\ \A v \in Workers : v # w => pending'[v] = pending[v]
  BY <1>4, Zenon DEF PoolInv
<1>9. \A i, k \in 1..Len(idle') : idle'[i] = idle'[k] => i = k
  BY <1>1, <1>5 DEF PoolInv
<1>10. \A i \in 1..Len(idle') : pending'[idle'[i]] = NoEntry
  <2>. SUFFICES ASSUME NEW i \in 1..(n - 1) PROVE pending'[idle'[i]] = NoEntry
    BY <1>5, Zenon
  <2>1. i \in 1..n /\ n \in 1..n /\ i # n
    BY <1>2
  <2>2. idle[i] # w /\ pending[idle[i]] = NoEntry
    BY <1>1, <1>3, <2>1, ZenonT(40) DEF PoolInv
  <2>. QED BY <1>2, <1>5, <1>8, <2>1, <2>2, Zenon
<1>11. \A i \in 1..Len(poolQueue) : poolQueue[i] \in Calls
  BY DEF PoolInv
<1>12. \A i \in 1..Len(poolQueue') : /\ promise'[poolQueue'[i]] = "pending"
                                     /\ \A v \in Workers : pending'[v] # poolQueue'[i]
  BY <1>4, <1>6, <1>7, <1>8, <1>11, SMTT(30) DEF PoolInv
<1>13. \A v \in Workers : pending'[v] # NoEntry => promise'[pending'[v]] = "pending"
  <2>1. \A v \in Workers : pending[v] # NoEntry => pending[v] \in Calls
    BY DEF PoolInv
  <2>. QED BY <1>6, <1>7, <1>8, <2>1 DEF PoolInv
<1>14. \A u, v \in Workers : pending'[u] = pending'[v] /\ pending'[u] # NoEntry => u = v
  BY <1>6, <1>8 DEF PoolInv
<1>15. poolQueue' \in Seq(Calls) /\ Len(poolQueue') <= MaxQueueSize
       /\ \A i, k \in 1..Len(poolQueue') : poolQueue'[i] = poolQueue'[k] => i = k
  BY <1>4, ZenonT(60) DEF PoolInv
<1>. QED BY <1>5, <1>7, <1>8, <1>9, <1>10, <1>12, <1>13, <1>14, <1>15, Zenon DEF PoolInv

LEMMA EvalQueuedKeepsPoolInv ==
    ASSUME PoolInv, NEW c \in Calls, EvalQueued(c)
    PROVE  PoolInv'
<1>1. PICK n \in Nat : n = Len(poolQueue)
  BY DEF PoolInv
<1>2. /\ promise[c] = "none" /\ n < MaxQueueSize
      /\ poolQueue' = Append(poolQueue, c)
      /\ promise' = [promise EXCEPT ![c] = "pending"]
      /\ idle' = idle /\ pending' = pending
  BY <1>1, ZenonT(60) DEF EvalQueued
<1>3. /\ poolQueue' \in Seq(Calls) /\ Len(poolQueue') = n + 1
      /\ \A i \in 1..n : poolQueue'[i] = poolQueue[i] /\ poolQueue[i] \in Calls
      /\ poolQueue'[n + 1] = c
  BY <1>1, <1>2 DEF PoolInv
<1>4. /\ \A i \in 1..n : poolQueue[i] # c
      /\ \A w \in Workers : pending[w] # c
  BY <1>1, <1>2, NewCallIsNowhere, Zenon
<1>5. /\ promise' \in [Calls -> {"none", "pending", "resolved", "rejected"}]
      /\ promise'[c] = "pending" /\ \A d \in Calls : d # c => promise'[d] = promise[d]
  BY <1>2, Zenon DEF PoolInv
<1>6. n + 1 <= MaxQueueSize
  BY <1>2, PoolAssumption
<1>7. \A i \in 1..(n + 1) : i \in 1..n \/ i = n + 1
  BY SMTT(30)
<1>8. \A i, k \in 1..(n + 1) : poolQueue'[i] = poolQueue'[k] => i = k
  BY <1>1, <1>3, <1>4, <1>7, SMTT(30) DEF PoolInv
<1>9. \A i \in 1..(n + 1) : /\ promise'[poolQueue'[i]] = "pending"
                            /\ \A w \in Workers : pending'[w] # poolQueue'[i]
  BY <1>1, <1>2, <1>3, <1>4, <1>5, <1>7, SMTT(30) DEF PoolInv
<1>10. \A w \in Workers : pending[w] # NoEntry => pending[w] \in Calls
  BY ZenonT(40) DEF PoolInv
<1>. QED BY <1>2, <1>3, <1>4, <1>5, <1>6, <1>8, <1>9, <1>10, SMTT(30) DEF PoolInv

\* A call whose worker is done is settled; the worker idles or takes the head
\* of the queue.
LEMMA MessageKeepsPoolInv ==
    ASSUME PoolInv, NEW w \in Workers, NEW how \in {"resolved", "rejected"}, OnMessage(w, how)
    PROVE  PoolInv'
<1>0. PICK c \in Calls : c = pending[w]
  BY ZenonT(40) DEF PoolInv, OnMessage
<1>1. /\ promise' \in [Calls -> {"none", "pending", "resolved", "rejected"}]
      /\ \A d \in Calls : d # c => promise'[d] = promise[d]
  BY <1>0, Zenon DEF PoolInv, OnMessage
<1>2. \A v \in Workers : v # w => pending[v] # c
  BY <1>0, PoolAssumption, ZenonT(40) DEF PoolInv
<1>3. PICK n \in Nat : n = Len(poolQueue)
  BY DEF PoolInv
<1>4. \A i \in 1..n : poolQueue[i] \in Calls /\ poolQueue[i] # c /\ promise[poolQueue[i]] = "pending"
                      /\ \A v \in Workers : pending[v] # poolQueue[i]
  BY <1>0, <1>3 DEF PoolInv
<1>5. \A v \in Workers : pending[v] # NoEntry => pending[v] \in Calls /\ promise[pending[v]] = "pending"
  BY Zenon DEF PoolInv
<1>6. ASSUME poolQueue # <<>>, Dispatch(w, Head(poolQueue)), poolQueue' = Tail(poolQueue), UNCHANGED idle
      PROVE  PoolInv'
  <2>1. /\ n > 0 /\ Head(poolQueue) = poolQueue[1] /\ poolQueue' \in Seq(Calls)
        /\ Len(poolQueue') = n - 1 /\ \A i \in 1..(n - 1) : poolQueue'[i] = poolQueue[i + 1]
    BY <1>3, <1>6, SMTT(30) DEF PoolInv
  <2>2. PICK d \in Calls : d = poolQueue[1] /\ d # c /\ promise[d] = "pending" /\ d # NoEntry
                           /\ \A v \in Workers : pending[v] # d
    BY <1>4, <2>1, PoolAssumption, SMTT(30)
  <2>3. /\ pending' \in [Workers -> Calls \cup {NoEntry}]
        /\ pending'[w] = d /\ \A v \in Workers : v # w => pending'[v] = pending[v]
    BY <1>6, <2>1, <2>2, ZenonT(40) DEF Dispatch, PoolInv
  <2>4. \A i \in 1..(n - 1) : i + 1 \in 1..n /\ poolQueue'[i] \in Calls /\ poolQueue'[i] # c
                              /\ poolQueue'[i] # d /\ promise[poolQueue'[i]] = "pending"
                              /\ \A v \in Workers : pending[v] # poolQueue'[i]
    BY <1>3, <1>4, <2>1, <2>2, SMTT(30) DEF PoolInv
  <2>5. \A i, k \in 1..(n - 1) : poolQueue'[i] = poolQueue'[k] => i = k
    BY <1>3, <2>1, SMTT(30) DEF PoolInv
  <2>6. \A i \in 1..(n - 1) : /\ promise'[poolQueue'[i]] = "pending"
                              /\ \A v \in Workers : pending'[v] # poolQueue'[i]
    BY <1>1, <2>3, <2>4, ZenonT(40)
  <2>7. n - 1 <= MaxQueueSize
    BY <1>3, PoolAssumption, SMTT(30) DEF PoolInv
  <2>8. \A i \in 1..Len(idle) : idle[i] \in Workers /\ idle[i] # w
    BY <1>0, PoolAssumption, SMTT(30) DEF PoolInv
  <2>9. \A i \in 1..Len(idle') : pending'[idle'[i]] = NoEntry
    BY <1>6, <2>3, <2>8, Zenon DEF PoolInv
  <2>10. \A v \in Workers : pending'[v] # NoEntry => promise'[pending'[v]] = "pending"
    BY <1>1, <1>2, <1>5, <2>2, <2>3, SMTT(30)
  <2>11. \A u, v \in Workers : pending'[u] = pending'[v] /\ pending'[u] # NoEntry => u = v
    BY <2>2, <2>3, SMTT(30) DEF PoolInv
  <2>12. idle' \in Seq(Workers) /\ \A i, k \in 1..Len(idle') : idle'[i] = idle'[k] => i = k
    BY <1>6, ZenonT(40) DEF PoolInv
  <2>. QED BY <1>1, <2>1, <2>3, <2>5, <2>6, <2>7, <2>9, <2>10, <2>11, <2>12, ZenonT(40) DEF PoolInv
<1>7. ASSUME Dispatch(w, NoEntry), idle' = Append(idle, w), UNCHANGED poolQueue
      PROVE  PoolInv'
  <2>1. /\ pending' \in [Workers -> Calls \cup {NoEntry}]
        /\ pending'[w] = NoEntry /\ \A v \in Workers : v # w => pending'[v] = pending[v]
    BY <1>7, Zenon DEF Dispatch, PoolInv
  <2>2. PICK k \in Nat : k = Len(idle)
    BY DEF PoolInv
  <2>3. \A i \in 1..k : idle[i] \in Workers /\ idle[i] # w /\ pending[idle[i]] = NoEntry
    BY <1>0, <2>2, PoolAssumption, SMTT(30) DEF PoolInv
  <2>4. /\ idle' \in Seq(Workers) /\ Len(idle') = k + 1 /\ idle'[k + 1] = w
        /\ \A i \in 1..k : idle'[i] = idle[i]
    BY <1>7, <2>2 DEF PoolInv
  <2>5. \A i \in 1..(k + 1) : i \in 1..k \/ i = k + 1
    BY SMTT(30)
  <2>6. \A i \in 1..(k + 1) : pending'[idle'[i]] = NoEntry
    BY <2>1, <2>3, <2>4, <2>5, SMTT(30)
  <2>7. \A i, j \in 1..(k + 1) : idle'[i] = idle'[j] => i = j
    BY <2>2, <2>3, <2>4, <2>5, SMTT(30) DEF PoolInv
  <2>8. \A i \in 1..Len(poolQueue') : /\ promise'[poolQueue'[i]] = "pending"
                                      /\ \A v \in Workers : pending'[v] # poolQueue'[i]
    BY <1>1, <1>3, <1>4, <1>7, <2>1, PoolAssumption, SMTT(30)
  <2>9. \A v \in Workers : pending'[v] # NoEntry => promise'[pending'[v]] = "pending"
    BY <1>1, <1>2, <1>5, <2>1, ZenonT(40)
  <2>10. \A u, v \in Workers : pending'[u] = pending'[v] /\ pending'[u] # NoEntry => u = v
    BY <2>1 DEF PoolInv
  <2>11. /\ poolQueue' \in Seq(Calls) /\ Len(poolQueue') <= MaxQueueSize
         /\ \A i, j \in 1..Len(poolQueue') : poolQueue'[i] = poolQueue'[j] => i = j
    BY <1>7, Zenon DEF PoolInv
  <2>. QED BY <1>1, <2>1, <2>4, <2>6, <2>7, <2>8, <2>9, <2>10, <2>11, ZenonT(60) DEF PoolInv
<1>. QED BY <1>6, <1>7, Zenon DEF OnMessage

\* A worker that failed settles its call, leaves the stack and comes back on top.
LEMMA ErrorKeepsPoolInv ==
    ASSUME PoolInv, NEW w \in Workers, OnWorkerError(w)
    PROVE  PoolInv'
<1>1. /\ promise' \in [Calls -> {"none", "pending", "resolved", "rejected"}]
      /\ \A d \in Calls : d # pending[w] => promise'[d] = promise[d]
  BY Zenon DEF PoolInv, OnWorkerError
<1>2. /\ pending' \in [Workers -> Calls \cup {NoEntry}]
      /\ pending'[w] = NoEntry /\ \A v \in Workers : v # w => pending'[v] = pending[v]
  BY Zenon DEF PoolInv, OnWorkerError
<1>3. PICK t : t = Spliced(idle, w)
  BY Zenon 
<1>4. /\ t \in Seq(Workers)
      /\ \A i \in 1..Len(t) : t[i] # w /\ \E k \in 1..Len(idle) : t[i] = idle[k]
      /\ \A i, k \in 1..Len(t) : t[i] = t[k] => i = k
  <2>1. IsWithout(t, idle, w)
    BY <1>3, SplicedFacts, Zenon DEF PoolInv
  <2>. QED BY <2>1, Zenon DEF IsWithout
<1>5. idle' = Append(t, w)
  BY <1>3, Zenon DEF OnWorkerError
<1>6. PICK k \in Nat : k = Len(t)
  BY <1>4, SMTT(30)
<1>7. /\ idle' \in Seq(Workers) /\ Len(idle') = k + 1 /\ idle'[k + 1] = w
      /\ \A i \in 1..k : idle'[i] = t[i] /\ t[i] \in Workers /\ t[i] # w
  BY <1>4, <1>5, <1>6, SMTT(30)
<1>8. \A i \in 1..(k + 1) : i \in 1..k \/ i = k + 1
  OBVIOUS
<1>9. \A i \in 1..k : pending[t[i]] = NoEntry
  BY <1>4, <1>6, SMTT(30) DEF PoolInv
<1>10. \A i \in 1..(k + 1) : pending'[idle'[i]] = NoEntry
  BY <1>2, <1>7, <1>8, <1>9, ZenonT(40)
<1>11. \A i, j \in 1..(k + 1) : idle'[i] = idle'[j] => i = j
  BY <1>4, <1>6, <1>7, <1>8, SMTT(30)
<1>12. poolQueue' = poolQueue /\ \A i \in 1..Len(poolQueue) : poolQueue[i] \in Calls /\ poolQueue[i] # NoEntry
  BY PoolAssumption DEF PoolInv, OnWorkerError
<1>13. \A i \in 1..Len(poolQueue') : /\ promise'[poolQueue'[i]] = "pending"
                                     /\ \A v \in Workers : pending'[v] # poolQueue'[i]
  BY <1>1, <1>2, <1>12, SMTT(30) DEF PoolInv
<1>14. \A v \in Workers : pending'[v] # NoEntry => promise'[pending'[v]] = "pending"
  BY <1>1, <1>2 DEF PoolInv
<1>15. \A u, v \in Workers : pending'[u] = pending'[v] /\ pending'[u] # NoEntry => u = v
  BY <1>2, SMTT(30) DEF PoolInv
<1>16. /\ poolQueue' \in Seq(Calls) /\ Len(poolQueue') <= MaxQueueSize
       /\ \A i, j \in 1..Len(poolQueue') : poolQueue'[i] = poolQueue'[j] => i = j
  BY <1>12, Zenon DEF PoolInv
<1>. QED BY <1>1, <1>2, <1>7, <1>10, <1>11, <1>13, <1>14, <1>15, <1>16, ZenonT(40) DEF PoolInv

LEMMA PoolInvNext == PoolInv /\ [PoolNext]_poolVars => PoolInv'
<1>. SUFFICES ASSUME PoolInv, [PoolNext]_poolVars PROVE PoolInv'
  BY Zenon 
<1>1. CASE UNCHANGED <<idle, poolQueue, pending, promise>>
  BY <1>1, ZenonT(60) DEF PoolInv
<1>2. CASE Close \/ (\E w \in Workers : Terminated(w)) \/ UNCHANGED poolVars
  BY <1>1, <1>2, Zenon DEF Close, Terminated, poolVars
<1>. QED BY <1>2, RejectKeepsPoolInv, EvalIdleKeepsPoolInv, EvalQueuedKeepsPoolInv,
            MessageKeepsPoolInv, ErrorKeepsPoolInv, Zenon DEF PoolNext

-----------------------------------------------------------------------------
(* The pool implements RequestService. *)

Running(p) == {c \in Calls : \E w \in Workers : p[w] = c}
Answered(p) == {c \in Calls : p[c] \in {"resolved", "rejected"}}

\* While a worker idles, fewer calls run than there are workers.
LEMMA IdleLeavesRoom ==
    ASSUME PoolInv, idle # <<>>
    PROVE  Cardinality(Running(pending)) < Cardinality(Workers)
<1>1. PICK w \in Workers : pending[w] = NoEntry
  <2>1. 1 \in 1..Len(idle) /\ idle[1] \in Workers
    BY NilSeq DEF PoolInv
  <2>. QED BY <2>1, Zenon DEF PoolInv
<1>2. PICK busy : busy = {v \in Workers : pending[v] # NoEntry}
  BY Zenon
<1>3. PICK f : f = [v \in busy |-> pending[v]]
  BY Zenon
<1>4. f \in Surjection(busy, Running(pending))
  <2>1. \A v \in busy : v \in Workers /\ f[v] = pending[v] /\ f[v] \in Running(pending)
    BY <1>2, <1>3, ZenonT(40) DEF Running, PoolInv
  <2>2. \A c \in Running(pending) : \E v \in busy : f[v] = c
    BY <1>2, <1>3, PoolAssumption, Zenon DEF Running
  <2>3. f \in [busy -> Running(pending)]
    BY <1>3, <2>1, ZenonT(40)
  <2>. QED BY <2>2, <2>3, Zenon DEF Surjection
<1>5. /\ IsFiniteSet(Workers \ {w}) /\ Cardinality(Workers \ {w}) = Cardinality(Workers) - 1
      /\ Cardinality(Workers) \in Nat
  BY PoolAssumption, FS_RemoveElement, FS_CardinalityType, ZenonT(40)
<1>6. busy \in SUBSET (Workers \ {w})
  BY <1>1, <1>2, ZenonT(40)
<1>7. IsFiniteSet(busy) /\ Cardinality(busy) <= Cardinality(Workers) - 1 /\ Cardinality(busy) \in Nat
  BY <1>5, <1>6, FS_Subset, FS_CardinalityType, SMTT(30)
<1>8. /\ IsFiniteSet(Running(pending)) /\ Cardinality(Running(pending)) <= Cardinality(busy)
      /\ Cardinality(Running(pending)) \in Nat
  BY <1>4, <1>7, FS_Surjection, FS_CardinalityType, Zenon
<1>. QED BY <1>5, <1>7, <1>8

LEMMA PoolServiceStart == PoolInit => PoolService!ServiceInit
BY PoolAssumption, Zenon DEF PoolInit, PoolService!ServiceInit

\* A call that was never made is unknown to the service.
LEMMA NewCallIsUnknown ==
    ASSUME PoolInv, NEW c \in Calls, promise[c] = "none"
    PROVE  c \notin PoolService!Known
<1>1. DOMAIN poolQueue = 1..Len(poolQueue)
  BY DEF PoolInv
<1>2. /\ \A i \in 1..Len(poolQueue) : poolQueue[i] # c
      /\ \A w \in Workers : pending[w] # c
  BY NewCallIsNowhere, Zenon
<1>. QED BY <1>1, <1>2, ZenonT(40) DEF PoolService!Known

\* An answer of a worker settles its call.
LEMMA MessageSettles ==
    ASSUME PoolInv, NEW w \in Workers, NEW how \in {"resolved", "rejected"}, OnMessage(w, how)
    PROVE  \E c \in Calls : PoolService!Settle(c) \/ PoolService!SettleAndTakeNext(c)
<1>0. PICK c \in Calls : c = pending[w]
  BY Zenon DEF PoolInv, OnMessage
<1>1. c \in Running(pending) /\ \A v \in Workers : v # w => pending[v] # c
  BY <1>0, PoolAssumption, ZenonT(40) DEF PoolInv, Running
<1>2. Answered(promise') = Answered(promise) \cup {c}
  BY <1>0, ZenonT(40) DEF PoolInv, OnMessage, Answered
<1>3. ASSUME poolQueue # <<>>, Dispatch(w, Head(poolQueue)), poolQueue' = Tail(poolQueue)
      PROVE  PoolService!SettleAndTakeNext(c)
  <2>1. PICK d \in Calls : d = Head(poolQueue) /\ d # c
    BY <1>0, <1>3, SMTT(30) DEF PoolInv
  <2>2. pending'[w] = d /\ \A v \in Workers : v # w => pending'[v] = pending[v]
    BY <1>3, <2>1, Zenon DEF Dispatch, PoolInv
  <2>3. Running(pending') = (Running(pending) \ {c}) \cup {d}
    BY <1>0, <1>1, <2>1, <2>2, ZenonT(40) DEF Running
  <2>. QED BY <1>1, <1>2, <1>3, <2>1, <2>3, Zenon DEF PoolService!SettleAndTakeNext, Running, Answered
<1>4. ASSUME Dispatch(w, NoEntry), UNCHANGED poolQueue
      PROVE  PoolService!Settle(c)
  <2>1. pending'[w] = NoEntry /\ \A v \in Workers : v # w => pending'[v] = pending[v]
    BY <1>4, Zenon DEF Dispatch, PoolInv
  <2>2. Running(pending') = Running(pending) \ {c}
    BY <1>0, <1>1, <2>1, PoolAssumption, ZenonT(40) DEF Running
  <2>. QED BY <1>1, <1>2, <1>4, <2>2, ZenonT(60) DEF PoolService!Settle, Running, Answered
<1>. QED BY <1>3, <1>4, Zenon DEF OnMessage

\* An error of a worker settles the call it runs, if any.
LEMMA ErrorSettles ==
    ASSUME PoolInv, NEW w \in Workers, OnWorkerError(w)
    PROVE  IF pending[w] = NoEntry THEN UNCHANGED PoolService!serviceVars
                                   ELSE \E c \in Calls : PoolService!Settle(c)
<1>1. pending'[w] = NoEntry /\ \A v \in Workers : v # w => pending'[v] = pending[v]
  BY Zenon DEF PoolInv, OnWorkerError
<1>2. poolQueue' = poolQueue
  BY Zenon DEF OnWorkerError
<1>3. CASE pending[w] = NoEntry
  <2>1. Running(pending') = Running(pending)
    BY <1>1, <1>3, Zenon DEF Running
  <2>2. Answered(promise') = Answered(promise)
    BY <1>3, PoolAssumption, ZenonT(40) DEF Answered, OnWorkerError, PoolInv
  <2>. QED BY <1>2, <1>3, <2>1, <2>2, Zenon DEF PoolService!serviceVars, Running, Answered
<1>4. CASE pending[w] # NoEntry
  <2>0. PICK c \in Calls : c = pending[w]
    BY <1>4, ZenonT(40) DEF PoolInv
  <2>1. c \in Running(pending) /\ \A v \in Workers : v # w => pending[v] # c
    BY <2>0, <1>4, Zenon DEF PoolInv, Running
  <2>2. Running(pending') = Running(pending) \ {c}
    BY <1>1, <2>0, <2>1, PoolAssumption, ZenonT(40) DEF Running
  <2>3. Answered(promise') = Answered(promise) \cup {c}
    BY <2>0 DEF Answered, OnWorkerError, PoolInv
  <2>. QED BY <1>2, <1>4, <2>0, <2>1, <2>2, <2>3, Zenon DEF PoolService!Settle, Running, Answered
<1>. QED BY <1>3, <1>4, Zenon

LEMMA PoolServiceStep ==
    PoolInv /\ [PoolNext]_poolVars => [PoolService!ServiceNext]_(PoolService!serviceVars)
<1> SUFFICES ASSUME PoolInv, [PoolNext]_poolVars
             PROVE  [PoolService!ServiceNext]_(PoolService!serviceVars)
  BY Zenon 
<1>1. ASSUME NEW c \in Calls, EvalClosed(c) \/ EvalSaturated(c)
      PROVE  PoolService!Refuse(c)
  <2>1. Answered(promise') = Answered(promise) \cup {c}
    BY <1>1 DEF EvalClosed, EvalSaturated, Answered, PoolInv
  <2>2. c \notin PoolService!Known
    BY <1>1, NewCallIsUnknown, Zenon DEF EvalClosed, EvalSaturated
  <2>. QED BY <1>1, <2>1, <2>2, Zenon DEF EvalClosed, EvalSaturated, PoolService!Refuse, Answered
<1>2. ASSUME NEW c \in Calls, EvalIdle(c)
      PROVE  PoolService!Begin(c)
  <2>1. Answered(promise') = Answered(promise)
    BY <1>2, Zenon DEF EvalIdle, Answered, PoolInv
  <2>2. c \notin PoolService!Known
    BY <1>2, NewCallIsUnknown, Zenon DEF EvalIdle
  <2>3. PICK w \in Workers : pending[w] = NoEntry /\ pending' = [pending EXCEPT ![w] = c]
    <3>1. Len(idle) \in 1..Len(idle) /\ idle[Len(idle)] \in Workers
      BY <1>2, NilSeq DEF PoolInv, EvalIdle
    <3>2. pending[idle[Len(idle)]] = NoEntry
      BY <3>1, Zenon DEF PoolInv
    <3>. QED BY <1>2, <3>1, <3>2, Zenon DEF EvalIdle, Dispatch, Top
  <2>4. Running(pending') = Running(pending) \cup {c}
    BY <2>3, PoolAssumption DEF Running, PoolInv
  <2>5. Cardinality(Running(pending)) < Cardinality(Workers)
    BY <1>2, IdleLeavesRoom, Zenon DEF EvalIdle
  <2>. QED BY <1>2, <2>1, <2>2, <2>4, <2>5, ZenonT(60)
           DEF EvalIdle, PoolService!Begin, Answered, Running, Cardinality, PoolService!Cardinality
<1>3. ASSUME NEW c \in Calls, EvalQueued(c)
      PROVE  PoolService!Join(c)
  <2>1. Answered(promise') = Answered(promise)
    BY <1>3, Zenon DEF EvalQueued, Answered, PoolInv
  <2>2. c \notin PoolService!Known
    BY <1>3, NewCallIsUnknown, ZenonT(40) DEF EvalQueued
  <2>. QED BY <1>3, <2>1, <2>2, Zenon DEF EvalQueued, PoolService!Join, Answered
<1>4. ASSUME NEW w \in Workers, NEW how \in {"resolved", "rejected"}, OnMessage(w, how)
      PROVE  \E c \in Calls : PoolService!Settle(c) \/ PoolService!SettleAndTakeNext(c)
  BY <1>4, MessageSettles, Zenon
<1>5. ASSUME NEW w \in Workers, OnWorkerError(w)
      PROVE  (\E c \in Calls : PoolService!Settle(c)) \/ UNCHANGED PoolService!serviceVars
  BY <1>5, ErrorSettles, Zenon
<1>6. ASSUME UNCHANGED <<poolQueue, pending, promise>>
      PROVE  UNCHANGED PoolService!serviceVars
  BY <1>6, Zenon DEF PoolService!serviceVars
<1>7. ASSUME NEW c \in Calls,
             \/ PoolService!Refuse(c) \/ PoolService!Begin(c) \/ PoolService!Join(c)
             \/ PoolService!Settle(c) \/ PoolService!SettleAndTakeNext(c)
      PROVE  PoolService!ServiceNext
  BY <1>7, Zenon DEF PoolService!ServiceNext
<1>. QED BY <1>1, <1>2, <1>3, <1>4, <1>5, <1>6, <1>7, Zenon
         DEF PoolNext, Close, Terminated, poolVars

\* Every behaviour of the worker pool, errors, respawns and close included, is
\* one of the bounded first-in first-out service (eval, _onMessage and
\* _onWorkerError implement RequestService), for any number of workers, calls
\* and queue places.
THEOREM PoolImplementsService == PoolSpec => PoolIsService
BY PoolInvInit, PoolInvNext, PoolServiceStart, PoolServiceStep, PTL
   DEF PoolSpec, PoolIsService, PoolService!ServiceSpec

-----------------------------------------------------------------------------
(* No worker leaks and no caller is forgotten. *)

\* The half of EntriesMatchWorkers that PoolInv does not give.
NothingLost ==
    /\ \A w \in Workers : pending[w] = NoEntry => \E i \in 1..Len(idle) : idle[i] = w
    /\ \A c \in Calls : promise[c] = "pending" => \/ \E i \in 1..Len(poolQueue) : poolQueue[i] = c
                                                  \/ \E w \in Workers : pending[w] = c

LEMMA NothingLostStart == PoolInit => NothingLost
<1>. SUFFICES ASSUME PoolInit PROVE NothingLost
  BY Zenon 
<1>1. PICK n \in Nat : n = Cardinality(Workers)
  BY PoolAssumption, FS_CardinalityType, Zenon
<1>2. idle \in [1..n -> Workers] /\ {idle[i] : i \in 1..n} = Workers /\ Len(idle) = n
  BY <1>1 DEF PoolInit
<1>3. \A c \in Calls : promise[c] = "none"
  BY Zenon DEF PoolInit
<1>. QED BY <1>2, <1>3, ZenonT(40) DEF NothingLost

LEMMA NothingLostStep ==
    ASSUME PoolInv, NothingLost, [PoolNext]_poolVars
    PROVE  NothingLost'
<1>0. /\ DOMAIN pending = Workers /\ DOMAIN promise = Calls /\ NoEntry \notin Calls
      /\ idle \in Seq(Workers) /\ poolQueue \in Seq(Calls)
      /\ \A w \in Workers : pending[w] = NoEntry \/ pending[w] \in Calls
  BY PoolAssumption, Zenon DEF PoolInv
<1>1. ASSUME NEW c \in Calls, EvalClosed(c) \/ EvalSaturated(c)
      PROVE  NothingLost'
  <2>1. /\ promise' = [promise EXCEPT ![c] = "rejected"] /\ UNCHANGED <<idle, poolQueue, pending>>
    BY <1>1, Zenon DEF EvalClosed, EvalSaturated
  <2>. QED BY <1>0, <2>1, ZenonT(40) DEF NothingLost
<1>2. ASSUME NEW c \in Calls, EvalIdle(c)
      PROVE  NothingLost'
  <2>1. PICK n \in Nat \ {0} : n = Len(idle)
    BY <1>0, <1>2, NilSeq, ZenonT(40) DEF EvalIdle
  <2>2. PICK w \in Workers : w = idle[n]
    BY <1>0, <2>1
  <2>3. /\ pending' = [pending EXCEPT ![w] = c] /\ promise' = [promise EXCEPT ![c] = "pending"]
        /\ idle' = SubSeq(idle, 1, n - 1) /\ poolQueue' = poolQueue
    BY <1>2, <2>1, <2>2, Zenon DEF EvalIdle, Dispatch, Top, Pop
  <2>4. Len(idle') = n - 1 /\ \A i \in 1..(n - 1) : idle'[i] = idle[i]
    BY <1>0, <2>1, <2>3, SMTT(30)
  <2>5. pending[w] = NoEntry
    BY <2>1, <2>2 DEF PoolInv
  <2>6. ASSUME NEW v \in Workers, pending'[v] = NoEntry
        PROVE  \E i \in 1..Len(idle') : idle'[i] = v
    <3>1. v # w /\ pending[v] = NoEntry
      BY <1>0, <2>3, <2>6, Zenon
    <3>2. PICK i \in 1..n : idle[i] = v
      BY <2>1, <3>1, ZenonT(40) DEF NothingLost
    <3>. QED BY <2>2, <2>4, <3>1, <3>2, SMTT(30)
  <2>7. ASSUME NEW d \in Calls, promise'[d] = "pending"
        PROVE  (\E i \in 1..Len(poolQueue) : poolQueue[i] = d) \/ \E v \in Workers : pending'[v] = d
    <3>1. CASE d = c
      BY <1>0, <2>3, <3>1, ZenonT(40)
    <3>2. CASE d # c
      BY <1>0, <2>3, <2>5, <2>7, <3>2, ZenonT(40) DEF NothingLost
    <3>. QED BY <3>1, <3>2, ZenonT(40)
  <2>. QED BY <2>3, <2>6, <2>7, ZenonT(40) DEF NothingLost
<1>3. ASSUME NEW c \in Calls, EvalQueued(c)
      PROVE  NothingLost'
  <2>1. /\ poolQueue' = Append(poolQueue, c) /\ promise' = [promise EXCEPT ![c] = "pending"]
        /\ UNCHANGED <<idle, pending>>
    BY <1>3, Zenon DEF EvalQueued
  <2>2. /\ Len(poolQueue') = Len(poolQueue) + 1 /\ poolQueue'[Len(poolQueue) + 1] = c
        /\ \A i \in 1..Len(poolQueue) : poolQueue'[i] = poolQueue[i]
    BY <1>0, <2>1
  <2>3. Len(poolQueue) \in Nat
    BY <1>0
  <2>. QED BY <1>0, <2>1, <2>2, <2>3 DEF NothingLost
<1>4. ASSUME NEW w \in Workers, NEW how \in {"resolved", "rejected"}, OnMessage(w, how)
      PROVE  NothingLost'
  <2>0. PICK c \in Calls : c = pending[w] /\ c # NoEntry
    BY <1>0, <1>4, Zenon DEF OnMessage
  <2>1. promise' = [promise EXCEPT ![c] = how]
    BY <1>4, <2>0, Zenon DEF OnMessage
  <2>2. \A d \in Calls : promise'[d] = "pending" => promise[d] = "pending" /\ d # c
    BY <1>0, <2>1, Zenon
  <2>3. ASSUME poolQueue # <<>>, Dispatch(w, Head(poolQueue)), poolQueue' = Tail(poolQueue), UNCHANGED idle
        PROVE  NothingLost'
    <3>1. PICK n \in Nat : n + 1 = Len(poolQueue)
      <4>1. Len(poolQueue) \in Nat \ {0}
        BY <1>0, <2>3, NilSeq, Zenon
      <4>2. Len(poolQueue) - 1 \in Nat
        BY <4>1, SMTT(30)
      <4>. QED BY <4>1, <4>2, SMTT(30)
    <3>2. /\ Len(poolQueue') = n /\ \A i \in 1..n : poolQueue'[i] = poolQueue[i + 1]
          /\ Head(poolQueue) = poolQueue[1] /\ poolQueue[1] \in Calls
      BY <1>0, <2>3, <3>1, SMTT(30)
    <3>3. pending'[w] = poolQueue[1] /\ \A v \in Workers : v # w => pending'[v] = pending[v]
      BY <1>0, <2>3, <3>2, ZenonT(40) DEF Dispatch
    <3>4. ASSUME NEW d \in Calls, promise'[d] = "pending"
          PROVE  (\E i \in 1..n : poolQueue'[i] = d) \/ \E v \in Workers : pending'[v] = d
      <4>1. (\E i \in 1..(n + 1) : poolQueue[i] = d) \/ \E v \in Workers : pending[v] = d
        BY <2>2, <3>1, <3>4, Zenon DEF NothingLost
      <4>2. ASSUME NEW i \in 1..(n + 1), poolQueue[i] = d, i # 1
            PROVE  \E k \in 1..n : poolQueue'[k] = d
        <5>1. i - 1 \in 1..n /\ poolQueue'[i - 1] = d
          BY <3>2, <4>2, SMTT(30)
        <5>. QED BY <5>1, Zenon
      <4>. QED BY <2>0, <2>2, <3>3, <3>4, <4>1, <4>2, ZenonT(40)
    <3>. QED BY <1>0, <2>3, <3>2, <3>3, <3>4, SMTT(30) DEF NothingLost
  <2>4. ASSUME poolQueue = <<>>, Dispatch(w, NoEntry), idle' = Append(idle, w), UNCHANGED poolQueue
        PROVE  NothingLost'
    <3>1. pending'[w] = NoEntry /\ \A v \in Workers : v # w => pending'[v] = pending[v]
      BY <1>0, <2>4, ZenonT(40) DEF Dispatch
    <3>2. /\ Len(idle) \in Nat /\ Len(idle') = Len(idle) + 1 /\ idle'[Len(idle) + 1] = w
          /\ \A i \in 1..Len(idle) : idle'[i] = idle[i]
      BY <1>0, <2>4, SMTT(30)
    <3>. QED BY <2>0, <2>2, <2>4, <3>1, <3>2, SMTT(30) DEF NothingLost
  <2>. QED BY <1>4, <2>3, <2>4, Zenon DEF OnMessage
<1>5. ASSUME NEW w \in Workers, OnWorkerError(w)
      PROVE  NothingLost'
  <2>1. PICK t : t = Spliced(idle, w)
    BY Zenon
  <2>2. /\ t \in Seq(Workers)
        /\ \A k \in 1..Len(idle) : idle[k] # w => \E i \in 1..Len(t) : t[i] = idle[k]
    <3>1. IsWithout(t, idle, w)
      BY <2>1, SplicedFacts, Zenon DEF PoolInv
    <3>. QED BY <3>1, Zenon DEF IsWithout
  <2>3. /\ pending' = [pending EXCEPT ![w] = NoEntry] /\ idle' = Append(t, w) /\ UNCHANGED poolQueue
        /\ promise' = [c \in Calls |-> IF c = pending[w] THEN "rejected" ELSE promise[c]]
    BY <1>5, <2>1, Zenon DEF OnWorkerError
  <2>4. /\ Len(t) \in Nat /\ Len(idle') = Len(t) + 1 /\ idle'[Len(t) + 1] = w
        /\ \A i \in 1..Len(t) : idle'[i] = t[i]
    BY <2>2, <2>3, SMTT(30)
  <2>5. pending'[w] = NoEntry /\ \A v \in Workers : v # w => pending'[v] = pending[v]
    BY <1>0, <2>3, ZenonT(40)
  <2>6. \A d \in Calls : promise'[d] = "pending" => promise[d] = "pending" /\ d # pending[w]
    BY <2>3, Zenon
  <2>7. ASSUME NEW v \in Workers, v # w, pending[v] = NoEntry
        PROVE  \E i \in 1..(Len(t) + 1) : idle'[i] = v
    <3>1. PICK k \in 1..Len(idle) : idle[k] = v
      BY <2>7, Zenon DEF NothingLost
    <3>2. PICK i \in 1..Len(t) : t[i] = v
      BY <2>2, <2>7, <3>1, ZenonT(40)
    <3>. QED BY <2>4, <3>2, SMTT(30)
  <2>8. \E i \in 1..(Len(t) + 1) : idle'[i] = w
    BY <2>4, SMTT(30)
  <2>9. \A v \in Workers : pending'[v] = NoEntry => \E i \in 1..Len(idle') : idle'[i] = v
    BY <2>4, <2>5, <2>7, <2>8, ZenonT(40)
  <2>. QED BY <2>3, <2>5, <2>6, <2>9, SMTT(30) DEF NothingLost
<1>6. ASSUME UNCHANGED <<idle, poolQueue, pending, promise>>
      PROVE  NothingLost'
  BY <1>6, Zenon DEF NothingLost
<1>. QED BY <1>1, <1>2, <1>3, <1>4, <1>5, <1>6, Zenon DEF PoolNext, Close, Terminated, poolVars

\* No history of calls, answers, worker errors and close leaves a worker off
\* the stack with nothing to run, or a caller waiting for a call that is
\* neither queued nor run.
THEOREM PoolLosesNothing == PoolSpec => []EntriesMatchWorkers
<1>1. PoolInv /\ NothingLost => EntriesMatchWorkers
  <2>. SUFFICES ASSUME PoolInv, NothingLost PROVE EntriesMatchWorkers
    BY Zenon 
  <2>1. \A i \in 1..Len(idle) : pending[idle[i]] = NoEntry
    BY Zenon DEF PoolInv
  <2>2. \A c \in Calls : \A w \in Workers : pending[w] = c => promise[c] = "pending"
    BY PoolAssumption, Zenon DEF PoolInv
  <2>3. \A i \in 1..Len(poolQueue) : promise[poolQueue[i]] = "pending"
    BY Zenon DEF PoolInv
  <2>4. \A i, k \in 1..Len(idle) : idle[i] = idle[k] => i = k
    BY Zenon DEF PoolInv
  <2>. QED BY <2>1, <2>2, <2>3, <2>4, ZenonT(40) DEF NothingLost, EntriesMatchWorkers
<1>. QED BY <1>1, PoolInvInit, PoolInvNext, NothingLostStart, NothingLostStep, PTL DEF PoolSpec

-----------------------------------------------------------------------------
(* The results the coordinator goes on to sign. *)

\* A field of all entries of a table holds a number.
Numbers(table, field) ==
  table = [j \in Jobs |-> table[j]] /\ \A j \in Jobs : table[j][field] \in Int

LEMMA NumbersUpdate ==
  ASSUME NEW table, NEW field, Numbers(table, field), NEW i \in Jobs, NEW row, row[field] \in Int
  PROVE  Numbers([table EXCEPT ![i] = row], field)
<1>1. table = [j \in Jobs |-> table[j]] /\ \A j \in Jobs : table[j][field] \in Int
  BY Zenon DEF Numbers
<1>2. [table EXCEPT ![i] = row] = [j \in Jobs |-> IF j = i THEN row ELSE table[j]]
  BY <1>1, Zenon
<1>. QED BY <1>1, <1>2, Zenon DEF Numbers

\* The scores and the thresholds a verdict compares are numbers.
ScoreInv ==
  /\ live \in [context : Int, threshold : Int, moves : Int]
  /\ Numbers(job, "threshold") /\ Numbers(reply, "score")

LEMMA ScoreInvInit == ScorerInit => ScoreInv
<1>. SUFFICES ASSUME ScorerInit PROVE ScoreInv
  BY Zenon 
<1>1. NoJob["threshold"] \in Int /\ NoReply["score"] \in Int
  BY DEF NoJob, NoReply
<1>2. Numbers([j \in Jobs |-> NoJob], "threshold") /\ Numbers([j \in Jobs |-> NoReply], "score")
  BY <1>1, Zenon DEF Numbers
<1>. QED BY <1>2, SMTT(30) DEF ScorerInit, ScoreInv

LEMMA ScoreInvNext == ScoreInv /\ [ScorerNext]_scorerVars => ScoreInv'
<1>. SUFFICES ASSUME ScoreInv, [ScorerNext]_scorerVars PROVE ScoreInv'
  OBVIOUS
<1>1. ASSUME NEW j \in Jobs, NEW d \in JobDefects, EnqueueFull(j, d) \/ EnqueueAndStart(j, d) \/ Enqueue(j, d)
      PROVE  ScoreInv'
  <2>1. /\ job' = [job EXCEPT ![j] = [context |-> live.context, threshold |-> live.threshold, defect |-> d]]
        /\ UNCHANGED live
        /\ UNCHANGED reply \/ reply' = [reply EXCEPT ![j] = [NoReply EXCEPT !.status = 503]]
    BY <1>1, Zenon DEF EnqueueFull, EnqueueAndStart, Enqueue, Ship
  <2>2. [context |-> live.context, threshold |-> live.threshold, defect |-> d]["threshold"] \in Int
    BY DEF ScoreInv
  <2>3. [NoReply EXCEPT !.status = 503]["score"] \in Int
    BY DEF NoReply
  <2>4. Numbers(job', "threshold")
    BY <2>1, <2>2, NumbersUpdate, ZenonT(60) DEF ScoreInv
  <2>5. Numbers(reply', "score")
    <3>1. Numbers([reply EXCEPT ![j] = [NoReply EXCEPT !.status = 503]], "score")
      <4>1. PICK row : row = [NoReply EXCEPT !.status = 503] /\ row["score"] \in Int
        BY <2>3, Zenon
      <4>2. Numbers([reply EXCEPT ![j] = row], "score")
        <5>1. Numbers(reply, "score")
          BY Zenon DEF ScoreInv
        <5>. QED BY <4>1, <5>1, NumbersUpdate, ZenonT(60)
      <4>. QED BY <4>1, <4>2
    <3>. QED BY <2>1, <3>1, ZenonT(60) DEF ScoreInv
  <2>. QED BY <2>1, <2>4, <2>5 DEF ScoreInv
<1>2. ASSUME NEW j \in Jobs, JobStep(j) PROVE ScoreInv'
  <2>1. PICK rep : /\ UNCHANGED <<job, live>>
                   /\ UNCHANGED reply \/ (rep["score"] \in Int /\ reply' = [reply EXCEPT ![j] = rep])
    <3>1. CASE ScorePairs(j)
      BY <3>1, Zenon DEF ScorePairs
    <3>2. CASE Refused(j)
      <4>1. [NoReply EXCEPT !.status = Status(job[j].defect)]["score"] \in Int
        BY DEF NoReply
      <4>. QED BY <3>2, <4>1, Zenon DEF Refused, Release
    <3>3. CASE Threw(j)
      <4>1. [NoReply EXCEPT !.status = 500]["score"] \in Int
        BY DEF NoReply
      <4>. QED BY <3>3, <4>1, ZenonT(60) DEF Threw, Release
    <3>4. ASSUME NEW s \in 0..MaxScore, Returned(j, s)
          PROVE  \E rep : /\ UNCHANGED <<job, live>>
                          /\ UNCHANGED reply \/ (rep["score"] \in Int /\ reply' = [reply EXCEPT ![j] = rep])
      <4>1. [status |-> 200, score |-> s, trace |-> trace]["score"] \in Int
        BY ScorerAssumption
      <4>. QED BY <3>4, <4>1, ZenonT(60) DEF Returned, Release
    <3>. QED BY <1>2, <3>1, <3>2, <3>3, <3>4, Zenon DEF JobStep
  <2>2. Numbers(reply', "score")
    BY <2>1, NumbersUpdate DEF ScoreInv
  <2>. QED BY <2>1, <2>2 DEF ScoreInv
<1>3. ASSUME NEW j \in Jobs, GiveUp(j) PROVE ScoreInv'
  BY <1>3 DEF GiveUp, ScoreInv
<1>4. ASSUME NEW j \in Jobs, ReadAnswer(j) PROVE ScoreInv'
  <2>1. reply' = [reply EXCEPT ![j] = NoReply] /\ job' = [job EXCEPT ![j] = NoJob] /\ UNCHANGED live
    BY <1>4, Zenon DEF ReadAnswer
  <2>2. NoJob["threshold"] \in Int /\ NoReply["score"] \in Int
    BY DEF NoJob, NoReply
  <2>3. Numbers(job', "threshold") /\ Numbers(reply', "score")
    BY <2>1, <2>2, NumbersUpdate, Zenon DEF ScoreInv
  <2>. QED BY <2>1, <2>3 DEF ScoreInv
<1>5. CASE Move
  <2>1. live' = [live EXCEPT !.context = @ + 1, !.moves = @ + 1] /\ UNCHANGED <<job, reply>>
    BY <1>5, Zenon DEF Move
  <2>2. live' = [context |-> live.context + 1, threshold |-> live.threshold, moves |-> live.moves + 1]
    BY <2>1, Zenon DEF ScoreInv
  <2>. QED BY <2>1, <2>2 DEF ScoreInv
<1>6. ASSUME NEW t \in 0..MaxScore, Retune(t) PROVE ScoreInv'
  <2>1. live' = [live EXCEPT !.threshold = t, !.moves = @ + 1] /\ UNCHANGED <<job, reply>>
    BY <1>6, Zenon DEF Retune
  <2>2. live' = [context |-> live.context, threshold |-> t, moves |-> live.moves + 1]
    BY <2>1, ZenonT(60) DEF ScoreInv
  <2>. QED BY <2>1, <2>2, ScorerAssumption DEF ScoreInv
<1>7. CASE UNCHANGED scorerVars
  BY <1>7 DEF scorerVars, ScoreInv
<1>. QED BY <1>1, <1>2, <1>3, <1>4, <1>5, <1>6, <1>7, Zenon DEF ScorerNext

\* Whatever moved between the dispatch of a job and the reading of its answer,
\* a result becomes signable only under the context that is live then and at
\* or above both thresholds (verifyScorerResult).
THEOREM VerifiedUnderLive == ScorerSpec => VerifiedIsLive
<1>. DEFINE Checked == \A j \in signable' \ signable :
                         /\ job[j].context = live.context
                         /\ reply[j].score >= live.threshold
                         /\ reply[j].score >= job[j].threshold
<1>1. ASSUME ScoreInv, ScorerNext PROVE Checked
  <2>1. ASSUME NEW j \in Jobs, ReadAnswer(j) PROVE Checked
    <3>1. signable' = IF reply[j].status = 200 /\ VerifyScorerResult(j) = "ok" THEN signable \cup {j} ELSE signable
      BY <2>1, Zenon DEF ReadAnswer
    <3>2. VerifyScorerResult(j) = "ok" => /\ job[j].context = live.context
                                          /\ reply[j].score >= live.threshold
                                          /\ reply[j].score >= job[j].threshold
      <4>1. reply[j].score \in Int /\ job[j].threshold \in Int /\ live.threshold \in Int
        BY <1>1 DEF ScoreInv, Numbers
      <4>. QED BY <4>1 DEF VerifyScorerResult
    <3>. QED BY <3>1, <3>2
  <2>2. \/ UNCHANGED signable
        \/ \E j \in Jobs : ReadAnswer(j)
    BY <1>1, ZenonT(60) DEF ScorerNext, EnqueueFull, EnqueueAndStart, Enqueue, Ship, JobStep, ScorePairs,
         Refused, Returned, Threw, GiveUp, Move, Retune
  <2>3. CASE UNCHANGED signable
    BY <2>3, SMTT(30)
  <2>. QED BY <2>1, <2>2, <2>3, Zenon
<1>2. ScoreInv /\ [ScorerNext]_scorerVars => [Checked]_scorerVars
  BY <1>1
<1>. QED BY <1>2, ScoreInvInit, ScoreInvNext, PTL DEF ScorerSpec, VerifiedIsLive
=============================================================================
