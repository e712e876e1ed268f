-------------------------- MODULE Platform_proofs ---------------------------
(***************************************************************************)
(* The epoch pipeline, the thresholds and scorePatch with its stores, for  *)
(* any number of epochs, runs, calls and patches and a stop between any    *)
(* two writes.                                                             *)
(***************************************************************************)
EXTENDS EpochEvolve, Difficulty, Evaluator, BonusEpoch, Sums_proofs, TLAPS
-----------------------------------------------------------------------------
(* The files and objects that thread one epoch into the next. *)

Early == {"evolve", "frontier", "artifacts", "logical"}
Late == {"checkpoint", "delta", "rotation"}

Bound(r) == ledger[r].bound

\* The running one: its epoch has no status yet; before its checkpoint it is
\* ahead of every bound run, and after it it is the checkpoint.
RunningInv ==
    evolveStep # "idle" =>
      /\ runs \in Runs /\ status[Running] = NoRun
      /\ evolveStep \in Early =>
           /\ ~Bound(runs)
           /\ Running # 1 => \A r \in 1..runs : Bound(r) => ledger[r].epoch < Running
      /\ evolveStep \in Late => checkpoint = runs
      /\ evolveStep \notin {"evolve", "frontier"} => epochArtifacts[Running] = runs

\* The checkpoint is a bound run and none is ahead of it.
CheckpointInv ==
    checkpoint # NoRun =>
      /\ checkpoint \in 1..runs /\ Bound(checkpoint)
      /\ \A r \in 1..runs : Bound(r) => ledger[r].epoch <= ledger[checkpoint].epoch
      /\ ledger[checkpoint].epoch = 1 /\ status[1] # NoRun => checkpoint = status[1]

\* A run after the launch was made from the corpus of the pinned context.
LedgerInv ==
    \A r \in 1..runs :
      /\ ledger[r].epoch \in Epochs
      /\ ledger[r].epoch # 1 => /\ status[1] # NoRun
                                /\ context[ledger[r].epoch - 1] # NoRun
                                /\ ledger[r].corpus = context[ledger[r].epoch - 1]

\* A status names a bound run of its epoch, both of whose objects are in the
\* bucket; a context is its epoch's status.
PublishedInv ==
    \A e \in Epochs :
      /\ status[e] # NoRun =>
           /\ status[e] \in 1..runs /\ Bound(status[e]) /\ ledger[status[e]].epoch = e
           /\ bucket[e] = [delta |-> status[e], rotation |-> status[e]]
      /\ context[e] # NoRun => context[e] = status[e]

EvolveInv ==
    /\ EvolveTypeOK /\ RunningInv /\ CheckpointInv /\ LedgerInv /\ PublishedInv
    /\ ThreadedFromOne /\ NoForkedEpoch

LEMMA EvolveInvInit == EvolveInit => EvolveInv
<1> SUFFICES ASSUME EvolveInit PROVE EvolveInv
  BY Zenon 
<1>1. NoEntryYet \in Entry /\ [delta |-> NoRun, rotation |-> NoRun] \in Objects
  BY Zenon DEF NoEntryYet, Entry, Objects, OrNone
<1>2. EvolveTypeOK
  BY <1>1, EvolveAssumption DEF EvolveInit, EvolveTypeOK, EvolveSteps, OrNone
<1>3. 1..0 = {}
  OBVIOUS
<1>. QED
  BY <1>2, <1>3, Zenon DEF EvolveInit, EvolveInv, RunningInv, CheckpointInv, LedgerInv, PublishedInv,
     ThreadedFromOne, NoForkedEpoch

\* A run starts: of the launch epoch, or of the epoch after the checkpoint's,
\* reading what the checkpoint binds.
LEMMA StartKeepsEvolveInv ==
    ASSUME EvolveInv, NEW entry \in Entry, Start(entry),
           entry.epoch \in Epochs, ~entry.bound, status[entry.epoch] = NoRun,
           entry.epoch # 1 =>
             /\ checkpoint # NoRun /\ ledger[checkpoint].epoch = entry.epoch - 1
             /\ entry.logical = checkpoint /\ entry.frontier = checkpoint /\ entry.corpus = checkpoint
             /\ context[entry.epoch - 1] # NoRun
    PROVE  EvolveInv'
<1> DEFINE e == entry.epoch
           new == runs + 1
<1>0. /\ evolveStep = "idle" /\ evolveStep' = "evolve" /\ runs' = new /\ new \in Runs
      /\ ledger' = [ledger EXCEPT ![new] = entry]
      /\ UNCHANGED <<frontierState, logicalState, checkpoint, corpora, epochArtifacts, bucket, status, context>>
  BY EvolveAssumption DEF Start, EvolveInv, EvolveTypeOK, Runs
<1>1. /\ runs \in Nat /\ new \in 1..new /\ new \notin 1..runs /\ ledger'[new] = entry
      /\ \A r \in 1..runs : r \in 1..new /\ r # new /\ r \in Runs /\ ledger'[r] = ledger[r]
      /\ \A r \in 1..new : r # new => r \in 1..runs
  <2>1. runs \in Nat /\ MaxRuns \in Nat /\ runs + 1 <= MaxRuns
    BY <1>0, EvolveAssumption DEF EvolveInv, EvolveTypeOK, Runs
  <2>2. /\ new \in 1..new /\ new \notin 1..runs
        /\ \A r \in 1..runs : r \in 1..new /\ r # new /\ r \in Runs
        /\ \A r \in 1..new : r # new => r \in 1..runs
    BY <2>1 DEF Runs
  <2> HIDE DEF new
  <2>3. ledger \in [Runs -> Entry]
    BY Zenon DEF EvolveInv, EvolveTypeOK
  <2>. QED
    BY <1>0, <2>1, <2>2, <2>3, Zenon
<1> HIDE DEF new
<1>2. EvolveTypeOK'
  BY <1>0 DEF EvolveInv, EvolveTypeOK, EvolveSteps, Runs, new
<1>3. e # 1 => e \in Int /\ e - 1 \in Epochs /\ e >= 2
  BY EvolveAssumption DEF Epochs
<1>4. \A r \in 1..runs : ledger[r].epoch \in Int /\ ledger[r].epoch >= 1
  BY DEF EvolveInv, LedgerInv, Epochs
<1>5. RunningInv'
  <2>1. e # 1 => \A r \in 1..runs : Bound(r) => ledger[r].epoch < e
    BY <1>3, <1>4 DEF EvolveInv, CheckpointInv
  <2>. QED
    BY <1>0, <1>1, <2>1 DEF RunningInv, Running, Bound, Early, Late
<1>6. CheckpointInv'
  BY <1>0, <1>1 DEF EvolveInv, CheckpointInv, Bound
<1>7. PublishedInv'
  BY <1>0, <1>1 DEF EvolveInv, PublishedInv, Bound
<1>8. e # 1 => /\ checkpoint \in 1..runs /\ Bound(checkpoint) /\ checkpoint = context[e - 1]
               /\ status[1] # NoRun
  <2> SUFFICES ASSUME e # 1
               PROVE  checkpoint \in 1..runs /\ Bound(checkpoint) /\ checkpoint = context[e - 1]
                      /\ status[1] # NoRun
    BY Zenon 
  <2>1. /\ checkpoint \in 1..runs /\ Bound(checkpoint) /\ e - 1 \in Epochs /\ 1 \in Epochs
        /\ context[e - 1] = status[e - 1] /\ status[e - 1] # NoRun
        /\ status[e - 1] \in 1..runs /\ Bound(status[e - 1]) /\ ledger[status[e - 1]].epoch = e - 1
    <3>1. e - 1 \in Epochs /\ 1 \in Epochs
      BY <1>3, EvolveAssumption DEF Epochs
    <3>2. checkpoint \in 1..runs /\ Bound(checkpoint)
      BY Zenon DEF EvolveInv, CheckpointInv
    <3>3. context[e - 1] # NoRun
      BY Zenon 
    <3>. QED
      BY <3>1, <3>2, <3>3, Zenon DEF EvolveInv, PublishedInv
  <2>2. CASE e - 1 = 1
    BY <2>1, <2>2, Zenon DEF EvolveInv, CheckpointInv
  <2>3. CASE e - 1 # 1
    BY <2>1, <2>3, Zenon DEF EvolveInv, NoForkedEpoch, LedgerInv, Bound
  <2>. QED
    BY <2>2, <2>3, Zenon
<1>9. LedgerInv'
  BY <1>0, <1>1, <1>8 DEF EvolveInv, LedgerInv
<1>10. ThreadedFromOne'
  <2> SUFFICES ASSUME NEW r \in 1..new, ledger'[r].epoch # 1
               PROVE  \E u \in 1..new : /\ ledger'[r].logical = u /\ ledger'[r].frontier = u
                                        /\ ledger'[r].corpus = u /\ ledger'[u].bound
                                        /\ ledger'[u].epoch = ledger'[r].epoch - 1
    BY <1>0, Zenon DEF ThreadedFromOne
  <2>1. CASE r = new
    BY <1>1, <1>8, <2>1, Zenon DEF Bound
  <2>2. CASE r # new
    <3>1. r \in 1..runs /\ ledger'[r] = ledger[r]
      BY <1>1, <2>2, Zenon
    <3>2. PICK u \in 1..runs : /\ ledger[r].logical = u /\ ledger[r].frontier = u
                               /\ ledger[r].corpus = u /\ ledger[u].bound
                               /\ ledger[u].epoch = ledger[r].epoch - 1
      BY <3>1, Zenon DEF EvolveInv, ThreadedFromOne
    <3>. QED
      BY <1>1, <3>1, <3>2
  <2>. QED
    BY <2>1, <2>2, Zenon
<1>11. NoForkedEpoch'
  BY <1>0, <1>1 DEF EvolveInv, NoForkedEpoch
<1>. QED
  BY <1>2, <1>5, <1>6, <1>7, <1>9, <1>10, <1>11, Zenon DEF EvolveInv

\* While a run is at work its epoch is one, and the launch epoch has no status
\* if the run is a launch: then every run so far was one.
LEMMA RunningFacts ==
    ASSUME EvolveInv, evolveStep # "idle"
    PROVE  /\ runs \in Runs /\ runs \in 1..runs /\ Running \in Epochs /\ status[Running] = NoRun
           /\ Running = 1 => \A r \in 1..runs : ledger[r].epoch = 1
<1>1. runs \in Runs /\ status[Running] = NoRun
  BY Zenon DEF EvolveInv, RunningInv
<1>2. runs \in 1..runs
  BY <1>1, EvolveAssumption, SMTT(30) DEF Runs
<1>. QED
  BY <1>1, <1>2, Zenon DEF EvolveInv, LedgerInv, Running

\* The writes that leave the ledger, the checkpoint, the bucket and what is
\* published alone.
LEMMA QuietKeepsEvolveInv ==
    ASSUME EvolveInv, UNCHANGED <<runs, ledger, checkpoint, bucket, status, context>>,
           EvolveTypeOK', RunningInv'
    PROVE  EvolveInv'
BY DEF EvolveInv, CheckpointInv, LedgerInv, PublishedInv, ThreadedFromOne, NoForkedEpoch, Bound

LEMMA WritesKeepEvolveInv ==
    ASSUME EvolveInv, WriteFrontier \/ WriteArtifacts \/ WriteLogical \/ Stop
    PROVE  EvolveInv'
<1>0. /\ UNCHANGED <<runs, ledger, checkpoint, bucket, status, context, corpora>>
      /\ evolveStep # "idle"
  BY Zenon DEF WriteFrontier, WriteArtifacts, WriteLogical, Stop, At
<1>1. runs \in Runs /\ Running \in Epochs
  BY <1>0, RunningFacts, Zenon
<1>2. EvolveTypeOK'
  <2>1. EvolveTypeOK /\ runs \in OrNone(Runs)
    BY <1>1, Zenon DEF EvolveInv, OrNone
  <2>. QED
    BY <1>0, <1>1, <2>1, Zenon
       DEF EvolveTypeOK, WriteFrontier, WriteArtifacts, WriteLogical, Stop, At, EvolveSteps
<1>3. RunningInv'
  <2>1. CASE WriteArtifacts
    <3>1. epochArtifacts'[Running] = runs
      BY <1>1, <2>1, Zenon DEF WriteArtifacts, EvolveInv, EvolveTypeOK
    <3>. QED
      BY <1>0, <2>1, <3>1, Zenon DEF WriteArtifacts, At, EvolveInv, RunningInv, Running, Bound, Early, Late
  <2>2. CASE WriteFrontier \/ WriteLogical \/ Stop
    BY <1>0, <2>2, Zenon DEF WriteFrontier, WriteLogical, Stop, At, EvolveInv, RunningInv, Running, Bound,
       Early, Late
  <2>. QED
    BY <2>1, <2>2, Zenon
<1>. QED
  BY <1>0, <1>2, <1>3, QuietKeepsEvolveInv, Zenon

LEMMA MaterializeKeepsEvolveInv ==
    ASSUME EvolveInv, NEW e \in Epochs, Materialize(e)
    PROVE  EvolveInv'
<1>1. /\ UNCHANGED <<runs, ledger, evolveStep, frontierState, logicalState, checkpoint, epochArtifacts,
                     bucket, status, context>>
      /\ epochArtifacts[e] # NoRun /\ corpora' = corpora \cup {epochArtifacts[e]}
  BY Zenon DEF Materialize
<1>2. EvolveTypeOK'
  BY <1>1, Zenon DEF EvolveInv, EvolveTypeOK, OrNone
<1>3. RunningInv'
  BY <1>1, Zenon DEF EvolveInv, RunningInv, Running, Bound
<1>. QED
  BY <1>1, <1>2, <1>3, QuietKeepsEvolveInv, Zenon

LEMMA CheckpointKeepsEvolveInv ==
    ASSUME EvolveInv, WriteCheckpoint
    PROVE  EvolveInv'
<1>0. /\ evolveStep = "logical" /\ evolveStep' = "checkpoint" /\ checkpoint' = runs
      /\ ledger' = [ledger EXCEPT ![runs].bound = TRUE]
      /\ UNCHANGED <<runs, frontierState, logicalState, corpora, epochArtifacts, bucket, status, context>>
  BY Zenon DEF WriteCheckpoint, At
<1>1. /\ runs \in Runs /\ runs \in 1..runs /\ Running \in Epochs /\ status[Running] = NoRun
      /\ Running = 1 => \A r \in 1..runs : ledger[r].epoch = 1
  BY <1>0, RunningFacts, Zenon
<1>2. /\ ledger \in [Runs -> Entry] /\ ledger[runs] \in Entry
  BY <1>1, Zenon DEF EvolveInv, EvolveTypeOK
<1>3. /\ ledger' \in [Runs -> Entry] /\ ledger'[runs].bound
      /\ \A r \in Runs : /\ ledger'[r].epoch = ledger[r].epoch /\ ledger'[r].corpus = ledger[r].corpus
                         /\ ledger'[r].logical = ledger[r].logical
                         /\ ledger'[r].frontier = ledger[r].frontier
                         /\ r # runs => ledger'[r].bound = ledger[r].bound
  <2>1. ledger' = [ledger EXCEPT ![runs] = [ledger[runs] EXCEPT !.bound = TRUE]]
    BY <1>0, <1>1, <1>2, Zenon
  <2> DEFINE new == [ledger[runs] EXCEPT !.bound = TRUE]
  <2>2. /\ new \in Entry /\ new.bound /\ new.epoch = ledger[runs].epoch
        /\ new.corpus = ledger[runs].corpus /\ new.logical = ledger[runs].logical
        /\ new.frontier = ledger[runs].frontier
    BY <1>2, Zenon DEF Entry
  <2> HIDE DEF new
  <2>3. \A r \in Runs : ledger'[r] = IF r = runs THEN new ELSE ledger[r]
    BY <1>1, <1>2, <2>1, Zenon DEF new
  <2>4. ledger' \in [Runs -> Entry]
    BY <1>2, <2>1, <2>2, Zenon DEF new
  <2>. QED
    BY <1>1, <2>2, <2>3, <2>4, Zenon
<1>4. \A r \in 1..runs : r \in Runs /\ ledger[r].epoch \in Int
  BY <1>1, EvolveAssumption DEF Runs, EvolveInv, LedgerInv, Epochs
<1>5. EvolveTypeOK'
  BY <1>0, <1>1, <1>3, Zenon DEF EvolveInv, EvolveTypeOK, EvolveSteps, OrNone
<1>6. RunningInv'
  BY <1>0, <1>1, <1>3, Zenon DEF EvolveInv, RunningInv, Running, Bound, Early, Late
<1>7. \A r \in 1..runs : Bound(r) => r # runs /\ (ledger[r].epoch < Running \/ Running = 1)
  BY <1>0, Zenon DEF EvolveInv, RunningInv, Bound, Early
<1>8. CheckpointInv'
  <2>1. \A r \in 1..runs : Bound(r)' => ledger'[r].epoch <= ledger'[runs].epoch
    BY <1>1, <1>3, <1>4, <1>7 DEF Bound, Running
  <2>2. ledger'[runs].epoch = 1 => status'[1] = NoRun
    BY <1>0, <1>1, <1>3, Zenon DEF Running
  <2>3. Bound(runs)'
    BY <1>0, <1>3, Zenon DEF Bound
  <2>. QED
    BY <1>0, <1>1, <2>1, <2>2, <2>3, Zenon DEF CheckpointInv, Bound
<1>9. LedgerInv'
  BY <1>0, <1>3, <1>4 DEF EvolveInv, LedgerInv
<1>10. PublishedInv'
  BY <1>0, <1>3, <1>4 DEF EvolveInv, PublishedInv, Bound
<1>11. ThreadedFromOne'
  <2> SUFFICES ASSUME NEW r \in 1..runs, ledger'[r].epoch # 1
               PROVE  \E u \in 1..runs : /\ ledger'[r].logical = u /\ ledger'[r].frontier = u
                                         /\ ledger'[r].corpus = u /\ ledger'[u].bound
                                         /\ ledger'[u].epoch = ledger'[r].epoch - 1
    BY <1>0, Zenon DEF ThreadedFromOne
  <2>1. PICK u \in 1..runs : /\ ledger[r].logical = u /\ ledger[r].frontier = u
                             /\ ledger[r].corpus = u /\ ledger[u].bound
                             /\ ledger[u].epoch = ledger[r].epoch - 1
    BY <1>3, <1>4, ZenonT(40) DEF EvolveInv, ThreadedFromOne
  <2>. QED
    BY <1>3, <1>4, <2>1
<1>12. NoForkedEpoch'
  <2> SUFFICES ASSUME NEW r \in 1..runs, NEW t \in 1..runs, ledger'[r].bound, ledger'[t].bound,
                      ledger'[r].epoch = ledger'[t].epoch, ledger'[r].epoch # 1
               PROVE  r = t
    BY <1>0, Zenon DEF NoForkedEpoch
  <2>1. ledger[r].epoch = ledger[t].epoch /\ ledger[r].epoch # 1
    BY <1>3, <1>4, Zenon
  <2>2. CASE r # runs /\ t # runs
    BY <1>3, <1>4, <2>1, <2>2, Zenon DEF EvolveInv, NoForkedEpoch
  <2>3. CASE r = runs /\ t # runs
    BY <1>1, <1>3, <1>4, <1>7, <2>1, <2>3, SMTT(30) DEF Running, Bound
  <2>4. CASE r # runs /\ t = runs
    BY <1>1, <1>3, <1>4, <1>7, <2>1, <2>4, SMTT(30) DEF Running, Bound
  <2>. QED
    BY <2>2, <2>3, <2>4, Zenon
<1>. QED
  BY <1>5, <1>6, <1>8, <1>9, <1>10, <1>11, <1>12, Zenon DEF EvolveInv

LEMMA UploadsKeepEvolveInv ==
    ASSUME EvolveInv, UploadDelta \/ UploadRotation
    PROVE  EvolveInv'
<1>0. /\ UNCHANGED <<runs, ledger, frontierState, logicalState, checkpoint, corpora, epochArtifacts,
                     status, context>>
      /\ evolveStep \in {"checkpoint", "delta"} /\ evolveStep' \in {"delta", "rotation"}
  BY Zenon DEF UploadDelta, UploadRotation, At
<1>1. Running \in Epochs /\ status[Running] = NoRun
  BY <1>0, RunningFacts, Zenon
<1>2. /\ bucket' \in [Epochs -> Objects]
      /\ \A e \in Epochs : e # Running => bucket'[e] = bucket[e]
  <2>1. bucket \in [Epochs -> Objects] /\ epochArtifacts[Running] \in OrNone(Runs) /\ bucket[Running] \in Objects
    BY <1>1, Zenon DEF EvolveInv, EvolveTypeOK
  <2>. QED
    BY <1>1, <2>1, ZenonT(40) DEF UploadDelta, UploadRotation, Objects
<1>3. EvolveTypeOK'
  BY <1>0, <1>2, Zenon DEF EvolveInv, EvolveTypeOK, EvolveSteps
<1>4. RunningInv'
  BY <1>0, Zenon DEF EvolveInv, RunningInv, Running, Bound, Early, Late
<1>5. PublishedInv'
  BY <1>0, <1>1, <1>2, ZenonT(60) DEF EvolveInv, PublishedInv, Bound
<1>. QED
  BY <1>0, <1>3, <1>4, <1>5, SMTT(60)
     DEF EvolveInv, CheckpointInv, LedgerInv, ThreadedFromOne, NoForkedEpoch, Bound

LEMMA StatusKeepsEvolveInv ==
    ASSUME EvolveInv, BuildStatus
    PROVE  EvolveInv'
<1>0. /\ UNCHANGED <<runs, ledger, frontierState, logicalState, checkpoint, corpora, epochArtifacts,
                     bucket, context>>
      /\ evolveStep = "rotation" /\ evolveStep' = "idle"
      /\ status' = [status EXCEPT ![Running] = runs]
      /\ bucket[Running] = [delta |-> epochArtifacts[Running], rotation |-> epochArtifacts[Running]]
  BY Zenon DEF BuildStatus, At
<1>1. /\ runs \in Runs /\ runs \in 1..runs /\ Running \in Epochs /\ status[Running] = NoRun
      /\ checkpoint = runs /\ epochArtifacts[Running] = runs
  BY <1>0, RunningFacts, Zenon DEF EvolveInv, RunningInv, Late
<1>2. /\ status' \in [Epochs -> OrNone(Runs)]
      /\ \A e \in Epochs : status'[e] = IF e = Running THEN runs ELSE status[e]
  BY <1>0, <1>1, Zenon DEF EvolveInv, EvolveTypeOK, OrNone
<1>3. runs # NoRun /\ Bound(runs)
  BY <1>1, EvolveAssumption, SMTT(30) DEF EvolveInv, CheckpointInv, Runs
<1>4. EvolveTypeOK' /\ RunningInv'
  BY <1>0, <1>2, Zenon DEF EvolveInv, EvolveTypeOK, EvolveSteps, RunningInv
<1>5. 1 \in Epochs
  BY EvolveAssumption, SMTT(30) DEF Epochs
<1>6. CheckpointInv'
  BY <1>0, <1>1, <1>2, <1>5, Zenon DEF EvolveInv, CheckpointInv, Bound, Running
<1>7. LedgerInv'
  BY <1>0, <1>2, <1>3, <1>5, Zenon DEF EvolveInv, LedgerInv
<1>8. PublishedInv'
  <2> SUFFICES ASSUME NEW e \in Epochs
               PROVE  /\ status'[e] # NoRun =>
                           /\ status'[e] \in 1..runs /\ Bound(status'[e])
                           /\ ledger[status'[e]].epoch = e
                           /\ bucket[e] = [delta |-> status'[e], rotation |-> status'[e]]
                      /\ context[e] # NoRun => context[e] = status'[e]
    BY <1>0, Zenon DEF PublishedInv, Bound
  <2>1. CASE e = Running
    BY <1>0, <1>1, <1>2, <1>3, <2>1, ZenonT(60) DEF EvolveInv, PublishedInv, Running
  <2>2. CASE e # Running
    BY <1>2, <2>2, Zenon DEF EvolveInv, PublishedInv
  <2>. QED
    BY <2>1, <2>2, ZenonT(60)
<1>. QED
  BY <1>0, <1>4, <1>6, <1>7, <1>8 DEF EvolveInv, ThreadedFromOne, NoForkedEpoch

LEMMA PinKeepsEvolveInv ==
    ASSUME EvolveInv, NEW e \in Epochs, PinContext(e)
    PROVE  EvolveInv'
<1>0. /\ UNCHANGED <<runs, ledger, evolveStep, frontierState, logicalState, checkpoint, corpora,
                     epochArtifacts, bucket, status>>
      /\ status[e] # NoRun /\ context[e] = NoRun /\ context' = [context EXCEPT ![e] = status[e]]
  BY Zenon DEF PinContext
<1>1. /\ context' \in [Epochs -> OrNone(Runs)]
      /\ \A f \in Epochs : context'[f] = IF f = e THEN status[e] ELSE context[f]
  BY <1>0, Zenon DEF EvolveInv, EvolveTypeOK
<1>2. EvolveTypeOK' /\ RunningInv'
  BY <1>0, <1>1, Zenon DEF EvolveInv, EvolveTypeOK, RunningInv, Running, Bound
<1>3. LedgerInv'
  <2> SUFFICES ASSUME NEW r \in 1..runs
               PROVE  /\ ledger[r].epoch \in Epochs
                      /\ ledger[r].epoch # 1 => /\ status[1] # NoRun
                                                /\ context'[ledger[r].epoch - 1] # NoRun
                                                /\ ledger[r].corpus = context'[ledger[r].epoch - 1]
    BY <1>0, Zenon DEF LedgerInv
  <2>1. ledger[r].epoch \in Epochs
    BY Zenon DEF EvolveInv, LedgerInv
  <2>2. ledger[r].epoch # 1 => ledger[r].epoch - 1 \in Epochs
    BY <2>1, EvolveAssumption, SMTT(30) DEF Epochs
  <2>. QED
    BY <1>0, <1>1, <2>1, <2>2, ZenonT(60) DEF EvolveInv, LedgerInv
<1>4. PublishedInv'
  BY <1>0, <1>1, ZenonT(60) DEF EvolveInv, PublishedInv, Bound
<1>. QED
  BY <1>0, <1>2, <1>3, <1>4, SMTT(60) DEF EvolveInv, CheckpointInv, ThreadedFromOne, NoForkedEpoch, Bound

LEMMA EvolveInvNext == EvolveInv /\ [EvolveNext]_evolveVars => EvolveInv'
<1> SUFFICES ASSUME EvolveInv, [EvolveNext]_evolveVars PROVE EvolveInv'
  BY Zenon 
<1>1. CASE LaunchGenesis
  <2> DEFINE entry == [NoEntryYet EXCEPT !.epoch = 1]
  <2>1. Start(entry) /\ 1 \in Epochs /\ status[1] = NoRun
    BY <1>1, Zenon DEF LaunchGenesis
  <2>2. entry \in Entry /\ entry.epoch = 1 /\ ~entry.bound
    BY <2>1, ZenonT(60) DEF NoEntryYet, Entry, OrNone
  <2> HIDE DEF entry
  <2>. QED
    BY <2>1, <2>2, StartKeepsEvolveInv, Zenon
<1>2. ASSUME NEW e \in Epochs, NEW corpus \in corpora, Run(e, corpus) PROVE EvolveInv'
  <2> DEFINE entry == [epoch |-> e, logical |-> logicalState, frontier |-> frontierState,
                       corpus |-> corpus, bound |-> FALSE]
  <2>1. /\ Start(entry) /\ e - 1 \in Epochs /\ context[e - 1] # NoRun /\ checkpoint # NoRun
        /\ ledger[checkpoint].epoch = e - 1
        /\ logicalState = checkpoint /\ frontierState = checkpoint /\ corpus = checkpoint
    BY <1>2, Zenon DEF Run, Completed, Threaded
  <2>2. /\ entry \in Entry /\ entry.epoch = e /\ ~entry.bound /\ entry.logical = checkpoint
        /\ entry.frontier = checkpoint /\ entry.corpus = checkpoint
    BY <2>1, Zenon DEF EvolveInv, EvolveTypeOK, Entry, OrNone
  <2>3. status[e] = NoRun
    <3>1. e \in Int
      BY SMTT(30) DEF Epochs
    <3>2. ASSUME status[e] # NoRun PROVE e <= ledger[checkpoint].epoch
      <4>1. status[e] \in 1..runs /\ Bound(status[e]) /\ ledger[status[e]].epoch = e
        BY <3>2, ZenonT(60) DEF EvolveInv, PublishedInv
      <4>. QED
        BY <2>1, <4>1, ZenonT(60) DEF EvolveInv, CheckpointInv
    <3>. QED
      BY <2>1, <3>1, <3>2, SMTT(60)
  <2> HIDE DEF entry
  <2>. QED
    BY <2>1, <2>2, <2>3, StartKeepsEvolveInv, Zenon
<1>3. CASE UNCHANGED evolveVars
  BY <1>3, QuietKeepsEvolveInv, Zenon
     DEF evolveVars, EvolveInv, EvolveTypeOK, RunningInv, Running, Bound
<1>. QED
  BY <1>1, <1>2, <1>3, WritesKeepEvolveInv, CheckpointKeepsEvolveInv, UploadsKeepEvolveInv,
     StatusKeepsEvolveInv, MaterializeKeepsEvolveInv, PinKeepsEvolveInv, Zenon DEF EvolveNext

LEMMA EvolveInvAlways == EvolveSpec => []EvolveInv
BY EvolveInvInit, EvolveInvNext, PTL DEF EvolveSpec

\* Whatever earlier runs left behind, a run after the launch evolves from the
\* logical state, the frontier and the corpus of one checkpointed run of the
\* epoch before.
THEOREM OneStateThreaded == EvolveSpec => []ThreadedFromOne
BY EvolveInvAlways, PTL DEF EvolveInv

\* No epoch after the launch has two evolved states.
THEOREM EpochsNeverFork == EvolveSpec => []NoForkedEpoch
BY EvolveInvAlways, PTL DEF EvolveInv

\* The corpora behind the pinned contexts form one chain of deltas.
THEOREM PinnedCorporaChain == EvolveSpec => []ContextsLinked
<1>1. ASSUME EvolveInv, NEW e \in Epochs, e # 1, context[e] # NoRun
      PROVE  ledger[context[e]].corpus = context[e - 1]
  <2>1. context[e] \in 1..runs /\ ledger[context[e]].epoch = e
    BY <1>1, Zenon DEF EvolveInv, PublishedInv
  <2>. QED
    BY <1>1, <2>1, ZenonT(60) DEF EvolveInv, LedgerInv
<1>2. EvolveInv => ContextsLinked
  BY <1>1, Zenon DEF ContextsLinked
<1>. QED
  BY <1>2, EvolveInvAlways, PTL

\* What a pinned context names is in the bucket, and stays there.
THEOREM PinnedObjectsStay == EvolveSpec => []PinnedIsPublished
<1>1. EvolveInv => PinnedIsPublished
  BY Zenon DEF EvolveInv, PublishedInv, PinnedIsPublished
<1>. QED
  BY <1>1, EvolveInvAlways, PTL

-----------------------------------------------------------------------------
(* The thresholds. *)

\* An epoch's threshold is a natural number, within the controller's limits
\* once it rotated.
ThresholdsInv ==
  /\ minImprovement \in Nat /\ floorPpm \in Nat
  /\ baseline \in Nat /\ variance \in Nat /\ noise \in Nat

\* \div by a positive number is the quotient.
LEMMA Quotient ==
  ASSUME NEW n \in Nat, NEW d \in Nat, d > 0
  PROVE  /\ n \div d \in Nat /\ d * (n \div d) <= n /\ n < d * (n \div d) + d
OBVIOUS

\* The product of two naturals, in the one form the screener needs.
LEMMA PenaltyRaises ==
  ASSUME NEW raw \in Nat, NEW penalty \in Nat
  PROVE  /\ raw * (Bps + penalty) \in Nat
         /\ raw * Bps <= raw * (Bps + penalty)
         /\ (raw * (Bps + penalty)) \div Bps >= raw
<1>1. raw * (Bps + penalty) = raw * Bps + raw * penalty /\ raw * penalty \in Nat
  BY DEF Bps
<1>. DEFINE n == raw * (Bps + penalty)
<1>2. n \in Nat /\ n >= raw * 10000
  BY <1>1 DEF Bps
<1>3. HIDE DEF n
<1>4. n \div 10000 >= raw
  BY <1>2
<1>. QED BY <1>1, <1>2, <1>4 DEF Bps, n

\* What the screener's threshold is, for any measurements: below the advance
\* threshold and the policy's maximum, and at least half of the smaller of the
\* advance threshold and twice that maximum.
LEMMA ScreenerBounds ==
  ASSUME NEW b \in Nat, NEW n \in Nat, NEW probe \in Nat, NEW advance \in Nat
  PROVE  /\ ScreenerThreshold(b, n, probe, advance) \in Nat
         /\ ScreenerThreshold(b, n, probe, advance) <= advance
         /\ ScreenerThreshold(b, n, probe, advance) <= MaxPpm
         /\ 2 * ScreenerThreshold(b, n, probe, advance) >= Least(advance, 2 * MaxPpm)
<1>. DEFINE half == CeilDiv(advance * 5000, Bps)
            room == ((Scale - Least(b, Scale)) * 5) \div Bps
            loud == (n * 20000) \div Bps
            raw == Most(Most(50, half), Most(room, loud))
            penalty == Least(50000, Least(probe, Scale) \div 50)
            top == (raw * (Bps + penalty)) \div Bps
<1>1. half \in Nat /\ 2 * half >= advance
  BY DEF CeilDiv, Bps
<1>2. room \in Nat
  <2>1. Scale - Least(b, Scale) \in Nat
    BY DEF Least, Scale
  <2>. QED BY <2>1 DEF Bps
<1>3. loud \in Nat
  BY DEF Bps
<1>4. raw \in Nat /\ raw >= half
  <2>. HIDE DEF half, room, loud
  <2>. QED BY <1>1, <1>2, <1>3 DEF Most
<1>5. penalty \in Nat
  BY DEF Least, Scale
<1>6. top \in Nat /\ top >= raw
  <2>. HIDE DEF raw, penalty
  <2>1. ASSUME NEW r \in Nat, NEW p \in Nat
        PROVE  (r * (Bps + p)) \div Bps \in Nat /\ (r * (Bps + p)) \div Bps >= r
    <3>1. r * (Bps + p) \in Nat /\ (r * (Bps + p)) \div Bps >= r
      BY PenaltyRaises
    <3>. QED BY <3>1 DEF Bps
  <2>2. raw \in Nat
    BY <1>4
  <2>. QED BY <1>5, <2>1, <2>2, Zenon
<1>7. ScreenerThreshold(b, n, probe, advance) = Least(top, Least(MaxPpm, advance))
  BY DEF ScreenerThreshold
<1>. HIDE DEF half, raw, top
<1>. QED BY <1>1, <1>4, <1>6, <1>7 DEF Least, MaxPpm

\* What the next threshold can be: within the controller's limits.
LEMMA NextMinBounds ==
  ASSUME NEW advances \in Nat, NEW tries \in Nat, NEW grace \in BOOLEAN,
         minImprovement \in Nat, NEW next \in NextMin(advances, tries, grace)
  PROVE  next \in Nat /\ MinPpm <= next /\ next <= MaxPpm
<1>1. \A k \in Int : ClampPpm(k) \in Nat /\ MinPpm <= ClampPpm(k) /\ ClampPpm(k) <= MaxPpm
  BY DEF ClampPpm, Least, Most, MinPpm, MaxPpm
<1>2. CASE grace
  BY <1>1, <1>2 DEF NextMin
<1>3. CASE ~grace
  <2>. DEFINE r == Ratio(advances, tries)
  <2>1. r[1] \in Nat /\ r[2] \in Nat \ {0}
    BY DifficultyAssumption DEF Ratio
  <2>. HIDE DEF r
  <2>2. PICK k \in Nearest(minImprovement * r[1], r[2]) : next = ClampPpm(k)
    BY <1>3 DEF NextMin, r
  <2>3. minImprovement * r[1] \in Nat
    BY <2>1
  <2>4. (minImprovement * r[1]) \div r[2] \in Int
    BY <2>1, <2>3, Quotient
  <2>5. k \in Int
    BY <2>2, <2>4 DEF Nearest
  <2>. QED BY <1>1, <2>2, <2>5, Zenon
<1>. QED BY <1>2, <1>3, Zenon

LEMMA ThresholdsStart == DifficultyInit => ThresholdsInv
<1>. SUFFICES ASSUME DifficultyInit PROVE ThresholdsInv
  BY Zenon 
<1>1. minImprovement \in Nat /\ baseline \in Nat /\ variance \in Nat /\ noise \in Nat
  BY DifficultyAssumption, Zenon DEF DifficultyInit
<1>2. AdvanceThreshold \in Nat
  BY <1>1, DifficultyAssumption DEF AdvanceThreshold
<1>3. floorPpm \in Nat
  <2>1. ScreenerThreshold(baseline, noise, 0, AdvanceThreshold) \in Nat
    BY <1>1, <1>2, ScreenerBounds, Zenon
  <2>. QED BY <2>1, Zenon DEF DifficultyInit
<1>. QED BY <1>1, <1>3, Zenon DEF ThresholdsInv

\* A rotation, whatever the epoch reported.
LEMMA RotateKeeps ==
  ASSUME ThresholdsInv, NEW advances \in Nat, NEW tries \in Nat, NEW grace \in BOOLEAN,
         NEW b \in Nat, NEW v \in Nat, NEW n \in Nat, Rotate(advances, tries, grace, b, v, n)
  PROVE  ThresholdsInv'
<1>1. PICK next \in NextMin(advances, tries, grace) :
        minImprovement' = next /\ floorPpm' = ScreenerThreshold(b, n, 0, next + Tolerance + v)
  BY Zenon DEF Rotate
<1>2. next \in Nat
  BY NextMinBounds, Zenon DEF ThresholdsInv
<1>3. ScreenerThreshold(b, n, 0, next + Tolerance + v) \in Nat
  <2>1. next + Tolerance + v \in Nat
    BY <1>2, DifficultyAssumption
  <2>. QED BY <2>1, ScreenerBounds, Zenon
<1>. QED BY <1>1, <1>2, <1>3, Zenon DEF ThresholdsInv, Rotate

LEMMA ThresholdsStep == ThresholdsInv /\ [DifficultyNext]_difficultyVars => ThresholdsInv'
<1>. SUFFICES ASSUME ThresholdsInv, [DifficultyNext]_difficultyVars PROVE ThresholdsInv'
  BY Zenon 
<1>1. CASE RotateBusy
  <2>1. PICK advances \in Nat, tries \in Nat, grace \in BOOLEAN, b \in Nat, v \in Nat, n \in Nat :
          Rotate(advances, tries, grace, b, v, n)
    BY <1>1, DifficultyAssumption, ZenonT(40) DEF RotateBusy
  <2>. QED BY <2>1, RotateKeeps, Zenon
<1>2. CASE RotateIdle
  <2>1. Rotate(0, 0, FALSE, baseline, variance, noise)
    BY <1>2, Zenon DEF RotateIdle
  <2>. QED BY <2>1, RotateKeeps, Zenon DEF ThresholdsInv
<1>3. CASE Recompute
  BY <1>3, DifficultyAssumption, Zenon DEF Recompute, ThresholdsInv
<1>4. CASE UNCHANGED difficultyVars
  BY <1>4, Zenon DEF difficultyVars, ThresholdsInv
<1>. QED BY <1>1, <1>2, <1>3, <1>4, Zenon DEF DifficultyNext

\* updateCoreTexBaseline and computeCoreTexDifficulty work on whole ppm: every
\* number the two thresholds are computed from stays a natural number.
THEOREM ThresholdsNatural == DifficultySpec => []ThresholdsInv
BY ThresholdsStart, ThresholdsStep, PTL DEF DifficultySpec

\* computeCoreTexScreenerThresholdPpm keeps its promise for every baseline,
\* noise and probe rate: a screener pass is never dearer than a state advance
\* and never cheaper than half of it, up to the policy's maximum.
THEOREM ScreenerIsBetween == DifficultySpec => []ScreenerBetween
<1>1. ThresholdsInv => ScreenerBetween
  <2>. SUFFICES ASSUME ThresholdsInv, NEW probe \in Probes
                PROVE  LET s == ScreenerThreshold(baseline, noise, probe, AdvanceThreshold)
                       IN s <= AdvanceThreshold /\ 2 * s >= Least(AdvanceThreshold, 2 * MaxPpm)
    BY Zenon DEF ScreenerBetween
  <2>1. AdvanceThreshold \in Nat /\ probe \in Nat
    BY DifficultyAssumption DEF ThresholdsInv, AdvanceThreshold
  <2>. QED BY <2>1, ScreenerBounds, Zenon DEF ThresholdsInv
<1>. QED BY <1>1, ThresholdsNatural, PTL

\* The coordinator's two gates are nested whichever way the live baseline and
\* variance moved since the epoch's thresholds were published: what is signed
\* as a state advance would have been signed as a screener pass.
THEOREM AdvancesClearScreeners == DifficultySpec => []AdvanceClearsScreener
<1>1. ThresholdsInv => AdvanceClearsScreener
  <2>. SUFFICES ASSUME ThresholdsInv PROVE AdvanceClearsScreener
    BY Zenon 
  <2>1. AdvanceThreshold \in Nat
    BY DifficultyAssumption DEF ThresholdsInv, AdvanceThreshold
  <2>2. ScreenerThreshold(baseline, noise, 0, AdvanceThreshold) \in Nat
    BY <2>1, ScreenerBounds, Zenon DEF ThresholdsInv
  <2>3. LiveScreener \in Nat
    BY <2>2, Zenon DEF ThresholdsInv, LiveScreener, Most
  <2>. QED BY <2>1, <2>3 DEF AdvanceClearsScreener, Required, Most
<1>. QED BY <1>1, ThresholdsNatural, PTL

\* The step behind QuietReachesFloor: an idle epoch lowers the threshold for as
\* long as it is above the floor, so rounding never leaves it stuck.
IdleEpochLowers ==
  RotateIdle /\ Target # 0 /\ minImprovement > MinPpm => minImprovement' < minImprovement

\* An idle epoch moves the threshold strictly down until it is at its floor, for
\* every starting value and every target above zero; with Target = 0 the
\* controller never moves it (difficulty.ts).
THEOREM IdleDriftsDown == DifficultySpec => [][IdleEpochLowers]_difficultyVars
<1>1. ThresholdsInv /\ [DifficultyNext]_difficultyVars => IdleEpochLowers
  <2>. SUFFICES ASSUME ThresholdsInv, RotateIdle, Target # 0, minImprovement > MinPpm
                PROVE  minImprovement' < minImprovement
    BY DEF IdleEpochLowers
  <2>1. PICK next \in NextMin(0, 0, FALSE) : minImprovement' = next
    BY Zenon DEF RotateIdle, Rotate
  <2>2. Ratio(0, 0) = <<95, 100>>
    BY DifficultyAssumption DEF Ratio
  <2>3. PICK k \in Nearest(minImprovement * 95, 100) : next = ClampPpm(k)
    BY <2>1, <2>2 DEF NextMin
  <2>4. k \in Int /\ 200 * k <= 190 * minImprovement + 100
    BY <2>3 DEF Nearest, ThresholdsInv
  <2>5. k < minImprovement
    BY <2>4 DEF MinPpm, ThresholdsInv
  <2>. QED BY <2>1, <2>3, <2>4, <2>5 DEF ClampPpm, Least, Most, MinPpm, MaxPpm, ThresholdsInv
<1>. QED BY <1>1, ThresholdsNatural, PTL DEF DifficultySpec

-----------------------------------------------------------------------------
(* scorePatch and its stores. *)
LEMMA AppendToSeq ==
  ASSUME NEW S, NEW s \in Seq(S), NEW e \in S
  PROVE  /\ Append(s, e) \in Seq(S) /\ Append(s, e) # <<>> /\ Len(Append(s, e)) = Len(s) + 1
         /\ \A i \in 1..Len(s) : Append(s, e)[i] = s[i]
         /\ Append(s, e)[Len(s) + 1] = e
BY SMTT(30)

Accepting == {"screener_pass", "state_advance"}
Scoring == {"gate", "confirm", "publish", "record", "put", "answer"}
Decision == {"publish", "record", "put", "answer"}

\* What the scored packs of a key decide: the gate pack alone when it fails.
GatePack(k, seed, s) == [key |-> k, seed |-> seed, pack |-> "gate", score |-> s]
ConfirmPack(k, seed, s) == [key |-> k, seed |-> seed, pack |-> "confirm", score |-> s]
Decided(P, k, seed, outcome) ==
    \/ outcome = "reject" /\ \E g \in Scores : g < Screener /\ GatePack(k, seed, g) \in P
    \/ \E g, s \in Scores : /\ g >= Screener /\ GatePack(k, seed, g) \in P
                            /\ ConfirmPack(k, seed, s) \in P
                            /\ outcome = Verdict(g, s)

PacksFunctional ==
    \A p, q \in packs : p.key = q.key /\ p.seed = q.seed /\ p.pack = q.pack => p.score = q.score

\* The call in progress and the stores agree.
CallInv ==
    /\ pc \notin {"idle", "draw"} => call.seed \in Seeds
    /\ pc \in {"draw", "wait", "pin"} => attempts[call.key] = NoAttempt /\ Admitted(call.miner)
    /\ pc \in Scoring => /\ attempts[call.key] # NoAttempt
                         /\ attempts[call.key].seed = call.seed
                         /\ attempts[call.key].miner = call.miner
    /\ pc \in Scoring \ {"answer"} => records[call.key] = "none"
    /\ pc = "confirm" => \E g \in Scores : g >= Screener /\ GatePack(call.key, call.seed, g) \in packs
    /\ pc \in Decision => Decided(packs, call.key, call.seed, call.outcome)
    /\ pc = "publish" => call.outcome \in Accepting
    /\ pc \in {"record", "put", "answer"} /\ call.outcome \in Accepting =>
         [key |-> call.key, seed |-> call.seed, miner |-> call.miner, outcome |-> call.outcome]
           \in artifacts
    /\ pc \in {"put", "answer"} => attempts[call.key].outcome = call.outcome
    /\ pc = "answer" => records[call.key] = call.outcome

\* An attempt with an outcome is decided by its packs, an accepting one is
\* published, and a dedup record repeats its attempt's outcome.
StoreInv ==
    /\ PacksFunctional
    /\ \A p \in packs : attempts[p.key] # NoAttempt /\ attempts[p.key].seed = p.seed
    /\ \A k \in Keys :
         /\ attempts[k].outcome # "none" => Decided(packs, k, attempts[k].seed, attempts[k].outcome)
         /\ attempts[k].state = "accepted" => attempts[k].outcome \in Accepting
         /\ attempts[k].outcome \in Accepting =>
              [key |-> k, seed |-> attempts[k].seed, miner |-> attempts[k].miner,
               outcome |-> attempts[k].outcome] \in artifacts
         /\ records[k] # "none" => attempts[k].outcome = records[k]
    /\ \A a \in answers : records[a.key] = a.outcome /\ attempts[a.key].miner = a.miner
    /\ \A m \in Miners : MinerAdmissions(m) <= Cap

EvalInv == EvaluatorTypeOK /\ CallInv /\ StoreInv

LEMMA NoAttemptFields ==
    /\ NoAttempt.state = "none" /\ NoAttempt.outcome = "none"
    /\ NoAttempt.miner = NoMiner /\ NoAttempt.seed = NoSeed
BY Zenon DEF NoAttempt

LEMMA EvalInvInit == Init => EvalInv
<1> SUFFICES ASSUME Init PROVE EvalInv
  BY Zenon 
<1>1. chain \in Seq(0..MaxForks) /\ Len(chain) \in 1..MaxBlocks
  BY EvaluatorAssumption, SMTT(30) DEF Init
<1>2. EvaluatorTypeOK
  BY <1>1, EvaluatorAssumption, SMTT(30) DEF Init, EvaluatorTypeOK
<1>3. ASSUME NEW m \in Miners PROVE MinerAdmissions(m) <= Cap
  <2>1. {k \in Keys : attempts[k].miner = m} = {}
    BY EvaluatorAssumption, NoAttemptFields, Zenon DEF Init
  <2>2. MinerAdmissions(m) = 0
    BY <2>1, FS_EmptySet, Zenon DEF MinerAdmissions
  <2>. QED
    BY <2>2, EvaluatorAssumption, SMTT(30)
<1>4. StoreInv
  BY <1>3, NoAttemptFields, ZenonT(60) DEF Init, StoreInv, PacksFunctional, Accepting
<1>. QED
  BY <1>2, <1>4, Zenon DEF Init, EvalInv, CallInv, Scoring, Decision

LEMMA DecidedGrows ==
    ASSUME NEW P, NEW Q, P \subseteq Q, NEW k, NEW seed, NEW outcome, Decided(P, k, seed, outcome)
    PROVE  Decided(Q, k, seed, outcome)
BY Zenon DEF Decided

\* The packs of one seed decide one outcome.
LEMMA DecidedOnce ==
    ASSUME NEW k, NEW seed, NEW o, NEW u, PacksFunctional,
           Decided(packs, k, seed, o), Decided(packs, k, seed, u)
    PROVE  o = u
<1>1. ASSUME NEW g \in Scores, NEW h \in Scores, GatePack(k, seed, g) \in packs,
             GatePack(k, seed, h) \in packs
      PROVE  g = h
  BY <1>1, Zenon DEF PacksFunctional, GatePack
<1>2. ASSUME NEW g \in Scores, NEW h \in Scores, ConfirmPack(k, seed, g) \in packs,
             ConfirmPack(k, seed, h) \in packs
      PROVE  g = h
  BY <1>2, Zenon DEF PacksFunctional, ConfirmPack
<1>3. \A g \in Scores : ~(g < Screener /\ g >= Screener)
  BY SMTT(30) DEF Scores, Screener
<1>. QED
  BY <1>1, <1>2, <1>3, ZenonT(40) DEF Decided

LEMMA StoreSame ==
    ASSUME StoreInv, UNCHANGED <<attempts, records, artifacts, packs, answers>>
    PROVE  StoreInv'
BY ZenonT(60) DEF StoreInv, PacksFunctional, MinerAdmissions

LEMMA CallSame ==
    ASSUME CallInv, UNCHANGED <<attempts, records, artifacts, packs, pc, call>>
    PROVE  CallInv'
BY ZenonT(60) DEF CallInv, Admitted, MinerAdmissions

LEMMA ChainKeepsEvalInv ==
    ASSUME EvalInv, NewBlock \/ \E b \in DOMAIN chain : Reorg(b)
    PROVE  EvalInv'
<1>0. /\ chain \in Seq(0..MaxForks) /\ Len(chain) \in 1..MaxBlocks /\ MaxForks \in Nat
      /\ MaxBlocks \in Nat /\ Fork \in 0..MaxForks
  BY EvaluatorAssumption, SMTT(30) DEF EvalInv, EvaluatorTypeOK, Fork
<1>1. UNCHANGED <<attempts, records, artifacts, packs, pc, call, answers, faults>>
  BY Zenon DEF NewBlock, Reorg
<1>2. chain' \in Seq(0..MaxForks) /\ Len(chain') \in 1..MaxBlocks
  <2>1. CASE NewBlock
    BY <1>0, <2>1, AppendToSeq, SMTT(60) DEF NewBlock
  <2>2. ASSUME NEW b \in DOMAIN chain, Reorg(b) PROVE chain' \in Seq(0..MaxForks) /\ Len(chain') = Len(chain)
    <3>1. chain' = [i \in 1..Len(chain) |-> IF i < b THEN chain[i] ELSE Fork + 1]
      BY <1>0, <2>2, SMTT(30) DEF Reorg
    <3>2. \A i \in 1..Len(chain) : chain[i] \in 0..MaxForks /\ Fork + 1 \in 0..MaxForks
      BY <1>0, <2>2, SMTT(30) DEF Reorg
    <3>. QED
      BY <1>0, <3>1, <3>2, SMTT(30)
  <2>. QED
    BY <1>0, <2>1, <2>2, Zenon
<1>3. EvaluatorTypeOK'
  BY <1>1, <1>2, Zenon DEF EvalInv, EvaluatorTypeOK
<1>. QED
  BY <1>1, <1>3, StoreSame, CallSame, Zenon DEF EvalInv

LEMMA SubmitKeepsEvalInv ==
    ASSUME EvalInv, NEW m \in Miners, NEW k \in Keys, Submit(m, k)
    PROVE  EvalInv'
<1>0. UNCHANGED <<chain, attempts, records, artifacts, packs, answers, faults>> /\ pc = "idle"
  BY Zenon DEF Submit
<1>1. StoreInv'
  BY <1>0, StoreSame, Zenon DEF EvalInv
<1>2. CASE UNCHANGED <<pc, call>>
  BY <1>0, <1>1, <1>2, CallSame, ZenonT(40) DEF EvalInv, EvaluatorTypeOK
<1>3. CASE /\ records[k] = "none" /\ attempts[k].miner = m
           /\ pc' = "gate"
           /\ call' = [key |-> k, miner |-> m, seed |-> attempts[k].seed, outcome |-> "none"]
  <2>1. attempts[k] # NoAttempt /\ attempts[k].seed \in Seeds
    BY <1>3, EvaluatorAssumption, NoAttemptFields, ZenonT(40) DEF EvalInv, EvaluatorTypeOK, Attempt
  <2>2. call' \in Call /\ call'.key = k /\ call'.miner = m /\ call'.seed = attempts[k].seed
    BY <1>3, <2>1, ZenonT(60) DEF Call
  <2>. QED
    BY <1>0, <1>1, <1>3, <2>1, <2>2, ZenonT(60) DEF EvalInv, EvaluatorTypeOK, CallInv, Scoring, Decision, Steps
<1>4. CASE /\ records[k] = "none" /\ attempts[k] = NoAttempt /\ Admitted(m)
           /\ pc' = "draw"
           /\ call' = [key |-> k, miner |-> m, seed |-> NoSeed, outcome |-> "none"]
  <2>1. call' \in Call /\ call'.key = k /\ call'.miner = m
    BY <1>4, ZenonT(60) DEF Call
  <2>. QED
    BY <1>0, <1>1, <1>4, <2>1, ZenonT(60)
       DEF EvalInv, EvaluatorTypeOK, CallInv, Scoring, Decision, Steps, Admitted, MinerAdmissions
<1>. QED
  BY <1>2, <1>3, <1>4, Zenon DEF Submit, LookUp, Goto

LEMMA EndKeepsEvalInv ==
    ASSUME EvalInv, WaitTimesOut \/ Abort
    PROVE  EvalInv'
<1>1. /\ UNCHANGED <<chain, attempts, records, artifacts, packs, answers>>
      /\ pc' = "idle" /\ call' = NoCall /\ faults' \in 0..MaxFaults
  BY EvaluatorAssumption, SMTT(30) DEF WaitTimesOut, Abort, Return, EvalInv, EvaluatorTypeOK
<1>2. CallInv'
  BY <1>1, ZenonT(60) DEF CallInv, Scoring, Decision
<1>. QED
  BY <1>1, <1>2, StoreSame, ZenonT(40) DEF EvalInv, EvaluatorTypeOK

LEMMA DrawKeepsEvalInv ==
    ASSUME EvalInv, Draw \/ WaitForBlock
    PROVE  EvalInv'
<1>0. /\ UNCHANGED <<chain, attempts, records, artifacts, packs, answers, faults>>
      /\ pc \in {"draw", "wait"} /\ pc' \in {"wait", "pin"} /\ call \in Call
  BY Zenon DEF Draw, WaitForBlock, Goto, EvalInv, EvaluatorTypeOK
<1>1. PICK seed \in Seeds : call' = [call EXCEPT !.seed = seed]
  <2>0. Len(chain) \in 1..MaxBlocks /\ chain \in Seq(0..MaxForks) /\ MaxBlocks \in Nat /\ Offset \in Nat \ {0}
        /\ MaxForks \in Nat
    BY EvaluatorAssumption, Zenon DEF EvalInv, EvaluatorTypeOK
  <2>1. CASE Draw
    <3>1. [received |-> Len(chain), target |-> Len(chain) + Offset, hash |-> 0] \in Seeds
      BY <2>0 DEF Seeds
    <3>. QED
      BY <2>1, <3>1, Zenon DEF Draw, Goto
  <2>2. CASE WaitForBlock
    <3>1. call.seed \in Seeds /\ call.seed.target \in 1..Len(chain)
      BY <2>0, <2>2 DEF WaitForBlock, EvalInv, CallInv, Seeds
    <3>2. [call.seed EXCEPT !.hash = chain[call.seed.target]] \in Seeds
      <4>1. PICK h \in 0..MaxForks : h = chain[call.seed.target]
        BY <2>0, <3>1
      <4>2. [call.seed EXCEPT !.hash = h] \in Seeds
        BY <3>1, Zenon DEF Seeds
      <4>. QED
        BY <4>1, <4>2, Zenon
    <3>3. call' = [call EXCEPT !.seed = [call.seed EXCEPT !.hash = chain[call.seed.target]]]
      BY <1>0, <2>2, Zenon DEF WaitForBlock, Goto, Call
    <3>. QED
      BY <3>2, <3>3, Zenon
  <2>. QED
    BY <2>1, <2>2, Zenon
<1>2. call' \in Call /\ call'.key = call.key /\ call'.miner = call.miner /\ call'.seed \in Seeds
  BY <1>0, <1>1, Zenon DEF Call
<1>3. CallInv'
  BY <1>0, <1>2, Zenon DEF EvalInv, CallInv, Scoring, Decision, Admitted, MinerAdmissions
<1>. QED
  BY <1>0, <1>2, <1>3, StoreSame, Zenon DEF EvalInv, EvaluatorTypeOK, Steps

\* One more row of a miner, and no other miner's, when a key is drawn for.
LEMMA PinCharges ==
    ASSUME EvaluatorTypeOK, NEW k \in Keys, NEW m \in Miners, attempts[k] = NoAttempt,
           NEW a \in Attempt, a.miner = m, attempts' = [attempts EXCEPT ![k] = a],
           NEW n \in Miners, MinerAdmissions(n) <= Cap, n = m => Admitted(m)
    PROVE  MinerAdmissions(n)' <= Cap
<1> DEFINE rows == {j \in Keys : attempts[j].miner = n}
           rows1 == {j \in Keys : attempts'[j].miner = n}
<1>0. \A j \in Keys : attempts'[j] = IF j = k THEN a ELSE attempts[j]
  BY Zenon DEF EvaluatorTypeOK
<1>1. IsFiniteSet(rows) /\ Cardinality(rows) \in Nat /\ Cap \in Nat
  BY EvaluatorAssumption, FS_Subset, FS_CardinalityType, Zenon
<1>2. k \notin rows
  BY EvaluatorAssumption, NoAttemptFields, Zenon
<1>3. CASE n = m
  <2>1. rows1 = rows \cup {k}
    BY <1>0, <1>3, Zenon
  <2>2. Cardinality(rows \cup {k}) = Cardinality(rows) + 1
    BY <1>1, <1>2, FS_AddElement, Zenon
  <2>3. Cardinality(rows) < Cap
    BY <1>3, Zenon DEF Admitted, MinerAdmissions
  <2>4. MinerAdmissions(n)' = Cardinality(rows1)
    BY Zenon DEF MinerAdmissions
  <2> HIDE DEF rows, rows1
  <2>. QED
    BY <1>1, <2>1, <2>2, <2>3, <2>4, SMTT(30)
<1>4. CASE n # m
  <2>1. rows1 = rows
    BY <1>0, <1>2, <1>4, ZenonT(40)
  <2>. QED
    BY <2>1, ZenonT(60) DEF MinerAdmissions
<1>. QED
  BY <1>3, <1>4, Zenon

LEMMA PinKeepsEvalInv ==
    ASSUME EvalInv, Pin
    PROVE  EvalInv'
<1> DEFINE k == call.key
           a == [state |-> "drawn", seed |-> call.seed, miner |-> call.miner, outcome |-> "none"]
<1>0. /\ UNCHANGED <<chain, records, artifacts, packs, answers, faults, call>>
      /\ pc = "pin" /\ pc' = "gate" /\ call \in Call /\ call.seed \in Seeds
      /\ attempts[k] = NoAttempt /\ Admitted(call.miner)
  BY ZenonT(60) DEF Pin, Goto, EvalInv, EvaluatorTypeOK, CallInv
<1>1. attempts' = [attempts EXCEPT ![k] = a]
  BY <1>0, Zenon DEF Pin
<1>2. /\ k \in Keys /\ call.miner \in Miners /\ a \in Attempt /\ a.miner = call.miner
      /\ a.seed = call.seed /\ a.outcome = "none" /\ a.state = "drawn" /\ a # NoAttempt
  <2>1. k \in Keys /\ call.miner \in Miners
    BY <1>0, Zenon DEF Call
  <2>2. a \in Attempt
    BY <1>0, <2>1, Zenon DEF Attempt
  <2>3. /\ a.miner = call.miner /\ a.seed = call.seed
        /\ a.outcome = "none" /\ a.state = "drawn" /\ "drawn" # "none"
    BY Zenon
  <2>4. a # NoAttempt
    <3> HIDE DEF a
    <3>. QED BY <2>3, NoAttemptFields, Zenon
  <2>. QED BY <2>1, <2>2, <2>3, <2>4, Zenon
<1> HIDE DEF a, k
<1>3. /\ attempts \in [Keys -> Attempt \cup {NoAttempt}]
      /\ attempts' \in [Keys -> Attempt \cup {NoAttempt}]
      /\ \A j \in Keys : attempts'[j] = IF j = k THEN a ELSE attempts[j]
  BY <1>1, <1>2, ZenonT(60) DEF EvalInv, EvaluatorTypeOK
<1>4. EvaluatorTypeOK'
  BY <1>0, <1>3, Zenon DEF EvalInv, EvaluatorTypeOK, Steps
<1>5. records[k] = "none"
  BY <1>0, <1>2, NoAttemptFields, ZenonT(60) DEF EvalInv, StoreInv, EvaluatorTypeOK
<1>6. CallInv'
  BY <1>0, <1>2, <1>3, <1>5, ZenonT(60) DEF CallInv, Scoring, Decision, k
<1>7. \A m \in Miners : MinerAdmissions(m)' <= Cap
  BY <1>0, <1>1, <1>2, PinCharges, ZenonT(60) DEF EvalInv, StoreInv
<1>8. \A p \in packs : p.key # k /\ p.key \in Keys
  BY <1>0, ZenonT(60) DEF EvalInv, StoreInv, EvaluatorTypeOK
<1>9. \A b \in answers : b.key # k /\ b.key \in Keys
  BY <1>0, <1>5, <1>2, ZenonT(60) DEF EvalInv, StoreInv, EvaluatorTypeOK, Outcomes
<1>10. StoreInv'
  BY <1>0, <1>2, <1>3, <1>5, <1>7, <1>8, <1>9, ZenonT(60)
     DEF EvalInv, StoreInv, PacksFunctional, Accepting
<1>. QED
  BY <1>4, <1>6, <1>10, Zenon DEF EvalInv

\* Scoring a pack: the stores keep their promises, and what was decided stays.
LEMMA ScoreKeepsStores ==
    ASSUME EvalInv, NEW pack \in {"gate", "confirm"}, NEW s \in Scores, pc \in Scoring, Score(pack, s),
           UNCHANGED <<chain, attempts, records, artifacts, answers, faults>>
    PROVE  /\ StoreInv' /\ packs \subseteq packs'
           /\ [key |-> call.key, seed |-> call.seed, pack |-> pack, score |-> s] \in packs'
           /\ packs' \subseteq [key : Keys, seed : Seeds, pack : {"gate", "confirm"}, score : Scores]
<1> DEFINE p == [key |-> call.key, seed |-> call.seed, pack |-> pack, score |-> s]
<1>0. /\ call.key \in Keys /\ call.seed \in Seeds /\ attempts[call.key] # NoAttempt
      /\ attempts[call.key].seed = call.seed
  BY ZenonT(60) DEF EvalInv, EvaluatorTypeOK, CallInv, Scoring, Steps, Call
<1>1. packs' = packs \cup {p}
  BY Zenon DEF Score
<1>2. /\ p \in [key : Keys, seed : Seeds, pack : {"gate", "confirm"}, score : Scores]
      /\ p.key = call.key /\ p.seed = call.seed /\ p.pack = pack /\ p.score = s
  BY <1>0, Zenon
<1>3. \A q \in packs : q.key = call.key /\ q.seed = call.seed /\ q.pack = pack => q.score = s
  BY Zenon DEF Score
<1> HIDE DEF p
<1>4. PacksFunctional'
  <2>0. PacksFunctional
    BY Zenon DEF EvalInv, StoreInv
  <2>1. \A q, o \in packs' : /\ q \in packs \/ q = p
                             /\ o \in packs \/ o = p
    BY <1>1, Zenon
  <2>2. ASSUME NEW q \in packs', NEW o \in packs',
               q.key = o.key, q.seed = o.seed, q.pack = o.pack
        PROVE  q.score = o.score
    <3>1. CASE q = p /\ o = p
      BY <3>1, Zenon
    <3>2. CASE q \in packs /\ o \in packs
      BY <2>0, <2>2, <3>2, Zenon DEF PacksFunctional
    <3>3. CASE q = p /\ o \in packs
      BY <1>2, <1>3, <2>2, <3>3, Zenon
    <3>4. CASE q \in packs /\ o = p
      BY <1>2, <1>3, <2>2, <3>4, Zenon
    <3>. QED BY <2>1, <3>1, <3>2, <3>3, <3>4, Zenon
  <2>. QED BY <2>2, Zenon DEF PacksFunctional
<1>5. \A q \in packs' : attempts'[q.key] # NoAttempt /\ attempts'[q.key].seed = q.seed
  BY <1>0, <1>1, <1>2, Zenon DEF EvalInv, StoreInv
<1>6. \A k \in Keys : attempts'[k].outcome # "none" =>
                         Decided(packs', k, attempts'[k].seed, attempts'[k].outcome)
  BY <1>1, DecidedGrows, ZenonT(60) DEF EvalInv, StoreInv
<1>7. \A m \in Miners : MinerAdmissions(m)' <= Cap
  BY ZenonT(60) DEF EvalInv, StoreInv, MinerAdmissions
<1>8. StoreInv'
  BY <1>4, <1>5, <1>6, <1>7, Zenon DEF EvalInv, StoreInv
<1>. QED
  BY <1>1, <1>2, <1>8, ZenonT(60) DEF EvalInv, EvaluatorTypeOK, p

LEMMA GateKeepsEvalInv ==
    ASSUME EvalInv, NEW s \in Scores, Gate(s)
    PROVE  EvalInv'
<1>0. /\ UNCHANGED <<chain, attempts, records, artifacts, answers, faults>>
      /\ pc = "gate" /\ call \in Call /\ call.seed \in Seeds /\ Score("gate", s)
      /\ attempts[call.key] # NoAttempt /\ attempts[call.key].seed = call.seed
      /\ attempts[call.key].miner = call.miner /\ records[call.key] = "none"
  BY Zenon DEF Gate, EvalInv, EvaluatorTypeOK, CallInv, Scoring
<1>1. /\ StoreInv' /\ GatePack(call.key, call.seed, s) \in packs'
      /\ packs' \subseteq [key : Keys, seed : Seeds, pack : {"gate", "confirm"}, score : Scores]
  BY <1>0, ScoreKeepsStores, Zenon DEF Scoring, GatePack
<1>2. CASE s < Screener
  <2>1. pc' = "record" /\ call' = [call EXCEPT !.outcome = "reject"]
    BY <1>2, Zenon DEF Gate, Goto
  <2>2. /\ call' \in Call /\ call'.key = call.key /\ call'.seed = call.seed
        /\ call'.miner = call.miner /\ call'.outcome = "reject"
    BY <1>0, <2>1, Zenon DEF Call, Outcomes
  <2>3. Decided(packs', call'.key, call'.seed, call'.outcome)
    BY <1>1, <1>2, <2>2, ZenonT(60) DEF Decided
  <2>4. CallInv'
    BY <1>0, <2>1, <2>2, <2>3, ZenonT(40) DEF CallInv, Scoring, Decision, Accepting
  <2>. QED
    BY <1>0, <1>1, <2>1, <2>2, <2>4, ZenonT(40) DEF EvalInv, EvaluatorTypeOK, Steps
<1>3. CASE ~(s < Screener)
  <2>1. pc' = "confirm" /\ call' = call
    BY <1>3, Zenon DEF Gate, Goto
  <2>2. s >= Screener
    BY <1>3, SMTT(30) DEF Scores, Screener
  <2>3. CallInv'
    BY <1>0, <1>1, <2>1, <2>2, ZenonT(60) DEF CallInv, Scoring, Decision
  <2>. QED
    BY <1>0, <1>1, <2>1, <2>3, Zenon DEF EvalInv, EvaluatorTypeOK, Steps
<1>. QED
  BY <1>2, <1>3, Zenon

LEMMA VerdictRange ==
    ASSUME NEW g \in Scores, NEW s \in Scores
    PROVE  /\ s < Screener => Verdict(g, s) = "reject"
           /\ ~(s < Screener) => Verdict(g, s) \in Accepting
           /\ Verdict(g, s) \in Outcomes
BY Zenon DEF Verdict, Accepting, Outcomes

LEMMA ConfirmKeepsEvalInv ==
    ASSUME EvalInv, NEW s \in Scores, Confirm(s)
    PROVE  EvalInv'
<1> DEFINE v == Verdict(GateScore, s)
<1>0. /\ UNCHANGED <<chain, attempts, records, artifacts, answers, faults>>
      /\ pc = "confirm" /\ call \in Call /\ call.seed \in Seeds /\ Score("confirm", s)
      /\ attempts[call.key] # NoAttempt /\ attempts[call.key].seed = call.seed
      /\ attempts[call.key].miner = call.miner /\ records[call.key] = "none"
  BY Zenon DEF Confirm, EvalInv, EvaluatorTypeOK, CallInv, Scoring
<1>1. PICK g \in Scores : g >= Screener /\ GatePack(call.key, call.seed, g) \in packs
  BY <1>0, ZenonT(60) DEF EvalInv, CallInv
<1>2. GateScore \in Scores /\ GatePack(call.key, call.seed, GateScore) \in packs
  <2>1. \E h \in Scores : [key |-> call.key, seed |-> call.seed, pack |-> "gate", score |-> h] \in packs
    BY <1>1, Zenon DEF GatePack
  <2>. QED
    BY <2>1, ZenonT(60) DEF GateScore, GatePack
<1>3. GateScore = g
  BY <1>1, <1>2, ZenonT(60) DEF EvalInv, StoreInv, PacksFunctional, GatePack
<1>4. /\ StoreInv' /\ packs \subseteq packs' /\ ConfirmPack(call.key, call.seed, s) \in packs'
      /\ packs' \subseteq [key : Keys, seed : Seeds, pack : {"gate", "confirm"}, score : Scores]
  BY <1>0, ScoreKeepsStores, ZenonT(60) DEF Scoring, ConfirmPack
<1>5. Decided(packs', call.key, call.seed, v)
  BY <1>1, <1>3, <1>4, ZenonT(40) DEF Decided
<1>6. /\ call' = [call EXCEPT !.outcome = v]
      /\ pc' = IF s < Screener THEN "record" ELSE "publish"
  BY Zenon DEF Confirm, Goto
<1>7. v \in Outcomes /\ (s < Screener => v = "reject") /\ (~(s < Screener) => v \in Accepting)
  BY <1>2, VerdictRange, ZenonT(40)
<1> HIDE DEF v
<1>8. /\ call' \in Call /\ call'.key = call.key /\ call'.seed = call.seed
      /\ call'.miner = call.miner /\ call'.outcome = v
  BY <1>0, <1>6, <1>7, ZenonT(40) DEF Call
<1>9. CallInv'
  BY <1>0, <1>5, <1>6, <1>7, <1>8, ZenonT(40) DEF CallInv, Scoring, Decision, Accepting
<1>. QED
  BY <1>0, <1>4, <1>6, <1>8, <1>9, ZenonT(40) DEF EvalInv, EvaluatorTypeOK, Steps

LEMMA PublishKeepsEvalInv ==
    ASSUME EvalInv, Publish
    PROVE  EvalInv'
<1> DEFINE a == [key |-> call.key, seed |-> call.seed, miner |-> call.miner, outcome |-> call.outcome]
<1>0. /\ UNCHANGED <<chain, attempts, records, packs, answers, faults, call>>
      /\ pc = "publish" /\ pc' = "record" /\ call \in Call /\ call.seed \in Seeds
      /\ call.outcome \in Accepting /\ artifacts' = artifacts \cup {a}
  BY ZenonT(60) DEF Publish, Goto, EvalInv, EvaluatorTypeOK, CallInv
<1>1. a \in [key : Keys, seed : Seeds, miner : Miners, outcome : Outcomes]
  BY <1>0, Zenon DEF Call, Accepting, Outcomes
<1>2. CallInv'
  BY <1>0, ZenonT(60) DEF EvalInv, CallInv, Scoring, Decision
<1>3. StoreInv'
  BY <1>0, ZenonT(60) DEF EvalInv, StoreInv, PacksFunctional, MinerAdmissions
<1>. QED
  BY <1>0, <1>1, <1>2, <1>3, ZenonT(60) DEF EvalInv, EvaluatorTypeOK, Steps

LEMMA RecordKeepsEvalInv ==
    ASSUME EvalInv, RecordOutcome
    PROVE  EvalInv'
<1> DEFINE k == call.key
           o == call.outcome
           old == attempts[k]
           new == [old EXCEPT !.state = IF o = "reject" THEN "rejected" ELSE "accepted", !.outcome = o]
<1>0. /\ UNCHANGED <<chain, records, artifacts, packs, answers, faults, call>>
      /\ pc = "record" /\ pc' = "put" /\ call \in Call /\ call.seed \in Seeds
      /\ old # NoAttempt /\ old.seed = call.seed /\ old.miner = call.miner
      /\ records[k] = "none" /\ Decided(packs, k, call.seed, o)
      /\ o \in Accepting =>
           [key |-> k, seed |-> call.seed, miner |-> call.miner, outcome |-> o] \in artifacts
  BY Zenon DEF RecordOutcome, Goto, EvalInv, EvaluatorTypeOK, CallInv, Scoring, Decision
<1>1. k \in Keys /\ old \in Attempt /\ attempts \in [Keys -> Attempt \cup {NoAttempt}]
  BY <1>0, Zenon DEF EvalInv, EvaluatorTypeOK, Call
<1>2. o \in Outcomes
  BY <1>0, VerdictRange, Zenon DEF Decided, Outcomes
<1>3. attempts' = [attempts EXCEPT ![k] = new]
  BY <1>0, <1>1, Zenon DEF RecordOutcome, Attempt
<1>4. /\ new \in Attempt /\ new.seed = call.seed /\ new.miner = call.miner /\ new.outcome = o
      /\ new.state = "accepted" => o # "reject"
      /\ old.miner \in Miners
  BY <1>0, <1>1, <1>2, Zenon DEF Attempt
<1>5. new # NoAttempt
  BY <1>4, EvaluatorAssumption, NoAttemptFields, ZenonT(60) DEF Attempt
<1> HIDE DEF new
<1>6. \A j \in Keys : attempts'[j] = IF j = k THEN new ELSE attempts[j]
  BY <1>1, <1>3, ZenonT(40)
<1>7. EvaluatorTypeOK'
  BY <1>0, <1>1, <1>3, <1>4, Zenon DEF EvalInv, EvaluatorTypeOK, Steps
<1>8. CallInv'
  BY <1>0, <1>1, <1>4, <1>5, <1>6, ZenonT(60) DEF CallInv, Scoring, Decision
<1>9. \A m \in Miners : MinerAdmissions(m)' <= Cap
  <2>1. ASSUME NEW m \in Miners PROVE MinerAdmissions(m)' = MinerAdmissions(m)
    <3>1. {j \in Keys : attempts'[j].miner = m} = {j \in Keys : attempts[j].miner = m}
      BY <1>0, <1>4, <1>6, ZenonT(60)
    <3>. QED
      BY <3>1, Zenon DEF MinerAdmissions
  <2>. QED
    BY <2>1, ZenonT(60) DEF EvalInv, StoreInv
<1>10. StoreInv'
  <2>1. \A p \in packs' : attempts'[p.key] # NoAttempt /\ attempts'[p.key].seed = p.seed
    BY <1>0, <1>4, <1>5, <1>6, ZenonT(60) DEF EvalInv, StoreInv, EvaluatorTypeOK
  <2>2. \A b \in answers' : records'[b.key] = b.outcome /\ attempts'[b.key].miner = b.miner
    BY <1>0, <1>4, <1>6, ZenonT(60) DEF EvalInv, StoreInv, EvaluatorTypeOK
  <2>3. ASSUME NEW j \in Keys
        PROVE  /\ attempts'[j].outcome # "none" =>
                    Decided(packs', j, attempts'[j].seed, attempts'[j].outcome)
               /\ attempts'[j].state = "accepted" => attempts'[j].outcome \in Accepting
               /\ attempts'[j].outcome \in Accepting =>
                    [key |-> j, seed |-> attempts'[j].seed, miner |-> attempts'[j].miner,
                     outcome |-> attempts'[j].outcome] \in artifacts'
               /\ records'[j] # "none" => attempts'[j].outcome = records'[j]
    <3>1. CASE j = k
      BY <1>0, <1>2, <1>4, <1>6, <3>1, ZenonT(60) DEF Outcomes, Accepting
    <3>2. CASE j # k
      BY <1>0, <1>6, <3>2, ZenonT(60) DEF EvalInv, StoreInv
    <3>. QED
      BY <3>1, <3>2, ZenonT(60)
  <2>. QED
    BY <1>0, <1>9, <2>1, <2>2, <2>3, ZenonT(60) DEF EvalInv, StoreInv, PacksFunctional
<1>. QED
  BY <1>7, <1>8, <1>10, Zenon DEF EvalInv

LEMMA PutKeepsEvalInv ==
    ASSUME EvalInv, Put
    PROVE  EvalInv'
<1>0. /\ UNCHANGED <<chain, attempts, artifacts, packs, answers, faults, call>>
      /\ pc = "put" /\ pc' = "answer" /\ call \in Call /\ records[call.key] = "none"
      /\ records' = [records EXCEPT ![call.key] = call.outcome]
      /\ attempts[call.key].outcome = call.outcome /\ Decided(packs, call.key, call.seed, call.outcome)
  BY ZenonT(60) DEF Put, Goto, EvalInv, EvaluatorTypeOK, CallInv, Scoring, Decision
<1>1. call.key \in Keys /\ call.outcome \in Outcomes
  BY <1>0, VerdictRange, ZenonT(60) DEF Call, Decided, Outcomes
<1>2. /\ records' \in [Keys -> Outcomes \cup {"none"}]
      /\ \A j \in Keys : records'[j] = IF j = call.key THEN call.outcome ELSE records[j]
  BY <1>0, <1>1, Zenon DEF EvalInv, EvaluatorTypeOK
<1>3. CallInv'
  BY <1>0, <1>1, <1>2, ZenonT(60) DEF EvalInv, CallInv, Scoring, Decision
<1>4. \A b \in answers : b.key # call.key /\ b.key \in Keys
  BY <1>0, ZenonT(60) DEF EvalInv, StoreInv, EvaluatorTypeOK, Outcomes
<1>5. StoreInv'
  BY <1>0, <1>1, <1>2, <1>4, ZenonT(60) DEF EvalInv, StoreInv, PacksFunctional, MinerAdmissions
<1>. QED
  BY <1>0, <1>2, <1>3, <1>5, ZenonT(40) DEF EvalInv, EvaluatorTypeOK, Steps

LEMMA AnswerKeepsEvalInv ==
    ASSUME EvalInv, Answer
    PROVE  EvalInv'
<1> DEFINE a == [key |-> call.key, miner |-> call.miner, outcome |-> call.outcome]
<1>0. /\ UNCHANGED <<chain, attempts, records, artifacts, packs, faults>>
      /\ pc = "answer" /\ pc' = "idle" /\ call' = NoCall /\ call \in Call /\ answers' = answers \cup {a}
      /\ attempts[call.key].miner = call.miner /\ records[call.key] = call.outcome
      /\ Decided(packs, call.key, call.seed, call.outcome)
  BY ZenonT(60) DEF Answer, Return, EvalInv, EvaluatorTypeOK, CallInv, Scoring, Decision
<1>1. call.outcome \in Outcomes
  BY <1>0, VerdictRange, ZenonT(60) DEF Decided, Outcomes
<1>2. /\ a \in [key : Keys, miner : Miners, outcome : Outcomes]
      /\ a.key = call.key /\ a.miner = call.miner /\ a.outcome = call.outcome
  BY <1>0, <1>1, ZenonT(60) DEF Call
<1> HIDE DEF a
<1>3. StoreInv'
  BY <1>0, <1>2, ZenonT(60) DEF EvalInv, StoreInv, PacksFunctional, MinerAdmissions
<1>4. CallInv'
  BY <1>0, Zenon DEF CallInv, Scoring, Decision
<1>. QED
  BY <1>0, <1>2, <1>3, <1>4, ZenonT(60) DEF EvalInv, EvaluatorTypeOK

LEMMA EvalInvNext == EvalInv /\ [Next]_vars => EvalInv'
<1> SUFFICES ASSUME EvalInv, [Next]_vars PROVE EvalInv'
  BY Zenon 
<1>1. CASE UNCHANGED vars
  BY <1>1, StoreSame, CallSame, ZenonT(40) DEF vars, EvalInv, EvaluatorTypeOK
<1>2. CASE CallStep
  BY <1>2, EndKeepsEvalInv, DrawKeepsEvalInv, PinKeepsEvalInv, GateKeepsEvalInv,
     ConfirmKeepsEvalInv, PublishKeepsEvalInv, RecordKeepsEvalInv, PutKeepsEvalInv,
     AnswerKeepsEvalInv, ZenonT(40) DEF CallStep
<1>. QED
  BY <1>1, <1>2, ChainKeepsEvalInv, SubmitKeepsEvalInv, EndKeepsEvalInv, ZenonT(40) DEF Next

LEMMA EvalInvAlways == Spec => []EvalInv
BY EvalInvInit, EvalInvNext, PTL DEF Spec

\* A patch is scored against one seed only, whatever crashes, timeouts,
\* resubmissions and reorganisations happen between its attempts: the seed is
\* pinned before the first pack is scored (recordSeedDrawnAndAdmission).
THEOREM OneSeedPerKey == Spec => []OnePackPerKey
<1>1. EvalInv => OnePackPerKey
  BY ZenonT(60) DEF EvalInv, StoreInv, OnePackPerKey
<1>. QED
  BY <1>1, EvalInvAlways, PTL

\* Every scored pack is charged, and nobody is charged above the cap: the
\* admission is tested before the draw and written with the seed, and no other
\* call runs in between.
THEOREM CapIsKept == Spec => []AdmissionsCharged
<1>1. EvalInv => AdmissionsCharged
  BY Zenon DEF EvalInv, StoreInv, AdmissionsCharged
<1>. QED
  BY <1>1, EvalInvAlways, PTL

\* No accepting outcome is recorded before the artifact that proves it, with
\* the pinned seed and miner, is published.
THEOREM PublishedFirst == Spec => []AcceptedIsPublished
<1>1. ASSUME EvalInv, NEW k \in Keys,
             attempts[k].state = "accepted" \/ records[k] \in {"screener_pass", "state_advance"}
      PROVE  \E a \in artifacts : /\ a.key = k /\ a.seed = attempts[k].seed
                                  /\ a.miner = attempts[k].miner /\ a.outcome = attempts[k].outcome
  <2>1. attempts[k].outcome \in Accepting
    BY <1>1, ZenonT(60) DEF EvalInv, StoreInv, Accepting
  <2>2. [key |-> k, seed |-> attempts[k].seed, miner |-> attempts[k].miner,
         outcome |-> attempts[k].outcome] \in artifacts
    BY <1>1, <2>1, ZenonT(60) DEF EvalInv, StoreInv
  <2>. QED
    BY <2>2, Zenon
<1>2. EvalInv => AcceptedIsPublished
  BY <1>1, ZenonT(40) DEF AcceptedIsPublished
<1>. QED
  BY <1>2, EvalInvAlways, PTL

\* A key has one answer: to the miner who drew for it, with the recorded outcome.
THEOREM AnsweredOnce == Spec => []OneAnswerPerKey
<1>1. EvalInv => OneAnswerPerKey
  BY Zenon DEF EvalInv, StoreInv, OneAnswerPerKey
<1>. QED
  BY <1>1, EvalInvAlways, PTL

\* A retry finds the seed, the miner and the outcome it left behind: the packs
\* of the pinned seed decide the same outcome again (DecidedOnce).
THEOREM PinsAreFinal == Spec => PinIsFinal
<1> DEFINE Final == \A k \in Keys :
       /\ attempts[k] # NoAttempt => /\ attempts'[k].seed = attempts[k].seed
                                      /\ attempts'[k].miner = attempts[k].miner
       /\ attempts[k].outcome # "none" => attempts'[k].outcome = attempts[k].outcome
       /\ records[k] # "none" => records'[k] = records[k]
<1>1. EvalInv /\ [Next]_vars => [Final]_vars
  <2> SUFFICES ASSUME EvalInv, Next PROVE Final
    BY Zenon
  <2>1. CASE UNCHANGED <<attempts, records>>
    BY <2>1, Zenon
  <2>2. CASE Pin
    BY <2>2, NoAttemptFields, ZenonT(60) DEF Pin, EvalInv, CallInv, EvaluatorTypeOK
  <2>3. CASE RecordOutcome
    <3>1. /\ pc = "record" /\ call.key \in Keys /\ UNCHANGED records
          /\ attempts \in [Keys -> Attempt \cup {NoAttempt}]
          /\ attempts[call.key] # NoAttempt /\ attempts[call.key].seed = call.seed
          /\ Decided(packs, call.key, call.seed, call.outcome)
      BY <2>3, Zenon DEF RecordOutcome, EvalInv, EvaluatorTypeOK, CallInv, Call, Scoring, Decision
    <3>2. attempts[call.key] \in Attempt
      BY <3>1, Zenon
    <3>3. /\ \A k \in Keys : k # call.key => attempts'[k] = attempts[k]
          /\ attempts'[call.key].seed = attempts[call.key].seed
          /\ attempts'[call.key].miner = attempts[call.key].miner
          /\ attempts'[call.key].outcome = call.outcome
      BY <2>3, <3>1, <3>2, Zenon DEF RecordOutcome, Attempt
    <3>4. attempts[call.key].outcome # "none" => attempts[call.key].outcome = call.outcome
      BY <3>1, DecidedOnce, ZenonT(60) DEF EvalInv, StoreInv
    <3>. QED
      BY <3>1, <3>3, <3>4, Zenon
  <2>4. CASE Put
    BY <2>4, Zenon DEF Put, EvalInv, CallInv, EvaluatorTypeOK, Scoring
  <2>. QED
    BY <2>1, <2>2, <2>3, <2>4, ZenonT(60) DEF Next, NewBlock, Reorg, Submit, CallStep, Draw, WaitForBlock,
       WaitTimesOut, Gate, Confirm, Publish, Answer, Abort
<1>. QED
  BY <1>1, EvalInvAlways, PTL DEF Spec, PinIsFinal

-----------------------------------------------------------------------------
(* The bonus contract. *)

\* An epoch whose claims are open was drawn, an epoch somebody claimed is open,
\* and every claim was paid its share.
DrawInv ==
  /\ height \in Int /\ height >= 1
  /\ bonusBlock \in [BonusEpochs -> Int] /\ DOMAIN bonusHash = BonusEpochs
  /\ bonusHash = [e \in BonusEpochs |-> bonusHash[e]]
  /\ bonusReward = [e \in BonusEpochs |-> bonusReward[e]]
  /\ bonusClaimsOpen = [e \in BonusEpochs |-> bonusClaimsOpen[e]]
  /\ \A e \in BonusEpochs : bonusClaimed[e] \subseteq BonusMiners
  /\ \A e \in BonusEpochs : paid[e] = [m \in BonusMiners |-> paid[e][m]]
  /\ \A e \in BonusEpochs :
       /\ bonusClaimsOpen[e] => IsBonusEpoch(e)
       /\ bonusClaimed[e] # {} => bonusClaimsOpen[e]

\* What one step does to the draw and the pool of an epoch.
DrawStep(e) ==
  /\ bonusBlock[e] # 0 => bonusBlock'[e] = bonusBlock[e]
  /\ bonusHash[e] # NoHash => bonusHash'[e] = bonusHash[e]
  /\ bonusBlock[e] = 0 /\ bonusBlock'[e] # 0 => height < bonusBlock'[e]
  /\ bonusClaimsOpen'[e] => bonusClaimsOpen[e] \/ IsBonusEpoch(e)
  /\ bonusClaimsOpen[e] => bonusClaimsOpen'[e] /\ bonusReward'[e] = bonusReward[e]

LEMMA DrawStart == BonusInit => DrawInv /\ PaidIsShare
BY BonusAssumption DEF BonusInit, DrawInv, PaidIsShare

LEMMA EachDraw ==
  ASSUME DrawInv, BonusNext, NEW e \in BonusEpochs
  PROVE  DrawStep(e)
<1>1. ASSUME NEW x \in BonusEpochs, NEW b \in Blocks, SetEpochBonusBlock(x, b)
      PROVE  DrawStep(e)
  BY <1>1, BonusAssumption, Zenon DEF SetEpochBonusBlock, DrawInv, DrawStep, poolVars, Blocks
<1>2. ASSUME NEW x \in BonusEpochs, CaptureBonusHash(x) \/ \E hash \in Hashes : SubmitBonusHash(x, hash)
      PROVE  DrawStep(e)
  BY <1>2, Zenon DEF CaptureBonusHash, SubmitBonusHash, DrawInv, DrawStep, poolVars
<1>3. ASSUME NEW x \in BonusEpochs, NEW amount \in 1..MaxPool, FundBonusEpoch(x, amount)
      PROVE  DrawStep(e)
  BY <1>3, Zenon DEF FundBonusEpoch, DrawInv, DrawStep, drawVars
<1>4. ASSUME NEW x \in BonusEpochs, OpenBonusClaims(x) PROVE DrawStep(e)
  BY <1>4, Zenon DEF OpenBonusClaims, DrawInv, DrawStep, drawVars
<1>5. CASE UNCHANGED <<bonusBlock, bonusHash, bonusReward, bonusClaimsOpen>>
  BY <1>5, Zenon DEF DrawStep
<1>6. CASE \/ Mine \/ Transfer \/ SweepDust
           \/ \E amount \in 1..MaxReserve : DepositReserve(amount) \/ WithdrawReserve(amount)
           \/ \E m \in BonusMiners, epochs \in SUBSET BonusEpochs \ {{}} : ClaimBonus(m, epochs)
  BY <1>5, <1>6, ZenonT(60) DEF Mine, Transfer, SweepDust, DepositReserve, WithdrawReserve, ClaimBonus, drawVars, poolVars
<1>. QED BY <1>1, <1>2, <1>3, <1>4, <1>6, ZenonT(60) DEF BonusNext

\* A step changes what miners claimed and were paid only by a claim of theirs.
ClaimStep(e, m) ==
  \/ (m \in bonusClaimed'[e] <=> m \in bonusClaimed[e]) /\ paid'[e][m] = paid[e][m]
  \/ bonusClaimsOpen[e] /\ m \in bonusClaimed'[e] /\ paid'[e][m] = Share(e, m)

LEMMA EachClaim ==
  ASSUME DrawInv, BonusNext, NEW e \in BonusEpochs
  PROVE  /\ bonusClaimed'[e] \subseteq BonusMiners
         /\ paid'[e] = [y \in BonusMiners |-> paid'[e][y]]
         /\ \A m \in BonusMiners : ClaimStep(e, m)
<1>1. CASE UNCHANGED <<bonusClaimed, paid>>
  BY <1>1, Zenon DEF ClaimStep, DrawInv
<1>2. ASSUME NEW x \in BonusMiners, NEW epochs \in SUBSET BonusEpochs \ {{}}, ClaimBonus(x, epochs)
      PROVE  /\ bonusClaimed'[e] \subseteq BonusMiners
             /\ paid'[e] = [y \in BonusMiners |-> paid'[e][y]]
             /\ \A m \in BonusMiners : ClaimStep(e, m)
  <2>1. /\ e \in epochs => bonusClaimsOpen[e]
        /\ bonusClaimed'[e] = bonusClaimed[e] \cup (IF e \in epochs THEN {x} ELSE {})
        /\ paid'[e] = IF e \in epochs THEN [paid[e] EXCEPT ![x] = Share(e, x)] ELSE paid[e]
    BY <1>2, Zenon DEF ClaimBonus
  <2>2. paid[e] = [y \in BonusMiners |-> paid[e][y]]
    BY Zenon DEF DrawInv
  <2>3. bonusClaimed'[e] \subseteq BonusMiners
    BY <2>1, Zenon DEF DrawInv
  <2>4. paid'[e] = [y \in BonusMiners |-> paid'[e][y]]
    BY <2>1, <2>2, Zenon
  <2>5. ASSUME NEW m \in BonusMiners PROVE ClaimStep(e, m)
    <3>1. CASE e \in epochs /\ m = x
      BY <2>1, <2>2, <3>1, Zenon DEF ClaimStep
    <3>2. CASE ~(e \in epochs /\ m = x)
      BY <2>1, <2>2, <3>2, ZenonT(40) DEF ClaimStep
    <3>. QED BY <3>1, <3>2, ZenonT(40)
  <2>. QED BY <2>3, <2>4, <2>5, Zenon
<1>3. UNCHANGED <<bonusClaimed, paid>>
      \/ \E x \in BonusMiners, epochs \in SUBSET BonusEpochs \ {{}} : ClaimBonus(x, epochs)
  BY ZenonT(60) DEF BonusNext, Mine, SetEpochBonusBlock, CaptureBonusHash, SubmitBonusHash, FundBonusEpoch,
         OpenBonusClaims, DepositReserve, WithdrawReserve, Transfer, SweepDust, poolVars
<1>. QED BY <1>1, <1>2, <1>3, Zenon

\* The types the steps keep.
LEMMA DrawTypes ==
  ASSUME DrawInv, BonusNext
  PROVE  /\ height' \in Int /\ height' >= 1
         /\ bonusBlock' \in [BonusEpochs -> Int] /\ DOMAIN bonusHash' = BonusEpochs
         /\ bonusHash' = [e \in BonusEpochs |-> bonusHash'[e]]
         /\ bonusReward' = [e \in BonusEpochs |-> bonusReward'[e]]
         /\ bonusClaimsOpen' = [e \in BonusEpochs |-> bonusClaimsOpen'[e]]
<1>. DEFINE Kept == /\ height' \in Int /\ height' >= 1
                    /\ bonusBlock' \in [BonusEpochs -> Int] /\ DOMAIN bonusHash' = BonusEpochs
                    /\ bonusHash' = [e \in BonusEpochs |-> bonusHash'[e]]
                    /\ bonusReward' = [e \in BonusEpochs |-> bonusReward'[e]]
                    /\ bonusClaimsOpen' = [e \in BonusEpochs |-> bonusClaimsOpen'[e]]
<1>1. ASSUME NEW x \in BonusEpochs, NEW b \in Blocks, SetEpochBonusBlock(x, b) PROVE Kept
  BY <1>1, BonusAssumption, SMTT(30) DEF SetEpochBonusBlock, DrawInv, poolVars, Blocks
<1>2. ASSUME NEW x \in BonusEpochs, CaptureBonusHash(x) \/ \E hash \in Hashes : SubmitBonusHash(x, hash)
      PROVE  Kept
  BY <1>2, SMTT(30) DEF CaptureBonusHash, SubmitBonusHash, DrawInv, poolVars
<1>3. ASSUME NEW x \in BonusEpochs, NEW amount \in 1..MaxPool, FundBonusEpoch(x, amount) PROVE Kept
  BY <1>3, ZenonT(40) DEF FundBonusEpoch, DrawInv, drawVars
<1>4. ASSUME NEW x \in BonusEpochs, OpenBonusClaims(x) PROVE Kept
  BY <1>4, ZenonT(60) DEF OpenBonusClaims, DrawInv, drawVars
<1>5. ASSUME Mine PROVE Kept
  BY <1>5 DEF Mine, DrawInv, poolVars
<1>6. ASSUME \/ Transfer \/ SweepDust
             \/ \E amount \in 1..MaxReserve : DepositReserve(amount) \/ WithdrawReserve(amount)
             \/ \E m \in BonusMiners, epochs \in SUBSET BonusEpochs \ {{}} : ClaimBonus(m, epochs)
      PROVE  Kept
  <2>1. UNCHANGED <<height, bonusBlock, bonusHash, bonusReward, bonusClaimsOpen>>
    BY <1>6, Zenon DEF Transfer, SweepDust, DepositReserve, WithdrawReserve, ClaimBonus, drawVars
  <2>. QED BY <2>1, ZenonT(40) DEF DrawInv
<1>. HIDE DEF Kept
<1>7. Kept
  BY <1>1, <1>2, <1>3, <1>4, <1>5, <1>6, Zenon DEF BonusNext
<1>. QED BY <1>7, Zenon DEF Kept

LEMMA DrawKept ==
  ASSUME DrawInv, PaidIsShare, [BonusNext]_bonusVars
  PROVE  DrawInv' /\ PaidIsShare'
<1>1. CASE UNCHANGED bonusVars
  <2>1. UNCHANGED <<height, bonusBlock, bonusHash, bonusReward, bonusClaimsOpen, bonusClaimed, paid>>
    BY <1>1, Zenon DEF bonusVars, drawVars, poolVars
  <2>. QED BY <2>1, ZenonT(60) DEF DrawInv, PaidIsShare, Share, IsBonusEpoch
<1>2. CASE BonusNext
  <2>1. ASSUME NEW e \in BonusEpochs
        PROVE  /\ bonusClaimsOpen'[e] => IsBonusEpoch(e)'
               /\ bonusClaimed'[e] # {} => bonusClaimsOpen'[e]
    <3>1. DrawStep(e) /\ (bonusClaimsOpen[e] => IsBonusEpoch(e)) /\ (bonusClaimed[e] # {} => bonusClaimsOpen[e])
      BY <1>2, EachDraw, Zenon DEF DrawInv
    <3>2. IsBonusEpoch(e) => bonusHash[e] # NoHash
      BY BonusAssumption, Zenon DEF IsBonusEpoch
    <3>3. ASSUME bonusClaimed'[e] # {} PROVE bonusClaimsOpen'[e]
      <4>1. PICK m \in BonusMiners : m \in bonusClaimed'[e]
        <5>1. bonusClaimed'[e] \subseteq BonusMiners
          BY <1>2, EachClaim, ZenonT(60)
        <5>. QED BY <3>3, <5>1, Zenon
      <4>. QED BY <1>2, <3>1, <4>1, EachClaim, ZenonT(60) DEF ClaimStep, DrawStep
    <3>. QED BY <3>1, <3>2, <3>3, Zenon DEF DrawStep, IsBonusEpoch
  <2>2. PaidIsShare'
    <3>. SUFFICES ASSUME NEW e \in BonusEpochs, NEW m \in bonusClaimed'[e]
                  PROVE  paid'[e][m] = Share(e, m)'
      BY Zenon DEF PaidIsShare
    <3>1. m \in BonusMiners
      <4>1. bonusClaimed'[e] \subseteq BonusMiners
        BY <1>2, EachClaim, Zenon
      <4>. QED BY <4>1, Zenon
    <3>2. ClaimStep(e, m) /\ DrawStep(e)
      BY <1>2, <3>1, EachClaim, EachDraw, Zenon
    <3>3. bonusClaimsOpen[e] /\ paid'[e][m] = Share(e, m)
      BY <3>1, <3>2, ZenonT(40) DEF ClaimStep, PaidIsShare, DrawInv
    <3>4. bonusReward'[e] = bonusReward[e]
      BY <3>2, <3>3, Zenon DEF DrawStep
    <3>. QED BY <3>3, <3>4, ZenonT(60) DEF Share
  <2>3. \A e \in BonusEpochs : paid'[e] = [x \in BonusMiners |-> paid'[e][x]]
    BY <1>2, EachClaim, Zenon
  <2>4. \A e \in BonusEpochs : bonusClaimed'[e] \subseteq BonusMiners
    BY <1>2, EachClaim, Zenon
  <2>. QED BY <1>2, <2>1, <2>2, <2>3, <2>4, DrawTypes, Zenon DEF DrawInv
<1>. QED BY <1>1, <1>2, Zenon

\* A claim is paid its share of a pool that no longer changes: fundBonusEpoch
\* refuses an epoch whose claims are open and claimBonus one that is not, for
\* any number of epochs claimed in one call.
THEOREM ClaimsPayTheirShare == BonusSpec => []PaidIsShare
<1>1. BonusInit => DrawInv /\ PaidIsShare
  BY DrawStart, Zenon
<1>2. DrawInv /\ PaidIsShare /\ [BonusNext]_bonusVars => DrawInv' /\ PaidIsShare'
  BY DrawKept, Zenon
<1>. QED BY <1>1, <1>2, PTL DEF BonusSpec

\* The block an epoch is drawn from is chosen before it exists, neither it nor
\* the hash is ever replaced, and only a drawn epoch opens for claims.
THEOREM DrawsAreFixed == BonusSpec => DrawIsFixed
<1>. DEFINE Fixed == \A e \in BonusEpochs :
       /\ bonusBlock[e] # 0 => bonusBlock'[e] = bonusBlock[e]
       /\ bonusHash[e] # NoHash => bonusHash'[e] = bonusHash[e]
       /\ bonusBlock[e] = 0 /\ bonusBlock'[e] # 0 => height < bonusBlock'[e]
       /\ bonusClaimsOpen'[e] => bonusHash[e] \in Lucky
<1>1. BonusInit => DrawInv /\ PaidIsShare
  BY DrawStart, Zenon
<1>2. DrawInv /\ PaidIsShare /\ [BonusNext]_bonusVars => DrawInv' /\ PaidIsShare'
  BY DrawKept, Zenon
<1>3. DrawInv /\ [BonusNext]_bonusVars => [Fixed]_bonusVars
  BY EachDraw, Zenon DEF DrawInv, DrawStep, IsBonusEpoch
<1>. QED BY <1>1, <1>2, <1>3, PTL DEF BonusSpec, DrawIsFixed

(***************************************************************************)
(* The bonus pools.                                                        *)
(***************************************************************************)
\* What a claim depends on, and the two balances, but for the order of claims.
BonusInv ==
  /\ bonusReward \in [BonusEpochs -> Nat] /\ bonusClaimsOpen \in [BonusEpochs -> BOOLEAN]
  /\ DOMAIN bonusClaimed = BonusEpochs
  /\ rewardBalance \in Int /\ held \in Int
  /\ SumFunction([e \in BonusEpochs |-> Owed(e)]) <= rewardBalance
  /\ rewardBalance <= held

LEMMA CreditsOfEpoch ==
  ASSUME NEW e \in BonusEpochs
  PROVE  /\ BonusCredits[e] \in [BonusMiners -> Nat]
         /\ EpochCredits(e) = SumFunctionOnSet(BonusCredits[e], BonusMiners)
         /\ EpochCredits(e) \in Int
         /\ \A m \in BonusMiners : BonusCredits[e][m] # 0 => EpochCredits(e) \in Nat \ {0}
<1>1. PICK c : c = BonusCredits[e]
  BY Zenon 
<1>2. c \in [BonusMiners -> Nat] /\ DOMAIN c = BonusMiners
  BY <1>1, CreditAssumption, ZenonT(40)
<1>3. EpochCredits(e) = SumFunctionOnSet(c, BonusMiners)
  BY <1>1, <1>2, Zenon DEF EpochCredits, SumFunction
<1>4. \A m \in BonusMiners : c[m] \in Nat /\ c[m] \in Int
  BY <1>2
<1>5. SumFunctionOnSet(c, BonusMiners) \in Int
  BY <1>4, CreditAssumption, SumInt, ZenonT(40)
<1>6. ASSUME NEW m \in BonusMiners, c[m] # 0 PROVE SumFunctionOnSet(c, BonusMiners) \in Nat \ {0}
  <2>1. PICK T \in SUBSET BonusMiners : T = {m}
    BY ZenonT(60)
  <2>2. SumFunctionOnSet(c, T) <= SumFunctionOnSet(c, BonusMiners)
    BY <1>4, CreditAssumption, SumWithin, ZenonT(40)
  <2>3. SumFunctionOnSet(c, T) = c[m]
    <3>1. IsFiniteSet(T) /\ m \in T /\ \A y \in T \ {m} : c[y] = 0
      BY <2>1, FS_Singleton, ZenonT(60)
    <3>. QED BY <1>4, <3>1, SumSingle, ZenonT(40)
  <2>. QED BY <1>4, <1>5, <1>6, <2>2, <2>3, SMTT(30)
<1>. QED BY <1>1, <1>2, <1>3, <1>5, <1>6, ZenonT(40)

LEMMA UnpaidFinite == ASSUME NEW e PROVE IsFiniteSet(Unpaid(e))
BY CreditAssumption, FS_Subset, ZenonT(40) DEF Unpaid

\* What an open epoch owes, as a sum of any table that holds its shares.
OpenOwes ==
  \A e, p : bonusClaimsOpen[e] /\ (\A m \in Unpaid(e) : p[m] = Share(e, m))
             => Owed(e) = SumFunctionOnSet(p, Unpaid(e))

LEMMA OpenOwesNow == OpenOwes
<1>. SUFFICES ASSUME NEW e, bonusClaimsOpen[e], NEW p, \A m \in Unpaid(e) : p[m] = Share(e, m)
              PROVE  Owed(e) = SumFunctionOnSet(p, Unpaid(e))
  BY Zenon DEF OpenOwes
<1>. DEFINE f == [m \in Unpaid(e) |-> Share(e, m)]
<1>1. Owed(e) = SumFunctionOnSet(f, Unpaid(e))
  <2>1. Owed(e) = SumFunction(f)
    BY Zenon DEF Owed
  <2>2. DOMAIN f = Unpaid(e)
    BY Zenon 
  <2>. HIDE DEF f
  <2>. QED BY <2>1, <2>2, ZenonT(60) DEF SumFunction
<1>2. \A m \in Unpaid(e) : p[m] = f[m]
  BY Zenon 
<1>. HIDE DEF f
<1>. QED BY <1>1, <1>2, UnpaidFinite, SumCongruent, ZenonT(60)

\* What all epochs owe, as a sum of any table of it.
PoolsOwe ==
  \A o : (\A e \in BonusEpochs : o[e] = Owed(e))
           => SumFunction([e \in BonusEpochs |-> Owed(e)]) = SumFunctionOnSet(o, BonusEpochs)

LEMMA PoolsOweNow == PoolsOwe
<1>. SUFFICES ASSUME NEW o, \A e \in BonusEpochs : o[e] = Owed(e)
              PROVE  SumFunction([e \in BonusEpochs |-> Owed(e)]) = SumFunctionOnSet(o, BonusEpochs)
  BY Zenon DEF PoolsOwe
<1>. DEFINE f == [e \in BonusEpochs |-> Owed(e)]
<1>1. SumFunction(f) = SumFunctionOnSet(f, BonusEpochs)
  <2>1. DOMAIN f = BonusEpochs
    BY Zenon 
  <2>. HIDE DEF f
  <2>. QED BY <2>1, Zenon DEF SumFunction
<1>2. \A e \in BonusEpochs : o[e] = f[e]
  BY Zenon 
<1>3. SumFunctionOnSet(o, BonusEpochs) = SumFunctionOnSet(f, BonusEpochs)
  <2>. HIDE DEF f
  <2>. QED BY <1>2, CreditAssumption, SumCongruent, Zenon
<1>. QED BY <1>1, <1>3, ZenonT(60)

LEMMA OwesLater == OpenOwes' /\ PoolsOwe'
BY OpenOwesNow, PoolsOweNow, PTL

\* The shares of an epoch whose pool is r.
LEMMA SharesOf ==
  ASSUME NEW e \in BonusEpochs, NEW r \in Nat, NEW U \in SUBSET BonusMiners,
         \A m \in U : BonusCredits[e][m] # 0,
         NEW p, \A m \in U : p[m] = (r * BonusCredits[e][m]) \div EpochCredits(e)
  PROVE  /\ \A m \in U : p[m] \in Nat
         /\ SumFunctionOnSet(p, U) \in Int /\ SumFunctionOnSet(p, U) <= r
<1>1. PICK c, w : c = BonusCredits[e] /\ w = EpochCredits(e)
  BY Zenon
<1>2. /\ c \in [BonusMiners -> Nat] /\ w = SumFunctionOnSet(c, BonusMiners)
      /\ \A m \in U : w \in Nat \ {0}
  BY <1>1, CreditsOfEpoch, ZenonT(40)
<1>3. ASSUME NEW m \in U PROVE p[m] \in Nat /\ p[m] = (r * c[m]) \div w
  <2>1. c[m] \in Nat /\ w \in Nat \ {0} /\ p[m] = (r * c[m]) \div w
    BY <1>1, <1>2, Zenon
  <2>. QED BY <2>1, ShareNat, ZenonT(60)
<1>4. CASE U = {}
  <2>1. SumFunctionOnSet(p, U) = 0
    BY <1>4, SumEmpty, Zenon
  <2>. QED BY <1>4, <2>1, SMTT(30)
<1>5. CASE U # {}
  <2>1. w \in Nat \ {0} /\ \A x \in BonusMiners : c[x] \in Nat
    BY <1>2, <1>5, Zenon
  <2>2. SharesOut(p, r, c, w, U)
    BY <1>3 DEF SharesOut
  <2>3. SumFunctionOnSet(p, U) \in Int /\ SumFunctionOnSet(p, U) <= r
    BY <1>2, <2>1, <2>2, CreditAssumption, PartSharesWithin, ZenonT(60)
  <2>. QED BY <1>3, <2>3, ZenonT(60)
<1>. QED BY <1>4, <1>5, Zenon

\* What an epoch owes is an integer, and no more than its pool.
LEMMA OwesAtMost ==
  ASSUME BonusInv, NEW e \in BonusEpochs
  PROVE  Owed(e) \in Int /\ \A m \in Unpaid(e) : Share(e, m) \in Nat
<1>1. bonusReward[e] \in Nat /\ bonusClaimsOpen[e] \in BOOLEAN
  BY Zenon DEF BonusInv
<1>2. PICK p : p = [m \in BonusMiners |-> Share(e, m)]
  BY ZenonT(60)
<1>3. Unpaid(e) \in SUBSET BonusMiners /\ \A m \in Unpaid(e) : BonusCredits[e][m] # 0
  BY Zenon DEF Unpaid
<1>4. \A m \in Unpaid(e) : p[m] = Share(e, m)
  BY <1>2, <1>3, Zenon
<1>5. \A m \in Unpaid(e) : p[m] = (bonusReward[e] * BonusCredits[e][m]) \div EpochCredits(e)
  BY <1>4, ZenonT(60) DEF Share
<1>6. (\A m \in Unpaid(e) : p[m] \in Nat) /\ SumFunctionOnSet(p, Unpaid(e)) \in Int
  BY <1>1, <1>3, <1>5, SharesOf, ZenonT(60)
<1>7. CASE bonusClaimsOpen[e]
  <2>1. Owed(e) = SumFunctionOnSet(p, Unpaid(e))
    BY <1>4, <1>7, OpenOwesNow, Zenon DEF OpenOwes
  <2>. QED BY <1>4, <1>6, <2>1, Zenon
<1>8. CASE ~bonusClaimsOpen[e]
  <2>1. Owed(e) = bonusReward[e]
    BY <1>8, Zenon DEF Owed
  <2>. QED BY <1>1, <1>4, <1>6, <2>1, SMTT(30)
<1>. QED BY <1>7, <1>8, ZenonT(40)

\* The balance follows the debts.
LEMMA BonusPool ==
  ASSUME BonusInv,
         NEW d, \A e \in BonusEpochs : Owed(e)' \in Int /\ d[e] \in Int /\ Owed(e)' <= Owed(e) + d[e],
         rewardBalance' = rewardBalance + SumFunctionOnSet(d, BonusEpochs)
  PROVE  /\ rewardBalance' \in Int
         /\ SumFunction([e \in BonusEpochs |-> Owed(e)])' <= rewardBalance'
<1>1. PICK o, n, pool : /\ o = [e \in BonusEpochs |-> Owed(e)] /\ n = [e \in BonusEpochs |-> Owed(e)']
                        /\ pool = rewardBalance
  BY ZenonT(60)
<1>2. \A e \in BonusEpochs : o[e] = Owed(e) /\ n[e] = Owed(e)'
  BY <1>1, Zenon
<1>3. \A e \in BonusEpochs : o[e] \in Int /\ n[e] \in Int /\ d[e] \in Int /\ n[e] <= o[e] + d[e]
  BY <1>2, OwesAtMost, ZenonT(60)
<1>4. pool \in Int /\ SumFunctionOnSet(o, BonusEpochs) <= pool
  BY <1>1, <1>2, PoolsOweNow, ZenonT(60) DEF PoolsOwe, BonusInv
<1>5. rewardBalance' \in Int /\ SumFunctionOnSet(n, BonusEpochs) <= rewardBalance'
  BY <1>1, <1>3, <1>4, CreditAssumption, PoolCovers, ZenonT(60)
<1>6. SumFunction([e \in BonusEpochs |-> Owed(e)])' = SumFunctionOnSet(n, BonusEpochs)
  BY <1>2, OwesLater, Zenon DEF PoolsOwe
<1>. QED BY <1>5, <1>6, Zenon

\* An epoch whose pool, flag and claimants a step leaves alone owes the same.
LEMMA OwesSame ==
  ASSUME NEW e \in BonusEpochs, bonusReward'[e] = bonusReward[e],
         bonusClaimsOpen'[e] = bonusClaimsOpen[e], bonusClaimed'[e] = bonusClaimed[e]
  PROVE  Owed(e)' = Owed(e)
<1>1. CASE ~bonusClaimsOpen[e]
  BY <1>1, ZenonT(60) DEF Owed
<1>2. CASE bonusClaimsOpen[e]
  <2>1. PICK p : p = [m \in BonusMiners |-> Share(e, m)]
    BY ZenonT(60)
  <2>2. Unpaid(e)' = Unpaid(e) /\ Unpaid(e) \subseteq BonusMiners
    BY Zenon DEF Unpaid
  <2>3. \A m \in BonusMiners : Share(e, m)' = Share(e, m)
    BY ZenonT(60) DEF Share
  <2>4. \A m \in Unpaid(e) : p[m] = Share(e, m) /\ p[m] = Share(e, m)'
    BY <2>1, <2>2, <2>3, ZenonT(40)
  <2>5. Owed(e) = SumFunctionOnSet(p, Unpaid(e))
    BY <1>2, <2>4, OpenOwesNow, ZenonT(60) DEF OpenOwes
  <2>6. bonusClaimsOpen'[e] /\ \A m \in Unpaid(e)' : p[m] = Share(e, m)'
    BY <1>2, <2>2, <2>4, ZenonT(60)
  <2>7. Owed(e)' = SumFunctionOnSet(p, Unpaid(e)')
    BY <2>6, OwesLater, Zenon DEF OpenOwes
  <2>. QED BY <2>2, <2>5, <2>7, ZenonT(40)
<1>. QED BY <1>1, <1>2, Zenon

\* The part of the invariant that is not about the tokens held.
PoolInv ==
  /\ bonusReward \in [BonusEpochs -> Nat] /\ bonusClaimsOpen \in [BonusEpochs -> BOOLEAN]
  /\ DOMAIN bonusClaimed = BonusEpochs
  /\ rewardBalance \in Int
  /\ SumFunction([e \in BonusEpochs |-> Owed(e)]) <= rewardBalance

LEMMA PoolsUntouched ==
  ASSUME BonusInv, UNCHANGED <<bonusReward, bonusClaimsOpen, bonusClaimed, rewardBalance>>
  PROVE  PoolInv'
<1>1. PICK d : d = [e \in BonusEpochs |-> 0]
  BY ZenonT(60)
<1>2. \A e \in BonusEpochs : Owed(e)' \in Int /\ d[e] \in Int /\ Owed(e)' <= Owed(e) + d[e] /\ d[e] = 0
  BY <1>1, OwesSame, OwesAtMost, SMTT(30)
<1>3. SumFunctionOnSet(d, BonusEpochs) = 0
  BY <1>2, CreditAssumption, SumZero, ZenonT(40)
<1>4. rewardBalance' = rewardBalance + SumFunctionOnSet(d, BonusEpochs)
  BY <1>3 DEF BonusInv
<1>5. rewardBalance' \in Int /\ SumFunction([e \in BonusEpochs |-> Owed(e)])' <= rewardBalance'
  BY <1>2, <1>4, BonusPool, Zenon
<1>. QED BY <1>5, Zenon DEF PoolInv, BonusInv

LEMMA FundKeepsPools ==
  ASSUME BonusInv, NEW e \in BonusEpochs, NEW amount \in Nat, FundBonusEpoch(e, amount)
  PROVE  PoolInv'
<1>1. /\ ~bonusClaimsOpen[e] /\ rewardBalance' = rewardBalance + amount
      /\ bonusReward' = [bonusReward EXCEPT ![e] = bonusReward[e] + amount]
      /\ UNCHANGED <<bonusClaimsOpen, bonusClaimed>>
  BY Zenon DEF FundBonusEpoch
<1>2. bonusReward \in [BonusEpochs -> Nat] /\ rewardBalance \in Int
  BY Zenon DEF BonusInv
<1>3. /\ bonusReward' \in [BonusEpochs -> Nat] /\ bonusReward'[e] = bonusReward[e] + amount
      /\ \A x \in BonusEpochs : x # e => bonusReward'[x] = bonusReward[x]
  BY <1>1, <1>2
<1>4. PICK d : d = [x \in BonusEpochs |-> IF x = e THEN amount ELSE 0]
  BY ZenonT(60)
<1>5. d[e] = amount /\ d[e] \in Int /\ \A x \in BonusEpochs \ {e} : d[x] = 0
  BY <1>4
<1>6. ASSUME NEW x \in BonusEpochs
      PROVE  Owed(x)' \in Int /\ d[x] \in Int /\ Owed(x)' <= Owed(x) + d[x]
  <2>1. CASE x = e
    <3>1. Owed(x) = bonusReward[e] /\ Owed(x)' = bonusReward'[e]
      BY <1>1, <2>1, Zenon DEF Owed
    <3>. QED BY <1>2, <1>3, <1>5, <2>1, <3>1, SMTT(30)
  <2>2. CASE x # e
    <3>1. Owed(x)' = Owed(x) /\ Owed(x) \in Int
      BY <1>1, <1>3, <2>2, OwesSame, OwesAtMost, ZenonT(60)
    <3>. QED BY <1>5, <2>2, <3>1
  <2>. QED BY <2>1, <2>2, ZenonT(40)
<1>7. rewardBalance' = rewardBalance + SumFunctionOnSet(d, BonusEpochs)
  BY <1>1, <1>5, CreditAssumption, SumSingle, ZenonT(60)
<1>8. rewardBalance' \in Int /\ SumFunction([x \in BonusEpochs |-> Owed(x)])' <= rewardBalance'
  BY <1>6, <1>7, BonusPool, Zenon
<1>. QED BY <1>1, <1>3, <1>8, Zenon DEF PoolInv, BonusInv

LEMMA OpenKeepsPools ==
  ASSUME BonusInv, NEW e \in BonusEpochs, OpenBonusClaims(e)
  PROVE  PoolInv'
<1>1. /\ ~bonusClaimsOpen[e] /\ bonusClaimsOpen' = [bonusClaimsOpen EXCEPT ![e] = TRUE]
      /\ UNCHANGED <<bonusReward, bonusClaimed, rewardBalance>>
  BY Zenon DEF OpenBonusClaims
<1>2. /\ bonusReward \in [BonusEpochs -> Nat] /\ bonusClaimsOpen \in [BonusEpochs -> BOOLEAN]
      /\ rewardBalance \in Int
  BY Zenon DEF BonusInv
<1>3. /\ bonusClaimsOpen' \in [BonusEpochs -> BOOLEAN] /\ bonusClaimsOpen'[e]
      /\ \A x \in BonusEpochs : x # e => bonusClaimsOpen'[x] = bonusClaimsOpen[x]
  BY <1>1, <1>2, ZenonT(40)
<1>4. Owed(e)' \in Int /\ Owed(e)' <= Owed(e)
  <2>1. PICK r \in Nat : r = bonusReward[e]
    BY <1>2, Zenon
  <2>2. PICK p : p = [m \in BonusMiners |-> (r * BonusCredits[e][m]) \div EpochCredits(e)]
    BY ZenonT(60)
  <2>3. PICK U \in SUBSET BonusMiners : U = Unpaid(e)' /\ \A m \in U : BonusCredits[e][m] # 0
    <3>1. Unpaid(e)' \in SUBSET BonusMiners /\ \A m \in Unpaid(e)' : BonusCredits[e][m] # 0
      BY Zenon DEF Unpaid
    <3>. QED BY <3>1, ZenonT(60)
  <2>4. \A m \in U : p[m] = (r * BonusCredits[e][m]) \div EpochCredits(e)
    BY <2>2, Zenon
  <2>5. \A m \in U : Share(e, m)' = (r * BonusCredits[e][m]) \div EpochCredits(e)
    BY <1>1, <2>1, Zenon DEF Share
  <2>6. Owed(e)' = SumFunctionOnSet(p, U)
    BY <1>3, <2>3, <2>4, <2>5, OwesLater, Zenon DEF OpenOwes
  <2>7. SumFunctionOnSet(p, U) \in Int /\ SumFunctionOnSet(p, U) <= r
    BY <2>3, <2>4, SharesOf, ZenonT(60)
  <2>8. Owed(e) = r
    BY <1>1, <2>1, ZenonT(40) DEF Owed
  <2>. QED BY <2>6, <2>7, <2>8, Zenon
<1>5. PICK d : d = [x \in BonusEpochs |-> 0]
  BY ZenonT(60)
<1>6. ASSUME NEW x \in BonusEpochs
      PROVE  Owed(x)' \in Int /\ d[x] \in Int /\ Owed(x)' <= Owed(x) + d[x] /\ d[x] = 0
  <2>1. d[x] = 0 /\ Owed(x) \in Int
    BY <1>5, OwesAtMost, ZenonT(40)
  <2>2. CASE x = e
    BY <1>4, <2>1, <2>2, SMTT(30)
  <2>3. CASE x # e
    <3>1. Owed(x)' = Owed(x)
      BY <1>1, <1>3, <2>3, OwesSame, ZenonT(60)
    <3>. QED BY <2>1, <3>1
  <2>. QED BY <2>2, <2>3, ZenonT(40)
<1>7. rewardBalance' = rewardBalance + SumFunctionOnSet(d, BonusEpochs)
  BY <1>1, <1>2, <1>6, CreditAssumption, SumZero, SMTT(30)
<1>8. rewardBalance' \in Int /\ SumFunction([x \in BonusEpochs |-> Owed(x)])' <= rewardBalance'
  BY <1>6, <1>7, BonusPool, Zenon
<1>. QED BY <1>1, <1>3, <1>8, Zenon DEF PoolInv, BonusInv

LEMMA ClaimKeepsPools ==
  ASSUME BonusInv, NEW m \in BonusMiners, NEW epochs \in SUBSET BonusEpochs, ClaimBonus(m, epochs)
  PROVE  PoolInv' /\ \E x \in Int : rewardBalance' = rewardBalance - x /\ held' = held - x
<1>1. PICK payout, f : f = [e \in epochs |-> Share(e, m)] /\ payout = SumFunction(f)
  BY ZenonT(60)
<1>2. /\ \A e \in epochs : bonusClaimsOpen[e] /\ m \notin bonusClaimed[e] /\ BonusCredits[e][m] # 0
      /\ rewardBalance' = rewardBalance - payout /\ held' = held - payout
      /\ bonusClaimed' = [e \in BonusEpochs |-> bonusClaimed[e] \cup (IF e \in epochs THEN {m} ELSE {})]
      /\ UNCHANGED <<bonusReward, bonusClaimsOpen>>
  BY <1>1, Zenon DEF ClaimBonus
<1>3. \A e \in epochs : m \in Unpaid(e)
  BY <1>2, Zenon DEF Unpaid
<1>4. \A e \in epochs : f[e] = Share(e, m) /\ f[e] \in Int
  <2>1. \A e \in epochs : Share(e, m) \in Nat
    BY <1>3, OwesAtMost, ZenonT(40)
  <2>. QED BY <1>1, <2>1, SMTT(30)
<1>5. PICK d : d = [e \in BonusEpochs |-> IF e \in epochs THEN 0 - f[e] ELSE 0]
  BY ZenonT(60)
<1>6. /\ \A e \in epochs : d[e] = 0 - f[e] /\ f[e] \in Int
      /\ \A e \in BonusEpochs \ epochs : d[e] = 0
  BY <1>4, <1>5, ZenonT(40)
<1>7. payout = SumFunctionOnSet(f, epochs) /\ payout \in Int
  <2>1. DOMAIN f = epochs
    BY <1>1, Zenon
  <2>2. payout = SumFunctionOnSet(f, epochs)
    BY <1>1, <2>1, ZenonT(60) DEF SumFunction
  <2>3. IsFiniteSet(epochs)
    BY CreditAssumption, FS_Subset, ZenonT(40)
  <2>. QED BY <1>6, <2>2, <2>3, SumInt, ZenonT(60)
<1>8. rewardBalance' = rewardBalance + SumFunctionOnSet(d, BonusEpochs)
  <2>1. SumFunctionOnSet(d, BonusEpochs) = 0 - payout
    BY <1>6, <1>7, CreditAssumption, SumNegated, SMTT(60)
  <2>2. rewardBalance \in Int /\ rewardBalance' = rewardBalance - payout /\ payout \in Int
    BY <1>2, <1>7, Zenon DEF BonusInv
  <2>. QED BY <2>1, <2>2, SMTT(30)
<1>9. ASSUME NEW e \in BonusEpochs
      PROVE  Owed(e)' \in Int /\ d[e] \in Int /\ Owed(e)' <= Owed(e) + d[e]
  <2>0. Owed(e) \in Int
    BY OwesAtMost, Zenon
  <2>1. CASE e \notin epochs
    <3>1. bonusClaimed'[e] = bonusClaimed[e]
      BY <1>2, <2>1, Zenon
    <3>2. Owed(e)' = Owed(e)
      BY <1>2, <3>1, OwesSame, ZenonT(60)
    <3>. QED BY <1>6, <2>0, <2>1, <3>2, SMTT(30)
  <2>2. CASE e \in epochs
    <3>1. PICK p : p = [x \in BonusMiners |-> Share(e, x)]
      BY ZenonT(60)
    <3>2. bonusClaimsOpen[e] /\ bonusClaimsOpen'[e] /\ bonusClaimed'[e] = bonusClaimed[e] \cup {m}
      BY <1>2, <2>2, Zenon
    <3>3. Unpaid(e)' = Unpaid(e) \ {m} /\ Unpaid(e) \subseteq BonusMiners
      <4>1. Unpaid(e)' = {x \in BonusMiners : x \notin bonusClaimed'[e] /\ BonusCredits[e][x] # 0}
        BY Zenon DEF Unpaid
      <4>. QED BY <3>2, <4>1, ZenonT(60) DEF Unpaid
    <3>4. \A x \in Unpaid(e) : p[x] = Share(e, x) /\ p[x] \in Int /\ p[x] = Share(e, x)'
      <4>1. \A x \in BonusMiners : Share(e, x)' = Share(e, x)
        BY <1>2, Zenon DEF Share
      <4>2. \A x \in Unpaid(e) : Share(e, x) \in Int
        BY OwesAtMost
      <4>. QED BY <3>1, <3>3, <4>1, <4>2, ZenonT(40)
    <3>5. Owed(e) = SumFunctionOnSet(p, Unpaid(e))
      BY <3>2, <3>4, OpenOwesNow, Zenon DEF OpenOwes
    <3>6. Owed(e)' = SumFunctionOnSet(p, Unpaid(e)')
      <4>1. \A x \in Unpaid(e)' : p[x] = Share(e, x)'
        BY <3>3, <3>4, Zenon
      <4>. QED BY <3>2, <4>1, OwesLater, ZenonT(60) DEF OpenOwes
    <3>7. SumFunctionOnSet(p, Unpaid(e)) = p[m] + SumFunctionOnSet(p, Unpaid(e) \ {m})
      BY <1>3, <2>2, <3>4, UnpaidFinite, SumRemove, ZenonT(60)
    <3>8. SumFunctionOnSet(p, Unpaid(e) \ {m}) \in Int
      <4>1. IsFiniteSet(Unpaid(e) \ {m})
        BY UnpaidFinite, FS_RemoveElement, Zenon
      <4>. QED BY <3>4, <4>1, SumInt, ZenonT(60)
    <3>9. p[m] = f[e] /\ d[e] = 0 - f[e] /\ f[e] \in Int
      BY <1>3, <1>4, <1>6, <2>2, <3>4, ZenonT(60)
    <3>. QED BY <3>3, <3>5, <3>6, <3>7, <3>8, <3>9, SMTT(30)
  <2>. QED BY <2>1, <2>2, Zenon
<1>10. rewardBalance' \in Int /\ SumFunction([x \in BonusEpochs |-> Owed(x)])' <= rewardBalance'
  BY <1>8, <1>9, BonusPool, Zenon
<1>11. PoolInv'
  <2>1. DOMAIN bonusClaimed' = BonusEpochs
    BY <1>2, Zenon
  <2>. QED BY <1>2, <1>10, <2>1, ZenonT(60) DEF PoolInv, BonusInv
<1>. QED BY <1>2, <1>7, <1>11, Zenon

\* With a reserve in another token no step lowers the BOTCOIN held by more than
\* it lowers the pools.
LEMMA BonusStep ==
  ASSUME BonusInv, BotcoinReserve = FALSE, [BonusNext]_bonusVars
  PROVE  BonusInv'
<1>. DEFINE Same == UNCHANGED <<bonusReward, bonusClaimsOpen, bonusClaimed, rewardBalance>>
<1>0. rewardBalance \in Int /\ held \in Int /\ rewardBalance <= held /\ \A a : InBotcoin(a) = 0
  BY Zenon DEF BonusInv, InBotcoin
<1>1. ASSUME PoolInv', held' \in Int, rewardBalance' <= held' PROVE BonusInv'
  BY <1>1, Zenon DEF BonusInv, PoolInv
<1>2. ASSUME Same, held' \in Int, rewardBalance <= held' PROVE BonusInv'
  BY <1>1, <1>2, PoolsUntouched, Zenon
<1>3. ASSUME NEW e \in BonusEpochs, NEW amount \in 1..MaxPool, FundBonusEpoch(e, amount) PROVE BonusInv'
  <2>1. PoolInv'
    BY <1>3, FundKeepsPools, SMTT(30)
  <2>2. rewardBalance' = rewardBalance + amount /\ held' = held + amount /\ amount \in Int
    BY <1>3, SMTT(30) DEF FundBonusEpoch
  <2>. QED BY <1>0, <1>1, <2>1, <2>2, SMTT(30)
<1>4. ASSUME NEW e \in BonusEpochs, OpenBonusClaims(e) PROVE BonusInv'
  <2>1. PoolInv' /\ UNCHANGED <<rewardBalance, held>>
    BY <1>4, OpenKeepsPools, Zenon DEF OpenBonusClaims
  <2>. QED BY <1>0, <1>1, <2>1, ZenonT(40)
<1>5. ASSUME NEW m \in BonusMiners, NEW epochs \in SUBSET BonusEpochs, ClaimBonus(m, epochs) PROVE BonusInv'
  <2>1. PoolInv'
    BY <1>5, ClaimKeepsPools, Zenon
  <2>2. PICK x \in Int : rewardBalance' = rewardBalance - x /\ held' = held - x
    BY <1>5, ClaimKeepsPools, Zenon
  <2>3. held' \in Int /\ rewardBalance' <= held'
    BY <1>0, <2>2
  <2>. QED BY <1>1, <2>1, <2>3, Zenon
<1>6. ASSUME NEW amount, DepositReserve(amount) \/ WithdrawReserve(amount) PROVE BonusInv'
  <2>1. Same
    BY <1>6, Zenon DEF DepositReserve, WithdrawReserve
  <2>2. PICK x : x = InBotcoin(amount)
    BY Zenon 
  <2>3. held' = held + x \/ held' = held - x
    BY <1>6, <2>2, Zenon DEF DepositReserve, WithdrawReserve
  <2>4. x = 0
    BY <1>0, <2>2, Zenon
  <2>5. held' = held
    BY <1>0, <2>3, <2>4
  <2>. QED BY <1>0, <1>2, <2>1, <2>5, Zenon
<1>7. CASE Transfer
  <2>1. Same /\ held' = held + 1
    BY <1>7, Zenon DEF Transfer
  <2>2. held' \in Int /\ rewardBalance <= held'
    BY <1>0, <2>1
  <2>. QED BY <1>2, <2>1, <2>2, Zenon
<1>8. CASE SweepDust
  <2>1. Same /\ held' = rewardBalance
    BY <1>8, Zenon DEF SweepDust
  <2>2. held' \in Int /\ rewardBalance <= held'
    BY <1>0, <2>1
  <2>. QED BY <1>2, <2>1, <2>2, Zenon
<1>9. CASE UNCHANGED poolVars
  <2>1. Same /\ held' = held
    BY <1>9, Zenon DEF poolVars
  <2>. QED BY <1>0, <1>2, <2>1, Zenon
<1>. HIDE DEF Same
<1>. QED BY <1>3, <1>4, <1>5, <1>6, <1>7, <1>8, <1>9, Zenon
     DEF BonusNext, Mine, SetEpochBonusBlock, CaptureBonusHash, SubmitBonusHash, bonusVars

\* Every share still to be claimed, in every epoch, is covered by the pools'
\* balance and by the tokens held, and what was paid is its share: for any
\* credits, hashes and sequence of calls, when the reserve is kept in another
\* token, as depositReserve's comment has it.
THEOREM BonusIsCovered ==
  ASSUME BotcoinReserve = FALSE
  PROVE  BonusSpec => []BonusCovered
<1>1. BonusInit => BonusInv
  <2>. SUFFICES ASSUME BonusInit PROVE BonusInv
    BY Zenon 
  <2>1. /\ bonusReward = [e \in BonusEpochs |-> 0] /\ bonusClaimsOpen = [e \in BonusEpochs |-> FALSE]
        /\ bonusClaimed = [e \in BonusEpochs |-> {}] /\ rewardBalance = 0 /\ held = 0
    BY Zenon DEF BonusInit
  <2>2. PICK o : o = [e \in BonusEpochs |-> Owed(e)]
    BY Zenon
  <2>3. \A e \in BonusEpochs : o[e] = Owed(e) /\ o[e] = 0
    BY <2>1, <2>2, Zenon DEF Owed
  <2>4. SumFunctionOnSet(o, BonusEpochs) = 0
    BY <2>3, CreditAssumption, SumZero, ZenonT(40)
  <2>5. SumFunction([e \in BonusEpochs |-> Owed(e)]) = 0
    BY <2>3, <2>4, PoolsOweNow, Zenon DEF PoolsOwe
  <2>. QED BY <2>1, <2>5 DEF BonusInv
<1>2. BonusInv /\ [BonusNext]_bonusVars => BonusInv'
  BY BonusStep, ZenonT(60)
<1>3. BonusInv /\ PaidIsShare => BonusCovered
  BY Zenon DEF BonusInv, BonusCovered
<1>. QED BY <1>1, <1>2, <1>3, ClaimsPayTheirShare, PTL DEF BonusSpec

=============================================================================
