---------------------------- MODULE EpochEvolve ----------------------------
(***************************************************************************)
(* The epoch runner (scripts/coretex-coordinator-epoch-runner.mjs) and the *)
(* evolve command it spawns (scripts/coretex-epoch-evolve.mjs): the files  *)
(* that thread one epoch's corpus into the next, in the order the commands *)
(* write them, with a stop (a crash, a failed gate, a failed upload)       *)
(* between any two writes.  Every content a run writes is named after the  *)
(* run, so the sha256 of a file equals the one a checkpoint binds exactly  *)
(* when the two name the same run.  What a run computes (the delta, the    *)
(* frontier, the thresholds) is in CorpusFrontier.                         *)
(***************************************************************************)
EXTENDS Naturals

CONSTANTS LastEpoch,   \* bound: epochs are 1..LastEpoch, the first is launched
          MaxRuns,     \* bound: runs of the epoch runner
          NoRun        \* no file, no object, no pinned context

ASSUME EvolveAssumption == /\ LastEpoch \in Nat \ {0}
                           /\ MaxRuns \in Nat
                           /\ NoRun \notin Nat

Epochs == 1..LastEpoch

Runs == 1..MaxRuns

OrNone(S) == S \cup {NoRun}

VARIABLES
  runs,          \* runs started so far; the running one is the last
  ledger,        \* per run: its epoch, the states it read, whether it checkpointed
  evolveStep,    \* where the running one is; "idle" when none runs
  frontierState, \* the stable --frontier-state file
  logicalState,  \* the stable --logical-state file
  checkpoint,    \* the checkpoint beside it
  corpora,       \* the materialized corpora at hand for --previous-corpus
  epochArtifacts, \* per epoch: the delta and rotation files of its out-dir
  bucket,        \* per epoch: the two objects under --s3-prefix
  status,        \* per epoch: coordinator-epoch-status, ready_for_coretex_context_pin
  context        \* per epoch: the context pinned on chain

evolveVars == <<runs, ledger, evolveStep, frontierState, logicalState, checkpoint,
                corpora, epochArtifacts, bucket, status, context>>

EvolveSteps == {"idle", "evolve", "frontier", "artifacts", "logical", "checkpoint",
                "delta", "rotation"}

Entry == [epoch : OrNone(Epochs), logical : OrNone(Runs), frontier : OrNone(Runs),
          corpus : OrNone(Runs), bound : BOOLEAN]

NoEntryYet == [epoch |-> NoRun, logical |-> NoRun, frontier |-> NoRun,
               corpus |-> NoRun, bound |-> FALSE]

Objects == [delta : OrNone(Runs), rotation : OrNone(Runs)]

\* Type invariant; every corpus at hand is one that some run's artifacts give.
EvolveTypeOK ==
  /\ runs \in 0..MaxRuns
  /\ ledger \in [Runs -> Entry]
  /\ evolveStep \in EvolveSteps
  /\ frontierState \in OrNone(Runs)
  /\ logicalState \in OrNone(Runs)
  /\ checkpoint \in OrNone(Runs)
  /\ corpora \subseteq Runs
  /\ epochArtifacts \in [Epochs -> OrNone(Runs)]
  /\ bucket \in [Epochs -> Objects]
  /\ status \in [Epochs -> OrNone(Runs)]
  /\ context \in [Epochs -> OrNone(Runs)]

EvolveInit ==
  /\ runs = 0
  /\ ledger = [r \in Runs |-> NoEntryYet]
  /\ evolveStep = "idle"
  /\ frontierState = NoRun
  /\ logicalState = NoRun
  /\ checkpoint = NoRun
  /\ corpora = {}
  /\ epochArtifacts = [e \in Epochs |-> NoRun]
  /\ bucket = [e \in Epochs |-> [delta |-> NoRun, rotation |-> NoRun]]
  /\ status = [e \in Epochs |-> NoRun]
  /\ context = [e \in Epochs |-> NoRun]

Start(entry) ==
  /\ evolveStep = "idle"
  /\ runs < MaxRuns
  /\ runs' = runs + 1
  /\ ledger' = [ledger EXCEPT ![runs + 1] = entry]
  /\ evolveStep' = "evolve"
  /\ UNCHANGED <<frontierState, logicalState, checkpoint, corpora, epochArtifacts, bucket,
                 status, context>>

\* --launch-genesis: the run evolves from the launch corpus and reads none of
\* the threaded files.  The operator repeats it only while the launch epoch has
\* no status to pin.
LaunchGenesis ==
  /\ 1 \in Epochs
  /\ status[1] = NoRun
  /\ Start([NoEntryYet EXCEPT !.epoch = 1])

\* The chain knows a parent state root of the completed epoch once that epoch
\* has a pinned context; metrics of any other epoch are refused.
Completed(e) == context[e] # NoRun

\* Mutant: the checkpoint's epoch is not compared with the previous epoch.
ThreadedAnyEpoch(e, corpus) ==
  /\ checkpoint # NoRun
  /\ logicalState = checkpoint
  /\ frontierState = checkpoint
  /\ corpus = checkpoint

\* The mandatory state threading: a checkpoint of the previous epoch whose
\* logical state, frontier state and corpus root are those supplied.
Threaded(e, corpus) ==
  /\ checkpoint # NoRun
  /\ ledger[checkpoint].epoch = e - 1
  /\ logicalState = checkpoint
  /\ frontierState = checkpoint
  /\ corpus = checkpoint

Run(e, corpus) ==
  /\ e - 1 \in Epochs
  /\ Completed(e - 1)
  /\ Threaded(e, corpus)
  /\ Start([epoch |-> e, logical |-> logicalState, frontier |-> frontierState,
            corpus |-> corpus, bound |-> FALSE])

\* The epoch of the running one.
Running == ledger[runs].epoch

At(step, next) == evolveStep = step /\ evolveStep' = next

\* makeFrontier overwrites the stable frontier state as soon as it is computed.
WriteFrontier ==
  /\ At("evolve", "frontier")
  /\ frontierState' = runs
  /\ UNCHANGED <<runs, ledger, logicalState, checkpoint, corpora, epochArtifacts, bucket,
                 status, context>>

WriteArtifacts ==
  /\ At("frontier", "artifacts")
  /\ epochArtifacts' = [epochArtifacts EXCEPT ![Running] = runs]
  /\ UNCHANGED <<runs, ledger, frontierState, logicalState, checkpoint, corpora, bucket,
                 status, context>>

WriteLogical ==
  /\ At("artifacts", "logical")
  /\ logicalState' = runs
  /\ UNCHANGED <<runs, ledger, frontierState, checkpoint, corpora, epochArtifacts, bucket,
                 status, context>>

WriteCheckpoint ==
  /\ At("logical", "checkpoint")
  /\ checkpoint' = runs
  /\ ledger' = [ledger EXCEPT ![runs].bound = TRUE]
  /\ UNCHANGED <<runs, frontierState, logicalState, corpora, epochArtifacts, bucket, status,
                 context>>

UploadDelta ==
  /\ At("checkpoint", "delta")
  /\ bucket' = [bucket EXCEPT ![Running].delta = epochArtifacts[Running]]
  /\ UNCHANGED <<runs, ledger, frontierState, logicalState, checkpoint, corpora, epochArtifacts,
                 status, context>>

UploadRotation ==
  /\ At("delta", "rotation")
  /\ bucket' = [bucket EXCEPT ![Running].rotation = epochArtifacts[Running]]
  /\ UNCHANGED <<runs, ledger, frontierState, logicalState, checkpoint, corpora, epochArtifacts,
                 status, context>>

\* The runner fetches both objects back, compares their hashes with the local
\* files and writes the status that says the epoch is ready to be pinned.
BuildStatus ==
  /\ At("rotation", "idle")
  /\ bucket[Running] = [delta |-> epochArtifacts[Running], rotation |-> epochArtifacts[Running]]
  /\ status' = [status EXCEPT ![Running] = runs]
  /\ UNCHANGED <<runs, ledger, frontierState, logicalState, checkpoint, corpora, epochArtifacts,
                 bucket, context>>

\* The process ends at any point: killed, a gate that fails, an upload or a
\* rehash that fails.  Nothing it wrote is undone.
Stop ==
  /\ evolveStep # "idle"
  /\ evolveStep' = "idle"
  /\ UNCHANGED <<runs, ledger, frontierState, logicalState, checkpoint, corpora, epochArtifacts,
                 bucket, status, context>>

\* The operator applies an epoch's delta to obtain the corpus of the next run.
Materialize(e) ==
  /\ epochArtifacts[e] # NoRun
  /\ corpora' = corpora \cup {epochArtifacts[e]}
  /\ UNCHANGED <<runs, ledger, evolveStep, frontierState, logicalState, checkpoint,
                 epochArtifacts, bucket, status, context>>

\* The owner pins the context of a ready status, once per epoch and in order.
PinContext(e) ==
  /\ status[e] # NoRun
  /\ context[e] = NoRun
  /\ context' = [context EXCEPT ![e] = status[e]]
  /\ UNCHANGED <<runs, ledger, evolveStep, frontierState, logicalState, checkpoint,
                 corpora, epochArtifacts, bucket, status>>

EvolveNext ==
  \/ LaunchGenesis
  \/ \E e \in Epochs, corpus \in corpora : Run(e, corpus)
  \/ WriteFrontier \/ WriteArtifacts \/ WriteLogical \/ WriteCheckpoint
  \/ UploadDelta \/ UploadRotation \/ BuildStatus \/ Stop
  \/ \E e \in Epochs : Materialize(e) \/ PinContext(e)

EvolveSpec == EvolveInit /\ [][EvolveNext]_evolveVars

-----------------------------------------------------------------------------
(***************************************************************************)
(* Properties                                                              *)
(***************************************************************************)

\* A run after the launch evolves from one state: the logical state, the
\* frontier state and the corpus it read were all written by the same run, of
\* the epoch before, and that run reached its checkpoint.  Whatever was left
\* behind by runs that stopped half way is refused (the sha256 checks of
\* coretex-epoch-evolve.mjs).
ThreadedFromOne ==
  \A r \in 1..runs : ledger[r].epoch # 1 =>
     \E u \in 1..runs : /\ ledger[r].logical = u
                        /\ ledger[r].frontier = u
                        /\ ledger[r].corpus = u
                        /\ ledger[u].bound
                        /\ ledger[u].epoch = ledger[r].epoch - 1

\* No epoch after the launch has two evolved states: at most one of its runs
\* ever reaches its checkpoint, however many were started.
NoForkedEpoch ==
  \A r, s \in 1..runs :
     (ledger[r].bound /\ ledger[s].bound /\ ledger[r].epoch = ledger[s].epoch
        /\ ledger[r].epoch # 1) => r = s

\* The corpora pinned on chain form one chain: the delta behind an epoch's
\* context was made from the corpus of the context pinned for the epoch before.
ContextsLinked ==
  \A e \in Epochs : (e # 1 /\ context[e] # NoRun) =>
     ledger[context[e]].corpus = context[e - 1]

\* What a pinned context names can be fetched: both objects of its epoch are in
\* the bucket and are those of the run whose context was pinned.
PinnedIsPublished ==
  \A e \in Epochs : context[e] # NoRun =>
     bucket[e] = [delta |-> context[e], rotation |-> context[e]]
=============================================================================
