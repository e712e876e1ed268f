--------------------------- MODULE ValidatorSync ---------------------------
(***************************************************************************)
(* coretex-validator-sync: a validator follows the registry's advances,    *)
(* replays them from its own snapshot, keeps the advances whose scores it  *)
(* still has to check in a backlog, and commits all of it to a state       *)
(* directory file by file (validator-sync-cli.ts, with the log replay of   *)
(* replay/coretex-registry.ts and replay/launch-recovery-pin.ts).          *)
(*                                                                         *)
(* The root of a substrate is the number of advances applied to the blank  *)
(* one, and an advance is named by its block.  Everything a pass reads     *)
(* from the chain it reads at one confirmed block, so a pass is one step   *)
(* up to the commit, and then one step for each file it renames.           *)
(***************************************************************************)
EXTENDS Integers, Sequences, FiniteSets

CONSTANTS
  MaxEpoch, MaxBlocks, MaxReorgs, MaxCrashes, MaxWipes,   \* bounds
  Depth,        \* confirmationDepth: a block this far below the head is final
  Rotates,      \* the epochs whose corpus delta is not empty
  Pins,         \* the launch-recovery pins a later release may ship
  NoPin, NoState, NoSnapshot, NoStage

ASSUME SyncAssumption ==
  /\ MaxEpoch \in Nat \ {0} /\ MaxBlocks \in Nat \ {0} /\ Depth \in Nat
  /\ MaxReorgs \in Nat /\ MaxCrashes \in Nat /\ MaxWipes \in Nat
  /\ Pins \subseteq [epoch : 1..MaxEpoch, block : 1..MaxBlocks, root : Nat, index : Nat]

VARIABLES
  chain,      \* the blocks: their epoch, and what happens in them
  state,      \* validator-sync-state.json
  snapshot,   \* substrate-state.bin: the root of the packed state
  parents,    \* eval-parent-snapshots/: the advances whose parent is saved
  pinned,     \* whether the signing key is pinned (TOFU)
  staged, pc, \* the pass being committed, and the file it renames next
  result,     \* how the last pass ended
  verified,   \* the advances whose score replay has passed
  pin,        \* the launch-recovery pin of this release, or NoPin
  reorgs, crashes, wipes

vars == <<chain, state, snapshot, parents, pinned, staged, pc, result, verified,
          pin, reorgs, crashes, wipes>>
files == <<state, snapshot, parents, pinned>>

Epochs == 1..MaxEpoch
Blocks == 1..MaxBlocks
\* An advance whose artifact replays to its scores, one whose does not, the
\* reveal of the last epoch's secret, the last epoch's finalisation.
Events == {"none", "honest", "bad", "reveal", "final"}
Block == [epoch : Epochs, event : Events]
StateFile == [corpus : 0..MaxEpoch, root : 0..MaxBlocks, cursor : 0..MaxBlocks,
              counts : [Epochs -> 0..MaxBlocks], backlog : SUBSET Blocks, through : -1..MaxBlocks]
Stage == [parents : SUBSET Blocks, window : SUBSET Blocks, file : StateFile]
Failures == {"unconfirmed", "context", "continuity", "guard", "corrupt", "OUT_OF_ORDER",
             "STATE_PARENT_MISMATCH", "FINAL_ROOT_MISMATCH", "liveStateRoot",
             "transitionCount", "evalReplay"}
Results == Failures \cup {"none", "ok", "readonly"}

\* Type invariant; staging exists only while a pass commits (TrustedStateStaging).
SyncTypeOK ==
  /\ chain \in Seq(Block) /\ Len(chain) \in Blocks
  /\ state \in StateFile \cup {NoState}
  /\ snapshot \in 0..MaxBlocks \cup {NoSnapshot}
  /\ parents \subseteq Blocks /\ verified \subseteq Blocks
  /\ pinned \in BOOLEAN
  /\ pc \in {"idle", "pin", "snapshot", "parents", "state", "gc"}
  /\ IF pc = "idle" THEN staged = NoStage ELSE staged \in Stage
  /\ result \in Results
  /\ pin \in Pins \cup {NoPin} /\ reorgs \in 0..MaxReorgs /\ crashes \in 0..MaxCrashes /\ wipes \in 0..MaxWipes

Init ==
  /\ chain = <<[epoch |-> 1, event |-> "none"]>>
  /\ state = NoState /\ snapshot = NoSnapshot /\ parents = {} /\ pinned = FALSE
  /\ staged = NoStage /\ pc = "idle" /\ result = "none" /\ verified = {}
  /\ pin = NoPin /\ reorgs = 0 /\ crashes = 0 /\ wipes = 0
-----------------------------------------------------------------------------
(***************************************************************************)
(* The registry and V4, seen through their views and logs.                 *)
(***************************************************************************)
IsAdvance(b) == chain[b].event \in {"honest", "bad"}
Advances(from, to) == {b \in from..to : b \in DOMAIN chain /\ IsAdvance(b)}
RootAt(b) == Cardinality(Advances(1, b))
\* The transition index restarts with every epoch.
TransitionIndex(b) == Cardinality({a \in Advances(1, b - 1) : chain[a].epoch = chain[b].epoch})
TransitionCount(e, b) == Cardinality({a \in Advances(1, b) : chain[a].epoch = e})
Revealed(e, b) == \E r \in 1..b : chain[r].event = "reveal" /\ chain[r].epoch = e + 1
CorpusRoot(e) == Cardinality({r \in Rotates : r <= e})

\* The last epoch is revealed and finalised once, after it ended.
Legal(c, blk) ==
  LET last == c[Len(c)] IN
  /\ blk.epoch \in {last.epoch, last.epoch + 1}
  /\ blk.event \in {"reveal", "final"} =>
       blk.epoch > 1 /\ \A b \in DOMAIN c : c[b] # blk

NewBlock(blk) ==
  /\ Len(chain) < MaxBlocks /\ Legal(chain, blk)
  /\ chain' = Append(chain, blk)
  /\ UNCHANGED <<files, staged, pc, result, verified, pin, reorgs, crashes, wipes>>

\* The head is replaced; only blocks less than Depth deep can be.
Reorg(blk) ==
  /\ Depth > 0 /\ Len(chain) > 1 /\ reorgs < MaxReorgs
  /\ Legal(SubSeq(chain, 1, Len(chain) - 1), blk)
  /\ chain' = [chain EXCEPT ![Len(chain)] = blk]
  /\ reorgs' = reorgs + 1
  /\ UNCHANGED <<files, staged, pc, result, verified, pin, crashes, wipes>>
-----------------------------------------------------------------------------
(***************************************************************************)
(* A pass: what it reads, and the checks in their order.  o holds the      *)
(* command line and the operator's environment.                            *)
(***************************************************************************)
Options == [skip : BOOLEAN,       \* --skip-score-replay
            previous : BOOLEAN,   \* --previous-corpus-root is passed, and right
            full : IF pin = NoPin THEN {FALSE} ELSE BOOLEAN,   \* --full-history
            resolvable : SUBSET Rotates]   \* whose corpus can be materialised

Confirmed == Len(chain) - Depth
Epoch == chain[Len(chain)].epoch
ContextSet == \E b \in 1..Confirmed : chain[b].epoch = Epoch

SnapshotAvailable == snapshot # NoSnapshot /\ state # NoState

\* The delta chains off the corpus root of the state file, or of the bundle.
DeltaContinues(o) ==
  o.previous \/ CorpusRoot(Epoch - 1) = IF state # NoState THEN state.corpus ELSE CorpusRoot(0)

PinApplies(o) == pin # NoPin /\ ~o.full /\ pin.epoch = Epoch
FromCursor(o) == SnapshotAvailable /\ (PinApplies(o) => state.cursor >= pin.block)
FromPin(o) == PinApplies(o) /\ ~FromCursor(o)
FromBlock(o) == IF FromCursor(o) THEN state.cursor + 1
                ELSE IF FromPin(o) THEN pin.block + 1 ELSE 1
PinHolds(o) == FromPin(o) => pin.block <= Len(chain) /\ RootAt(pin.block) = pin.root

\* The snapshot comes first, also when the window starts at the pin.
ParentRoot(o) == IF SnapshotAvailable THEN snapshot ELSE IF FromPin(o) THEN pin.root ELSE 0

Window(o) == Advances(FromBlock(o), Confirmed)
EndRoot(o) == ParentRoot(o) + Cardinality(Window(o))

\* replayCoreTexFromLogs expects index 0 first, in every epoch of the window.
InOrder(o) == \A b \in Window(o) :
  TransitionIndex(b) = Cardinality({a \in Window(o) : a < b /\ chain[a].epoch = chain[b].epoch})
ParentsChain(o) == \A b \in Window(o) :
  RootAt(b - 1) = ParentRoot(o) + Cardinality({a \in Window(o) : a < b})
\* The last finalised epoch of the window ends in the root the replay ends in.
FinalisedRoot(o) ==
  LET finals == {b \in FromBlock(o)..Confirmed : chain[b].event = "final"} IN
  \A f \in finals : (\A g \in finals : g <= f) =>
    EndRoot(o) = Cardinality({a \in Advances(1, f) : chain[a].epoch < chain[f].epoch})

\* Advances per epoch: carried over for a snapshot, preset by the pin.
Counted(o) == [e \in Epochs |->
  (IF SnapshotAvailable THEN state.counts[e]
   ELSE IF FromPin(o) /\ e = pin.epoch THEN pin.index + 1 ELSE 0)
  + Cardinality({b \in Window(o) : chain[b].epoch = e})]

\* Mutant: the window's advances replace the backlog.
BacklogOfWindow(o) == Window(o)

\* upsertEvalBacklog: nothing is dropped.
Backlog(o) == (IF state # NoState THEN state.backlog ELSE {}) \cup Window(o)

\* The entry's corpus is the loaded one, or can be materialised from the
\* published deltas.
CorpusResolved(o, b) ==
  CorpusRoot(chain[b].epoch) = CorpusRoot(0) \/ chain[b].epoch \in o.resolvable

\* The entry's parent state is in the window or among the saved ones.
ParentRecoverable(o, b) == b \in Window(o) \cup parents

\* The entries this pass scores: their epoch's secret is out as well.
Drainable(o) == {b \in Backlog(o) :
  /\ ~o.skip
  /\ Revealed(chain[b].epoch, Confirmed)
  /\ CorpusResolved(o, b)
  /\ ParentRecoverable(o, b)}

\* The first check that fails.
Failure(o) ==
  IF Confirmed < 1 THEN "unconfirmed"
  ELSE IF ~ContextSet THEN "context"
  ELSE IF ~DeltaContinues(o) THEN "continuity"
  ELSE IF ~PinHolds(o) THEN "guard"
  ELSE IF SnapshotAvailable /\ snapshot # state.root THEN "corrupt"
  ELSE IF ~InOrder(o) THEN "OUT_OF_ORDER"
  ELSE IF ~ParentsChain(o) THEN "STATE_PARENT_MISMATCH"
  ELSE IF ~FinalisedRoot(o) THEN "FINAL_ROOT_MISMATCH"
  ELSE IF EndRoot(o) # RootAt(Confirmed) THEN "liveStateRoot"
  ELSE IF Counted(o)[Epoch] # TransitionCount(Epoch, Confirmed) THEN "transitionCount"
  ELSE IF \E b \in Drainable(o) : chain[b].event = "bad" THEN "evalReplay"
  ELSE "none"

\* Mutant: only the checked entries have to be through.
ThroughAlways(o, left) == Confirmed

\* evalVerifiedThroughBlock moves only when nothing is left to verify.
Through(o, left) ==
  LET prior == IF state # NoState THEN state.through ELSE -1
      cursor == IF Confirmed >= FromBlock(o) THEN Confirmed ELSE FromBlock(o) - 1 IN
  IF left = {} /\ ~o.skip /\ cursor > prior THEN cursor ELSE prior

NewState(o) ==
  LET left == Backlog(o) \ Drainable(o) IN
  [corpus |-> CorpusRoot(Epoch), root |-> EndRoot(o),
   cursor |-> IF Confirmed >= FromBlock(o) THEN Confirmed ELSE FromBlock(o) - 1,
   counts |-> Counted(o), backlog |-> left, through |-> Through(o, left)]
-----------------------------------------------------------------------------
SyncFails(o) ==
  /\ pc = "idle" /\ Failure(o) # "none"
  /\ result' = Failure(o)
  /\ UNCHANGED <<chain, files, staged, pc, verified, pin, reorgs, crashes, wipes>>

\* The local bundle is not the one on chain and --allow-version-mismatch is
\* given: all of it is checked, nothing is staged.
SyncReadsOnly(o) ==
  /\ pc = "idle" /\ Failure(o) = "none"
  /\ result' = "readonly"
  /\ UNCHANGED <<chain, files, staged, pc, verified, pin, reorgs, crashes, wipes>>

Sync(o) ==
  /\ pc = "idle" /\ Failure(o) = "none"
  /\ staged' = [parents |-> Window(o), window |-> Window(o), file |-> NewState(o)]
  /\ pc' = "pin" /\ result' = "ok"
  /\ verified' = verified \cup Drainable(o)
  /\ UNCHANGED <<chain, files, pin, reorgs, crashes, wipes>>

(***************************************************************************)
(* TrustedStateStaging.commit renames in the order of staging.             *)
(***************************************************************************)
CommitPin ==
  /\ pc = "pin" /\ pinned' = TRUE /\ pc' = "snapshot"
  /\ UNCHANGED <<chain, state, snapshot, parents, staged, result, verified, pin, reorgs, crashes, wipes>>

CommitSnapshot ==
  /\ pc = "snapshot" /\ snapshot' = staged.file.root /\ pc' = "parents"
  /\ UNCHANGED <<chain, state, parents, pinned, staged, result, verified, pin, reorgs, crashes, wipes>>

CommitParent ==
  /\ pc = "parents"
  /\ IF staged.parents = {} THEN pc' = "state" /\ UNCHANGED <<parents, staged>>
     ELSE LET b == CHOOSE b \in staged.parents : \A a \in staged.parents : b <= a IN
          /\ parents' = parents \cup {b}
          /\ staged' = [staged EXCEPT !.parents = @ \ {b}]
          /\ UNCHANGED pc
  /\ UNCHANGED <<chain, state, snapshot, pinned, result, verified, pin, reorgs, crashes, wipes>>

CommitState ==
  /\ pc = "state" /\ state' = staged.file /\ pc' = "gc"
  /\ UNCHANGED <<chain, snapshot, parents, pinned, staged, result, verified, pin, reorgs, crashes, wipes>>

Orphans == parents \ staged.file.backlog

\* gcEvalParentSnapshots, one unlink at a time.
CollectGarbage ==
  /\ pc = "gc"
  /\ IF Orphans = {} THEN pc' = "idle" /\ staged' = NoStage /\ UNCHANGED parents
     ELSE \E b \in Orphans : parents' = parents \ {b} /\ UNCHANGED <<pc, staged>>
  /\ UNCHANGED <<chain, state, snapshot, pinned, result, verified, pin, reorgs, crashes, wipes>>

\* The process dies while it commits.
Crash ==
  /\ pc # "idle" /\ crashes < MaxCrashes
  /\ crashes' = crashes + 1
  /\ pc' = "idle" /\ staged' = NoStage
  /\ UNCHANGED <<chain, files, result, verified, pin, reorgs, wipes>>

\* The operator deletes the state directory, as "corrupt" tells them to.
Wipe ==
  /\ pc = "idle" /\ state # NoState /\ wipes < MaxWipes
  /\ state' = NoState /\ snapshot' = NoSnapshot /\ parents' = {} /\ pinned' = FALSE
  /\ wipes' = wipes + 1
  /\ UNCHANGED <<chain, staged, pc, result, verified, pin, reorgs, crashes>>

\* mergeValidatorStateFile: setup's fields over the ones on disk.
MergeValidatorStateFile(previous, corpusRoot) == [previous EXCEPT !.corpus = corpusRoot]

\* The operator runs coretex-validator-setup again, and every payload verifies.
\* The first setup leaves a file without a cursor, which is NoState to a pass.
Setup ==
  /\ pc = "idle" /\ state # NoState
  /\ state' = MergeValidatorStateFile(state, CorpusRoot(0))
  /\ UNCHANGED <<chain, snapshot, parents, pinned, staged, pc, result, verified, pin, reorgs, crashes, wipes>>

\* The operator installs the release that ships the pin p, which is made when
\* the chain has reached its root.
Upgrade(p) ==
  /\ pc = "idle" /\ pin = NoPin
  /\ p.block <= Confirmed /\ IsAdvance(p.block) /\ chain[p.block].epoch = p.epoch
  /\ RootAt(p.block) = p.root /\ TransitionIndex(p.block) = p.index
  /\ pin' = p
  /\ UNCHANGED <<chain, files, staged, pc, result, verified, reorgs, crashes, wipes>>

Commit == CommitPin \/ CommitSnapshot \/ CommitParent \/ CommitState \/ CollectGarbage
Next ==
  \/ \E blk \in Block : NewBlock(blk) \/ Reorg(blk)
  \/ \E o \in Options : SyncFails(o) \/ SyncReadsOnly(o) \/ Sync(o)
  \/ \E p \in Pins : Upgrade(p)
  \/ Commit \/ Crash \/ Wipe \/ Setup

SyncSpec == Init /\ [][Next]_vars
-----------------------------------------------------------------------------
(***************************************************************************)
(* Properties.                                                             *)
(***************************************************************************)
BeforePin(b) == pin # NoPin /\ b <= pin.block

\* Every advance up to the cursor is in the backlog or was verified, whatever
\* crashes, reorganisations, skipped or failed passes happened in between;
\* only the advances the launch-recovery pin stands for are exempt.
BacklogComplete ==
  state # NoState =>
    \A b \in Advances(1, state.cursor) : b \in state.backlog \cup verified \/ BeforePin(b)

\* Every entry of the committed backlog can be scored later: its parent state
\* is saved, although the window has moved past it, and neither a crash in
\* the commit nor the garbage collection of another pass removed it.
BacklogDrainable == state # NoState => state.backlog \subseteq parents

\* evalVerifiedThroughBlock never covers an advance whose score replay did
\* not pass, or one with a false score.
ThroughIsVerified ==
  state # NoState =>
    \A b \in Advances(1, state.through) : BeforePin(b) \/ (b \in verified /\ chain[b].event = "honest")

\* What was committed is the registry's at the cursor, and stays so: no
\* reorganisation reaches below it.
StateOfCursor ==
  state # NoState => state.root = RootAt(state.cursor) /\ state.through <= state.cursor

\* The cursor and the verified height never go back, unless the operator
\* deletes the directory.
CursorAdvances ==
  [][(state # NoState /\ state' # NoState) =>
       state'.cursor >= state.cursor /\ state'.through >= state.through]_vars

\* What the header says of incremental syncs: the registry numbers an epoch's
\* advances consecutively, so a pass that goes on from its own snapshot never
\* finds them out of order.
IncrementalInOrder == result # "OUT_OF_ORDER"
=============================================================================
