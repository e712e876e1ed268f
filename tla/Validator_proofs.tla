-------------------------- MODULE Validator_proofs --------------------------
(***************************************************************************)
(* The validator's machine, for every confirmation depth, every chain, any *)
(* number of launches and payloads and any number of crashes,              *)
(* reorganisations and deletions.  SyncInv is the one inductive invariant  *)
(* behind the properties of the state directory; RunInv, DirsInv and       *)
(* VenvInv are those of the setup.  Then the coordinator's two neighbours: *)
(* the handler that reads its cursor and the pipe to the reranker, whose   *)
(* calls are never stranded (PipeInv) and get the scores of their own      *)
(* pairs (ScoresInv).                                                      *)
(***************************************************************************)
EXTENDS ValidatorSync, ValidatorSetup, Handler, RerankerStream, TLAPS
-----------------------------------------------------------------------------
(* Sequences. *)

LEMMA SeqUpdate ==
  ASSUME NEW S, NEW s \in Seq(S), NEW i \in 1..Len(s), NEW e \in S
  PROVE  /\ [s EXCEPT ![i] = e] \in Seq(S) /\ Len([s EXCEPT ![i] = e]) = Len(s)
         /\ \A k \in 1..Len(s) : [s EXCEPT ![i] = e][k] = IF k = i THEN e ELSE s[k]
OBVIOUS

LEMMA AppendToSeq ==
  ASSUME NEW S, NEW s \in Seq(S), NEW e \in S
  PROVE  /\ Append(s, e) \in Seq(S) /\ Append(s, e) # <<>> /\ Len(Append(s, e)) = Len(s) + 1
         /\ \A i \in 1..Len(s) : Append(s, e)[i] = s[i]
         /\ Append(s, e)[Len(s) + 1] = e
OBVIOUS

-----------------------------------------------------------------------------
(* The state directory. *)

\* What a state file promises, on disk or staged: its cursor is confirmed, its
\* root and its backlog are those of the cursor, every advance up to the cursor
\* is accounted for, and the verified height covers only verified advances.
FileInv(f) ==
    /\ {"corpus", "root", "cursor", "backlog", "through"} \subseteq DOMAIN f
    /\ f.cursor \in Int /\ f.through \in Int
    /\ f.through <= f.cursor /\ f.cursor <= Confirmed
    /\ f.root = RootAt(f.cursor)
    /\ f.backlog \subseteq Advances(1, f.cursor)
    /\ \A b \in Advances(1, f.cursor) : b \in f.backlog \cup verified \/ BeforePin(b)
    /\ \A b \in Advances(1, f.through) : b \in verified \/ BeforePin(b)

ChainInv ==
    /\ chain \in Seq(Block) /\ chain # <<>>
    /\ pin # NoPin => pin \in Pins /\ pin.block <= Confirmed
    /\ verified \subseteq Advances(1, Confirmed)
    /\ \A b \in verified : chain[b].event = "honest"

\* While a pass commits: the staged file is a good one and not older than the
\* one on disk, and every parent its backlog needs is saved or still staged.
StageInv ==
    /\ pc \in {"idle", "pin", "snapshot", "parents", "state", "gc"}
    /\ pc # "idle" =>
         /\ staged = [parents |-> staged.parents, window |-> staged.window, file |-> staged.file]
         /\ FileInv(staged.file)
    /\ pc \in {"pin", "snapshot", "parents", "state"} /\ state # NoState =>
         staged.file.cursor >= state.cursor /\ staged.file.through >= state.through
    /\ pc \in {"pin", "snapshot", "parents"} => staged.file.backlog \subseteq parents \cup staged.parents
    /\ pc = "state" => staged.file.backlog \subseteq parents
    /\ pc = "gc" => state = staged.file

DiskInv == state # NoState => FileInv(state) /\ state.backlog \subseteq parents

SyncInv == ChainInv /\ StageInv /\ DiskInv

LEMMA SyncInvInit == Init => SyncInv
<1> SUFFICES ASSUME Init PROVE SyncInv
  BY Zenon 
<1>1. chain \in Seq(Block) /\ chain # <<>>
  BY SyncAssumption DEF Init, Block, Epochs, Events
<1>. QED
  BY <1>1, Zenon DEF Init, SyncInv, ChainInv, StageInv, DiskInv

\* A new block, or one that replaces the head, changes nothing up to a
\* confirmed height.
ChainKept ==
    /\ chain' \in Seq(Block) /\ chain' # <<>>
    /\ Confirmed <= Confirmed'
    /\ \A b \in 1..Confirmed : chain'[b] = chain[b]
    /\ \A c \in Int : c <= Confirmed => Advances(1, c)' = Advances(1, c)

LEMMA BlocksKeepChain ==
    ASSUME ChainInv, NEW blk \in Block, NewBlock(blk) \/ Reorg(blk)
    PROVE  ChainKept
<1>1. Len(chain) \in Nat /\ Depth \in Nat /\ DOMAIN chain = 1..Len(chain)
  BY SyncAssumption DEF ChainInv
<1>2. /\ chain' \in Seq(Block) /\ chain' # <<>> /\ Confirmed \in Int /\ Confirmed <= Confirmed'
      /\ \A b \in 1..Confirmed : b \in DOMAIN chain /\ b \in DOMAIN chain' /\ chain'[b] = chain[b]
  <2>1. CASE NewBlock(blk)
    <3>1. /\ chain' \in Seq(Block) /\ Len(chain') = Len(chain) + 1 /\ chain' # <<>>
          /\ \A b \in 1..Len(chain) : chain'[b] = chain[b]
      BY <2>1, AppendToSeq DEF NewBlock, ChainInv
    <3>2. DOMAIN chain' = 1..Len(chain')
      BY <3>1
    <3>3. /\ Confirmed \in Int /\ Confirmed <= Confirmed'
          /\ \A b \in 1..Confirmed : b \in 1..Len(chain) /\ b \in 1..Len(chain')
      BY <1>1, <3>1 DEF Confirmed
    <3>4. \A b \in 1..Confirmed : b \in DOMAIN chain /\ b \in DOMAIN chain' /\ chain'[b] = chain[b]
      BY <1>1, <3>1, <3>2, <3>3, Zenon
    <3>. QED
      BY <3>1, <3>3, <3>4, Zenon
  <2>2. CASE Reorg(blk)
    <3>1. /\ chain' \in Seq(Block) /\ Len(chain') = Len(chain) /\ chain' # <<>> /\ Depth > 0
          /\ \A b \in 1..Len(chain) : b # Len(chain) => chain'[b] = chain[b]
      BY <2>2, SeqUpdate DEF Reorg, ChainInv
    <3>2. DOMAIN chain' = 1..Len(chain)
      BY <3>1
    <3>3. /\ Confirmed \in Int /\ Confirmed <= Confirmed'
          /\ \A b \in 1..Confirmed : b \in 1..Len(chain) /\ b # Len(chain)
      <4>1. Len(chain) \in Nat /\ Depth \in Nat /\ Depth > 0 /\ Len(chain') = Len(chain)
        BY <1>1, <3>1, Zenon
      <4>. QED
        BY <4>1, SMTT(60) DEF Confirmed
    <3>4. \A b \in 1..Confirmed : b \in DOMAIN chain /\ b \in DOMAIN chain' /\ chain'[b] = chain[b]
      BY <1>1, <3>1, <3>2, <3>3, Zenon
    <3>. QED
      BY <3>1, <3>3, <3>4, Zenon
  <2>. QED
    BY <2>1, <2>2, Zenon
<1>3. ASSUME NEW c \in Int, c <= Confirmed PROVE Advances(1, c)' = Advances(1, c)
  <2>1. \A b \in 1..c : b \in 1..Confirmed
    BY <1>2, <1>3
  <2>2. \A b \in 1..c : b \in DOMAIN chain /\ b \in DOMAIN chain' /\ chain'[b] = chain[b]
    BY <1>2, <2>1, Zenon
  <2>. QED
    BY <2>2, Zenon DEF Advances, IsAdvance
<1>. QED
  BY <1>2, <1>3, Zenon DEF ChainKept

\* What is said of a file stays true when the chain moves on, more advances are
\* verified or a pin is shipped.
LEMMA BlocksKeepSyncInv ==
    ASSUME SyncInv, NEW blk \in Block, NewBlock(blk) \/ Reorg(blk)
    PROVE  SyncInv'
<1>0. ChainKept /\ UNCHANGED <<state, parents, staged, pc, verified, pin>> /\ Confirmed \in Int
      /\ Confirmed' \in Int /\ -1 \in Int
  BY BlocksKeepChain, SyncAssumption DEF SyncInv, ChainInv, NewBlock, Reorg, files, Confirmed, ChainKept
<1>1. ChainInv'
  <2>1. Advances(1, Confirmed) \subseteq Advances(1, Confirmed)' /\ Advances(1, Confirmed) \subseteq 1..Confirmed
    <3>1. \A b : b \in Advances(1, Confirmed)' <=>
                 b \in 1..Confirmed' /\ b \in DOMAIN chain' /\ IsAdvance(b)'
      BY Zenon DEF Advances
    <3>2. Advances(1, Confirmed) \subseteq 1..Confirmed
      BY Zenon DEF Advances
    <3>3. \A b \in Advances(1, Confirmed) : b \in DOMAIN chain' /\ IsAdvance(b)'
      BY <1>0 DEF ChainKept, Advances, IsAdvance, SyncInv, ChainInv
    <3>. QED
      BY <1>0, <3>1, <3>2, <3>3 DEF ChainKept
  <2>2. pin' # NoPin => pin' \in Pins /\ pin'.block <= Confirmed'
    BY <1>0, SyncAssumption DEF ChainKept, SyncInv, ChainInv
  <2>3. verified' \subseteq Advances(1, Confirmed)' /\ \A b \in verified' : chain'[b].event = "honest"
    BY <1>0, <2>1, Zenon DEF ChainKept, SyncInv, ChainInv
  <2>. QED
    BY <1>0, <2>2, <2>3, Zenon DEF ChainInv, ChainKept
<1>2. ASSUME FileInv(state) PROVE FileInv(state)'
  BY <1>0, <1>2 DEF FileInv, ChainKept, RootAt, BeforePin
<1>3. ASSUME FileInv(staged.file) PROVE FileInv(staged.file)'
  BY <1>0, <1>3 DEF FileInv, ChainKept, RootAt, BeforePin
<1>. QED
  BY <1>0, <1>1, <1>2, <1>3, Zenon DEF SyncInv, StageInv, DiskInv

\* A pass that succeeds ends at the confirmed block: its window starts where the
\* accounted advances end, and it stages a file with every promise of FileInv.
LEMMA PassStagesGoodFile ==
    ASSUME SyncInv, NEW o \in Options, Sync(o)
    PROVE  /\ FileInv(staged.file)' /\ ChainInv'
           /\ staged'.file.backlog \subseteq parents \cup Window(o)
           /\ state # NoState => /\ staged'.file.cursor >= state.cursor
                                 /\ staged'.file.through >= state.through
<1> DEFINE from == FromBlock(o)
           all == Advances(1, Confirmed)
           kept == Backlog(o) \ Drainable(o)
           through == Through(o, kept)
           file == NewState(o)
<1>1. /\ UNCHANGED <<chain, state, parents, pin>> /\ verified' = verified \cup Drainable(o)
      /\ staged'.file = file
  BY Zenon DEF Sync, files
<1>2. /\ Confirmed \in Int /\ DOMAIN chain = 1..Len(chain) /\ Len(chain) \in Nat
      /\ pin # NoPin => pin \in Pins /\ pin.block \in Int /\ pin.block <= Confirmed
      /\ state # NoState => state.cursor \in Int /\ state.cursor <= Confirmed
  BY SyncAssumption DEF SyncInv, ChainInv, DiskInv, FileInv, Confirmed
<1>3. EndRoot(o) = RootAt(Confirmed) /\ Confirmed >= 1
  BY <1>2 DEF Sync, Failure
<1>4. \A b \in Drainable(o) : chain[b].event # "bad"
  BY Zenon DEF Sync, Failure
<1>5. from \in Int /\ from - 1 <= Confirmed
  BY <1>2, <1>3 DEF FromBlock, FromCursor, FromPin, PinApplies, SnapshotAvailable
<1>6. file.cursor = Confirmed
  BY <1>2, <1>5 DEF NewState
<1>7. Window(o) \subseteq all
  BY <1>2, <1>5 DEF Window, Advances
<1>8. Backlog(o) \subseteq all
  <2>1. state # NoState => state.backlog \subseteq all
    BY <1>2 DEF SyncInv, DiskInv, FileInv, Advances
  <2>. QED
    BY <1>7, <2>1, Zenon DEF Backlog
<1>9. \A b \in all : b \in Backlog(o) \cup verified \/ BeforePin(b)
  <2> SUFFICES ASSUME NEW b \in all PROVE b \in Backlog(o) \cup verified \/ BeforePin(b)
    BY Zenon 
  <2>1. b \in Int /\ 1 <= b /\ b <= Confirmed /\ b \in DOMAIN chain /\ IsAdvance(b)
    BY <1>2 DEF Advances
  <2>2. CASE b >= from
    <3>1. b \in Window(o)
      BY <1>2, <1>5, <2>1, <2>2 DEF Window, Advances
    <3>. QED
      BY <3>1, Zenon DEF Backlog
  <2>3. CASE ~(b >= from)
    <3>1. b <= from - 1
      BY <1>5, <2>1, <2>3
    <3>2. CASE FromCursor(o)
      <4>1. state # NoState /\ b <= state.cursor
        BY <1>2, <3>1, <3>2 DEF FromBlock, FromCursor, SnapshotAvailable
      <4>2. b \in Advances(1, state.cursor)
        BY <1>2, <2>1, <4>1 DEF Advances
      <4>. QED
        BY <4>1, <4>2, Zenon DEF SyncInv, DiskInv, FileInv, Backlog
    <3>3. CASE ~FromCursor(o) /\ FromPin(o)
      BY <1>2, <3>1, <3>3 DEF FromBlock, FromPin, PinApplies, BeforePin
    <3>4. CASE ~FromCursor(o) /\ ~FromPin(o)
      BY <2>1, <3>1, <3>4 DEF FromBlock
    <3>. QED
      BY <3>2, <3>3, <3>4, Zenon
  <2>. QED
    BY <2>2, <2>3, Zenon
<1>10. /\ through \in Int /\ through <= Confirmed
       /\ state # NoState => through >= state.through
       /\ \/ through = Confirmed /\ kept = {}
          \/ state # NoState /\ through = state.through
          \/ through = -1
  <2> DEFINE prior == IF state # NoState THEN state.through ELSE -1
             upTo == IF Confirmed >= from THEN Confirmed ELSE from - 1
  <2>1. upTo = Confirmed
    BY <1>2, <1>5, SMTT(30)
  <2>2. state # NoState => state.through \in Int /\ state.through <= Confirmed
    BY <1>2 DEF SyncInv, DiskInv, FileInv
  <2>3. prior \in Int /\ prior <= Confirmed
    BY <1>2, <1>3, <2>2
  <2>4. through = IF kept = {} /\ ~o.skip /\ upTo > prior THEN upTo ELSE prior
    BY Zenon DEF Through
  <2> HIDE DEF kept, through, upTo
  <2>. QED
    BY <1>2, <2>1, <2>2, <2>3, <2>4
<1>11. \A b \in Advances(1, through) : b \in verified' \/ BeforePin(b)
  <2>1. CASE through = Confirmed /\ kept = {}
    BY <1>1, <1>9, <2>1, Zenon
  <2>2. CASE state # NoState /\ through = state.through
    BY <1>1, <2>2, Zenon DEF SyncInv, DiskInv, FileInv
  <2>3. CASE through = -1
    BY <2>3, SMTT(30) DEF Advances
  <2>. QED
    BY <1>10, <2>1, <2>2, <2>3, Zenon
<1>12. /\ {"corpus", "root", "cursor", "backlog", "through"} \subseteq DOMAIN file
       /\ file.root = EndRoot(o) /\ file.backlog = kept /\ file.through = through
  BY Zenon DEF NewState
<1>13. ChainInv'
  <2>1. Drainable(o) \subseteq all
    BY <1>8, Zenon DEF Drainable
  <2>2. \A b \in Drainable(o) : chain[b].event = "honest"
    BY <1>4, <2>1, Zenon DEF Advances, IsAdvance
  <2>. QED
    BY <1>1, <2>1, <2>2, Zenon DEF SyncInv, ChainInv, Confirmed, Advances, IsAdvance
<1>14. FileInv(staged.file)'
  <2> HIDE DEF file, through, kept
  <2>. QED
    BY <1>1, <1>2, <1>3, <1>6, <1>8, <1>9, <1>10, <1>11, <1>12, SMTT(60)
       DEF FileInv, Confirmed, RootAt, Advances, IsAdvance, BeforePin, kept
<1>15. staged'.file.backlog \subseteq parents \cup Window(o)
  BY <1>1, <1>12, Zenon DEF Backlog, SyncInv, DiskInv
<1>. QED
  BY <1>1, <1>2, <1>6, <1>10, <1>12, <1>13, <1>14, <1>15, Zenon

\* A step that leaves the chain, the pin and the verified advances alone says
\* the same of a file.
LEMMA SameChain ==
    ASSUME UNCHANGED <<chain, pin, verified>>
    PROVE  /\ ChainInv => ChainInv'
           /\ UNCHANGED staged /\ FileInv(staged.file) => FileInv(staged.file)'
           /\ UNCHANGED state /\ FileInv(state) => FileInv(state)'
BY Zenon DEF ChainInv, FileInv, Confirmed, RootAt, Advances, IsAdvance, BeforePin

LEMMA CommitKeepsSyncInv == SyncInv /\ Commit => SyncInv'
<1> SUFFICES ASSUME SyncInv, Commit PROVE SyncInv'
  BY Zenon 
<1>0. UNCHANGED <<chain, pin, verified>> /\ ChainInv'
  BY SameChain, Zenon DEF Commit, CommitPin, CommitSnapshot, CommitParent, CommitState, CollectGarbage, SyncInv
<1>1. CASE CommitPin \/ CommitSnapshot
  BY <1>0, <1>1, SameChain, Zenon DEF CommitPin, CommitSnapshot, SyncInv, StageInv, DiskInv
<1>2. CASE CommitParent
  <2>1. CASE staged.parents = {}
    BY <1>0, <1>2, <2>1, SameChain, Zenon DEF CommitParent, SyncInv, StageInv, DiskInv
  <2>2. CASE staged.parents # {}
    <3>1. PICK b : parents' = parents \cup {b} /\ staged' = [staged EXCEPT !.parents = @ \ {b}]
      BY <1>2, <2>2, ZenonT(60) DEF CommitParent
    <3>2. pc = "parents" /\ pc' = "parents" /\ UNCHANGED state
      BY <1>2, <2>2, Zenon DEF CommitParent
    <3>3. staged = [parents |-> staged.parents, window |-> staged.window, file |-> staged.file]
      BY <3>2, Zenon DEF SyncInv, StageInv
    <3>4. staged' = [parents |-> staged.parents \ {b}, window |-> staged.window, file |-> staged.file]
      BY <3>1, <3>3, Zenon
    <3>5. /\ staged'.file = staged.file /\ staged'.parents = staged.parents \ {b}
          /\ staged' = [parents |-> staged'.parents, window |-> staged'.window, file |-> staged'.file]
      BY <3>4, Zenon
    <3>6. FileInv(staged.file)'
      BY <1>0, <3>2, <3>5, Zenon
         DEF SyncInv, StageInv, FileInv, Confirmed, RootAt, Advances, IsAdvance, BeforePin
    <3>. QED
      BY <1>0, <3>1, <3>2, <3>5, <3>6, SameChain, Zenon DEF SyncInv, StageInv, DiskInv
  <2>. QED
    BY <2>1, <2>2, Zenon
<1>3. CASE CommitState
  <2>1. FileInv(state)'
    BY <1>0, <1>3, Zenon DEF CommitState, SyncInv, StageInv, FileInv, Confirmed, RootAt, Advances, IsAdvance, BeforePin
  <2>. QED
    BY <1>0, <1>3, <2>1, SameChain, Zenon DEF CommitState, SyncInv, StageInv, DiskInv
<1>4. CASE CollectGarbage
  BY <1>0, <1>4, SameChain, Zenon DEF CollectGarbage, Orphans, SyncInv, StageInv, DiskInv
<1>. QED
  BY <1>1, <1>2, <1>3, <1>4, Zenon DEF Commit

LEMMA SyncInvNext == SyncInv /\ [Next]_vars => SyncInv'
<1> SUFFICES ASSUME SyncInv, [Next]_vars PROVE SyncInv'
  BY Zenon 
<1>1. ASSUME NEW blk \in Block, NewBlock(blk) \/ Reorg(blk) PROVE SyncInv'
  BY <1>1, BlocksKeepSyncInv, Zenon
<1>2. ASSUME NEW o \in Options, SyncFails(o) \/ SyncReadsOnly(o) PROVE SyncInv'
  <2>1. UNCHANGED <<chain, state, parents, staged, pc, verified, pin>>
    BY <1>2, Zenon DEF SyncFails, SyncReadsOnly, files
  <2>. QED
    BY <2>1, SameChain, Zenon DEF SyncInv, StageInv, DiskInv
<1>3. ASSUME NEW o \in Options, Sync(o) PROVE SyncInv'
  <2>1. /\ staged' = [parents |-> Window(o), window |-> Window(o), file |-> NewState(o)]
        /\ pc' = "pin" /\ UNCHANGED <<chain, state, parents, pin>> /\ verified \subseteq verified'
    BY <1>3, Zenon DEF Sync, files
  <2>2. /\ staged'.parents = Window(o)
        /\ staged' = [parents |-> staged'.parents, window |-> staged'.window, file |-> staged'.file]
    BY <2>1, Zenon
  <2>3. state # NoState => FileInv(state)'
    BY <2>1, Zenon DEF SyncInv, DiskInv, FileInv, Confirmed, RootAt, Advances, IsAdvance, BeforePin
  <2>. QED
    BY <1>3, <2>1, <2>2, <2>3, PassStagesGoodFile, Zenon DEF SyncInv, StageInv, DiskInv
<1>4. CASE Commit
  BY <1>4, CommitKeepsSyncInv, Zenon
<1>5. CASE Crash \/ Wipe
  <2>1. UNCHANGED <<chain, pin, verified>> /\ pc' = "idle"
        /\ (UNCHANGED <<state, parents>> \/ state' = NoState)
    BY <1>5, Zenon DEF Crash, Wipe, files
  <2>. QED
    BY <2>1, SameChain, Zenon DEF SyncInv, StageInv, DiskInv
<1>6. CASE Setup
  <2>1. /\ UNCHANGED <<chain, pin, verified, parents, pc, staged>> /\ pc = "idle" /\ state # NoState
        /\ state' = [state EXCEPT !.corpus = CorpusRoot(0)]
    BY <1>6, Zenon DEF Setup, MergeValidatorStateFile
  <2>2. FileInv(state) /\ state.backlog \subseteq parents
    BY <2>1, Zenon DEF SyncInv, DiskInv
  <2>3. /\ DOMAIN state' = DOMAIN state /\ state'.root = state.root /\ state'.cursor = state.cursor
        /\ state'.backlog = state.backlog /\ state'.through = state.through
    BY <2>1, <2>2, Zenon DEF FileInv
  <2>4. FileInv(state)'
    BY <2>1, <2>2, <2>3, Zenon DEF FileInv, Confirmed, RootAt, Advances, IsAdvance, BeforePin
  <2>. QED
    BY <2>1, <2>2, <2>3, <2>4, SameChain, Zenon DEF SyncInv, StageInv, DiskInv
<1>7. ASSUME NEW p \in Pins, Upgrade(p) PROVE SyncInv'
  <2>1. /\ UNCHANGED <<chain, state, parents, staged, pc, verified>>
        /\ pin = NoPin /\ pin' = p /\ p.block <= Confirmed /\ pc = "idle"
    BY <1>7, Zenon DEF Upgrade, files
  <2>2. state # NoState => FileInv(state)'
    BY <2>1, Zenon DEF SyncInv, DiskInv, FileInv, Confirmed, RootAt, Advances, IsAdvance, BeforePin
  <2>3. ChainInv'
    BY <2>1, Zenon DEF SyncInv, ChainInv, Confirmed, Advances, IsAdvance
  <2>. QED
    BY <2>1, <2>2, <2>3, Zenon DEF SyncInv, StageInv, DiskInv
<1>8. CASE UNCHANGED vars
  BY <1>8, SameChain, Zenon DEF vars, SyncInv, StageInv, DiskInv
<1>. QED
  BY <1>1, <1>2, <1>3, <1>4, <1>5, <1>6, <1>7, <1>8, Zenon DEF Next

\* No advance is lost: at every moment each one up to the cursor is in the
\* committed backlog or has passed its score replay, through skipped and failed
\* passes, crashes in a commit, reorganisations and repeated setups
\* (validator-sync-cli.ts, upsertEvalBacklog and the staged commit).
THEOREM NothingDropped == SyncSpec => []BacklogComplete
<1>1. SyncInv => BacklogComplete
  BY Zenon DEF SyncInv, DiskInv, FileInv, BacklogComplete
<1>. QED
  BY <1>1, SyncInvInit, SyncInvNext, PTL DEF SyncSpec

\* The parent state of every committed backlog entry is on disk: parents are
\* renamed before the state file, and the garbage collection of a pass spares
\* what the file it has just renamed refers to.
THEOREM BacklogStaysDrainable == SyncSpec => []BacklogDrainable
<1>1. SyncInv => BacklogDrainable
  BY Zenon DEF SyncInv, DiskInv, BacklogDrainable
<1>. QED
  BY <1>1, SyncInvInit, SyncInvNext, PTL DEF SyncSpec

\* The verified height never covers an advance that was not scored, or one whose
\* score is false: evalVerifiedThroughBlock moves only when the backlog is empty.
THEOREM VerifiedHeightSound == SyncSpec => []ThroughIsVerified
<1>1. SyncInv => ThroughIsVerified
  BY Zenon DEF SyncInv, ChainInv, DiskInv, FileInv, ThroughIsVerified
<1>. QED
  BY <1>1, SyncInvInit, SyncInvNext, PTL DEF SyncSpec

\* The committed root is the registry's at the committed cursor, whatever the
\* chain does above the confirmation depth.
THEOREM RootOfCursor == SyncSpec => []StateOfCursor
<1>1. SyncInv => StateOfCursor
  BY Zenon DEF SyncInv, DiskInv, FileInv, StateOfCursor
<1>. QED
  BY <1>1, SyncInvInit, SyncInvNext, PTL DEF SyncSpec

\* Only deleting the directory takes the cursor or the verified height back.
THEOREM CursorNeverBack == SyncSpec => CursorAdvances
<1> DEFINE Forward == (state # NoState /\ state' # NoState) =>
                        state'.cursor >= state.cursor /\ state'.through >= state.through
<1>1. SyncInv /\ [Next]_vars => [Forward]_vars
  <2> SUFFICES ASSUME SyncInv, Next, state # NoState, state' # NoState
               PROVE  state'.cursor >= state.cursor /\ state'.through >= state.through
    BY Zenon DEF vars
  <2>1. state.cursor \in Int /\ state.through \in Int
    BY Zenon DEF SyncInv, DiskInv, FileInv
  <2>2. CASE UNCHANGED state
    BY <2>1, <2>2
  <2>3. CASE CommitState
    BY <2>3, Zenon DEF CommitState, SyncInv, StageInv
  <2>4. CASE Setup
    <3>1. /\ {"cursor", "through"} \subseteq DOMAIN state
          /\ state' = [state EXCEPT !.corpus = CorpusRoot(0)]
      BY <2>4, Zenon DEF Setup, MergeValidatorStateFile, SyncInv, DiskInv, FileInv
    <3>2. state'.cursor = state.cursor /\ state'.through = state.through
      BY <3>1, Zenon
    <3>. QED
      BY <2>1, <3>2
  <2>5. CASE Wipe
    BY <2>5, Zenon DEF Wipe
  <2>. QED
    BY <2>2, <2>3, <2>4, <2>5, Zenon DEF Next, Commit, NewBlock, Reorg, SyncFails, SyncReadsOnly, Sync,
       Upgrade, CommitPin, CommitSnapshot, CommitParent, CollectGarbage, Crash, files
<1>. QED
  BY <1>1, SyncInvInit, SyncInvNext, PTL DEF SyncSpec, CursorAdvances

-----------------------------------------------------------------------------
(* The setup. *)

\* What a running setup has established by the step it is at.
RunInv ==
  setupRun # NoRun =>
    /\ setupRun \in [launch : Launches, opts : SetupOptions, step : SetupSteps, next : Nat]
    /\ \A i \in 1..Len(Payloads) :
         setupRun.step # "payloads" \/ i < setupRun.next => disk[Payloads[i]] = ContentOf[L][Payloads[i]]
    /\ setupRun.step \in {"writing", "copying", "built", "copied"} =>
         dirs[L].manifest = NoFile /\ dirs[L].data # NoFile /\ dirs[L].data.from = SourceOf(L)
    /\ setupRun.step \in {"built", "copied"} => dirs[L].data.whole
    /\ setupRun.step \in {"venv", "pip", "state"} => dirs[L].manifest = SourceOf(L)

\* A manifest stands for a corpus written to the end from the launch's sources.
DirsInv ==
  /\ disk = [p \in Names |-> disk[p]]
  /\ dirs \in [Launches -> [data : Data \cup {NoFile}, manifest : {SourceOf(l) : l \in Launches} \cup {NoFile}]]
  /\ \A l \in Launches : dirs[l].manifest # NoFile =>
       /\ dirs[l].manifest = SourceOf(l)
       /\ dirs[l].data # NoFile /\ dirs[l].data.whole /\ dirs[l].data.from = SourceOf(l)
  /\ ready # NoFile => ready.launch \in Launches /\ dirs[ready.launch].manifest # NoFile

\* Once all payloads are ensured, what is on disk is what the launch pins.
LEMMA EnsuredAll ==
  ASSUME RunInv, setupRun # NoRun, NEW step, setupRun.step = step, step # "payloads",
         NEW l, l = setupRun.launch
  PROVE  \A i \in 1..Len(Payloads) : disk[Payloads[i]] = ContentOf[l][Payloads[i]]
BY Zenon DEF RunInv, L

LEMMA SourcesEnsured ==
  ASSUME RunInv, setupRun # NoRun, setupRun.step # "payloads"
  PROVE  OnDisk = SourceOf(L)
<1>1. \A p \in Sources : disk[p] = ContentOf[L][p]
  BY SetupAssumption DEF RunInv, Names
<1>. QED BY <1>1, Zenon DEF OnDisk, SourceOf

\* An overwrite happens only where no manifest stands.
LEMMA NoManifestYet ==
  ASSUME RunInv, DirsInv, At("materialise"), ~CacheHit
  PROVE  dirs[L].manifest = NoFile
<1>1. OnDisk = SourceOf(L) /\ L \in Launches
  BY SourcesEnsured, Zenon DEF At, RunInv, L
<1>. QED BY <1>1, Zenon DEF DirsInv, CacheHit

LEMMA OverwriteKeeps ==
  ASSUME RunInv, DirsInv, NEW sound \in BOOLEAN, NEW step \in {"writing", "copying"}, Overwrite(sound, step)
  PROVE  RunInv' /\ DirsInv'
<1>1. PICK l \in Launches : l = setupRun.launch
  BY Zenon DEF Overwrite, At, RunInv
<1>2. dirs[l].manifest = NoFile /\ OnDisk = SourceOf(l) /\ setupRun # NoRun
  BY <1>1, NoManifestYet, SourcesEnsured, Zenon DEF Overwrite, At, L
<1>3. PICK d \in Data : d = [from |-> SourceOf(l), whole |-> FALSE, sound |-> sound]
  BY ZenonT(60) DEF Data
<1>4. /\ dirs' = [dirs EXCEPT ![l].data = d] /\ UNCHANGED <<disk, ready>>
      /\ setupRun' = [setupRun EXCEPT !.step = step]
  BY <1>1, <1>2, <1>3, Zenon DEF Overwrite, Goto, L
<1>5. /\ dirs' \in [Launches -> [data : Data \cup {NoFile}, manifest : {SourceOf(k) : k \in Launches} \cup {NoFile}]]
      /\ dirs'[l].data = d /\ dirs'[l].manifest = NoFile
      /\ \A k \in Launches : k # l => dirs'[k] = dirs[k]
  BY <1>2, <1>4 DEF DirsInv
<1>6. DirsInv'
  BY <1>2, <1>4, <1>5, ZenonT(40) DEF DirsInv
<1>7. RunInv'
  <2>1. setupRun \in [launch : Launches, opts : SetupOptions, step : SetupSteps, next : Nat]
    BY <1>2, Zenon DEF RunInv
  <2>2. /\ setupRun' \in [launch : Launches, opts : SetupOptions, step : SetupSteps, next : Nat]
        /\ setupRun'.launch = l /\ setupRun'.step = step /\ step # "payloads"
    BY <1>1, <1>4, <2>1, Zenon DEF SetupSteps
  <2>3. \A i \in 1..Len(Payloads) : disk[Payloads[i]] = ContentOf[l][Payloads[i]]
    BY <1>1, <1>2, EnsuredAll, Zenon DEF Overwrite, At
  <2>4. dirs'[l].data # NoFile /\ dirs'[l].data.from = SourceOf(l)
    <3>1. d # NoFile
      BY SetupAssumption, Zenon
    <3>2. d.from = SourceOf(l)
      BY <1>3, Zenon
    <3>. QED BY <1>5, <3>1, <3>2, Zenon
  <2>. QED BY <1>4, <1>5, <2>2, <2>3, <2>4, Zenon DEF RunInv, L
<1>. QED BY <1>6, <1>7, Zenon

\* A step that only moves on, to a step whose promises hold.
LEMMA GotoKeeps ==
  ASSUME RunInv, DirsInv, setupRun # NoRun, UNCHANGED <<disk, dirs, ready>>,
         NEW step \in {"materialise", "verify", "venv", "pip", "state"}, Goto(step),
         \/ setupRun.step # "payloads"
         \/ \A i \in 1..Len(Payloads) : i < setupRun.next,
         step \in {"venv", "pip", "state"} => dirs[L].manifest = SourceOf(L)
  PROVE  RunInv' /\ DirsInv'
<1>1. setupRun \in [launch : Launches, opts : SetupOptions, step : SetupSteps, next : Nat]
  BY Zenon DEF RunInv
<1>2. /\ setupRun' \in [launch : Launches, opts : SetupOptions, step : SetupSteps, next : Nat]
      /\ setupRun'.launch = setupRun.launch /\ setupRun'.step = step /\ step # "payloads"
      /\ step \notin {"writing", "copying", "built", "copied"}
  BY <1>1, Zenon DEF Goto, SetupSteps
<1>3. \A i \in 1..Len(Payloads) : disk[Payloads[i]] = ContentOf[L][Payloads[i]]
  BY Zenon DEF RunInv
<1>4. DirsInv'
  BY Zenon DEF DirsInv
<1>. QED BY <1>2, <1>3, <1>4, Zenon DEF RunInv, L

LEMMA DieKeeps == ASSUME DirsInv, Die, UNCHANGED <<disk, dirs, ready>> PROVE RunInv' /\ DirsInv'
BY Zenon DEF Die, RunInv, DirsInv

\* A payload is ensured, by a check or by a download that verified.
LEMMA PayloadKeeps ==
  ASSUME RunInv, DirsInv, At("payloads"), setupRun.next <= Len(Payloads),
         setupRun' = [setupRun EXCEPT !.next = @ + 1], UNCHANGED <<dirs, ready>>,
         disk' = [disk EXCEPT ![Payload] = Expected]
  PROVE  RunInv' /\ DirsInv'
<1>0. setupRun # NoRun /\ setupRun.step = "payloads" /\ Len(Payloads) \in Nat
  BY SetupAssumption DEF At
<1>1. setupRun \in [launch : Launches, opts : SetupOptions, step : SetupSteps, next : Nat]
  BY <1>0, Zenon DEF RunInv
<1>2. PICK l \in Launches, n \in Nat : l = setupRun.launch /\ n = setupRun.next
  BY <1>1, Zenon
<1>3. /\ setupRun' \in [launch : Launches, opts : SetupOptions, step : SetupSteps, next : Nat]
      /\ setupRun'.launch = l /\ setupRun'.step = "payloads" /\ setupRun'.next = n + 1
  BY <1>0, <1>1, <1>2
<1>4. \A i \in 1..Len(Payloads) : i < n => disk[Payloads[i]] = ContentOf[l][Payloads[i]]
  BY <1>0, <1>2, Zenon DEF RunInv, L
<1>5. \A i \in 1..Len(Payloads) : Payloads[i] \in DOMAIN disk
  BY Zenon DEF DirsInv, Names
<1>6. disk' = [disk EXCEPT ![Payloads[n]] = ContentOf[l][Payloads[n]]]
  BY <1>2, Zenon DEF Payload, Expected, L
<1>7. \A i \in 1..Len(Payloads) : i < n + 1 => disk'[Payloads[i]] = ContentOf[l][Payloads[i]]
  <2>. SUFFICES ASSUME NEW i \in 1..Len(Payloads), i < n + 1
                PROVE  disk'[Payloads[i]] = ContentOf[l][Payloads[i]]
    BY Zenon 
  <2>1. CASE Payloads[i] = Payloads[n]
    BY <1>5, <1>6, <2>1
  <2>2. CASE Payloads[i] # Payloads[n]
    <3>1. i < n
      BY <2>2, <1>0
    <3>. QED BY <1>4, <1>5, <1>6, <2>2, <3>1, Zenon
  <2>. QED BY <2>1, <2>2, Zenon
<1>8. DirsInv'
  BY <1>6, Zenon DEF DirsInv
<1>9. RunInv'
  BY <1>3, <1>7, ZenonT(40) DEF RunInv, L
<1>. QED BY <1>8, <1>9, Zenon

LEMMA DataWrittenKeeps == ASSUME RunInv, DirsInv, DataWritten PROVE RunInv' /\ DirsInv'
<1>1. PICK l \in Launches, from \in {"writing", "copying"}, to \in {"built", "copied"} :
         /\ l = setupRun.launch /\ setupRun # NoRun /\ setupRun.step = from
         /\ dirs' = [dirs EXCEPT ![l].data.whole = TRUE]
         /\ setupRun' = [setupRun EXCEPT !.step = to] /\ UNCHANGED <<disk, ready>>
  BY Zenon DEF DataWritten, Written, At, Goto, L, RunInv
<1>2. setupRun \in [launch : Launches, opts : SetupOptions, step : SetupSteps, next : Nat]
  BY <1>1, Zenon DEF RunInv
<1>3. /\ setupRun' \in [launch : Launches, opts : SetupOptions, step : SetupSteps, next : Nat]
      /\ setupRun'.launch = l /\ setupRun'.step = to
  BY <1>1, <1>2, Zenon DEF SetupSteps
<1>4. PICK d \in Data : d = dirs[l].data /\ d.from = SourceOf(l) /\ dirs[l].manifest = NoFile
  BY <1>1, Zenon DEF RunInv, DirsInv, L
<1>5. PICK e \in Data : e = [d EXCEPT !.whole = TRUE] /\ e.whole /\ e.from = SourceOf(l)
  <2>1. [d EXCEPT !.whole = TRUE] \in Data
    BY Zenon DEF Data
  <2>2. [d EXCEPT !.whole = TRUE].whole /\ [d EXCEPT !.whole = TRUE].from = SourceOf(l)
    BY <1>4, Zenon DEF Data
  <2>. QED BY <2>1, <2>2, Zenon
<1>6. e # NoFile
  BY SetupAssumption, Zenon
<1>7. /\ dirs' \in [Launches -> [data : Data \cup {NoFile}, manifest : {SourceOf(k) : k \in Launches} \cup {NoFile}]]
      /\ dirs'[l].data = e /\ dirs'[l].manifest = NoFile
      /\ \A k \in Launches : k # l => dirs'[k] = dirs[k]
  <2>1. dirs' = [dirs EXCEPT ![l] = [dirs[l] EXCEPT !.data = e]]
    BY <1>1, <1>4, <1>5, Zenon DEF DirsInv
  <2>. QED BY <2>1, <1>4 DEF DirsInv
<1>8. DirsInv'
  BY <1>1, <1>4, <1>7, ZenonT(40) DEF DirsInv
<1>9. \A i \in 1..Len(Payloads) : disk[Payloads[i]] = ContentOf[l][Payloads[i]]
  BY <1>1, EnsuredAll, Zenon
<1>10. RunInv'
  BY <1>1, <1>3, <1>5, <1>6, <1>7, <1>9 DEF RunInv, L
<1>. QED BY <1>8, <1>10, Zenon

LEMMA ManifestKeeps == ASSUME RunInv, DirsInv, WriteManifest PROVE RunInv' /\ DirsInv'
<1>1. PICK l \in Launches, to \in {"verify", "roundtrip"} :
         /\ l = setupRun.launch /\ setupRun # NoRun /\ setupRun.step \in {"built", "copied"}
         /\ dirs' = [dirs EXCEPT ![l].manifest = OnDisk]
         /\ setupRun' = [setupRun EXCEPT !.step = to] /\ UNCHANGED <<disk, ready>>
  BY Zenon DEF WriteManifest, At, Goto, L, RunInv
<1>2. setupRun \in [launch : Launches, opts : SetupOptions, step : SetupSteps, next : Nat]
  BY <1>1, Zenon DEF RunInv
<1>3. /\ setupRun' \in [launch : Launches, opts : SetupOptions, step : SetupSteps, next : Nat]
      /\ setupRun'.launch = l /\ setupRun'.step = to
  BY <1>1, <1>2, Zenon DEF SetupSteps
<1>4. OnDisk = SourceOf(l)
  BY <1>1, SourcesEnsured, Zenon DEF L
<1>5. dirs[l].data # NoFile /\ dirs[l].data.from = SourceOf(l) /\ dirs[l].data.whole
  BY <1>1, Zenon DEF RunInv, L
<1>6. /\ dirs' \in [Launches -> [data : Data \cup {NoFile}, manifest : {SourceOf(k) : k \in Launches} \cup {NoFile}]]
      /\ dirs'[l].data = dirs[l].data /\ dirs'[l].manifest = SourceOf(l)
      /\ \A k \in Launches : k # l => dirs'[k] = dirs[k]
  BY <1>1, <1>4 DEF DirsInv
<1>7. SourceOf(l) # NoFile
  BY SetupAssumption, Zenon
<1>8. DirsInv'
  BY <1>1, <1>5, <1>6, <1>7, ZenonT(40) DEF DirsInv
<1>9. \A i \in 1..Len(Payloads) : disk[Payloads[i]] = ContentOf[l][Payloads[i]]
  BY <1>1, EnsuredAll, Zenon
<1>10. RunInv'
  BY <1>1, <1>3, <1>9, Zenon DEF RunInv, L
<1>. QED BY <1>8, <1>10, Zenon

\* The state file names a launch whose corpus was verified.
LEMMA StateFileKeeps == ASSUME RunInv, DirsInv, WriteStateFile PROVE RunInv' /\ DirsInv'
<1>1. /\ setupRun # NoRun /\ L \in Launches /\ dirs[L].manifest = SourceOf(L)
      /\ Die /\ UNCHANGED <<disk, dirs>> /\ ready'.launch = L
  BY Zenon DEF WriteStateFile, At, RunInv, L
<1>2. SourceOf(L) # NoFile
  BY <1>1, SetupAssumption, Zenon
<1>3. DirsInv'
  BY <1>1, <1>2, Zenon DEF DirsInv
<1>. QED BY <1>1, <1>3, Zenon DEF Die, RunInv

LEMMA SetupInvNext == RunInv /\ DirsInv /\ [SetupNext]_setupVars => RunInv' /\ DirsInv'
<1>. SUFFICES ASSUME RunInv, DirsInv, [SetupNext]_setupVars PROVE RunInv' /\ DirsInv'
  BY Zenon 
<1>1. ASSUME NEW l \in Launches, NEW o \in SetupOptions, RunSetup(l, o) PROVE RunInv' /\ DirsInv'
  <2>1. /\ setupRun' = [launch |-> l, opts |-> o, step |-> "payloads", next |-> 1]
        /\ UNCHANGED <<disk, dirs, ready>>
    BY <1>1, Zenon DEF RunSetup
  <2>2. DirsInv'
    BY <2>1, Zenon DEF DirsInv
  <2>3. setupRun' \in [launch : Launches, opts : SetupOptions, step : SetupSteps, next : Nat]
    BY <2>1, Zenon DEF SetupSteps
  <2>4. RunInv'
    BY <2>1, <2>3 DEF RunInv, L
  <2>. QED BY <2>2, <2>4, Zenon
<1>2. CASE Present
  <2>1. disk' = [disk EXCEPT ![Payload] = Expected]
    BY <1>2, Zenon DEF Present, DirsInv
  <2>. QED BY <1>2, <2>1, PayloadKeeps, Zenon DEF Present, Ensured
<1>3. ASSUME NEW ok \in BOOLEAN, Download(ok) PROVE RunInv' /\ DirsInv'
  <2>1. CASE ok
    <3>1. /\ At("payloads") /\ setupRun.next <= Len(Payloads) /\ UNCHANGED <<dirs, ready>>
          /\ setupRun' = [setupRun EXCEPT !.next = @ + 1]
          /\ disk' = [disk EXCEPT ![Payload] = Expected]
      BY <1>3, <2>1, Zenon DEF Download
    <3>. QED BY <3>1, PayloadKeeps, Zenon
  <2>2. CASE ~ok
    <3>1. Die /\ UNCHANGED <<dirs, ready>> /\ disk' = [disk EXCEPT ![Payload] = "other"]
      BY <1>3, <2>2, Zenon DEF Download
    <3>. QED BY <3>1, Zenon DEF Die, RunInv, DirsInv
  <2>. QED BY <2>1, <2>2, Zenon
<1>4. CASE AllEnsured
  <2>1. /\ setupRun # NoRun /\ setupRun.next > Len(Payloads) /\ UNCHANGED <<disk, dirs, ready>>
        /\ Goto("verify") \/ Goto("materialise")
    BY <1>4, Zenon DEF AllEnsured, At
  <2>2. \A i \in 1..Len(Payloads) : i < setupRun.next
    BY <2>1, SetupAssumption DEF RunInv
  <2>. QED BY <2>1, <2>2, GotoKeeps, Zenon
<1>5. CASE Reuse
  BY <1>5, GotoKeeps, Zenon DEF Reuse, At
<1>6. CASE CopySibling
  <2>1. PICK s \in Siblings : Overwrite(dirs[s].data.sound, "copying")
    BY <1>6, Zenon DEF CopySibling
  <2>2. PICK sound \in BOOLEAN : sound = dirs[s].data.sound
    BY <2>1, Zenon DEF Siblings, DirsInv, Data
  <2>3. Overwrite(sound, "copying")
    BY <2>1, <2>2, Zenon DEF Overwrite
  <2>. QED BY <2>3, OverwriteKeeps, Zenon
<1>7. ASSUME NEW drift \in BOOLEAN, Build(drift) PROVE RunInv' /\ DirsInv'
  <2>1. PICK sound \in BOOLEAN : sound = ~drift
    BY Zenon
  <2>2. Overwrite(sound, "writing")
    BY <1>7, <2>1, Zenon DEF Build
  <2>. QED BY <2>2, OverwriteKeeps, Zenon
<1>8. CASE RoundTrip
  BY <1>8, GotoKeeps, DieKeeps, Zenon DEF RoundTrip, At
<1>9. CASE VerifyMaterialized
  BY <1>9, GotoKeeps, DieKeeps, Zenon DEF VerifyMaterialized, At
<1>10. CASE SkipVenv
  <2>1. dirs[L].manifest = SourceOf(L)
    BY <1>10, Zenon DEF SkipVenv, At, RunInv
  <2>. QED BY <1>10, <2>1, GotoKeeps, Zenon DEF SkipVenv, At
<1>11. ASSUME NEW ok \in BOOLEAN, CreateVenv(ok) \/ PipInstall(ok) PROVE RunInv' /\ DirsInv'
  <2>1. dirs[L].manifest = SourceOf(L) /\ setupRun # NoRun /\ setupRun.step # "payloads"
    BY <1>11, Zenon DEF CreateVenv, PipInstall, At, RunInv
  <2>2. UNCHANGED <<disk, dirs, ready>> /\ (Goto("pip") \/ Goto("state") \/ Die)
    BY <1>11, Zenon DEF CreateVenv, PipInstall
  <2>. QED BY <2>1, <2>2, GotoKeeps, DieKeeps, Zenon
<1>12. CASE DownloadsDisabled \/ Killed
  BY <1>12, DieKeeps, Zenon DEF DownloadsDisabled, Killed
<1>13. CASE UNCHANGED setupVars
  BY <1>13, Zenon DEF setupVars, RunInv, DirsInv, L
<1>. QED BY <1>1, <1>2, <1>3, <1>4, <1>5, <1>6, <1>7, <1>8, <1>9, <1>10, <1>11, <1>12, <1>13,
            DataWrittenKeeps, ManifestKeeps, StateFileKeeps, Zenon DEF SetupNext, SetupProgress

\* READY means a whole corpus: however often setups are killed, fail or run for
\* other launches, the directory of the launch in the state file was written to
\* the end from the payloads that launch pins.
THEOREM ReadyMeansWhole == SetupSpec => []ReadyCorpusWhole
<1>1. SetupInit => RunInv /\ DirsInv
  BY SMTT(60) DEF SetupInit, RunInv, DirsInv
<1>2. DirsInv => ReadyCorpusWhole
  BY Zenon DEF DirsInv, ReadyCorpusWhole
<1>. QED BY <1>1, <1>2, SetupInvNext, PTL DEF SetupSpec

-----------------------------------------------------------------------------
(* The Python environment. *)

VenvInv ==
  /\ setupRun # NoRun =>
       /\ setupRun \in [launch : Launches, opts : SetupOptions, step : SetupSteps, next : Nat]
       /\ setupRun.step = "pip" => venv = "broken"
       /\ setupRun.step = "state" /\ setupRun.opts.python = "venv" =>
            setupRun.opts.verifyOnly \/ venv = "healthy"
  /\ RecordedPythonHealthy

\* A step that leaves the environment alone, and does not reach pip or the state file.
LEMMA VenvFrame ==
  ASSUME VenvInv, UNCHANGED <<venv, ready>>,
         \/ setupRun' = NoRun
         \/ setupRun # NoRun /\ \E t \in SetupSteps \ {"pip", "state"} : Goto(t)
         \/ At("payloads") /\ setupRun' = [setupRun EXCEPT !.next = @ + 1]
         \/ UNCHANGED setupRun
  PROVE  VenvInv'
<1>1. RecordedPythonHealthy'
  BY Zenon DEF VenvInv, RecordedPythonHealthy
<1>2. CASE setupRun' = NoRun
  BY <1>1, <1>2, Zenon DEF VenvInv
<1>3. ASSUME setupRun # NoRun, NEW t \in SetupSteps \ {"pip", "state"}, Goto(t)
      PROVE  VenvInv'
  BY <1>1, <1>3, Zenon DEF VenvInv, Goto
<1>4. CASE At("payloads") /\ setupRun' = [setupRun EXCEPT !.next = @ + 1]
  BY <1>1, <1>4 DEF VenvInv, At
<1>5. CASE UNCHANGED setupRun
  BY <1>1, <1>5, Zenon DEF VenvInv
<1>. QED BY <1>2, <1>3, <1>4, <1>5, Zenon

LEMMA VenvStep == VenvInv /\ [SetupNext]_setupVars => VenvInv'
<1>. SUFFICES ASSUME VenvInv, [SetupNext]_setupVars PROVE VenvInv'
  BY Zenon 
<1>0. \A s \in {"verify", "materialise", "venv", "writing", "copying", "built", "copied", "roundtrip"} :
         s \in SetupSteps \ {"pip", "state"}
  BY Zenon DEF SetupSteps
<1>1. ASSUME NEW l \in Launches, NEW o \in SetupOptions, RunSetup(l, o) PROVE VenvInv'
  <2>1. /\ setupRun' = [launch |-> l, opts |-> o, step |-> "payloads", next |-> 1]
        /\ UNCHANGED <<venv, ready>>
    BY <1>1, Zenon DEF RunSetup
  <2>. QED BY <2>1, Zenon DEF VenvInv, RecordedPythonHealthy, SetupSteps
<1>2. CASE Present
  BY <1>2, VenvFrame, Zenon DEF Present, Ensured
<1>3. ASSUME NEW ok \in BOOLEAN, Download(ok) PROVE VenvInv'
  BY <1>3, VenvFrame, Zenon DEF Download, Die
<1>4. CASE AllEnsured
  BY <1>0, <1>4, VenvFrame, Zenon DEF AllEnsured, At
<1>5. CASE Reuse
  BY <1>0, <1>5, VenvFrame, Zenon DEF Reuse, At
<1>6. ASSUME NEW sound, NEW t \in {"writing", "copying"}, Overwrite(sound, t) PROVE VenvInv'
  BY <1>0, <1>6, VenvFrame, Zenon DEF Overwrite, At
<1>7. CASE CopySibling \/ Build(TRUE) \/ Build(FALSE)
  BY <1>6, <1>7, Zenon DEF CopySibling, Build
<1>8. CASE DataWritten \/ WriteManifest
  <2>1. /\ setupRun # NoRun /\ UNCHANGED <<venv, ready>>
        /\ Goto("built") \/ Goto("copied") \/ Goto("verify") \/ Goto("roundtrip")
    BY <1>8, Zenon DEF DataWritten, Written, WriteManifest, At
  <2>. QED BY <1>0, <2>1, VenvFrame, Zenon
<1>9. CASE RoundTrip
  BY <1>0, <1>9, VenvFrame, Zenon DEF RoundTrip, At, Die
<1>10. CASE VerifyMaterialized
  <2>1. setupRun # NoRun /\ setupRun.step = "verify" /\ UNCHANGED <<venv, ready>>
    BY <1>10, Zenon DEF VerifyMaterialized, At
  <2>2. CASE Goto("state") /\ setupRun.opts.verifyOnly
    <3>1. setupRun'.opts = setupRun.opts /\ setupRun'.step = "state"
          /\ setupRun' \in [launch : Launches, opts : SetupOptions, step : SetupSteps, next : Nat]
      BY <2>1, <2>2, Zenon DEF VenvInv, Goto, SetupSteps
    <3>. QED BY <2>1, <2>2, <3>1, Zenon DEF VenvInv, RecordedPythonHealthy
  <2>3. CASE Goto("venv") \/ Die
    BY <1>0, <2>1, <2>3, VenvFrame, Zenon DEF Die
  <2>. QED BY <1>10, <2>2, <2>3, Zenon DEF VerifyMaterialized
<1>11. CASE SkipVenv
  <2>1. /\ setupRun # NoRun /\ UNCHANGED <<venv, ready>> /\ Goto("state")
        /\ setupRun.opts.python # "venv" \/ venv = "healthy"
    BY <1>11, Zenon DEF SkipVenv, At
  <2>2. setupRun'.opts = setupRun.opts /\ setupRun'.step = "state"
        /\ setupRun' \in [launch : Launches, opts : SetupOptions, step : SetupSteps, next : Nat]
    BY <2>1, Zenon DEF VenvInv, Goto, SetupSteps
  <2>. QED BY <2>1, <2>2, Zenon DEF VenvInv, RecordedPythonHealthy
<1>12. ASSUME NEW ok \in BOOLEAN, CreateVenv(ok) PROVE VenvInv'
  <2>1. /\ setupRun # NoRun /\ venv # "healthy" /\ UNCHANGED ready
        /\ \/ Goto("pip") /\ venv' = "broken"
           \/ Die /\ venv' = venv
    BY <1>12, Zenon DEF CreateVenv, At
  <2>2. RecordedPythonHealthy'
    BY <2>1, Zenon DEF VenvInv, RecordedPythonHealthy
  <2>. QED BY <2>1, <2>2, Zenon DEF VenvInv, Goto, Die, SetupSteps
<1>13. ASSUME NEW ok \in BOOLEAN, PipInstall(ok) PROVE VenvInv'
  <2>1. /\ setupRun # NoRun /\ setupRun.step = "pip" /\ UNCHANGED ready
        /\ \/ Goto("state") /\ venv' = "healthy"
           \/ Die /\ venv' = "broken"
    BY <1>13, Zenon DEF PipInstall, At
  <2>2. RecordedPythonHealthy'
    BY <2>1, Zenon DEF VenvInv, RecordedPythonHealthy
  <2>. QED BY <2>1, <2>2, Zenon DEF VenvInv, Goto, Die, SetupSteps
<1>14. CASE WriteStateFile
  <2>1. /\ setupRun # NoRun /\ setupRun.step = "state" /\ setupRun' = NoRun /\ venv' = venv
        /\ ready' = [launch |-> L,
                     python |-> IF setupRun.opts.verifyOnly THEN "none" ELSE setupRun.opts.python]
    BY <1>14, Zenon DEF WriteStateFile, At, Die
  <2>. QED BY <2>1, Zenon DEF VenvInv, RecordedPythonHealthy
<1>15. CASE DownloadsDisabled \/ Killed
  BY <1>15, VenvFrame, Zenon DEF DownloadsDisabled, Killed, Die
<1>16. CASE UNCHANGED setupVars
  BY <1>16, VenvFrame, Zenon DEF setupVars
<1>. QED BY <1>1, <1>2, <1>3, <1>4, <1>5, <1>7, <1>8, <1>9, <1>10, <1>11, <1>12, <1>13, <1>14,
            <1>15, <1>16, Zenon DEF SetupNext, SetupProgress

\* An environment left half-built by a failed or killed run is never the one
\* the state file names, and a recorded one is never broken by a later run.
THEOREM RecordedPythonWorks == SetupSpec => []RecordedPythonHealthy
<1>1. SetupInit => VenvInv
  BY Zenon DEF SetupInit, VenvInv, RecordedPythonHealthy
<1>2. VenvInv => RecordedPythonHealthy
  BY Zenon DEF VenvInv
<1>. QED BY <1>1, <1>2, VenvStep, PTL DEF SetupSpec

-----------------------------------------------------------------------------
(* The handler's routes. *)

SigningState == {"idle", "signing", "signed", "failed", "landed"}
SigningRow == [miner : HandlerMiners, index : 0..MaxLinks, state : SigningState]

SigningInv ==
  /\ cursor \in [HandlerMiners -> 0..MaxLinks]
  /\ signing \in [Requests -> SigningRow]
  /\ SignedBehindCursor

LEMMA SigningStart == HandlerInit => SigningInv
<1>. SUFFICES ASSUME HandlerInit PROVE SigningInv
  BY Zenon 
<1>1. Idle \in SigningRow /\ Idle.state = "idle"
  <2>1. (CHOOSE m \in HandlerMiners : TRUE) \in HandlerMiners
    BY HandlerAssumption, Zenon
  <2>. QED BY <2>1, HandlerAssumption DEF Idle, SigningRow, SigningState
<1>2. signing \in [Requests -> SigningRow] /\ \A r \in Requests : signing[r].state = "idle"
  BY <1>1, Zenon DEF HandlerInit
<1>3. cursor \in [HandlerMiners -> 0..MaxLinks]
  BY HandlerAssumption DEF HandlerInit
<1>. QED BY <1>2, <1>3, Zenon DEF SigningInv, SignedBehindCursor

LEMMA SigningStep == SigningInv /\ [HandlerNext]_handlerVars => SigningInv'
<1>. SUFFICES ASSUME SigningInv, [HandlerNext]_handlerVars PROVE SigningInv'
  BY Zenon 
<1>0. \A r \in Requests : /\ signing[r].miner \in HandlerMiners /\ signing[r].index \in Nat
                          /\ cursor[signing[r].miner] \in Nat
  BY SMTT(30) DEF SigningInv, SigningRow
<1>1. ASSUME NEW r \in Requests, NEW m \in HandlerMiners, NEW index \in 0..MaxLinks, LetThrough(r, m, index)
      PROVE  SigningInv'
  <2>1. PICK x \in SigningRow : x = [miner |-> m, index |-> index, state |-> "signing"]
    BY Zenon DEF SigningRow, SigningState
  <2>2. signing' = [signing EXCEPT ![r] = x] /\ cursor' = cursor /\ index = cursor[m]
    BY <1>1, <2>1, Zenon DEF LetThrough
  <2>3. /\ signing' \in [Requests -> SigningRow] /\ signing'[r] = x
        /\ \A q \in Requests : q # r => signing'[q] = signing[q]
    BY <2>2, Zenon DEF SigningInv
  <2>4. x.state = "signing" /\ x.index = cursor[x.miner] /\ cursor[x.miner] \in Nat
    BY <2>1, <2>2
  <2>. QED BY <2>2, <2>3, <2>4 DEF SigningInv, SignedBehindCursor
<1>2. ASSUME NEW r \in Requests, NEW end \in {"signed", "failed"}, SignerReturns(r, end)
      PROVE  SigningInv'
  <2>1. PICK x \in SigningRow : x = [signing[r] EXCEPT !.state = end]
    BY Zenon DEF SigningInv, SigningRow, SigningState
  <2>2. signing' = [signing EXCEPT ![r] = x] /\ cursor' = cursor /\ signing[r].state = "signing"
    BY <1>2, <2>1, Zenon DEF SignerReturns
  <2>3. /\ signing' \in [Requests -> SigningRow] /\ signing'[r] = x
        /\ \A q \in Requests : q # r => signing'[q] = signing[q]
    BY <2>2, Zenon DEF SigningInv
  <2>4. x.state \in {"signed", "failed"} /\ x.index = signing[r].index /\ x.miner = signing[r].miner
    BY <2>1, Zenon DEF SigningInv, SigningRow
  <2>. QED BY <2>2, <2>3, <2>4, ZenonT(40) DEF SigningInv, SignedBehindCursor
<1>3. ASSUME NEW r \in Requests, Land(r)
      PROVE  SigningInv'
  <2>1. PICK x \in SigningRow : x = [signing[r] EXCEPT !.state = "landed"]
    BY Zenon DEF SigningInv, SigningRow, SigningState
  <2>2. PICK m \in HandlerMiners, n \in 0..MaxLinks : m = signing[r].miner /\ n = cursor[m]
    BY Zenon DEF SigningInv, SigningRow
  <2>3. /\ signing' = [signing EXCEPT ![r] = x] /\ cursor' = [cursor EXCEPT ![m] = n + 1]
        /\ n = signing[r].index /\ n < MaxLinks
    BY <1>3, <2>1, <2>2, Zenon DEF Land
  <2>4. /\ signing' \in [Requests -> SigningRow] /\ signing'[r] = x
        /\ \A q \in Requests : q # r => signing'[q] = signing[q]
    BY <2>3, Zenon DEF SigningInv
  <2>5. x.state = "landed" /\ x.index = n /\ x.miner = m
    BY <2>1, <2>2, <2>3, Zenon DEF SigningInv, SigningRow
  <2>6. /\ cursor' \in [HandlerMiners -> 0..MaxLinks] /\ cursor'[m] = n + 1
        /\ \A k \in HandlerMiners : k # m => cursor'[k] = cursor[k]
    BY <2>2, <2>3, HandlerAssumption DEF SigningInv
  <2>7. \A q \in Requests : cursor[signing[q].miner] <= cursor'[signing[q].miner]
    BY <1>0, <2>2, <2>6
  <2>8. \A q \in Requests : signing[q].state = "landed" /\ signing[q].miner = m => signing[q].index < n
    BY <2>2, Zenon DEF SigningInv, SignedBehindCursor
  <2>9. ASSUME NEW q \in Requests
        PROVE  /\ signing'[q].state \in {"signing", "signed"} => signing'[q].index <= cursor'[signing'[q].miner]
               /\ signing'[q].state = "landed" =>
                    /\ signing'[q].index < cursor'[signing'[q].miner]
                    /\ \A p \in Requests \ {q} :
                         signing'[p].state = "landed" /\ signing'[p].miner = signing'[q].miner
                           => signing'[p].index # signing'[q].index
    <3>1. CASE q = r
      BY <1>0, <2>2, <2>4, <2>5, <2>6, <2>8, <3>1
    <3>2. CASE q # r
      <4>1. signing'[q] = signing[q]
        BY <2>4, <3>2, Zenon
      <4>2. /\ signing[q].state \in {"signing", "signed"} => signing[q].index <= cursor[signing[q].miner]
            /\ signing[q].state = "landed" => signing[q].index < cursor[signing[q].miner]
        BY Zenon DEF SigningInv, SignedBehindCursor
      <4>3. ASSUME signing[q].state = "landed", NEW p \in Requests \ {q},
                   signing'[p].state = "landed", signing'[p].miner = signing[q].miner
            PROVE  signing'[p].index # signing[q].index
        <5>1. CASE p = r
          BY <1>0, <2>4, <2>5, <2>8, <4>3, <5>1
        <5>2. CASE p # r
          BY <2>4, <4>3, <5>2, Zenon DEF SigningInv, SignedBehindCursor
        <5>. QED BY <5>1, <5>2, Zenon
      <4>4. /\ signing[q].index \in Nat /\ cursor[signing[q].miner] <= cursor'[signing[q].miner]
            /\ cursor[signing[q].miner] \in Nat /\ cursor'[signing[q].miner] \in Nat
        BY <1>0, <2>6, <2>7, HandlerAssumption, SMTT(30)
      <4>5. /\ signing[q].state \in {"signing", "signed"} => signing[q].index <= cursor'[signing[q].miner]
            /\ signing[q].state = "landed" => signing[q].index < cursor'[signing[q].miner]
        BY <4>2, <4>4
      <4>. QED BY <4>1, <4>3, <4>5, Zenon
    <3>. QED BY <3>1, <3>2, Zenon
  <2>. QED BY <2>4, <2>6, <2>9, Zenon DEF SigningInv, SignedBehindCursor
<1>4. CASE UNCHANGED <<cursor, signing>>
  BY <1>4, Zenon DEF SigningInv, SignedBehindCursor
<1>. QED BY <1>1, <1>2, <1>3, <1>4, Zenon
         DEF HandlerNext, HandlerTick, GetOutstanding, SetOutstanding, ClearOutstanding, Submitted, handlerVars

\* Whatever requests of a miner interleave around the awaits of the signer, a
\* request that was let through never runs ahead of the chain, and the receipts
\* that land have one index each, for any number of miners and requests.
THEOREM NoneAheadOfCursor == HandlerSpec => []SignedBehindCursor
<1>1. SigningInv => SignedBehindCursor
  BY Zenon DEF SigningInv
<1>. QED BY <1>1, SigningStart, SigningStep, PTL DEF HandlerSpec

RowsInv == clock \in Nat /\ row \in [HandlerMiners -> Row]

LEMMA RowsStart == HandlerInit => RowsInv
BY HandlerAssumption DEF HandlerInit, RowsInv, Row, EmptyRow

LEMMA ClearExpiredRows ==
  ASSUME RowsInv
  PROVE  /\ ClearExpired \in [HandlerMiners -> Row]
         /\ \A m \in HandlerMiners : /\ ClearExpired[m] # row[m] => row[m].expires < clock
                                     /\ ClearExpired[m] = EmptyRow => row[m] = EmptyRow \/ row[m].expires < clock
<1>1. EmptyRow \in Row
  BY HandlerAssumption DEF EmptyRow, Row
<1>. QED BY <1>1, Zenon DEF ClearExpired, RowsInv

\* What a step may do to the row of a miner.
RowMoves(m) ==
  row[m] # EmptyRow /\ row[m].expires >= clock /\ row'[m] # row[m]
    => row'[m] = EmptyRow /\ \E c \in clears \ clears' : c[1] = m

LEMMA RowsStep == RowsInv /\ [HandlerNext]_handlerVars => RowsInv' /\ \A m \in HandlerMiners : RowMoves(m)
<1>. SUFFICES ASSUME RowsInv, [HandlerNext]_handlerVars
              PROVE  RowsInv' /\ \A m \in HandlerMiners : RowMoves(m)
  BY Zenon 
<1>0. \A m \in HandlerMiners : row[m].expires \in Nat /\ clock \in Nat
  BY HandlerAssumption DEF RowsInv, Row
<1>1. ASSUME NEW m \in HandlerMiners, NEW challenge \in Challenges, NEW expires \in 0..LastSecond,
             SetOutstanding(m, challenge, expires)
      PROVE  RowsInv' /\ \A k \in HandlerMiners : RowMoves(k)
  <2>1. PICK x \in Row : x = [challenge |-> challenge, expires |-> expires]
    BY Zenon DEF Row
  <2>2. row' = [ClearExpired EXCEPT ![m] = x] /\ ClearExpired[m] = EmptyRow /\ clock' = clock
    BY <1>1, <2>1, Zenon DEF SetOutstanding
  <2>3. row' \in [HandlerMiners -> Row] /\ \A k \in HandlerMiners : k # m => row'[k] = ClearExpired[k]
    BY <2>2, ClearExpiredRows, Zenon
  <2>4. row[m] = EmptyRow \/ row[m].expires < clock
    BY <2>2, ClearExpiredRows, Zenon
  <2>5. \A k \in HandlerMiners : k # m => row'[k] = row[k] \/ row[k].expires < clock
    BY <2>3, ClearExpiredRows, Zenon
  <2>6. \A k \in HandlerMiners : RowMoves(k)
    BY <1>0, <2>4, <2>5 DEF RowMoves
  <2>. QED BY <2>2, <2>3, <2>6, Zenon DEF RowsInv
<1>2. CASE GetOutstanding
  <2>1. row' = ClearExpired /\ clock' = clock
    BY <1>2, Zenon DEF GetOutstanding
  <2>2. \A k \in HandlerMiners : row'[k] = row[k] \/ row[k].expires < clock
    BY <2>1, ClearExpiredRows, Zenon
  <2>3. \A k \in HandlerMiners : RowMoves(k)
    BY <1>0, <2>2, SMTT(30) DEF RowMoves
  <2>. QED BY <2>1, <2>3, ClearExpiredRows, Zenon DEF RowsInv
<1>3. ASSUME NEW m \in HandlerMiners, NEW challenge \in Challenges, ClearOutstanding(m, challenge)
      PROVE  RowsInv' /\ \A k \in HandlerMiners : RowMoves(k)
  <2>1. /\ row' = [row EXCEPT ![m] = EmptyRow] /\ clock' = clock
        /\ <<m, challenge>> \in clears \ clears'
    BY <1>3, Zenon DEF ClearOutstanding
  <2>2. EmptyRow \in Row
    BY HandlerAssumption DEF EmptyRow, Row
  <2>3. RowsInv' /\ row'[m] = EmptyRow /\ \A k \in HandlerMiners : k # m => row'[k] = row[k]
    BY <2>1, <2>2, Zenon DEF RowsInv
  <2>4. \E c \in clears \ clears' : c[1] = m
    <3>1. <<m, challenge>>[1] = m
      BY Zenon 
    <3>. QED BY <2>1, <3>1, Zenon
  <2>. QED BY <2>3, <2>4, Zenon DEF RowMoves
<1>4. CASE UNCHANGED row /\ clock' \in Nat
  BY <1>4, Zenon DEF RowsInv, RowMoves
<1>5. CASE HandlerTick
  BY <1>0, <1>4, <1>5 DEF HandlerTick, RowsInv
<1>6. CASE UNCHANGED <<row, clock>>
  BY <1>4, <1>6, Zenon DEF RowsInv
<1>. QED BY <1>1, <1>2, <1>3, <1>5, <1>6, Zenon
         DEF HandlerNext, Submitted, LetThrough, SignerReturns, Land, handlerVars

\* A challenge that has not expired is never replaced or removed except by a
\* clear for its miner, whatever sets, reads and expiries interleave.
THEOREM ChallengeKept == HandlerSpec => KeptUntilCleared
<1>1. (\A m \in HandlerMiners : RowMoves(m)) <=>
        \A m \in HandlerMiners :
          row[m] # EmptyRow /\ row[m].expires >= clock /\ row'[m] # row[m]
            => row'[m] = EmptyRow /\ \E c \in clears \ clears' : c[1] = m
  BY Zenon DEF RowMoves
<1>. QED BY <1>1, RowsStart, RowsStep, PTL DEF HandlerSpec, KeptUntilCleared

-----------------------------------------------------------------------------
(* The reranker's pipe. *)

\* The state of every call, and the calls as a table.
CallsOK ==
  /\ calls = [c \in ScoreCalls |-> calls[c]]
  /\ \A c \in ScoreCalls : "state" \in DOMAIN calls[c]

\* What is at the child and what the client waits for, request by request.
PipeOK ==
  /\ \A r \in responses :
       /\ r.id \in Nat /\ r.id < nextId /\ r.call \in ScoreCalls
       /\ calls[r.call].state = "waiting"
       /\ \E q \in sent : q.id = r.id
  /\ \A q \in sent : q.id \in Nat /\ q.id < nextId /\ \E r \in responses : r.id = q.id
  /\ \A p, q \in sent : p.id = q.id => p = q
  /\ \A r, s \in responses : r.id = s.id \/ r.call = s.call => r = s

PipeInv ==
  /\ nextId \in Nat /\ CallsOK /\ PipeOK
  /\ \A c \in ScoreCalls :
       /\ calls[c].state = "loading" => child # "exited"
       /\ calls[c].state = "waiting" => child = "ready" /\ \E r \in responses : r.call = c

\* One call moves and the others stay.
OneMoves(c, phase) ==
  /\ CallsOK' /\ calls'[c].state = phase
  /\ \A d \in ScoreCalls : d # c => calls'[d] = calls[d]

LEMMA PipeStart == RerankInit => PipeInv
<1>. SUFFICES ASSUME RerankInit PROVE PipeInv
  BY Zenon 
<1>1. NewCall.state = "new" /\ "state" \in DOMAIN NewCall
  BY Zenon DEF NewCall
<1>2. calls = [c \in ScoreCalls |-> NewCall] /\ responses = {} /\ sent = {} /\ nextId = 1
  BY Zenon DEF RerankInit
<1>. QED BY <1>1, <1>2, Zenon DEF PipeInv, CallsOK, PipeOK

\* Replacing one entry of the table.
LEMMA MoveOne ==
  ASSUME CallsOK, NEW c \in ScoreCalls, NEW entered, "state" \in DOMAIN entered,
         calls' = [calls EXCEPT ![c] = entered]
  PROVE  OneMoves(c, entered.state)
<1>1. calls' = [d \in ScoreCalls |-> IF d = c THEN entered ELSE calls[d]]
  BY Zenon DEF CallsOK
<1>. QED BY <1>1, Zenon DEF CallsOK, OneMoves

\* A call with nothing pending sends a batch.
LEMMA SendKeeps ==
  ASSUME PipeInv, NEW c \in ScoreCalls, calls[c].state # "waiting", NEW asked, Send(c, asked),
         OneMoves(c, "waiting"), child = "ready", child' = child
  PROVE  PipeInv'
<1>0. PICK q0, r0 : q0 = [id |-> nextId, batch |-> NextBatch(asked)] /\ r0 = [id |-> nextId, call |-> c]
  BY Zenon
<1>1. /\ nextId' = nextId + 1 /\ sent' = sent \cup {q0} /\ responses' = responses \cup {r0}
      /\ q0.id = nextId /\ r0.id = nextId /\ r0.call = c
  BY <1>0, Zenon DEF Send
<1>2. nextId \in Nat /\ \A r \in responses : r.call # c
  BY ZenonT(60) DEF PipeInv, PipeOK
<1>3. PipeOK'
  <2>1. \A r \in responses' :
          /\ r.id \in Nat /\ r.id < nextId' /\ r.call \in ScoreCalls
          /\ calls'[r.call].state = "waiting"
          /\ \E q \in sent' : q.id = r.id
    <3>. SUFFICES ASSUME NEW r \in responses'
                  PROVE  /\ r.id \in Nat /\ r.id < nextId' /\ r.call \in ScoreCalls
                         /\ calls'[r.call].state = "waiting" /\ \E q \in sent' : q.id = r.id
      BY Zenon
    <3>1. CASE r = r0
      BY <1>1, <1>2, <3>1, SMTT(30) DEF OneMoves
    <3>2. CASE r \in responses
      <4>1. /\ r.id \in Nat /\ r.id < nextId /\ r.call \in ScoreCalls
            /\ calls[r.call].state = "waiting" /\ \E q \in sent : q.id = r.id
        BY <3>2, Zenon DEF PipeInv, PipeOK
      <4>2. calls'[r.call] = calls[r.call]
        BY <1>2, <3>2, <4>1, Zenon DEF OneMoves
      <4>. QED BY <1>1, <1>2, <4>1, <4>2
    <3>. QED BY <1>1, <3>1, <3>2, Zenon
  <2>2. \A q \in sent' : q.id \in Nat /\ q.id < nextId' /\ \E r \in responses' : r.id = q.id
    BY <1>1, <1>2, SMTT(30) DEF PipeInv, PipeOK
  <2>3. \A p, q \in sent' : p.id = q.id => p = q
    BY <1>1, <1>2, SMTT(30) DEF PipeInv, PipeOK
  <2>4. \A r, s \in responses' : r.id = s.id \/ r.call = s.call => r = s
    BY <1>1, <1>2, SMTT(30) DEF PipeInv, PipeOK
  <2>. QED BY <2>1, <2>2, <2>3, <2>4, Zenon DEF PipeOK
<1>4. ASSUME NEW d \in ScoreCalls
      PROVE  /\ calls'[d].state = "loading" => child' # "exited"
             /\ calls'[d].state = "waiting" => child' = "ready" /\ \E r \in responses' : r.call = d
  <2>1. CASE d = c
    BY <1>1, <2>1, Zenon DEF OneMoves
  <2>2. CASE d # c
    BY <1>1, <2>2, Zenon DEF OneMoves, PipeInv
  <2>. QED BY <2>1, <2>2, Zenon
<1>. QED BY <1>1, <1>2, <1>3, <1>4, SMTT(30) DEF PipeInv, OneMoves

\* A request is answered and its call has no other.
LEMMA SettleKeeps ==
  ASSUME PipeInv, NEW q \in sent, NEW r \in responses, r.id = q.id, NEW phase,
         phase \notin {"waiting", "loading"}, OneMoves(r.call, phase),
         sent' = sent \ {q}, responses' = responses \ {r}, UNCHANGED <<child, nextId>>
  PROVE  PipeInv'
<1>1. PipeOK'
  <2>1. \A s \in responses' : /\ s.id \in Nat /\ s.id < nextId' /\ s.call \in ScoreCalls
                              /\ s.call # r.call /\ s.id # q.id
    BY SMTT(30) DEF PipeInv, PipeOK
  <2>2. \A s \in responses' : calls'[s.call].state = "waiting" /\ \E p \in sent' : p.id = s.id
    BY <2>1, SMTT(30) DEF PipeInv, PipeOK, OneMoves
  <2>3. \A p \in sent' : p.id \in Nat /\ p.id < nextId' /\ \E s \in responses' : s.id = p.id
    BY DEF PipeInv, PipeOK
  <2>. QED BY <2>1, <2>2, <2>3, SMTT(30) DEF PipeInv, PipeOK
<1>2. ASSUME NEW d \in ScoreCalls
      PROVE  /\ calls'[d].state = "loading" => child' # "exited"
             /\ calls'[d].state = "waiting" => child' = "ready" /\ \E s \in responses' : s.call = d
  <2>1. CASE d = r.call
    BY <2>1, Zenon DEF OneMoves
  <2>2. CASE d # r.call
    BY <2>2, Zenon DEF OneMoves, PipeInv
  <2>. QED BY <2>1, <2>2, Zenon
<1>. QED BY <1>1, <1>2, Zenon DEF PipeInv, OneMoves

LEMMA PipeStep == PipeInv /\ [RerankNext]_rerankVars => PipeInv'
<1>. SUFFICES ASSUME PipeInv, [RerankNext]_rerankVars PROVE PipeInv'
  BY Zenon 
<1>0. CallsOK /\ PipeOK /\ nextId \in Nat
  BY Zenon DEF PipeInv
<1>1. ASSUME NEW c \in ScoreCalls, NEW phase, calls[c].state = "new", OneMoves(c, phase),
             UNCHANGED <<child, nextId, sent, responses>>, phase # "waiting",
             phase = "loading" => child = "loading"
      PROVE  PipeInv'
  <2>1. \A r \in responses : r.call # c
    BY <1>1, Zenon DEF PipeInv, PipeOK
  <2>2. PipeOK'
    BY <1>1, <2>1, SMTT(30) DEF PipeInv, PipeOK, OneMoves
  <2>3. ASSUME NEW d \in ScoreCalls
        PROVE  /\ calls'[d].state = "loading" => child' # "exited"
               /\ calls'[d].state = "waiting" => child' = "ready" /\ \E r \in responses' : r.call = d
    <3>1. CASE d = c
      BY <1>1, <3>1, Zenon DEF OneMoves
    <3>2. CASE d # c
      BY <1>1, <3>2, Zenon DEF OneMoves, PipeInv
    <3>. QED BY <3>1, <3>2, Zenon
  <2>. QED BY <1>1, <2>2, <2>3, Zenon DEF PipeInv, OneMoves
<1>2. ASSUME NEW c \in ScoreCalls, NEW pairs, ScoreHits(c, pairs) PROVE PipeInv'
  <2>1. PICK entered : /\ entered = [NewCall EXCEPT !.state = "resolved", !.pairs = pairs,
                               !.results = [i \in 1..Len(pairs) |-> Value(cache, pairs[i])]]
                   /\ calls' = [calls EXCEPT ![c] = entered]
                   /\ calls[c].state = "new" /\ UNCHANGED <<child, nextId, sent, responses>>
    BY <1>2, Zenon DEF ScoreHits
  <2>2. entered.state = "resolved" /\ "state" \in DOMAIN entered
    BY <2>1, Zenon DEF NewCall
  <2>3. OneMoves(c, "resolved")
    BY <1>0, <2>1, <2>2, MoveOne, Zenon
  <2>. QED BY <1>1, <2>1, <2>3, Zenon
<1>3. ASSUME NEW c \in ScoreCalls, NEW pairs, ScoreMisses(c, pairs) PROVE PipeInv'
  <2>. DEFINE asked == [NewCall EXCEPT !.pairs = pairs,
                 !.missing = MissingIndices(cache, pairs),
                 !.results = [i \in 1..Len(pairs) |->
                                IF Cached(cache, pairs[i]) THEN Value(cache, pairs[i]) ELSE pairs[1]]]
              next == CASE child = "loading" -> "loading" [] child = "ready" -> "waiting"
                        [] OTHER -> "rejected"
  <2>1. PICK entered : /\ entered = [asked EXCEPT !.state = next]
                   /\ calls' = [calls EXCEPT ![c] = entered]
                   /\ calls[c].state = "new" /\ UNCHANGED child
                   /\ IF next = "waiting" THEN Send(c, asked) ELSE UNCHANGED <<nextId, sent, responses>>
    BY <1>3, Zenon DEF ScoreMisses
  <2>2. entered.state = next /\ "state" \in DOMAIN entered
    BY <2>1, Zenon DEF NewCall
  <2>3. /\ next = "waiting" <=> child = "ready" 
        /\ next = "loading" <=> child = "loading"
    BY Zenon 
  <2>. HIDE DEF asked, next
  <2>4. OneMoves(c, next)
    BY <1>0, <2>1, <2>2, MoveOne, Zenon
  <2>5. CASE next = "waiting"
    BY <2>1, <2>3, <2>4, <2>5, SendKeeps, Zenon
  <2>6. CASE next # "waiting"
    BY <1>1, <2>1, <2>3, <2>4, <2>6, Zenon
  <2>. QED BY <2>5, <2>6, Zenon
<1>4. CASE Ready
  BY <1>4, Zenon DEF Ready, PipeInv, PipeOK, CallsOK
<1>5. ASSUME NEW c \in ScoreCalls, Resume(c) PROVE PipeInv'
  <2>1. PICK entered : entered = [calls[c] EXCEPT !.state = "waiting"] /\ calls' = [calls EXCEPT ![c] = entered]
    BY <1>5, Zenon DEF Resume
  <2>2. entered.state = "waiting" /\ "state" \in DOMAIN entered
    BY <1>0, <2>1, Zenon DEF CallsOK
  <2>3. OneMoves(c, "waiting")
    BY <1>0, <2>1, <2>2, MoveOne, Zenon
  <2>. QED BY <1>5, <2>3, SendKeeps, Zenon DEF Resume
<1>6. ASSUME NEW q \in sent PROVE Addressee(q) \in responses /\ Addressee(q).id = q.id
  <2>1. \E r \in responses : r.id = q.id
    BY <1>0, Zenon DEF PipeOK
  <2>. QED BY <2>1, Zenon DEF Addressee
<1>7. ASSUME NEW q \in sent, OnScores(q) PROVE PipeInv'
  <2>1. PICK entry, asked : /\ entry = Addressee(q)
                           /\ asked = [calls[entry.call] EXCEPT !.computed = @ \o q.batch]
    BY ZenonT(60)
  <2>2. entry \in responses /\ entry.id = q.id /\ entry.call \in ScoreCalls /\ child' = child
        /\ calls[entry.call].state = "waiting"
    BY <1>0, <1>6, <1>7, <2>1, Zenon DEF PipeOK, OnScores
  <2>3. asked.state = "waiting" /\ "state" \in DOMAIN asked
    BY <1>0, <2>1, <2>2, Zenon DEF CallsOK
  <2>4. CASE Len(asked.computed) >= Len(asked.missing)
    <3>1. /\ calls' = [calls EXCEPT ![entry.call] = Filled(asked)]
          /\ sent' = sent \ {q} /\ responses' = responses \ {entry} /\ UNCHANGED <<child, nextId>>
      BY <1>7, <2>1, <2>4, Zenon DEF OnScores
    <3>2. Filled(asked).state = "resolved" /\ "state" \in DOMAIN Filled(asked)
      BY <2>3, Zenon DEF Filled
    <3>3. OneMoves(entry.call, "resolved")
      BY <1>0, <2>2, <3>1, <3>2, MoveOne, Zenon
    <3>. QED BY <2>2, <3>1, <3>3, SettleKeeps, ZenonT(60)
  <2>5. CASE ~(Len(asked.computed) >= Len(asked.missing))
    <3>1. PICK q0, r0 : /\ q0 = [id |-> nextId, batch |-> NextBatch(asked)]
                        /\ r0 = [id |-> nextId, call |-> entry.call]
      BY Zenon
    <3>2. /\ calls' = [calls EXCEPT ![entry.call] = asked] /\ nextId' = nextId + 1
          /\ sent' = (sent \ {q}) \cup {q0} /\ responses' = (responses \ {entry}) \cup {r0}
      BY <1>7, <2>1, <2>5, <3>1, Zenon DEF OnScores
    <3>3. q0.id = nextId /\ r0.id = nextId /\ r0.call = entry.call
      BY <3>1, Zenon
    <3>4. OneMoves(entry.call, "waiting")
      BY <1>0, <2>2, <2>3, <3>2, MoveOne, ZenonT(60)
    <3>5. \A s \in responses \ {entry} : /\ s.id \in Nat /\ s.id < nextId /\ s.call \in ScoreCalls
                                         /\ s.call # entry.call /\ s.id # q.id
                                         /\ calls[s.call].state = "waiting"
                                         /\ \E p \in sent \ {q} : p.id = s.id
      BY <1>0, <2>2, SMTT(30) DEF PipeOK
    <3>6. \A p \in sent \ {q} : p.id \in Nat /\ p.id < nextId /\ \E s \in responses \ {entry} : s.id = p.id
      BY <1>0, <2>2, SMTT(30) DEF PipeOK
    <3>7. PipeOK'
      <4>1. \A r \in responses' :
              /\ r.id \in Nat /\ r.id < nextId' /\ r.call \in ScoreCalls
              /\ calls'[r.call].state = "waiting"
              /\ \E p \in sent' : p.id = r.id
        BY <1>0, <2>2, <3>2, <3>3, <3>4, <3>5 DEF OneMoves
      <4>2. \A p \in sent' : p.id \in Nat /\ p.id < nextId' /\ \E r \in responses' : r.id = p.id
        BY <1>0, <3>2, <3>3, <3>6
      <4>3. \A p, s \in sent' : p.id = s.id => p = s
        BY <1>0, <3>2, <3>3, <3>6 DEF PipeOK
      <4>4. \A r, s \in responses' : r.id = s.id \/ r.call = s.call => r = s
        BY <1>0, <3>2, <3>3, <3>5, SMTT(30) DEF PipeOK
      <4>. QED BY <4>1, <4>2, <4>3, <4>4, Zenon DEF PipeOK
    <3>8. ASSUME NEW d \in ScoreCalls
          PROVE  /\ calls'[d].state = "loading" => child' # "exited"
                 /\ calls'[d].state = "waiting" => child' = "ready" /\ \E r \in responses' : r.call = d
      <4>1. CASE d = entry.call
        BY <2>2, <3>2, <3>3, <3>4, <4>1, Zenon DEF OneMoves, PipeInv
      <4>2. CASE d # entry.call
        BY <2>2, <3>2, <3>4, <4>2, Zenon DEF OneMoves, PipeInv
      <4>. QED BY <4>1, <4>2, Zenon
    <3>. QED BY <1>0, <3>2, <3>4, <3>7, <3>8 DEF PipeInv, OneMoves
  <2>. QED BY <2>4, <2>5, Zenon
<1>8. ASSUME NEW q \in sent, OnError(q) PROVE PipeInv'
  <2>1. PICK entry, entered : /\ entry = Addressee(q)
                          /\ entered = [calls[entry.call] EXCEPT !.state = "rejected"]
    BY Zenon
  <2>2. entry \in responses /\ entry.id = q.id /\ entry.call \in ScoreCalls
    BY <1>0, <1>6, <2>1, Zenon DEF PipeOK
  <2>3. entered.state = "rejected" /\ "state" \in DOMAIN entered
    BY <1>0, <2>1, <2>2, Zenon DEF CallsOK
  <2>4. /\ calls' = [calls EXCEPT ![entry.call] = entered]
        /\ sent' = sent \ {q} /\ responses' = responses \ {entry} /\ UNCHANGED <<child, nextId>>
    BY <1>8, <2>1, Zenon DEF OnError
  <2>5. OneMoves(entry.call, "rejected")
    BY <1>0, <2>2, <2>3, <2>4, MoveOne, ZenonT(60)
  <2>. QED BY <2>2, <2>4, <2>5, SettleKeeps, Zenon
<1>9. CASE OnExit
  <2>1. ASSUME NEW c \in ScoreCalls
        PROVE  "state" \in DOMAIN calls'[c] /\ calls'[c].state \notin {"waiting", "loading"}
    <3>1. calls'[c] = IF calls[c].state \in {"waiting", "loading"}
                      THEN [calls[c] EXCEPT !.state = "rejected"] ELSE calls[c]
      BY <1>9, Zenon DEF OnExit
    <3>. QED BY <1>0, <3>1, Zenon DEF CallsOK
  <2>2. CallsOK'
    BY <1>9, <2>1, Zenon DEF OnExit, CallsOK
  <2>3. responses' = {} /\ sent' = {} /\ nextId' = nextId
    BY <1>9, Zenon DEF OnExit
  <2>4. PipeOK'
    BY <2>3, Zenon DEF PipeOK
  <2>. QED BY <1>0, <2>1, <2>2, <2>3, <2>4, Zenon DEF PipeInv
<1>10. CASE UNCHANGED rerankVars
  BY <1>10, Zenon DEF rerankVars, PipeInv, PipeOK, CallsOK
<1>. QED BY <1>2, <1>3, <1>4, <1>5, <1>7, <1>8, <1>9, <1>10, Zenon DEF RerankNext

\* No caller of the reranker hangs on a reply that cannot come: whichever way
\* batches are answered, fail or are cut off by the child's exit, a call that
\* waits has exactly one request at a live child (scoreBatch, the exit handler).
THEOREM NobodyStranded == RerankSpec => []NoCallStranded
<1>1. PipeInv => NoCallStranded
  BY DEF PipeInv, PipeOK, NoCallStranded
<1>. QED BY <1>1, PipeStart, PipeStep, PTL DEF RerankSpec

-----------------------------------------------------------------------------
(* The loops over a call's pairs, as walks. *)

\* The induction that the loops rest on: a hypothesis of what follows, until the
\* library's theorem discharges it (LeastElement).
WellOrder == \A T \in SUBSET Nat : T # {} => \E n \in T : \A m \in T : n <= m

\* A table filled from its first entry on, each entry made from the one before.
Walk(g, n, a, st) == g[0] = a /\ \A i \in 1..n : g[i] = st[i][g[i - 1]]

LEMMA WalkExists ==
  ASSUME WellOrder, NEW n \in Nat, NEW D, NEW a \in D, NEW st \in [1..n -> [D -> D]]
  PROVE  \E g \in [0..n -> D] : Walk(g, n, a, st)
<1>. DEFINE T == {k \in 0..n : ~\E g \in [0..k -> D] : Walk(g, k, a, st)}
<1>0. n \in 0..n /\ T \in SUBSET Nat
  OBVIOUS
<1>1. SUFFICES ASSUME T # {} PROVE FALSE
  BY <1>0, Zenon
<1>2. PICK k \in T : \A m \in T : k <= m
  BY <1>0, <1>1, Zenon DEF WellOrder
<1>3. CASE k = 0
  <2>. DEFINE h == [i \in 0..0 |-> a]
  <2>1. h \in [0..0 -> D] /\ Walk(h, 0, a, st)
    BY DEF Walk
  <2>. QED BY <1>2, <1>3, <2>1, Zenon
<1>4. CASE k # 0
  <2>1. k - 1 \in 0..n /\ k \in 1..n /\ ~(k <= k - 1)
    BY <1>4
  <2>2. PICK g \in [0..(k - 1) -> D] : Walk(g, k - 1, a, st)
    BY <1>2, <2>1, Zenon
  <2>. DEFINE h == [i \in 0..k |-> IF i = k THEN st[k][g[k - 1]] ELSE g[i]]
  <2>3. g[k - 1] \in D /\ st[k][g[k - 1]] \in D
    BY <2>1
  <2>4. h \in [0..k -> D]
    BY <2>1, <2>3, SMTT(30)
  <2>5. \A i \in 1..k : h[i] = st[i][h[i - 1]]
    <3>1. h[k] = st[k][g[k - 1]] /\ h[k - 1] = g[k - 1]
      BY <2>1
    <3>2. ASSUME NEW i \in 1..(k - 1) PROVE h[i] = st[i][h[i - 1]]
      <4>1. h[i] = g[i] /\ h[i - 1] = g[i - 1]
        BY <2>1
      <4>. QED BY <2>2, <4>1, Zenon DEF Walk
    <3>3. \A i \in 1..k : i = k \/ i \in 1..(k - 1)
      BY <2>1
    <3>. QED BY <3>1, <3>2, <3>3, Zenon
  <2>6. h[0] = a
    BY <2>1, <2>2, SMTT(30) DEF Walk
  <2>7. Walk(h, k, a, st)
    BY <2>5, <2>6, Zenon DEF Walk
  <2>. QED BY <1>2, <2>4, <2>7, Zenon
<1>. QED BY <1>3, <1>4, Zenon

LEMMA WalkIn ==
  ASSUME WellOrder, NEW n \in Nat, NEW D, NEW g, g[0] \in D[0],
         \A i \in 1..n : g[i - 1] \in D[i - 1] => g[i] \in D[i]
  PROVE  \A i \in 0..n : g[i] \in D[i]
<1>. DEFINE T == {k \in 0..n : g[k] \notin D[k]}
<1>0. T \in SUBSET Nat
  OBVIOUS
<1>1. SUFFICES ASSUME T # {} PROVE FALSE
  BY Zenon 
<1>2. PICK k \in T : \A m \in T : k <= m
  BY <1>0, <1>1, Zenon DEF WellOrder
<1>3. k \in 1..n /\ k - 1 \in 0..n /\ ~(k <= k - 1)
  BY <1>2
<1>4. g[k - 1] \in D[k - 1]
  BY <1>2, <1>3, Zenon
<1>. QED BY <1>2, <1>3, <1>4, Zenon

-----------------------------------------------------------------------------
(* The cache holds the score of each of its keys. *)

GoodStores == {s \in Seq(Pairs \X Pairs) : \A i \in 1..Len(s) : s[i][1] = s[i][2]}

LEMMA JoinGood ==
  ASSUME NEW low \in GoodStores, NEW high \in GoodStores
  PROVE  low \o high \in GoodStores
<1>1. low \in Seq(Pairs \X Pairs) /\ high \in Seq(Pairs \X Pairs) /\ Len(low) \in Nat /\ Len(high) \in Nat
  BY DEF GoodStores
<1>2. low \o high \in Seq(Pairs \X Pairs) /\ Len(low \o high) = Len(low) + Len(high)
  BY <1>1
<1>3. ASSUME NEW i \in 1..Len(low \o high) PROVE (low \o high)[i][1] = (low \o high)[i][2]
  <2>1. CASE i <= Len(low)
    <3>1. (low \o high)[i] = low[i] /\ i \in 1..Len(low)
      BY <1>1, <1>2, <2>1
    <3>. QED BY <3>1, Zenon DEF GoodStores
  <2>2. CASE i > Len(low)
    <3>1. (low \o high)[i] = high[i - Len(low)] /\ i - Len(low) \in 1..Len(high)
      BY <1>1, <1>2, <2>2
    <3>. QED BY <3>1, Zenon DEF GoodStores
  <2>. QED BY <1>1, <1>2, <2>1, <2>2
<1>. QED BY <1>2, <1>3, ZenonT(60) DEF GoodStores

\* A slice of a good store, from a to b.
LEMMA SliceGood ==
  ASSUME NEW s \in GoodStores, NEW a \in 1..(Len(s) + 1), NEW b \in 0..Len(s)
  PROVE  SubSeq(s, a, b) \in GoodStores
<1>. DEFINE t == SubSeq(s, a, b)
<1>1. s \in Seq(Pairs \X Pairs) /\ Len(s) \in Nat
  BY DEF GoodStores
<1>2. t \in Seq(Pairs \X Pairs)
  BY <1>1
<1>3. ASSUME NEW i \in 1..Len(t) PROVE t[i] = s[a + i - 1] /\ a + i - 1 \in 1..Len(s)
  BY <1>1
<1>. HIDE DEF t
<1>4. \A i \in 1..Len(t) : t[i][1] = t[i][2]
  BY <1>3, ZenonT(60) DEF GoodStores
<1>. QED BY <1>2, <1>4, ZenonT(60) DEF GoodStores, t

LEMMA WithoutGood ==
  ASSUME NEW s \in GoodStores, NEW key
  PROVE  Without(s, key) \in GoodStores
<1>1. CASE ~Cached(s, key)
  BY <1>1, Zenon DEF Without
<1>2. CASE Cached(s, key)
  <2>1. PICK p \in 1..Len(s) : p = Place(s, key)
    BY <1>2, Zenon DEF Cached, Place
  <2>2. Len(s) \in Nat
    BY DEF GoodStores
  <2>3. SubSeq(s, 1, p - 1) \in GoodStores /\ SubSeq(s, p + 1, Len(s)) \in GoodStores
    <3>1. /\ 1 \in 1..(Len(s) + 1) /\ p - 1 \in 0..Len(s)
          /\ p + 1 \in 1..(Len(s) + 1) /\ Len(s) \in 0..Len(s)
      BY <2>2
    <3>. QED BY <3>1, SliceGood, Zenon
  <2>. QED BY <1>2, <2>1, <2>3, JoinGood, Zenon DEF Without
<1>. QED BY <1>1, <1>2, Zenon

LEMMA AppendGood ==
  ASSUME NEW s \in GoodStores, NEW key \in Pairs
  PROVE  Append(s, <<key, key>>) \in GoodStores
<1>. DEFINE t == Append(s, <<key, key>>)
<1>1. s \in Seq(Pairs \X Pairs) /\ \A i \in 1..Len(s) : s[i][1] = s[i][2]
  BY Zenon DEF GoodStores
<1>2. /\ t \in Seq(Pairs \X Pairs) /\ Len(t) = Len(s) + 1 /\ t[Len(s) + 1] = <<key, key>>
      /\ \A i \in 1..Len(s) : t[i] = s[i]
  BY <1>1
<1>. HIDE DEF t
<1>3. \A i \in 1..Len(t) : t[i][1] = t[i][2]
  BY <1>1, <1>2
<1>. QED BY <1>2, <1>3, ZenonT(60) DEF GoodStores, t

LEMMA RefreshGood ==
  ASSUME NEW s \in GoodStores, NEW key \in Pairs, Cached(s, key)
  PROVE  Value(s, key) = key /\ Refresh(s, key) \in GoodStores
<1>1. PICK p \in 1..Len(s) : p = Place(s, key) /\ s[p][1] = key
  BY Zenon DEF Cached, Place
<1>2. Value(s, key) = key
  BY <1>1, Zenon DEF Value, GoodStores
<1>. QED BY <1>2, WithoutGood, AppendGood, Zenon DEF Refresh

LEMMA PutGood ==
  ASSUME NEW s \in GoodStores, NEW key \in Pairs
  PROVE  CachePut(s, key, key) \in GoodStores
<1>1. PICK t \in GoodStores : t = Append(Without(s, key), <<key, key>>) /\ t # <<>>
  <2>1. Append(Without(s, key), <<key, key>>) # <<>>
    <3>1. Without(s, key) \in Seq(Pairs \X Pairs)
      BY WithoutGood, Zenon DEF GoodStores
    <3>. QED BY <3>1
  <2>. QED BY <2>1, WithoutGood, AppendGood, ZenonT(60)
<1>2. Tail(t) \in GoodStores
  <2>1. /\ Tail(t) \in Seq(Pairs \X Pairs) /\ Len(Tail(t)) = Len(t) - 1
        /\ \A i \in 1..Len(Tail(t)) : Tail(t)[i] = t[i + 1] /\ i + 1 \in 1..Len(t)
    BY <1>1 DEF GoodStores
  <2>. QED BY <2>1, ZenonT(60) DEF GoodStores
<1>. QED BY <1>1, <1>2, Zenon DEF CachePut
-----------------------------------------------------------------------------
(* The loops of a call. *)

\* g[i] is the cache after the first i pairs.
RefreshWalk(g, store, pairs) ==
  g = [i \in 0..Len(pairs) |->
         IF i = 0 THEN store
         ELSE IF Cached(g[i - 1], pairs[i]) THEN Refresh(g[i - 1], pairs[i]) ELSE g[i - 1]]

LEMMA RefreshUnfold ==
  ASSUME NEW store, NEW pairs
  PROVE  RefreshAll(store, pairs) = (CHOOSE g : RefreshWalk(g, store, pairs))[Len(pairs)]
BY Zenon DEF RefreshAll, RefreshWalk

\* Serving hits moves entries and changes none.
LEMMA RefreshAllGood ==
  ASSUME WellOrder, NEW store \in GoodStores, NEW pairs \in Seq(Pairs)
  PROVE  RefreshAll(store, pairs) \in GoodStores
<1>. DEFINE n == Len(pairs)
            st == [i \in 1..n |-> [s \in GoodStores |->
                     IF Cached(s, pairs[i]) THEN Refresh(s, pairs[i]) ELSE s]]
            D == [i \in 0..n |-> GoodStores]
<1>1. n \in Nat /\ \A i \in 1..n : pairs[i] \in Pairs
  OBVIOUS
<1>2. ASSUME NEW i \in 1..n, NEW s \in GoodStores
      PROVE  st[i][s] = IF Cached(s, pairs[i]) THEN Refresh(s, pairs[i]) ELSE s
  BY Zenon 
<1>3. st \in [1..n -> [GoodStores -> GoodStores]]
  <2>1. ASSUME NEW i \in 1..n, NEW s \in GoodStores
        PROVE  (IF Cached(s, pairs[i]) THEN Refresh(s, pairs[i]) ELSE s) \in GoodStores
    BY <1>1, RefreshGood, Zenon
  <2>. QED BY <2>1, Zenon
<1>4. PICK g \in [0..n -> GoodStores] : Walk(g, n, store, st)
  <2>. HIDE DEF n, st
  <2>. QED BY <1>1, <1>3, WalkExists, ZenonT(60)
<1>. HIDE DEF st
<1>5. \A i \in 0..n : g[i] = IF i = 0 THEN store
         ELSE IF Cached(g[i - 1], pairs[i]) THEN Refresh(g[i - 1], pairs[i]) ELSE g[i - 1]
  <2>1. ASSUME NEW i \in 1..n PROVE g[i - 1] \in GoodStores /\ i # 0
    BY <1>1, <1>4
  <2>2. \A i \in 0..n : i = 0 \/ i \in 1..n
    BY <1>1
  <2>. QED BY <1>2, <1>4, <2>1, <2>2, Zenon DEF Walk
<1>6. RefreshWalk(g, store, pairs)
  BY <1>4, <1>5, Zenon DEF RefreshWalk
<1>7. PICK h : h = CHOOSE f : RefreshWalk(f, store, pairs)
  BY Zenon 
<1>8. RefreshWalk(h, store, pairs)
  BY <1>6, <1>7, Zenon
<1>9. h[0] \in D[0] /\ \A i \in 1..n : h[i - 1] \in D[i - 1] => h[i] \in D[i]
  <2>1. h[0] = store
    BY <1>1, <1>8 DEF RefreshWalk
  <2>2. ASSUME NEW i \in 1..n, h[i - 1] \in GoodStores PROVE h[i] \in GoodStores
    <3>1. i \in 0..n /\ i # 0
      BY <1>1
    <3>2. h[i] = IF Cached(h[i - 1], pairs[i]) THEN Refresh(h[i - 1], pairs[i]) ELSE h[i - 1]
      BY <1>8, <3>1, Zenon DEF RefreshWalk
    <3>. QED BY <1>1, <2>2, <3>2, RefreshGood, Zenon
  <2>3. 0 \in 0..n /\ \A i \in 1..n : i \in 0..n /\ i - 1 \in 0..n
    BY <1>1
  <2>. QED BY <2>1, <2>2, <2>3, Zenon
<1>10. n \in 0..n /\ D[n] = GoodStores
  BY <1>1
<1>11. h[n] \in D[n]
  <2>. HIDE DEF n, D
  <2>. QED BY <1>1, <1>9, <1>10, WalkIn, ZenonT(60)
<1>. QED BY <1>7, <1>10, <1>11, RefreshUnfold, Zenon

\* g[i] is missingIndices after the first i pairs.
MissWalk(g, store, pairs) ==
  g = [i \in 0..Len(pairs) |->
         IF i = 0 THEN <<>>
         ELSE IF Cached(store, pairs[i]) THEN g[i - 1] ELSE Append(g[i - 1], i)]

LEMMA MissUnfold ==
  ASSUME NEW store, NEW pairs
  PROVE  MissingIndices(store, pairs) = (CHOOSE g : MissWalk(g, store, pairs))[Len(pairs)]
BY Zenon DEF MissingIndices, MissWalk

\* The position lists that name every miss among the first i pairs.
Listing(store, pairs, i) ==
  {s \in Seq(1..Len(pairs)) :
     \A k \in 1..i : Cached(store, pairs[k]) \/ \E j \in 1..Len(s) : s[j] = k}

LEMMA ListingGrows ==
  ASSUME NEW store, NEW pairs, NEW i \in 1..Len(pairs), Len(pairs) \in Nat, NEW s \in Listing(store, pairs, i - 1)
  PROVE  (IF Cached(store, pairs[i]) THEN s ELSE Append(s, i)) \in Listing(store, pairs, i)
<1>1. s \in Seq(1..Len(pairs)) /\ \A k \in 1..i : k = i \/ k \in 1..(i - 1)
  BY DEF Listing
<1>2. CASE Cached(store, pairs[i])
  BY <1>1, <1>2, Zenon DEF Listing
<1>3. CASE ~Cached(store, pairs[i])
  <2>1. PICK t : t = Append(s, i)
    BY ZenonT(60)
  <2>2. /\ t \in Seq(1..Len(pairs)) /\ Len(t) = Len(s) + 1 /\ Len(s) \in Nat /\ t[Len(t)] = i
        /\ \A j \in 1..Len(s) : t[j] = s[j] /\ j \in 1..Len(t)
    BY <1>1, <2>1
  <2>3. ASSUME NEW k \in 1..i PROVE Cached(store, pairs[k]) \/ \E j \in 1..Len(t) : t[j] = k
    <3>1. CASE k = i
      <4>1. Len(t) \in 1..Len(t)
        BY <2>2
      <4>. QED BY <2>2, <3>1, <4>1, Zenon
    <3>2. CASE k \in 1..(i - 1)
      <4>1. Cached(store, pairs[k]) \/ \E j \in 1..Len(s) : s[j] = k
        BY <3>2, Zenon DEF Listing
      <4>. QED BY <2>2, <4>1, Zenon
    <3>. QED BY <1>1, <3>1, <3>2, Zenon
  <2>. QED BY <1>3, <2>1, <2>2, <2>3, Zenon DEF Listing
<1>. QED BY <1>2, <1>3, Zenon

LEMMA MissingListed ==
  ASSUME WellOrder, NEW store, NEW pairs \in Seq(Pairs)
  PROVE  MissingIndices(store, pairs) \in Listing(store, pairs, Len(pairs))
<1>. DEFINE n == Len(pairs)
            st == [i \in 1..n |-> [s \in Seq(1..n) |-> IF Cached(store, pairs[i]) THEN s ELSE Append(s, i)]]
            D == [i \in 0..n |-> Listing(store, pairs, i)]
<1>1. n \in Nat /\ <<>> \in Seq(1..n)
  OBVIOUS
<1>2. ASSUME NEW i \in 1..n, NEW s \in Seq(1..n)
      PROVE  st[i][s] = IF Cached(store, pairs[i]) THEN s ELSE Append(s, i)
  BY Zenon 
<1>3. st \in [1..n -> [Seq(1..n) -> Seq(1..n)]]
  <2>1. ASSUME NEW i \in 1..n, NEW s \in Seq(1..n)
        PROVE  (IF Cached(store, pairs[i]) THEN s ELSE Append(s, i)) \in Seq(1..n)
    <3>1. Append(s, i) \in Seq(1..n)
      BY <1>1
    <3>. QED BY <3>1, Zenon
  <2>. QED BY <2>1, Zenon
<1>4. PICK g \in [0..n -> Seq(1..n)] : Walk(g, n, <<>>, st)
  <2>. HIDE DEF n, st
  <2>. QED BY <1>1, <1>3, WalkExists, Zenon
<1>. HIDE DEF st
<1>5. \A i \in 0..n : g[i] = IF i = 0 THEN <<>> ELSE IF Cached(store, pairs[i]) THEN g[i - 1] ELSE Append(g[i - 1], i)
  <2>1. ASSUME NEW i \in 1..n PROVE g[i - 1] \in Seq(1..n) /\ i # 0
    BY <1>1
  <2>2. \A i \in 0..n : i = 0 \/ i \in 1..n
    BY <1>1
  <2>. QED BY <1>2, <1>4, <2>1, <2>2, Zenon DEF Walk
<1>6. MissWalk(g, store, pairs)
  BY <1>5, Zenon DEF MissWalk
<1>7. PICK h : h = CHOOSE f : MissWalk(f, store, pairs)
  BY Zenon 
<1>8. MissWalk(h, store, pairs)
  BY <1>6, <1>7, Zenon
<1>9. h[0] \in D[0] /\ \A i \in 1..n : h[i - 1] \in D[i - 1] => h[i] \in D[i]
  <2>1. h[0] = <<>>
    BY <1>1, <1>8 DEF MissWalk
  <2>2. h[0] \in Listing(store, pairs, 0)
    BY <1>1, <2>1, SMTT(30) DEF Listing
  <2>3. ASSUME NEW i \in 1..n, h[i - 1] \in Listing(store, pairs, i - 1) PROVE h[i] \in Listing(store, pairs, i)
    <3>1. i \in 0..n /\ i # 0
      BY <1>1
    <3>2. h[i] = IF Cached(store, pairs[i]) THEN h[i - 1] ELSE Append(h[i - 1], i)
      BY <1>8, <3>1, ZenonT(60) DEF MissWalk
    <3>. QED BY <1>1, <2>3, <3>2, ListingGrows, Zenon
  <2>4. 0 \in 0..n /\ \A i \in 1..n : i \in 0..n /\ i - 1 \in 0..n
    BY <1>1
  <2>. QED BY <2>2, <2>3, <2>4, Zenon
<1>10. n \in 0..n /\ D[n] = Listing(store, pairs, n)
  BY <1>1
<1>11. h[n] \in D[n]
  <2>. HIDE DEF n, D
  <2>. QED BY <1>1, <1>9, <1>10, WalkIn, Zenon
<1>. QED BY <1>7, <1>10, <1>11, MissUnfold, ZenonT(60)

\* g[j] is the cache after the first j new scores.
FeedWalk(g, store, call) ==
  g = [j \in 0..Len(call.missing) |->
         IF j = 0 THEN store
         ELSE CachePut(g[j - 1], call.pairs[call.missing[j]], call.computed[j])]

LEMMA FedUnfold ==
  ASSUME NEW call
  PROVE  Fed(call) = (CHOOSE g : FeedWalk(g, cache, call))[Len(call.missing)]
BY Zenon DEF Fed, FeedWalk

LEMMA FedGood ==
  ASSUME WellOrder, NEW store, store = cache, store \in GoodStores, NEW call, Len(call.missing) \in Nat,
         \A j \in 1..Len(call.missing) : /\ call.pairs[call.missing[j]] \in Pairs
                                        /\ call.computed[j] = call.pairs[call.missing[j]]
  PROVE  Fed(call) \in GoodStores
<1>. DEFINE n == Len(call.missing)
            key(j) == call.pairs[call.missing[j]]
            st == [j \in 1..n |-> [s \in GoodStores |-> CachePut(s, key(j), key(j))]]
            D == [j \in 0..n |-> GoodStores]
<1>1. n \in Nat
  BY Zenon
<1>2. ASSUME NEW j \in 1..n, NEW s \in GoodStores
      PROVE  st[j][s] = CachePut(s, key(j), call.computed[j]) /\ CachePut(s, key(j), call.computed[j]) \in GoodStores
  BY PutGood, ZenonT(60)
<1>3. st \in [1..n -> [GoodStores -> GoodStores]]
  BY PutGood, Zenon
<1>. HIDE DEF st
<1>4. PICK g \in [0..n -> GoodStores] : Walk(g, n, store, st)
  <2>. HIDE DEF n
  <2>. QED BY <1>1, <1>3, WalkExists, ZenonT(60)
<1>5. \A j \in 0..n : g[j] = IF j = 0 THEN store ELSE CachePut(g[j - 1], key(j), call.computed[j])
  <2>1. ASSUME NEW j \in 1..n PROVE g[j - 1] \in GoodStores /\ j # 0
    BY <1>1
  <2>2. \A j \in 0..n : j = 0 \/ j \in 1..n
    BY <1>1, SMTT(30)
  <2>. QED BY <1>2, <1>4, <2>1, <2>2, ZenonT(60) DEF Walk
<1>6. FeedWalk(g, store, call)
  BY <1>5, Zenon DEF FeedWalk
<1>7. PICK h : h = CHOOSE f : FeedWalk(f, store, call)
  BY Zenon 
<1>8. FeedWalk(h, store, call)
  BY <1>6, <1>7, Zenon
<1>9. h[0] \in D[0] /\ \A j \in 1..n : h[j - 1] \in D[j - 1] => h[j] \in D[j]
  <2>1. h[0] = store
    BY <1>1, <1>8, SMTT(30) DEF FeedWalk
  <2>2. ASSUME NEW j \in 1..n, h[j - 1] \in GoodStores PROVE h[j] \in GoodStores
    <3>1. j \in 0..n /\ j # 0
      BY <1>1, SMTT(30)
    <3>2. h[j] = CachePut(h[j - 1], key(j), call.computed[j])
      BY <1>8, <3>1, Zenon DEF FeedWalk
    <3>. QED BY <1>2, <2>2, <3>2, Zenon
  <2>3. 0 \in 0..n /\ \A j \in 1..n : j \in 0..n /\ j - 1 \in 0..n
    BY <1>1
  <2>. QED BY <2>1, <2>2, <2>3, ZenonT(60)
<1>10. n \in 0..n /\ D[n] = GoodStores
  BY <1>1
<1>11. h[n] \in D[n]
  <2>. HIDE DEF n, D
  <2>. QED BY <1>1, <1>9, <1>10, WalkIn, Zenon
<1>. QED BY <1>7, <1>10, <1>11, FedUnfold, ZenonT(60)

-----------------------------------------------------------------------------
(* Every score is that of its pair. *)

IsCall(call) ==
  call = [state |-> call.state, pairs |-> call.pairs, missing |-> call.missing,
          computed |-> call.computed, results |-> call.results]

\* A call under way: the scores it has are those of its first misses, and every
\* pair is a miss or already has its score.
Scored(call) ==
  /\ call.pairs \in Seq(Pairs) /\ call.missing \in Seq(1..Len(call.pairs))
  /\ call.computed \in Seq(Pairs) /\ Len(call.computed) <= Len(call.missing)
  /\ \A j \in 1..Len(call.computed) : call.computed[j] = call.pairs[call.missing[j]]
  /\ \A i \in 1..Len(call.pairs) :
       (\E j \in 1..Len(call.missing) : call.missing[j] = i) \/ call.results[i] = call.pairs[i]

CallRight(call) ==
  /\ IsCall(call)
  /\ call.state \in {"loading", "waiting"} => Scored(call)
  /\ call.state = "resolved" => call.results = call.pairs

\* A request carries the batch its call is at.
ScoresInv ==
  /\ cache \in GoodStores
  /\ \A c \in ScoreCalls : CallRight(calls[c])
  /\ \A r \in responses : \A q \in sent : r.id = q.id => q.batch = NextBatch(calls[r.call])

LEMMA Joined ==
  ASSUME NEW S, NEW a \in Seq(S), NEW b \in Seq(S)
  PROVE  /\ a \o b \in Seq(S) /\ Len(a \o b) = Len(a) + Len(b)
         /\ \A j \in 1..Len(a \o b) : j <= Len(a) => (a \o b)[j] = a[j]
         /\ \A j \in 1..Len(a \o b) : j > Len(a) => (a \o b)[j] = b[j - Len(a)]
OBVIOUS

\* The answer to its batch takes a call on.
LEMMA BatchFits ==
  ASSUME NEW call, IsCall(call), Scored(call), NEW asked,
         asked = [call EXCEPT !.computed = @ \o NextBatch(call)]
  PROVE  IsCall(asked) /\ Scored(asked) /\ asked.state = call.state
<1>1. /\ asked.state = call.state /\ asked.pairs = call.pairs /\ asked.missing = call.missing
      /\ asked.computed = call.computed \o NextBatch(call) /\ asked.results = call.results /\ IsCall(asked)
  BY Zenon DEF IsCall
<1>. DEFINE from == Len(call.computed)
            all == Len(call.missing)
            size == IF from + BatchSize > all THEN all - from ELSE BatchSize
            batch == [k \in 1..size |-> call.pairs[call.missing[from + k]]]
<1>2. from \in Nat /\ all \in Nat /\ from <= all /\ BatchSize \in Nat
  <2>1. from \in Nat /\ all \in Nat /\ from <= all
    BY DEF Scored
  <2>. QED BY <2>1, RerankInputs, Zenon
<1>3. size \in Nat /\ from + size <= all
  <2>. HIDE DEF from, all
  <2>. QED BY <1>2
<1>4. NextBatch(call) = batch
  BY Zenon DEF NextBatch
<1>. HIDE DEF size
<1>41. /\ \A j \in 1..all : call.missing[j] \in 1..Len(call.pairs)
       /\ \A i \in 1..Len(call.pairs) : call.pairs[i] \in Pairs
       /\ \A j \in 1..from : call.computed[j] = call.pairs[call.missing[j]]
  BY DEF Scored
<1>5. ASSUME NEW k \in 1..size PROVE from + k \in 1..all /\ call.pairs[call.missing[from + k]] \in Pairs
  <2>1. from + k \in 1..all
    <3>. HIDE DEF from, all
    <3>. QED BY <1>2, <1>3
  <2>. QED BY <1>41, <2>1, Zenon
<1>6. batch \in Seq(Pairs) /\ Len(batch) = size /\ \A k \in 1..size : batch[k] = call.pairs[call.missing[from + k]]
  BY <1>3, <1>5
<1>. HIDE DEF batch
<1>. DEFINE done == call.computed \o batch
<1>7. call.computed \in Seq(Pairs) /\ batch \in Seq(Pairs)
  BY <1>6, Zenon DEF Scored
<1>8. done \in Seq(Pairs) /\ Len(done) = from + Len(batch)
  BY <1>7, Joined, Zenon
<1>91. ASSUME NEW j \in 1..Len(done)
       PROVE  (j <= from => done[j] = call.computed[j]) /\ (j > from => done[j] = batch[j - from])
  BY <1>7, Joined
<1>. HIDE DEF done
<1>9. done \in Seq(Pairs) /\ Len(done) = from + size
  BY <1>6, <1>8, Zenon
<1>. HIDE DEF from, all
<1>10. ASSUME NEW j \in 1..Len(done) PROVE done[j] = call.pairs[call.missing[j]]
  <2>1. CASE j <= from
    <3>1. j \in 1..from
      BY <1>2, <1>3, <1>9, <2>1
    <3>. QED BY <1>41, <1>91, <2>1, <3>1, Zenon
  <2>2. CASE j > from
    <3>1. j - from \in 1..size /\ from + (j - from) = j
      BY <1>2, <1>3, <1>9, <2>2
    <3>. QED BY <1>6, <1>91, <2>2, <3>1, ZenonT(40)
  <2>. QED BY <1>2, <1>3, <1>9, <2>1, <2>2
<1>11. asked.computed = done
  BY <1>1, <1>4, Zenon DEF done
<1>. QED BY <1>1, <1>3, <1>9, <1>10, <1>11 DEF Scored, all

\* With all of its misses scored, a call returns the score of every pair.
LEMMA FilledRight ==
  ASSUME NEW call, IsCall(call), Scored(call), Len(call.computed) >= Len(call.missing)
  PROVE  CallRight(Filled(call)) /\ Filled(call).state = "resolved"
<1>. DEFINE positions == 1..Len(call.missing)
            score(i) == call.computed[CHOOSE j \in positions : call.missing[j] = i]
            filled == [i \in 1..Len(call.pairs) |->
                         IF \E j \in positions : call.missing[j] = i THEN score(i) ELSE call.results[i]]
<1>1. Filled(call) = [call EXCEPT !.state = "resolved", !.results = filled]
  BY Zenon DEF Filled
<1>2. Len(call.computed) = Len(call.missing)
  BY SMTT(30) DEF Scored
<1>3. ASSUME NEW i \in 1..Len(call.pairs) PROVE filled[i] = call.pairs[i]
  <2>1. CASE \E j \in positions : call.missing[j] = i
    <3>1. PICK j : j = CHOOSE k \in positions : call.missing[k] = i
      BY Zenon
    <3>2. j \in positions /\ call.missing[j] = i
      BY <2>1, <3>1, Zenon
    <3>3. call.computed[j] = call.pairs[i]
      BY <1>2, <3>2, ZenonT(60) DEF Scored
    <3>. QED BY <2>1, <3>1, <3>3, Zenon
  <2>2. CASE ~\E j \in positions : call.missing[j] = i
    BY <2>2, Zenon DEF Scored
  <2>. QED BY <2>1, <2>2, ZenonT(60)
<1>4. filled = call.pairs
  <2>1. call.pairs = [i \in 1..Len(call.pairs) |-> call.pairs[i]]
    <3>1. call.pairs \in Seq(Pairs)
      BY Zenon DEF Scored
    <3>. QED BY <3>1
  <2>. QED BY <1>3, <2>1, Zenon
<1>. HIDE DEF filled
<1>5. /\ Filled(call).state = "resolved" /\ Filled(call).results = filled
      /\ Filled(call).pairs = call.pairs /\ IsCall(Filled(call))
  BY <1>1, Zenon DEF IsCall
<1>. QED BY <1>4, <1>5, Zenon DEF CallRight

\* What a new call starts from: the cached scores, and its misses listed.
LEMMA StartsRight ==
  ASSUME WellOrder, NEW store \in GoodStores, NEW pairs \in Seq(Pairs), NEW asked,
         asked = [NewCall EXCEPT !.pairs = pairs, !.missing = MissingIndices(store, pairs),
                    !.results = [i \in 1..Len(pairs) |->
                                   IF Cached(store, pairs[i]) THEN Value(store, pairs[i]) ELSE pairs[1]]]
  PROVE  IsCall(asked) /\ Scored(asked)
<1>1. PICK listed, found :
        /\ listed = MissingIndices(store, pairs)
        /\ found = [i \in 1..Len(pairs) |-> IF Cached(store, pairs[i]) THEN Value(store, pairs[i]) ELSE pairs[1]]
  BY Zenon
<1>2. /\ asked.pairs = pairs /\ asked.missing = listed /\ asked.computed = <<>>
      /\ asked.results = found /\ IsCall(asked)
  BY <1>1, Zenon DEF NewCall, IsCall
<1>3. listed \in Listing(store, pairs, Len(pairs))
  BY <1>1, MissingListed, Zenon
<1>4. \A i \in 1..Len(pairs) : Cached(store, pairs[i]) => found[i] = pairs[i]
  <2>1. \A i \in 1..Len(pairs) : pairs[i] \in Pairs
    OBVIOUS
  <2>. QED BY <1>1, <2>1, RefreshGood, Zenon
<1>5. /\ listed \in Seq(1..Len(pairs))
      /\ \A i \in 1..Len(pairs) : Cached(store, pairs[i]) \/ \E j \in 1..Len(listed) : listed[j] = i
  BY <1>3, Zenon DEF Listing
<1>6. <<>> \in Seq(Pairs) /\ Len(<<>>) <= Len(listed) /\ 1..Len(<<>>) = {}
  BY <1>5
<1>7. \A i \in 1..Len(pairs) : (\E j \in 1..Len(listed) : listed[j] = i) \/ found[i] = pairs[i]
  BY <1>4, <1>5, Zenon
<1>. QED BY <1>2, <1>5, <1>6, <1>7, ZenonT(60) DEF Scored

\* A call with hits only.
LEMMA HitsRight ==
  ASSUME NEW store \in GoodStores, NEW pairs \in Seq(Pairs), NEW entered,
         \A i \in 1..Len(pairs) : Cached(store, pairs[i]),
         entered = [NewCall EXCEPT !.state = "resolved", !.pairs = pairs,
                      !.results = [i \in 1..Len(pairs) |-> Value(store, pairs[i])]]
  PROVE  CallRight(entered) /\ entered.state = "resolved"
<1>1. PICK found : found = [i \in 1..Len(pairs) |-> Value(store, pairs[i])]
  BY Zenon
<1>2. entered.pairs = pairs /\ entered.results = found /\ entered.state = "resolved" /\ IsCall(entered)
  BY <1>1, Zenon DEF NewCall, IsCall
<1>3. \A i \in 1..Len(pairs) : Value(store, pairs[i]) = pairs[i]
  <2>1. \A i \in 1..Len(pairs) : pairs[i] \in Pairs
    OBVIOUS
  <2>. QED BY <2>1, RefreshGood, Zenon
<1>4. found = pairs
  <2>1. pairs = [i \in 1..Len(pairs) |-> pairs[i]]
    OBVIOUS
  <2>. QED BY <1>1, <1>3, <2>1, Zenon
<1>. QED BY <1>2, <1>4, Zenon DEF CallRight

\* The state of a call does not enter its scores.
LEMMA StateAside ==
  ASSUME NEW call, IsCall(call), NEW phase, NEW entered, entered = [call EXCEPT !.state = phase]
  PROVE  /\ IsCall(entered) /\ entered.state = phase /\ NextBatch(entered) = NextBatch(call)
         /\ Scored(entered) <=> Scored(call)
<1>1. /\ entered.state = phase /\ entered.pairs = call.pairs /\ entered.missing = call.missing
      /\ entered.computed = call.computed /\ entered.results = call.results /\ IsCall(entered)
  BY Zenon DEF IsCall
<1>2. NextBatch(entered) = NextBatch(call)
  BY <1>1 DEF NextBatch
<1>3. Scored(entered) <=> Scored(call)
  BY <1>1 DEF Scored
<1>. QED BY <1>1, <1>2, <1>3, Zenon

\* One call moves; what is pending is the others' as before, or its own.
LEMMA MoveScores ==
  ASSUME PipeInv, ScoresInv, NEW c \in ScoreCalls, NEW entered, CallRight(entered),
         calls' = [calls EXCEPT ![c] = entered], cache' \in GoodStores,
         \A r \in responses' : \A q \in sent' : r.id = q.id =>
           \/ r \in responses /\ q \in sent /\ r.call # c
           \/ r.call = c /\ q.batch = NextBatch(entered)
  PROVE  ScoresInv'
<1>1. calls = [d \in ScoreCalls |-> calls[d]] /\ \A r \in responses : r.call \in ScoreCalls
  BY Zenon DEF PipeInv, CallsOK, PipeOK
<1>2. calls'[c] = entered /\ \A d \in ScoreCalls : d # c => calls'[d] = calls[d]
  BY <1>1, Zenon
<1>3. \A d \in ScoreCalls : CallRight(calls'[d])
  BY <1>2, Zenon DEF ScoresInv
<1>4. ASSUME NEW r \in responses', NEW q \in sent', r.id = q.id PROVE q.batch = NextBatch(calls'[r.call])
  <2>1. CASE r \in responses /\ q \in sent /\ r.call # c
    <3>1. calls'[r.call] = calls[r.call]
      BY <1>1, <1>2, <2>1, Zenon
    <3>2. q.batch = NextBatch(calls[r.call])
      BY <1>4, <2>1, Zenon DEF ScoresInv
    <3>. QED BY <3>1, <3>2, Zenon
  <2>2. CASE r.call = c /\ q.batch = NextBatch(entered)
    BY <1>2, <2>2, ZenonT(60)
  <2>. QED BY <1>4, <2>1, <2>2, Zenon
<1>5. (\A d \in ScoreCalls : CallRight(calls[d]))' /\ (\A r \in responses : \A q \in sent : r.id = q.id => q.batch = NextBatch(calls[r.call]))'
  BY <1>3, <1>4, Zenon DEF CallRight, IsCall, Scored, NextBatch
<1>. QED BY <1>5, Zenon DEF ScoresInv

\* The same when the call takes a number and sends the batch it is at.
LEMMA SendScores ==
  ASSUME PipeInv, ScoresInv, NEW c \in ScoreCalls, NEW entered, CallRight(entered),
         calls' = [calls EXCEPT ![c] = entered], cache' \in GoodStores,
         NEW sentLeft \in SUBSET sent, NEW respLeft \in SUBSET responses,
         \A r \in respLeft : r.call # c,
         sent' = sentLeft \cup {[id |-> nextId, batch |-> NextBatch(entered)]},
         responses' = respLeft \cup {[id |-> nextId, call |-> c]}
  PROVE  ScoresInv'
<1>1. PICK q0, r0 : q0 = [id |-> nextId, batch |-> NextBatch(entered)] /\ r0 = [id |-> nextId, call |-> c]
  BY Zenon
<1>2. q0.id = nextId /\ q0.batch = NextBatch(entered) /\ r0.id = nextId /\ r0.call = c
  BY <1>1, Zenon
<1>3. sent' = sentLeft \cup {q0} /\ responses' = respLeft \cup {r0}
  BY <1>1, ZenonT(60)
<1>4. (\A r \in responses : r.id # nextId) /\ (\A q \in sent : q.id # nextId)
  BY SMTT(30) DEF PipeInv, PipeOK
<1>5. ASSUME NEW r \in responses', NEW q \in sent', r.id = q.id
      PROVE  \/ r \in responses /\ q \in sent /\ r.call # c
             \/ r.call = c /\ q.batch = NextBatch(entered)
  <2>1. (r \in respLeft \/ r = r0) /\ (q \in sentLeft \/ q = q0)
    BY <1>3, Zenon
  <2>. QED BY <1>2, <1>4, <1>5, <2>1, Zenon
<1>. QED BY <1>5, MoveScores, Zenon

LEMMA ScoresStay ==
  ASSUME ScoresInv, responses' = responses, sent' = sent, calls' = calls, cache' = cache
  PROVE  ScoresInv'
<1>1. \A c \in ScoreCalls : CallRight(calls'[c])
  BY Zenon DEF ScoresInv
<1>2. \A r \in responses' : \A q \in sent' : r.id = q.id => q.batch = NextBatch(calls'[r.call])
  BY ZenonT(60) DEF ScoresInv
<1>3. (\A c \in ScoreCalls : CallRight(calls[c]))'
  BY <1>1, ZenonT(60) DEF CallRight, IsCall, Scored
<1>4. (\A r \in responses : \A q \in sent : r.id = q.id => q.batch = NextBatch(calls[r.call]))'
  BY <1>2, ZenonT(60) DEF NextBatch
<1>. QED BY <1>3, <1>4, Zenon DEF ScoresInv

LEMMA ScoresStart == RerankInit => ScoresInv
<1>. SUFFICES ASSUME RerankInit PROVE ScoresInv
  BY Zenon 
<1>1. cache = <<>> /\ responses = {} /\ calls = [c \in ScoreCalls |-> NewCall]
  BY Zenon DEF RerankInit
<1>2. <<>> \in GoodStores
  BY DEF GoodStores
<1>3. IsCall(NewCall) /\ NewCall.state = "new"
  BY Zenon DEF NewCall, IsCall
<1>4. CallRight(NewCall)
  BY <1>3, Zenon DEF CallRight
<1>5. \A c \in ScoreCalls : CallRight(calls[c])
  BY <1>1, <1>4, Zenon
<1>. QED BY <1>1, <1>2, <1>5, Zenon DEF ScoresInv

LEMMA ScoresStep == WellOrder /\ PipeInv /\ ScoresInv /\ [RerankNext]_rerankVars => ScoresInv'
<1>. SUFFICES ASSUME WellOrder, PipeInv, ScoresInv, [RerankNext]_rerankVars PROVE ScoresInv'
  BY Zenon 
<1>0. PICK store \in GoodStores : store = cache
  BY Zenon DEF ScoresInv
<1>1. \A r \in responses : r.call \in ScoreCalls /\ calls[r.call].state = "waiting"
  BY Zenon DEF PipeInv, PipeOK
<1>2. \A c \in ScoreCalls : CallRight(calls[c]) /\ IsCall(calls[c])
  BY ZenonT(60) DEF ScoresInv, CallRight
<1>3. ASSUME NEW c \in ScoreCalls, NEW pairs \in CallLists, ScoreHits(c, pairs) PROVE ScoresInv'
  <2>1. pairs \in Seq(Pairs)
    BY RerankInputs, Zenon
  <2>2. PICK entered : /\ entered = [NewCall EXCEPT !.state = "resolved", !.pairs = pairs,
                                   !.results = [i \in 1..Len(pairs) |-> Value(store, pairs[i])]]
                       /\ calls' = [calls EXCEPT ![c] = entered]
    BY <1>0, <1>3, Zenon DEF ScoreHits
  <2>3. /\ calls[c].state = "new" /\ cache' = RefreshAll(store, pairs)
        /\ \A i \in 1..Len(pairs) : Cached(store, pairs[i])
        /\ responses' = responses /\ sent' = sent
    BY <1>0, <1>3, Zenon DEF ScoreHits
  <2>4. CallRight(entered)
    BY <2>1, <2>2, <2>3, HitsRight, ZenonT(60)
  <2>5. cache' \in GoodStores
    BY <2>1, <2>3, RefreshAllGood, ZenonT(60)
  <2>6. \A r \in responses : r.call # c
    BY <1>1, <2>3, Zenon
  <2>. QED BY <2>2, <2>3, <2>4, <2>5, <2>6, MoveScores, ZenonT(60)
<1>4. ASSUME NEW c \in ScoreCalls, NEW pairs \in CallLists, ScoreMisses(c, pairs) PROVE ScoresInv'
  <2>1. pairs \in Seq(Pairs)
    BY RerankInputs, Zenon
  <2>. DEFINE next == CASE child = "loading" -> "loading" [] child = "ready" -> "waiting"
                        [] OTHER -> "rejected"
  <2>2. PICK asked : asked = [NewCall EXCEPT !.pairs = pairs, !.missing = MissingIndices(store, pairs),
                    !.results = [i \in 1..Len(pairs) |->
                                   IF Cached(store, pairs[i]) THEN Value(store, pairs[i]) ELSE pairs[1]]]
    BY ZenonT(60)
  <2>3. PICK entered : /\ entered = [asked EXCEPT !.state = next]
                       /\ calls' = [calls EXCEPT ![c] = entered]
                       /\ calls[c].state = "new" /\ cache' = RefreshAll(store, pairs)
                       /\ IF next = "waiting" THEN Send(c, asked) ELSE UNCHANGED <<nextId, sent, responses>>
    BY <1>0, <1>4, <2>2, Zenon DEF ScoreMisses
  <2>4. IsCall(asked) /\ Scored(asked)
    BY <2>1, <2>2, StartsRight, Zenon
  <2>5. IsCall(entered) /\ entered.state = next /\ NextBatch(entered) = NextBatch(asked) /\ Scored(entered)
    <3>. HIDE DEF next
    <3>. QED BY <2>3, <2>4, StateAside, Zenon
  <2>6. next # "resolved"
    BY Zenon
  <2>. HIDE DEF next
  <2>7. CallRight(entered)
    BY <2>5, <2>6, Zenon DEF CallRight
  <2>8. cache' \in GoodStores
    BY <2>1, <2>3, RefreshAllGood, Zenon
  <2>9. \A r \in responses : r.call # c
    BY <1>1, <2>3, Zenon
  <2>10. CASE next = "waiting"
    <3>1. /\ sent' = sent \cup {[id |-> nextId, batch |-> NextBatch(entered)]}
          /\ responses' = responses \cup {[id |-> nextId, call |-> c]}
      BY <2>3, <2>5, <2>10, Zenon DEF Send
    <3>2. sent \in SUBSET sent /\ responses \in SUBSET responses /\ calls' = [calls EXCEPT ![c] = entered]
      BY <2>3, Zenon
    <3>. QED BY <2>7, <2>8, <2>9, <3>1, <3>2, SendScores, Zenon
  <2>11. CASE next # "waiting"
    <3>1. sent' = sent /\ responses' = responses
      BY <2>3, <2>11, Zenon
    <3>. QED BY <2>3, <2>7, <2>8, <2>9, <3>1, MoveScores, Zenon
  <2>. QED BY <2>10, <2>11, Zenon
<1>5. CASE Ready
  BY <1>5, ScoresStay, Zenon DEF Ready
<1>6. ASSUME NEW c \in ScoreCalls, Resume(c) PROVE ScoresInv'
  <2>1. PICK call, entered : /\ call = calls[c] /\ entered = [call EXCEPT !.state = "waiting"]
                             /\ calls' = [calls EXCEPT ![c] = entered]
    BY <1>6, Zenon DEF Resume
  <2>2. calls[c].state = "loading" /\ Send(c, call) /\ cache' = cache
    BY <1>6, <2>1, Zenon DEF Resume
  <2>3. IsCall(call) /\ Scored(call)
    BY <1>2, <2>1, <2>2, Zenon DEF CallRight
  <2>4. IsCall(entered) /\ entered.state = "waiting" /\ NextBatch(entered) = NextBatch(call) /\ Scored(entered)
    BY <2>1, <2>3, StateAside, SMTT(30)
  <2>5. CallRight(entered)
    BY <2>4, Zenon DEF CallRight
  <2>6. /\ sent' = sent \cup {[id |-> nextId, batch |-> NextBatch(entered)]}
        /\ responses' = responses \cup {[id |-> nextId, call |-> c]}
    BY <2>2, <2>4, ZenonT(60) DEF Send
  <2>7. sent \in SUBSET sent /\ responses \in SUBSET responses /\ cache' \in GoodStores
    BY <1>0, <2>2, Zenon
  <2>8. \A r \in responses : r.call # c
    BY <1>1, <2>2, Zenon
  <2>. QED BY <2>1, <2>5, <2>6, <2>7, <2>8, SendScores, Zenon
<1>7. ASSUME NEW q \in sent
      PROVE  /\ Addressee(q) \in responses /\ Addressee(q).id = q.id
             /\ \A r \in responses \ {Addressee(q)} : r.call # Addressee(q).call
  <2>1. \E r \in responses : r.id = q.id
    BY Zenon DEF PipeInv, PipeOK
  <2>2. Addressee(q) \in responses /\ Addressee(q).id = q.id
    BY <2>1, Zenon DEF Addressee
  <2>3. \A r, s \in responses : r.call = s.call => r = s
    BY Zenon DEF PipeInv, PipeOK
  <2>. QED BY <2>2, <2>3, Zenon
<1>8. ASSUME NEW q \in sent, OnScores(q) PROVE ScoresInv'
  <2>1. PICK entry \in responses : entry = Addressee(q)
    BY <1>7, Zenon
  <2>2. PICK c, call, asked :
          c \in ScoreCalls /\ c = entry.call /\ call = calls[c] /\ asked = [call EXCEPT !.computed = @ \o NextBatch(call)]
    BY <1>1, <2>1, Zenon
  <2>21. c \in ScoreCalls
    BY <2>2, ZenonT(60)
  <2>3. call.state = "waiting" /\ q.batch = NextBatch(call) /\ IsCall(call) /\ Scored(call)
    <3>1. call.state = "waiting" /\ CallRight(call)
      BY <1>1, <1>2, <2>1, <2>2, Zenon
    <3>2. q.batch = NextBatch(call)
      BY <1>7, <2>1, <2>2, Zenon DEF ScoresInv
    <3>. QED BY <3>1, <3>2, Zenon DEF CallRight
  <2>4. IsCall(asked) /\ Scored(asked) /\ asked.state = "waiting"
    BY <2>2, <2>3, BatchFits, Zenon
  <2>5. asked = [calls[c] EXCEPT !.computed = @ \o q.batch]
    BY <2>2, <2>3, Zenon
  <2>6. \A r \in responses \ {entry} : r.call # c
    BY <1>7, <2>1, <2>2, ZenonT(60)
  <2>7. CASE Len(asked.computed) >= Len(asked.missing)
    <3>1. PICK entered : entered = Filled(asked)
      BY Zenon 
    <3>2. /\ calls' = [calls EXCEPT ![c] = entered] /\ cache' = Fed(asked)
          /\ sent' = sent \ {q} /\ responses' = responses \ {entry}
      BY <1>8, <2>1, <2>2, <2>5, <2>7, <3>1, Zenon DEF OnScores
    <3>3. CallRight(entered)
      BY <2>4, <2>7, <3>1, FilledRight, ZenonT(40)
    <3>4. /\ Len(asked.missing) \in Nat
          /\ \A j \in 1..Len(asked.missing) : /\ asked.pairs[asked.missing[j]] \in Pairs
                                              /\ asked.computed[j] = asked.pairs[asked.missing[j]]
      <4>1. Len(asked.missing) \in Nat /\ Len(asked.computed) = Len(asked.missing)
        BY <2>4, <2>7, SMTT(30) DEF Scored
      <4>2. /\ \A j \in 1..Len(asked.missing) : asked.missing[j] \in 1..Len(asked.pairs)
            /\ \A i \in 1..Len(asked.pairs) : asked.pairs[i] \in Pairs
        BY <2>4, SMTT(30) DEF Scored
      <4>. QED BY <2>4, <4>1, <4>2, ZenonT(60) DEF Scored
    <3>5. cache' \in GoodStores
      BY <1>0, <3>2, <3>4, FedGood, Zenon
    <3>. QED BY <2>21, <2>6, <3>2, <3>3, <3>5, MoveScores, ZenonT(60)
  <2>8. CASE ~(Len(asked.computed) >= Len(asked.missing))
    <3>1. /\ calls' = [calls EXCEPT ![c] = asked] /\ cache' = cache
          /\ sent' = (sent \ {q}) \cup {[id |-> nextId, batch |-> NextBatch(asked)]}
          /\ responses' = (responses \ {entry}) \cup {[id |-> nextId, call |-> c]}
      BY <1>8, <2>1, <2>2, <2>5, <2>8, ZenonT(60) DEF OnScores
    <3>2. CallRight(asked)
      BY <2>4, Zenon DEF CallRight
    <3>3. sent \ {q} \in SUBSET sent /\ responses \ {entry} \in SUBSET responses /\ cache' \in GoodStores
      BY <1>0, <3>1, Zenon
    <3>. QED BY <2>21, <2>6, <3>1, <3>2, <3>3, SendScores, Zenon
  <2>. QED BY <2>7, <2>8, Zenon
<1>9. ASSUME NEW q \in sent, OnError(q) PROVE ScoresInv'
  <2>1. PICK entry \in responses : entry = Addressee(q)
    BY <1>7, Zenon
  <2>2. PICK c, entered : c \in ScoreCalls /\ c = entry.call /\ entered = [calls[c] EXCEPT !.state = "rejected"]
    BY <1>1, <2>1, Zenon
  <2>21. c \in ScoreCalls
    BY <2>2, Zenon
  <2>3. /\ calls' = [calls EXCEPT ![c] = entered] /\ cache' \in GoodStores
        /\ sent' = sent \ {q} /\ responses' = responses \ {entry}
    BY <1>0, <1>9, <2>1, <2>2, Zenon DEF OnError
  <2>4. IsCall(entered) /\ entered.state = "rejected"
    BY <1>2, <2>2, StateAside, SMTT(30)
  <2>5. CallRight(entered)
    BY <2>4, Zenon DEF CallRight
  <2>6. \A r \in responses \ {entry} : r.call # c
    BY <1>7, <2>1, <2>2, ZenonT(60)
  <2>. QED BY <2>21, <2>3, <2>5, <2>6, MoveScores, ZenonT(60)
<1>10. CASE OnExit
  <2>1. ASSUME NEW c \in ScoreCalls PROVE CallRight(calls'[c])
    <3>1. calls'[c] = IF calls[c].state \in {"waiting", "loading"}
                      THEN [calls[c] EXCEPT !.state = "rejected"] ELSE calls[c]
      BY <1>10, ZenonT(60) DEF OnExit
    <3>2. CASE calls[c].state \in {"waiting", "loading"}
      <4>1. PICK call : call = calls[c] /\ calls'[c] = [call EXCEPT !.state = "rejected"]
        BY <3>1, <3>2, Zenon
      <4>2. IsCall(calls'[c]) /\ calls'[c].state = "rejected"
        BY <1>2, <4>1, Zenon DEF IsCall
      <4>. QED BY <4>2, Zenon DEF CallRight
    <3>3. CASE calls[c].state \notin {"waiting", "loading"}
      BY <1>2, <3>1, <3>3, Zenon
    <3>. QED BY <3>2, <3>3, Zenon
  <2>2. responses' = {} /\ cache' = cache
    BY <1>10, Zenon DEF OnExit
  <2>3. (\A c \in ScoreCalls : CallRight(calls[c]))'
    BY <2>1, Zenon DEF CallRight, IsCall, Scored
  <2>. QED BY <1>0, <2>2, <2>3, ZenonT(60) DEF ScoresInv
<1>11. CASE UNCHANGED rerankVars
  BY <1>11, ScoresStay, Zenon DEF rerankVars
<1>. QED BY <1>3, <1>4, <1>5, <1>6, <1>8, <1>9, <1>10, <1>11, Zenon DEF RerankNext

INSTANCE WellFoundedInduction

LEMMA LeastElement == WellOrder
<1> SUFFICES ASSUME NEW T \in SUBSET Nat, T # {} PROVE \E n \in T : \A m \in T : n <= m
  BY Zenon DEF WellOrder
<1> DEFINE R == {p \in Nat \X Nat : p[1] < p[2]}
<1>1. IsWellFoundedOn(R, Nat)
  BY NatLessThanWellFounded, Zenon DEF OpToRel
<1>2. PICK n \in T : \A m \in T : ~(<<m, n>> \in R)
  BY <1>1, WFMin, Zenon
<1>3. \A m \in T : <<m, n>> \in Nat \X Nat
  BY <1>2, Zenon
<1>4. \A m \in T : ~(m < n)
  BY <1>2, <1>3, Zenon
<1> QED
  BY <1>2, <1>4

\* Every score a call returns is the score of the pair at its position and every
\* cached score that of its key, for any calls, batch and cache sizes: however
\* calls overlap, in whatever order the child answers, fails or exits, and
\* whatever is evicted meanwhile (score() of withRerankerCache, scoreBatch).
THEOREM ScoresBelong == RerankSpec => []ScoresAreTheirs
<1>1. ScoresInv => ScoresAreTheirs
  BY Zenon DEF ScoresInv, CallRight, GoodStores, ScoresAreTheirs
<1>2. PipeInv /\ ScoresInv /\ [RerankNext]_rerankVars => ScoresInv'
  BY ScoresStep, LeastElement, Zenon
<1>. QED BY <1>1, <1>2, PipeStart, PipeStep, ScoresStart, PTL DEF RerankSpec
=============================================================================
