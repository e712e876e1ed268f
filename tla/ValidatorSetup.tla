--------------------------- MODULE ValidatorSetup ---------------------------
(***************************************************************************)
(* coretex-validator-setup, run again after it was killed or had failed,   *)
(* and for one launch after another (validator-setup-cli.ts, with the      *)
(* corpus it has materialised by materialize-production-corpus.mjs and     *)
(* the Python environment of validator-runtime.ts).                        *)
(*                                                                         *)
(* A file holds the content of some launch, which its sha256 stands for,   *)
(* or another one.  What a process writes in place can be torn by a crash; *)
(* what it renames from a temporary name cannot.                           *)
(***************************************************************************)
EXTENDS Integers, Sequences, FiniteSets

CONSTANTS
  Launches,      \* the launch manifests; each has its own bundle hash
  Payloads,      \* the files of a manifest, in the order they are ensured
  Sources,       \* those the corpus is materialised from
  ContentOf,     \* ContentOf[l][p]: the content the manifest l pins for p
  SetupCrashes, MaxDrifts,   \* bounds
  NoFile, NoRun

VARIABLES
  disk,       \* the payload files
  dirs,       \* the materialised directory of each bundle
  venv,       \* the scorer's Python environment
  ready,      \* what the state file says of the last setup, or NoFile
  setupRun,   \* the process: its launch, its options and where it is, or NoRun
  torn, drifts

setupVars == <<disk, dirs, venv, ready, setupRun, torn, drifts>>

Names == {Payloads[i] : i \in 1..Len(Payloads)}
Content == {ContentOf[l][p] : l \in Launches, p \in Names} \cup {"other"}
SourceOf(l) == [p \in Sources |-> ContentOf[l][p]]
\* corpus.json with its events, and the manifest beside them.
Data == [from : {SourceOf(l) : l \in Launches}, whole : BOOLEAN, sound : BOOLEAN]

ASSUME SetupAssumption ==
  /\ Payloads \in Seq(STRING) /\ SetupCrashes \in Nat /\ MaxDrifts \in Nat
  /\ Sources \subseteq Names
  /\ \A l \in Launches, p \in Names : ContentOf[l][p] # NoFile
  /\ NoFile \notin Data /\ \A l \in Launches : SourceOf(l) # NoFile

\* The scorer's interpreter: one setup manages, the operator's, or none of its
\* business (--no-venv-bootstrap).
SetupOptions == [verifyOnly : BOOLEAN, noDownload : BOOLEAN, python : {"venv", "env", "none"}]
SetupSteps == {"payloads", "materialise", "writing", "copying", "built", "copied",
               "roundtrip", "verify", "venv", "pip", "state"}

\* Type invariant; a manifest never stands in the directory of another source.
SetupTypeOK ==
  /\ \A p \in Names : disk[p] = NoFile \/ disk[p] \in Content
  /\ \A l \in Launches : /\ dirs[l].data = NoFile \/ dirs[l].data \in Data
                        /\ dirs[l].manifest \in {SourceOf(l), NoFile}
  /\ venv \in {"absent", "broken", "healthy"}
  /\ ready = NoFile \/ ready \in [launch : Launches, python : {"venv", "env", "none"}]
  /\ setupRun = NoRun \/ setupRun \in [launch : Launches, opts : SetupOptions, step : SetupSteps,
                                      next : 1..(Len(Payloads) + 1)]
  /\ torn \in 0..SetupCrashes /\ drifts \in 0..MaxDrifts

SetupInit ==
  /\ disk = [p \in Names |-> NoFile]
  /\ dirs = [l \in Launches |-> [data |-> NoFile, manifest |-> NoFile]]
  /\ venv = "absent" /\ ready = NoFile /\ setupRun = NoRun /\ torn = 0 /\ drifts = 0
-----------------------------------------------------------------------------
At(step) == setupRun # NoRun /\ setupRun.step = step
L == setupRun.launch
Goto(step) == setupRun' = [setupRun EXCEPT !.step = step]
Die == setupRun' = NoRun

RunSetup(l, o) ==
  /\ setupRun = NoRun
  /\ setupRun' = [launch |-> l, opts |-> o, step |-> "payloads", next |-> 1]
  /\ UNCHANGED <<disk, dirs, venv, ready, torn, drifts>>

(***************************************************************************)
(* Payloads: a file is downloaded under a temporary name, renamed, and     *)
(* verified where it is.                                                   *)
(***************************************************************************)
Payload == Payloads[setupRun.next]
Expected == ContentOf[L][Payload]
Ensured == /\ At("payloads") /\ setupRun.next <= Len(Payloads)
           /\ setupRun' = [setupRun EXCEPT !.next = @ + 1]

Present == Ensured /\ disk[Payload] = Expected /\ UNCHANGED <<disk, dirs, venv, ready, torn, drifts>>

DownloadsDisabled ==
  /\ At("payloads") /\ setupRun.next <= Len(Payloads) /\ disk[Payload] # Expected
  /\ setupRun.opts.verifyOnly \/ setupRun.opts.noDownload
  /\ Die /\ UNCHANGED <<disk, dirs, venv, ready, torn, drifts>>

\* A download that does not verify stays where it is.
Download(served) ==
  /\ At("payloads") /\ setupRun.next <= Len(Payloads) /\ disk[Payload] # Expected
  /\ ~setupRun.opts.verifyOnly /\ ~setupRun.opts.noDownload
  /\ disk' = [disk EXCEPT ![Payload] = IF served THEN Expected ELSE "other"]
  /\ IF served THEN setupRun' = [setupRun EXCEPT !.next = @ + 1] ELSE Die
  /\ UNCHANGED <<dirs, venv, ready, torn, drifts>>

AllEnsured ==
  /\ At("payloads") /\ setupRun.next > Len(Payloads)
  /\ Goto(IF setupRun.opts.verifyOnly THEN "verify" ELSE "materialise")
  /\ UNCHANGED <<disk, dirs, venv, ready, torn, drifts>>

(***************************************************************************)
(* The materialiser: reuse, copy from a sibling, or build; the manifest is *)
(* written last, and after a build the artifact is loaded again.           *)
(***************************************************************************)
OnDisk == [p \in Sources |-> disk[p]]
CacheHit == dirs[L].manifest = OnDisk /\ dirs[L].data # NoFile
Siblings == {s \in Launches \ {L} : dirs[s].manifest = OnDisk /\ dirs[s].data # NoFile}

Reuse ==
  /\ At("materialise") /\ CacheHit /\ Goto("verify")
  /\ UNCHANGED <<disk, dirs, venv, ready, torn, drifts>>

\* corpus.json, the events and the leaves are overwritten in place.
Overwrite(sound, step) ==
  /\ At("materialise") /\ ~CacheHit
  /\ dirs' = [dirs EXCEPT ![L].data = [from |-> OnDisk, whole |-> FALSE, sound |-> sound]]
  /\ Goto(step) /\ UNCHANGED <<disk, venv, ready, torn>>

\* The first directory with the same content is copied; it is not loaded again.
CopySibling ==
  /\ At("materialise")
  /\ \E s \in Siblings : Overwrite(dirs[s].data.sound, "copying") /\ UNCHANGED drifts

\* What is read back may differ from what was built.
Build(drift) ==
  /\ At("materialise") /\ Siblings = {} /\ (drift => drifts < MaxDrifts)
  /\ Overwrite(~drift, "writing")
  /\ drifts' = drifts + IF drift THEN 1 ELSE 0

Written(from, to) == At(from) /\ dirs' = [dirs EXCEPT ![L].data.whole = TRUE] /\ Goto(to)

\* Mutant: the manifest is written while the events are still streamed.
DataWrittenWithManifest ==
  /\ At("writing") \/ At("copying")
  /\ dirs' = [dirs EXCEPT ![L].manifest = OnDisk]
  /\ Goto(IF At("copying") THEN "copied" ELSE "built")
  /\ UNCHANGED <<disk, venv, ready, torn, drifts>>

DataWritten ==
  /\ Written("writing", "built") \/ Written("copying", "copied")
  /\ UNCHANGED <<disk, venv, ready, torn, drifts>>

WriteManifest ==
  /\ At("built") \/ At("copied")
  /\ dirs' = [dirs EXCEPT ![L].manifest = OnDisk]
  /\ Goto(IF At("copied") THEN "verify" ELSE "roundtrip")
  /\ UNCHANGED <<disk, venv, ready, torn, drifts>>

RoundTrip ==
  /\ At("roundtrip")
  /\ IF dirs[L].data.sound THEN Goto("verify") ELSE Die
  /\ UNCHANGED <<disk, dirs, venv, ready, torn, drifts>>

VerifyMaterialized ==
  /\ At("verify")
  /\ IF dirs[L].manifest = SourceOf(L) /\ dirs[L].data # NoFile
     THEN Goto(IF setupRun.opts.verifyOnly THEN "state" ELSE "venv") ELSE Die
  /\ UNCHANGED <<disk, dirs, venv, ready, torn, drifts>>

(***************************************************************************)
(* The Python environment, and the state file.                             *)
(***************************************************************************)
SkipVenv ==
  /\ At("venv") /\ (setupRun.opts.python # "venv" \/ venv = "healthy")
  /\ Goto("state") /\ UNCHANGED <<disk, dirs, venv, ready, torn, drifts>>

\* python -m venv over whatever is there.
CreateVenv(ok) ==
  /\ At("venv") /\ setupRun.opts.python = "venv" /\ venv # "healthy"
  /\ venv' = (IF ok THEN "broken" ELSE venv)
  /\ IF ok THEN Goto("pip") ELSE Die
  /\ UNCHANGED <<disk, dirs, ready, torn, drifts>>

\* pip install and the probe that follows it.
PipInstall(ok) ==
  /\ At("pip") /\ venv' = (IF ok THEN "healthy" ELSE "broken")
  /\ IF ok THEN Goto("state") ELSE Die
  /\ UNCHANGED <<disk, dirs, ready, torn, drifts>>

WriteStateFile ==
  /\ At("state")
  /\ ready' = [launch |-> L,
               python |-> IF setupRun.opts.verifyOnly THEN "none" ELSE setupRun.opts.python]
  /\ Die /\ UNCHANGED <<disk, dirs, venv, torn, drifts>>

Killed ==
  /\ setupRun # NoRun /\ torn < SetupCrashes
  /\ torn' = torn + 1 /\ Die
  /\ UNCHANGED <<disk, dirs, venv, ready, drifts>>

SetupProgress ==
  \/ Present \/ AllEnsured \/ Reuse \/ CopySibling \/ Build(FALSE) \/ DataWritten \/ WriteManifest \/ RoundTrip
  \/ VerifyMaterialized \/ SkipVenv \/ WriteStateFile

SetupNext ==
  \/ \E l \in Launches, o \in SetupOptions : RunSetup(l, o)
  \/ SetupProgress \/ DownloadsDisabled \/ Build(TRUE) \/ Killed
  \/ \E ok \in BOOLEAN : Download(ok) \/ CreateVenv(ok) \/ PipInstall(ok)

SetupSpec == SetupInit /\ [][SetupNext]_setupVars
-----------------------------------------------------------------------------
(***************************************************************************)
(* Properties.                                                             *)
(***************************************************************************)
\* READY stands for a corpus that was written to the end from the payloads
\* the launch pins, whichever runs were killed while they wrote it, and
\* setups for other launches since then leave it alone.
ReadyCorpusWhole ==
  ready # NoFile =>
    LET data == dirs[ready.launch].data IN
    data # NoFile /\ data.whole /\ data.from = SourceOf(ready.launch)

\* An interpreter in the state file is one that passed the import probe: a
\* half-built environment is never recorded.
RecordedPythonHealthy == ready # NoFile /\ ready.python = "venv" => venv = "healthy"
=============================================================================
