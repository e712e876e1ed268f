--------------------------- MODULE CoordinatorCore ---------------------------
(***************************************************************************)
(* The coordinator (packages/coretex/src/coordinator/                      *)
(* coretex-coordinator-core.ts) for one epoch: it follows the registry     *)
(* through the chain watcher, evaluates one submission at a time and signs *)
(* receipts for the miners to land.                                        *)
(*                                                                         *)
(* The watcher tick and the two short phases of a submission exclude each  *)
(* other by coreMutex; the evaluator runs outside it.  Every chain read is *)
(* an await, so each handler is split at its reads: the chain, freeze(),   *)
(* status requests and receipt lookups interleave with all of them.        *)
(***************************************************************************)
EXTENDS CoordChain

CONSTANTS Depth,           \* confirmationDepth
          Ttl,             \* receiptTtlSec
          Grace,           \* TRANSIENT_CHAIN_FAILURE_GRACE_MS
          MaxSnapshots,    \* MAX_SNAPSHOTS
          SignerHashes,    \* whether the signer returns the V4 receipt hash
          Faults,          \* chain reads that may fail: transient or not
          MaxSigned,       \* bound: receipts signed
          MaxFreezes, MaxBoots, MaxRecomputes

ASSUME CoreAssumption ==
  /\ {Depth, Ttl, Grace, MaxSnapshots, MaxSigned, MaxFreezes, MaxBoots, MaxRecomputes} \subseteq Nat
  /\ MaxSnapshots > 0
  /\ SignerHashes \subseteq BOOLEAN /\ Faults \subseteq BOOLEAN

VARIABLES up, boots,       \* the process runs; how often it was started
          liveRoot, transitions,      \* lastTransitionIndex + 1
          snapshots, stateByRoot, lastScanned,
          signing,         \* signingEnabled
          failingSince,    \* transientChainFailureSinceMs, 0 for null
          frozen, freezing, freezeGeneration,   \* freezing: freeze() has not resolved
          reservation,     \* minerChainReservations
          baselines,       \* roots in baselineByRoot
          recomputes,      \* bound: setRecomputedBaseline and invalidateBaselines calls
          pending,         \* pendingByPatchHash, as a set
          dedup,           \* submitDedup
          cache,           \* receiptCache: the receipt under each of its hashes
          job,             \* the submission at the head of the FIFO queue
          tick             \* the watcher tick under way

rootVars == <<liveRoot, transitions, snapshots, stateByRoot, lastScanned>>
healthVars == <<signing, failingSince>>
freezeVars == <<frozen, freezing, freezeGeneration>>
ledgerVars == <<reservation, pending, dedup, cache>>
baseVars == <<baselines, recomputes>>
coreVars == <<up, boots, rootVars, healthVars, freezeVars, ledgerVars, baseVars, job, tick>>
vars == <<chainVars, coreVars>>

ParentRoot == << >>
Null == "null"
Idle == [pc |-> "idle", safe |-> 0]
NoJob == [pc |-> "none", miner |-> Null, patch |-> Null, time |-> 0, parent |-> ParentRoot, gen |-> 0,
          crossed |-> FALSE, outcome |-> Null, index |-> 0, prev |-> NoReceipt]

\* The patch hash a miner submits has score delta 0, as a screener receipt has.
OriginalKey(x) == <<x.parent, x.patch, "ScreenerPass">>

MutexFree == tick = Idle /\ job.pc \in {"none", "evaluating", "scored"}

-----------------------------------------------------------------------------
(* gcPending(now): what is left of the four tables, given the pending ones. *)
Lapsed(ps) == {p \in ps : p.state = "pending" /\ p.x.expiresAt <= now}
GcDedup(ps) == {d \in dedup : d.expiresAt > now /\ \A p \in Lapsed(ps) : OriginalKey(p.x) # d.key}
GcCache(ps) ==
  LET kept == {h \in DOMAIN cache :
                /\ \A p \in Lapsed(ps) : h \notin {PatchKey(p.x), OriginalKey(p.x)}
                /\ \/ \E p \in ps \ Lapsed(ps) : PatchKey(p.x) = PatchKey(cache[h])
                   \/ cache[h].expiresAt > now}
  IN  [h \in kept |-> cache[h]]
GcReservation ==
  LET kept == {m \in DOMAIN reservation : reservation[m].expiresAt > now}
  IN  [m \in kept |-> reservation[m]]

Gc(ps) == /\ pending' = ps \ Lapsed(ps) /\ dedup' = GcDedup(ps)
          /\ cache' = GcCache(ps) /\ reservation' = GcReservation

-----------------------------------------------------------------------------
(* Following the registry. *)
AppendSnapshots(s, t) ==
  LET u == s \o t IN SubSeq(u, Max({1, Len(u) - MaxSnapshots + 1}), Len(u))

SnapshotAt(b) ==
  LET x == chain[b].tx IN
  [block |-> b, stamp |-> chain[b].stamp, parent |-> x.parent,
   root |-> RootAfter(x), key |-> PatchKey(x)]

\* Mutant: events are applied without checking that they link to the live root.
EventsLinkAny(evs) == TRUE

\* applyChainEvent over the events of a scan, which all link to one another.
EventsLink(evs) == evs # << >> => /\ chain[evs[1]].tx.parent = liveRoot
                                  /\ Len(chain[evs[1]].tx.parent) = transitions

Matched(p, evs) == \E i \in DOMAIN evs : PatchKey(p.x) = PatchKey(chain[evs[i]].tx)
Contested(p, evs) == \E i \in DOMAIN evs : p.x.parent = chain[evs[i]].tx.parent

PendingAfter(evs) ==
  {IF p.state # "pending" \/ ~Contested(p, evs) THEN p
   ELSE [p EXCEPT !.state = IF Matched(p, evs) THEN "confirmed" ELSE "stale"] : p \in pending}

ApplyEvents(evs) ==
  LET news == [i \in DOMAIN evs |-> SnapshotAt(evs[i])] IN
  /\ liveRoot' = IF evs = << >> THEN liveRoot ELSE Last(news).root
  /\ transitions' = transitions + Len(evs)
  /\ stateByRoot' = stateByRoot \cup {news[i].root : i \in DOMAIN news}
  /\ snapshots' = AppendSnapshots(snapshots, news)
  /\ pending' = PendingAfter(evs)
  /\ baselines' = baselines \cup
       {RootAfter(p.x) : p \in {p \in pending : p.state = "pending" /\ Matched(p, evs)}}

\* auditReceiptCacheAgainstCanonicalRoots
Audited(ps, roots) ==
  {IF p.state = "pending" /\ p.x.parent \notin roots THEN [p EXCEPT !.state = "stale"] ELSE p : p \in ps}

Canonical(s) == s.block \in DOMAIN chain /\ chain[s.block].stamp = s.stamp
HasReorged(s) == s.block \in DOMAIN chain /\ chain[s.block].stamp # s.stamp

\* Mutant: a rollback leaves the pending receipts as they were.
ReconciledNot(ps, snaps) == ps

\* reconcilePendingFromCanonicalSnapshots
Reconciled(ps, snaps) ==
  {[p EXCEPT !.state =
      IF \A i \in DOMAIN snaps : snaps[i].parent # p.x.parent THEN "pending"
      ELSE IF \E i \in DOMAIN snaps : snaps[i].key = PatchKey(p.x) THEN "confirmed" ELSE "stale"] : p \in ps}

\* handleReorg: back to the newest snapshot that is still on the chain, or to
\* the start of the epoch.
HandleReorg ==
  LET good == {i \in DOMAIN snapshots : Canonical(snapshots[i])}
      kept == IF good = {} THEN << >> ELSE SubSeq(snapshots, 1, Max(good))
      roots == stateByRoot \cap ({kept[i].root : i \in DOMAIN kept} \cup {ParentRoot})
  IN
  /\ snapshots' = kept
  /\ liveRoot' = IF kept = << >> THEN ParentRoot ELSE Last(kept).root
  /\ transitions' = Len(liveRoot')
  /\ lastScanned' = IF kept = << >> THEN 0 ELSE Last(kept).block
  /\ stateByRoot' = roots
  /\ pending' = Audited(Reconciled(pending, kept), roots)
  /\ signing' = FALSE

-----------------------------------------------------------------------------
(* boot and crash *)
Forgotten ==
  /\ frozen' = FALSE /\ freezing' = FALSE /\ freezeGeneration' = 0
  /\ failingSince' = 0 /\ dedup' = {} /\ cache' = << >>
  /\ reservation' = << >>
  /\ job' = NoJob /\ tick' = Idle

Boot ==
  LET safe == Max({0, Len(chain) - Depth}) IN
  \E evs \in EventLists(chain, 1, safe) :
  LET news == [i \in DOMAIN evs |-> SnapshotAt(evs[i])] IN
  /\ ~up /\ boots < MaxBoots /\ ~rolled
  /\ up' = TRUE /\ boots' = boots + 1
  /\ liveRoot' = IF evs = << >> THEN ParentRoot ELSE Last(news).root
  /\ transitions' = Len(evs)
  /\ stateByRoot' = {ParentRoot} \cup {news[i].root : i \in DOMAIN news}
  /\ snapshots' = AppendSnapshots(<< >>, news)
  /\ lastScanned' = safe
  /\ baselines' = {ParentRoot}
  /\ signing' = (Len(evs) = Transitions(chain))
  /\ pending' = {}
  /\ Forgotten
  /\ UNCHANGED <<chainVars, recomputes>>

\* External: the process dies, and with it everything it kept in memory.
Crash ==
  /\ up /\ boots < MaxBoots
  /\ up' = FALSE
  /\ liveRoot' = ParentRoot /\ transitions' = 0 /\ snapshots' = << >>
  /\ stateByRoot' = {} /\ lastScanned' = 0 /\ baselines' = {}
  /\ signing' = FALSE /\ pending' = {}
  /\ Forgotten
  /\ UNCHANGED <<chainVars, boots, recomputes>>

-----------------------------------------------------------------------------
(* tick(): epoch and head, reorg check, scan, parity. *)
\* checkEpochStillCurrent clears signingEnabled once the epoch has ended.
CheckEpochStillCurrent == signing' = (signing /\ ~rolled)

TickStart ==
  /\ up /\ MutexFree /\ ~frozen
  /\ \/ /\ rolled
        /\ CheckEpochStillCurrent /\ Gc(pending) /\ UNCHANGED tick
     \/ /\ ~rolled
        /\ tick' = [pc |-> "reorg", safe |-> Len(chain) - Depth]
        /\ UNCHANGED <<signing, ledgerVars>>
  /\ UNCHANGED <<chainVars, up, boots, rootVars, failingSince, freezeVars, baseVars, job>>

TickReorg ==
  /\ tick.pc = "reorg"
  /\ tick' = [tick EXCEPT !.pc = "scan"]
  /\ \/ /\ snapshots # << >> /\ HasReorged(Last(snapshots))
        /\ HandleReorg
     \/ /\ ~(snapshots # << >> /\ HasReorged(Last(snapshots)))
        /\ UNCHANGED <<rootVars, pending, signing>>
  /\ UNCHANGED <<chainVars, up, boots, failingSince, freezeVars, reservation, dedup, cache, baseVars, job>>

\* The scan applies every event up to the safe head, or throws.
TickScan ==
  \E evs \in EventLists(chain, lastScanned + 1, tick.safe) :
  /\ tick.pc = "scan"
  /\ \/ /\ tick.safe > lastScanned /\ EventsLink(evs)
        /\ ApplyEvents(evs)
        /\ lastScanned' = tick.safe
        /\ tick' = [tick EXCEPT !.pc = "parity"]
        /\ UNCHANGED signing
     \/ /\ tick.safe > lastScanned /\ ~EventsLink(evs)
        /\ signing' = FALSE /\ tick' = Idle
        /\ UNCHANGED <<rootVars, pending, baselines>>
     \/ /\ tick.safe <= lastScanned
        /\ tick' = [tick EXCEPT !.pc = "parity"]
        /\ UNCHANGED <<rootVars, pending, baselines, signing>>
  /\ UNCHANGED <<chainVars, up, boots, failingSince, freezeVars, reservation, dedup, cache, recomputes, job>>

\* parityCheck
InParity == transitions = Transitions(chain) /\ liveRoot = LiveRootOf(chain)

\* Mutant: parity can only disable signing.
TickParityLatched ==
  /\ tick.pc = "parity"
  /\ signing' = (signing /\ InParity)
  /\ Gc(pending)
  /\ failingSince' = 0
  /\ tick' = Idle
  /\ UNCHANGED <<chainVars, up, boots, rootVars, freezeVars, baseVars, job>>

TickParity ==
  /\ tick.pc = "parity"
  /\ signing' = InParity
  /\ Gc(IF InParity THEN Audited(pending, stateByRoot) ELSE pending)
  /\ failingSince' = 0
  /\ tick' = Idle
  /\ UNCHANGED <<chainVars, up, boots, rootVars, freezeVars, baseVars, job>>

\* Mutant: a tick that throws does not give the mutex back.
TickFaultHolds(transient) ==
  /\ tick # Idle
  /\ tick' = [tick EXCEPT !.pc = "thrown"] /\ signing' = FALSE
  /\ UNCHANGED <<chainVars, up, boots, rootVars, failingSince, freezeVars, ledgerVars, baseVars, job>>

\* A chain read of the tick fails; a transient failure within the grace
\* window leaves signing as it was.
TickFault(transient) ==
  /\ tick # Idle
  /\ tick' = Idle
  /\ LET since == IF failingSince = 0 THEN now ELSE failingSince IN
     IF transient /\ signing
     THEN failingSince' = since /\ signing' = (now - since < Grace)
     ELSE signing' = FALSE /\ UNCHANGED failingSince
  /\ UNCHANGED <<chainVars, up, boots, rootVars, freezeVars, ledgerVars, baseVars, job>>

-----------------------------------------------------------------------------
(* submit(): one submission at a time, in two phases under the mutex. *)
DedupKeys == {d.key : d \in dedup}

\* prepareSubmitEvaluation up to its epoch read.
PrepareStart(m, q) ==
  /\ up /\ job = NoJob /\ MutexFree /\ Cardinality(signed) < MaxSigned
  /\ Gc(pending)
  /\ job' = IF frozen THEN NoJob ELSE [NoJob EXCEPT !.pc = "epochCheck", !.miner = m, !.patch = q, !.time = now]
  /\ UNCHANGED <<chainVars, up, boots, rootVars, healthVars, freezeVars, baseVars, tick>>

Admissible == /\ ~rolled /\ signing /\ liveRoot \in baselines
              /\ <<liveRoot, job.patch, "ScreenerPass">> \notin DedupKeys

\* The rest of it: a submission with another parent root, or one that does not
\* apply, is refused like an inadmissible one.
PrepareFinish ==
  /\ job.pc = "epochCheck"
  /\ \/ /\ Admissible
        /\ job' = [job EXCEPT !.pc = "evaluating", !.parent = liveRoot, !.gen = freezeGeneration]
        /\ UNCHANGED signing
     \/ /\ job' = NoJob
        /\ CheckEpochStillCurrent
     \/ /\ Faults # {}
        /\ job' = NoJob /\ signing' = FALSE
  /\ UNCHANGED <<chainVars, up, boots, rootVars, failingSince, freezeVars, ledgerVars, baseVars, tick>>

\* scorePatch, outside the mutex.  A score below the thresholds, an invalid
\* proof or rewrite and an evaluator failure all end the submission.
Evaluate(outcome) ==
  /\ job.pc = "evaluating"
  /\ job' = IF outcome = "reject" THEN NoJob ELSE [job EXCEPT !.pc = "scored", !.outcome = outcome]
  /\ UNCHANGED <<chainVars, up, boots, rootVars, healthVars, freezeVars, ledgerVars, baseVars, tick>>

\* Mutant: only the freeze flag is re-checked, not its generation.
StillAdmissibleFlagOnly ==
  /\ <<job.parent, job.patch, "ScreenerPass">> \notin DedupKeys
  /\ ~frozen /\ liveRoot = job.parent /\ liveRoot \in baselines /\ ~rolled

\* What finishSubmitAfterEvaluation re-checks before it reads the counters.
StillAdmissible ==
  /\ <<job.parent, job.patch, "ScreenerPass">> \notin DedupKeys
  /\ ~frozen /\ freezeGeneration = job.gen
  /\ liveRoot = job.parent
  /\ liveRoot \in baselines
  /\ ~rolled

FinishStart ==
  /\ job.pc = "scored" /\ MutexFree
  /\ \/ /\ StillAdmissible
        /\ job' = [job EXCEPT !.pc = "counters"]
        /\ UNCHANGED signing
     \/ /\ ~StillAdmissible
        /\ job' = NoJob
        /\ UNCHANGED signing
     \/ /\ Faults # {}
        /\ job' = NoJob /\ signing' = FALSE
  /\ UNCHANGED <<chainVars, up, boots, rootVars, failingSince, freezeVars, ledgerVars, baseVars, tick>>

\* Mutant: the chain alone decides the link.
FinishCountersChainOnly ==
  /\ job.pc = "counters"
  /\ job' = [job EXCEPT !.pc = "sign", !.index = NextIndex(chain, job.miner),
                       !.prev = LastReceipt(chain, job.miner)]
  /\ UNCHANGED <<chainVars, up, boots, rootVars, healthVars, freezeVars, ledgerVars, baseVars, tick>>

\* Mutant: only landed screener passes count towards the cap.
FinishCountersLandedOnly ==
  LET m == job.miner
      r == reservation[m]
      n == NextIndex(chain, m)
      ahead == m \in DOMAIN reservation /\ n < r.nextIndex
  IN
  /\ job.pc = "counters"
  /\ job' = IF job.outcome = "ScreenerPass" /\ Screeners(chain, m) >= Cap THEN NoJob
            ELSE [job EXCEPT !.pc = "sign", !.index = IF ahead THEN r.nextIndex ELSE n,
                             !.prev = IF ahead THEN r.last ELSE LastReceipt(chain, m)]
  /\ UNCHANGED <<chainVars, up, boots, rootVars, healthVars, freezeVars, ledgerVars, baseVars, tick>>

\* The link the receipt is signed for: the miner's reservation while it is
\* ahead of the chain, else what the chain says.
FinishCounters ==
  LET m == job.miner
      r == reservation[m]
      n == NextIndex(chain, m)
      ahead == m \in DOMAIN reservation /\ n < r.nextIndex
      count == Screeners(chain, m) + (IF ahead THEN r.nextIndex - n ELSE 0)
      refused == \/ ahead /\ r.last = NoReceipt
                 \/ job.outcome = "ScreenerPass" /\ count >= Cap
  IN
  /\ job.pc = "counters"
  /\ reservation' = IF ahead THEN reservation ELSE Restrict(reservation, DOMAIN reservation \ {m})
  /\ job' = IF refused THEN NoJob
            ELSE [job EXCEPT !.pc = "sign",
                             !.index = IF ahead THEN r.nextIndex ELSE n,
                             !.prev = IF ahead THEN r.last ELSE LastReceipt(chain, m)]
  /\ UNCHANGED <<chainVars, up, boots, rootVars, healthVars, freezeVars, pending, dedup, cache, baseVars, tick>>

\* The receipt, with the difficulty read last and the times of the first phase.
NewReceipt ==
  [miner |-> job.miner, outcome |-> job.outcome, index |-> job.index, prev |-> job.prev,
   parent |-> job.parent, patch |-> job.patch, difficulty |-> Difficulty(chain),
   issuedAt |-> job.time, expiresAt |-> job.time + Ttl]

Reserve(x, last) ==
  [m \in DOMAIN reservation \cup {x.miner} |->
     IF m = x.miner THEN [nextIndex |-> x.index + 1, last |-> last, expiresAt |-> x.expiresAt]
     ELSE reservation[m]]

\* Mutant: the patch is remembered under its signed hash only.
FinishSignSignedKey ==
  LET x == NewReceipt IN
  /\ job.pc = "sign"
  /\ signed' = signed \cup {x}
  /\ reservation' = Reserve(x, x)
  /\ dedup' = dedup \cup {[key |-> PatchKey(x), expiresAt |-> x.expiresAt]}
  /\ job' = NoJob
  /\ UNCHANGED <<now, chain, peak, reorgs, rolled, up, boots, rootVars, healthVars, freezeVars,
                 pending, cache, baseVars, tick>>

\* The signature, and the records kept of it.
FinishSign ==
  LET x == NewReceipt IN
  /\ job.pc = "sign"
  /\ signed' = signed \cup {x}
  /\ \E known \in SignerHashes : reservation' = Reserve(x, IF known THEN x ELSE NoReceipt)
  /\ dedup' = {d \in dedup : d.key # OriginalKey(x)} \cup {[key |-> OriginalKey(x), expiresAt |-> x.expiresAt]}
  /\ pending' = IF x.outcome = "ScreenerPass" THEN pending
                ELSE {p \in pending : PatchKey(p.x) # PatchKey(x)} \cup {[x |-> x, state |-> "pending"]}
  /\ cache' = [h \in DOMAIN cache \cup {PatchKey(x), OriginalKey(x)} |->
                IF h \in {PatchKey(x), OriginalKey(x)} THEN x ELSE cache[h]]
  /\ job' = NoJob
  /\ UNCHANGED <<now, chain, peak, reorgs, rolled, up, boots, rootVars, healthVars, freezeVars, baseVars, tick>>

\* The score is below the thresholds as they are now, or the evaluator's
\* rewrite of the patch is invalid.
FinishRejects ==
  /\ job.pc = "sign"
  /\ job' = NoJob
  /\ UNCHANGED <<chainVars, up, boots, rootVars, healthVars, freezeVars, ledgerVars, baseVars, tick>>

\* One of the two reads throws, a hash in the report is malformed, or the signer
\* fails or answers with something malformed.
FinishFails ==
  /\ job.pc \in {"counters", "sign"}
  /\ job' = NoJob
  /\ UNCHANGED <<chainVars, up, boots, rootVars, healthVars, freezeVars, ledgerVars, baseVars, tick>>

-----------------------------------------------------------------------------
(* Calls that do not take the mutex. *)
\* freeze() sets the flag at once and resolves when it gets the mutex.
\* (crossed is history: the evaluator was running at the time.)
Freeze ==
  /\ up /\ freezeGeneration < MaxFreezes
  /\ frozen' = TRUE /\ freezing' = TRUE
  /\ freezeGeneration' = freezeGeneration + 1
  /\ job' = IF job.pc \in {"evaluating", "scored"} THEN [job EXCEPT !.crossed = TRUE] ELSE job
  /\ UNCHANGED <<chainVars, up, boots, rootVars, healthVars, ledgerVars, baseVars, tick>>

\* Mutant: freeze() does not wait for the mutex.
FreezeResolvesAtOnce ==
  /\ freezing /\ freezing' = FALSE
  /\ UNCHANGED <<chainVars, up, boots, rootVars, healthVars, frozen, freezeGeneration, ledgerVars, baseVars, job, tick>>

FreezeResolves ==
  /\ freezing /\ MutexFree
  /\ freezing' = FALSE
  /\ UNCHANGED <<chainVars, up, boots, rootVars, healthVars, frozen, freezeGeneration, ledgerVars, baseVars, job, tick>>

Unfreeze ==
  /\ frozen /\ frozen' = FALSE
  /\ UNCHANGED <<chainVars, up, boots, rootVars, healthVars, freezing, freezeGeneration, ledgerVars, baseVars, job, tick>>

\* The roots a caller may name.
PatchLists == UNION {[1..n -> Patches] : n \in 0..MaxBlocks}

\* setRecomputedBaseline, for any root; invalidateBaselines.
SetRecomputedBaseline(root) ==
  /\ up /\ recomputes < MaxRecomputes
  /\ baselines' = baselines \cup {root} /\ recomputes' = recomputes + 1
  /\ UNCHANGED <<chainVars, up, boots, rootVars, healthVars, freezeVars, ledgerVars, job, tick>>

InvalidateBaselines ==
  /\ up /\ recomputes < MaxRecomputes
  /\ baselines' = {} /\ recomputes' = recomputes + 1
  /\ UNCHANGED <<chainVars, up, boots, rootVars, healthVars, freezeVars, ledgerVars, job, tick>>

\* getStatus reads the epoch; a transient failure starts the grace window.
GetStatus ==
  /\ up
  /\ \/ CheckEpochStillCurrent /\ UNCHANGED failingSince
     \/ TRUE \in Faults /\ signing /\ failingSince = 0 /\ failingSince' = now /\ UNCHANGED signing
  /\ UNCHANGED <<chainVars, up, boots, rootVars, freezeVars, ledgerVars, baseVars, job, tick>>

\* getReceiptByHash sweeps before it answers.
GetReceiptByHash ==
  /\ up /\ Gc(pending)
  /\ UNCHANGED <<chainVars, up, boots, rootVars, healthVars, freezeVars, baseVars, job, tick>>

-----------------------------------------------------------------------------
Init ==
  /\ ChainInit
  /\ up = FALSE /\ boots = 0
  /\ liveRoot = ParentRoot /\ transitions = 0 /\ snapshots = << >> /\ stateByRoot = {}
  /\ lastScanned = 0 /\ signing = FALSE /\ failingSince = 0
  /\ frozen = FALSE /\ freezing = FALSE /\ freezeGeneration = 0
  /\ reservation = << >>
  /\ baselines = {} /\ recomputes = 0
  /\ pending = {} /\ dedup = {} /\ cache = << >>
  /\ job = NoJob /\ tick = Idle

TickStep == TickStart \/ TickReorg \/ TickScan \/ TickParity \/ \E t \in Faults : TickFault(t)

SubmitStep ==
  \/ \E m \in Miners, q \in Patches : PrepareStart(m, q)
  \/ PrepareFinish
  \/ \E o \in {"reject", "ScreenerPass", "StateAdvance"} : Evaluate(o)
  \/ FinishStart
  \/ FinishCounters
  \/ FinishSign
  \/ FinishRejects
  \/ FinishFails

OtherStep ==
  \/ Freeze \/ FreezeResolves \/ Unfreeze
  \/ \E root \in PatchLists : SetRecomputedBaseline(root)
  \/ InvalidateBaselines
  \/ GetStatus \/ GetReceiptByHash

Next ==
  \/ ChainStep /\ UNCHANGED coreVars
  \/ Boot
  \/ Crash
  \/ TickStep
  \/ SubmitStep
  \/ OtherStep

Spec == Init /\ [][Next]_vars

\* The watcher's timer fires for ever and the RPC node keeps answering; the
\* mutex is FIFO, so a waiting phase gets its turn; evaluator and signer
\* answer; an orchestrator that freezes also unfreezes; the chain grows.
Fairness ==
  /\ WF_vars(Boot)
  /\ SF_vars(TickStart) /\ SF_vars(TickReorg) /\ SF_vars(TickScan) /\ SF_vars(TickParity)
  /\ WF_vars(PrepareFinish) /\ WF_vars(\E o \in {"reject", "ScreenerPass", "StateAdvance"} : Evaluate(o))
  /\ SF_vars(FinishStart) /\ WF_vars(FinishCounters) /\ WF_vars(FinishSign)
  /\ SF_vars(FreezeResolves) /\ WF_vars(Unfreeze)
  /\ WF_vars(MineEmpty /\ UNCHANGED coreVars)

FairSpec == Spec /\ Fairness

-----------------------------------------------------------------------------
(***************************************************************************)
(* Properties.                                                             *)
(***************************************************************************)
Live(x) == now < x.expiresAt

Roots == Seq(Patches)
Keys == Roots \X Patches \X {"ScreenerPass", "StateAdvance"}
IsReceipt(x) ==
  /\ x.miner \in Miners /\ PatchKey(x) \in Keys
  /\ x.index \in Nat /\ x.difficulty \in Nat /\ x.issuedAt \in Nat /\ x.expiresAt = x.issuedAt + Ttl

\* The variables have their types, and what the coordinator keeps about
\* receipts is about receipts it signed.
CoreTypeOK ==
  /\ \A x \in signed : IsReceipt(x)
  /\ liveRoot \in Roots /\ transitions \in Nat /\ lastScanned \in Nat
  /\ stateByRoot \subseteq Roots /\ baselines \subseteq Roots
  /\ {signing, frozen, freezing, up} \subseteq BOOLEAN
  /\ failingSince \in Nat /\ freezeGeneration \in Nat
  /\ \A p \in pending : p.x \in signed /\ p.state \in {"pending", "confirmed", "stale"}
  /\ \A d \in dedup : d.key \in Keys /\ d.expiresAt \in Nat
  /\ \A h \in DOMAIN cache : cache[h] \in signed /\ h \in {PatchKey(cache[h]), OriginalKey(cache[h])}
  /\ \A m \in DOMAIN reservation :
       m \in Miners /\ reservation[m].last \in signed \cup {NoReceipt} /\ reservation[m].nextIndex \in Nat

\* The coordinator's view is one branch of the registry's history: the
\* snapshots link up to the live root, the transition count is the length of
\* that branch, and the substrate of each of its roots is at hand
\* (applyChainEvent, handleReorg, boot).
SnapshotsLinked ==
  up => /\ liveRoot = IF snapshots = << >> THEN ParentRoot ELSE Last(snapshots).root
        /\ transitions = Len(liveRoot)
        /\ \A i \in DOMAIN snapshots : /\ snapshots[i].root \in stateByRoot
                                       /\ snapshots[i].block <= lastScanned
                                       /\ i > 1 => /\ snapshots[i].parent = snapshots[i-1].root
                                                   /\ snapshots[i].block > snapshots[i-1].block

\* A pending receipt is confirmed only if its advance is part of the branch the
\* coordinator follows, and one that was beaten to its parent root is not left
\* pending, through rollbacks and replays (applyChainEvent,
\* reconcilePendingFromCanonicalSnapshots).
PendingHonest ==
  \A p \in pending :
    /\ p.state = "confirmed" => IsPrefix(Append(p.x.parent, p.x.patch), liveRoot)
    /\ p.state = "pending" => ~IsStrictPrefix(p.x.parent, liveRoot)

\* No two unexpired receipts are signed for the same link of a miner's chain
\* (minerChainReservations).
OneReceiptPerLink ==
  \A x, y \in signed :
    x.miner = y.miner /\ x.index = y.index /\ Live(x) /\ Live(y) => x = y

\* One patch on one parent root has at most one unexpired receipt, whatever the
\* outcome of its evaluations (submitDedup, keyed by the original hash).
OneReceiptPerPatch ==
  \A x, y \in signed : OriginalKey(x) = OriginalKey(y) /\ Live(x) /\ Live(y) => x = y

\* The screener receipts a miner holds can all be landed within the cap: signed
\* and landed ones together never exceed it (effectiveScreenerCount).
CapHolds ==
  \A m \in Miners :
    Screeners(chain, m) +
      Cardinality({x \in signed : /\ x.miner = m /\ x.outcome = "ScreenerPass"
                                  /\ Live(x) /\ x.index >= NextIndex(chain, m)}) <= Cap

\* Once freeze() has resolved, and until unfreeze(), nothing is signed and the
\* live root does not move.
FreezeHolds ==
  [][frozen /\ ~freezing /\ up' => signed' = signed /\ liveRoot' = liveRoot]_vars

\* A submission whose evaluation was running when freeze() was called is never
\* signed, even if the core is unfrozen before the evaluation ends.
FreezeCutsInFlight == [][signed' # signed => ~job.crossed]_vars

\* The coordinator always catches up with the registry again and signs.
Synced == []<>(up /\ signing /\ liveRoot = LiveRootOf(chain))

\* Every submission is answered.
Answered == (job # NoJob) ~> (job = NoJob)
=============================================================================
