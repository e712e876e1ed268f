------------------------ MODULE CoordReceipts_proofs ------------------------
(***************************************************************************)
(* The receipts the coordinator signs and what it believes of them: in one *)
(* run of the process on a chain that does not reorganise, one receipt per *)
(* patch, one per link of a miner's chain, and no more screeners than the  *)
(* cap; and, whatever the chain does, those it holds carry the verdict of  *)
(* the branch it sees (HonestInv).                                         *)
(***************************************************************************)
EXTENDS CoordinatorCore_proofs

-----------------------------------------------------------------------------
(* The counters of a chain. *)
\* A block moves a miner's receipt index by at most one, and its screener count
\* by no more than that.
LEMMA CountersAppend ==
  ASSUME Counting, NEW c, IsSeq(c), NEW b, NEW m
  PROVE  LET d == Append(c, b)
             mine == b.tx # NoReceipt /\ b.tx.miner = m
         IN  /\ NextIndex(d, m) = NextIndex(c, m) + (IF mine THEN 1 ELSE 0)
             /\ Screeners(d, m) = Screeners(c, m)
                                    + (IF mine /\ b.tx.outcome = "ScreenerPass" THEN 1 ELSE 0)
<1> DEFINE d == Append(c, b)
           n == Len(c) + 1
           mine == b.tx # NoReceipt /\ b.tx.miner = m
           P(e) == {i \in BlocksOf(e, m) : e[i].tx.outcome = "ScreenerPass"}
<1>1. /\ DOMAIN d = DOMAIN c \cup {n} /\ n \notin DOMAIN c
      /\ d[n] = b /\ \A i \in DOMAIN c : d[i] = c[i]
  BY AppendFacts, SeqFacts
<1>2. BlocksOf(d, m) = BlocksOf(c, m) \cup (IF mine THEN {n} ELSE {})
  BY <1>1, Zenon DEF BlocksOf, TxBlocks
<1>3. P(d) = P(c) \cup (IF mine /\ b.tx.outcome = "ScreenerPass" THEN {n} ELSE {})
  BY <1>1, ZenonT(40) DEF BlocksOf, TxBlocks
<1>4. /\ IsFiniteSet(BlocksOf(c, m)) /\ IsFiniteSet(P(c))
      /\ n \notin BlocksOf(c, m) /\ n \notin P(c)
  BY <1>1, BlocksFinite, Zenon DEF BlocksOf, TxBlocks
<1>5. NextIndex(d, m) = NextIndex(c, m) + (IF mine THEN 1 ELSE 0)
  <2>1. Cardinality(BlocksOf(c, m) \cup {n}) = Cardinality(BlocksOf(c, m)) + 1
    BY <1>4, AddOne, Zenon
  <2>2. Cardinality(BlocksOf(c, m)) \in Nat
    BY CountersType, Zenon DEF NextIndex
  <2>3. CASE mine
    BY <1>2, <2>1, <2>3, ZenonT(40) DEF NextIndex
  <2>4. CASE ~mine
    <3>1. BlocksOf(d, m) = BlocksOf(c, m)
      BY <1>2, <2>4, Zenon
    <3> QED BY <3>1, <2>2, <2>4 DEF NextIndex
  <2> QED
    BY <2>3, <2>4, Zenon
<1>6. Screeners(d, m) = Screeners(c, m) + (IF mine /\ b.tx.outcome = "ScreenerPass" THEN 1 ELSE 0)
  <2>1. Cardinality(P(c) \cup {n}) = Cardinality(P(c)) + 1
    BY <1>4, AddOne, Zenon
  <2>2. Cardinality(P(c)) \in Nat
    BY CountersType, Zenon DEF Screeners
  <2>3. CASE mine /\ b.tx.outcome = "ScreenerPass"
    BY <1>3, <2>1, <2>3, Zenon DEF Screeners
  <2>4. CASE ~(mine /\ b.tx.outcome = "ScreenerPass")
    <3>1. P(d) = P(c)
      BY <1>3, <2>4, Zenon
    <3>2. Screeners(d, m) = Screeners(c, m) /\ Screeners(c, m) \in Nat
      BY <3>1, <2>2, Zenon DEF Screeners
    <3> QED BY <3>2, <2>4
  <2> QED
    BY <2>3, <2>4, ZenonT(40)
<1> QED
  BY <1>5, <1>6, Zenon

-----------------------------------------------------------------------------
(* One receipt per patch.  A restart empties submitDedup, and after two    *)
(* rollbacks a lapsed receipt can be pending again and take the entry of   *)
(* its successor with it: the promise is about one run of the process on a *)
(* chain that does not reorganise.                                         *)
Undisturbed == boots <= 1 /\ reorgs = 0

HasEntry(x) == \E d \in dedup : d.key = OriginalKey(x) /\ d.expiresAt = x.expiresAt
Remembers(ps) == \A p \in ps : p.state = "pending" => HasEntry(p.x)
MemoryInv ==
  /\ \A d, e \in dedup : d.key = e.key => d.expiresAt = e.expiresAt
  /\ \A x \in signed : Live(x) => HasEntry(x)
  /\ Remembers(pending)
FreshJob == job.pc \in {"counters", "sign"} => <<job.parent, job.patch, "ScreenerPass">> \notin DedupKeys

PatchInv == Undisturbed => OneReceiptPerPatch /\ (up => MemoryInv /\ FreshJob)

LEMMA ExpiryType == ASSUME TypesInv PROVE now \in Nat /\ \A x \in signed : x.expiresAt \in Nat
BY CoreAssumption DEF TypesInv, SignedOK, ClockOK

LEMMA UpStep == Next /\ ~(Boot \/ Crash) => UNCHANGED <<up, boots>>
<1> SUFFICES ASSUME Next, ~(Boot \/ Crash) PROVE UNCHANGED <<up, boots>>
  BY Zenon 
<1>1. UNCHANGED coreVars => UNCHANGED <<up, boots>>
  BY Zenon DEF coreVars
<1>2. TickStep => UNCHANGED <<up, boots>>
  BY Zenon DEF TickStep, TickStart, TickReorg, TickScan, TickParity, TickFault
<1>3. SubmitStep => UNCHANGED <<up, boots>>
  BY Zenon DEF SubmitStep, PrepareStart, PrepareFinish, Evaluate, FinishStart, FinishCounters, FinishSign, FinishRejects, FinishFails
<1>4. OtherStep => UNCHANGED <<up, boots>>
  BY Zenon DEF OtherStep, Freeze, FreezeResolves, Unfreeze, SetRecomputedBaseline, InvalidateBaselines, GetStatus, GetReceiptByHash
<1> QED
  BY <1>1, <1>2, <1>3, <1>4, Zenon DEF Next

\* The other steps: the watcher, the submission up to its second phase, the
\* calls outside the mutex.
Bookkeeping ==
  /\ Next /\ ~(ChainStep /\ UNCHANGED coreVars) /\ ~Boot /\ ~Crash
  /\ ~FinishStart /\ ~FinishCounters /\ ~FinishSign

\* Without a reorganisation they sweep the tables or settle pending receipts.
LEMMA LedgerMoves ==
  ASSUME TypesInv, StampInv, reorgs = 0, Bookkeeping
  PROVE  \/ UNCHANGED <<dedup, reservation>> /\ (UNCHANGED pending \/ \E evs : pending' = PendingAfter(evs))
         \/ \E ps : Gc(ps) /\ (ps = pending \/ \E r : ps = Audited(pending, r))
<1>1. CASE TickStep
  <2>1. CASE TickStart \/ \E t \in Faults : TickFault(t)
    BY <2>1, Zenon DEF TickStart, TickFault, ledgerVars
  <2>2. CASE TickReorg
    <3>1. UNCHANGED pending
      BY <2>2, NoRollback, Zenon
    <3> QED
      BY <2>2, <3>1, Zenon DEF TickReorg
  <2>3. CASE TickScan
    <3>1. UNCHANGED <<dedup, reservation>>
      BY <2>3, Zenon DEF TickScan
    <3>2. UNCHANGED pending \/ \E evs : pending' = PendingAfter(evs)
      BY <2>3, Zenon DEF TickScan, ApplyEvents
    <3> QED
      BY <3>1, <3>2, Zenon
  <2>4. CASE TickParity
    <3>1. Gc(IF InParity THEN Audited(pending, stateByRoot) ELSE pending)
      BY <2>4, Zenon DEF TickParity
    <3> QED
      BY <3>1, Zenon
  <2> QED
    BY <1>1, <2>1, <2>2, <2>3, <2>4, Zenon DEF TickStep
<1>2. CASE SubmitStep
  <2>1. Gc(pending) \/ UNCHANGED ledgerVars
    BY <1>2, Zenon DEF Bookkeeping, SubmitStep, PrepareStart, PrepareFinish, Evaluate, FinishRejects, FinishFails
  <2> QED
    BY <2>1, Zenon DEF ledgerVars
<1>3. CASE OtherStep
  <2>1. Gc(pending) \/ UNCHANGED ledgerVars
    BY <1>3, Zenon DEF OtherStep, Freeze, FreezeResolves, Unfreeze, SetRecomputedBaseline, InvalidateBaselines,
                GetStatus, GetReceiptByHash
  <2> QED
    BY <2>1, Zenon DEF ledgerVars
<1> QED
  BY <1>1, <1>2, <1>3, Zenon DEF Bookkeeping, Next

LEMMA JobMoves ==
  ASSUME TypesInv, Bookkeeping
  PROVE  UNCHANGED job \/ job'.pc \notin {"counters", "sign"}
<1>0. JobOK /\ NoJob.pc = "none"
  BY NoJobFields, Zenon DEF TypesInv
<1>1. CASE TickStep
  BY <1>1, Zenon DEF TickStep, TickStart, TickReorg, TickScan, TickParity, TickFault
<1>2. CASE \E m \in Miners, q \in Patches : PrepareStart(m, q)
  BY <1>0, <1>2, NoJobFields, ZenonT(40) DEF PrepareStart, JobFields
<1>3. CASE PrepareFinish
  <2>1. job' = NoJob \/ job' = [job EXCEPT !.pc = "evaluating", !.parent = liveRoot, !.gen = freezeGeneration]
    BY <1>3, Zenon DEF PrepareFinish
  <2> QED
    BY <1>0, <2>1, Zenon DEF JobOK, JobFields
<1>4. CASE (\E o \in {"reject", "ScreenerPass", "StateAdvance"} : Evaluate(o)) \/ FinishRejects \/ FinishFails
  BY <1>0, <1>4, Zenon DEF Evaluate, FinishRejects, FinishFails, JobOK, JobFields
<1>5. CASE OtherStep
  BY <1>0, <1>5, ZenonT(60) DEF OtherStep, Freeze, FreezeResolves, Unfreeze, SetRecomputedBaseline, InvalidateBaselines,
              GetStatus, GetReceiptByHash, JobOK, JobFields
<1> QED
  BY <1>1, <1>2, <1>3, <1>4, <1>5, ZenonT(40) DEF Bookkeeping, Next, SubmitStep

LEMMA StillUndisturbed == ASSUME TypesInv, [Next]_vars, Undisturbed' PROVE Undisturbed
<1>0. boots \in Nat /\ reorgs \in Nat
  BY Zenon DEF TypesInv, ClockOK
<1>1. boots' \in {boots, boots + 1}
  <2>1. Boot => boots' = boots + 1
    BY Zenon DEF Boot
  <2>2. Crash => boots' = boots
    BY Zenon DEF Crash
  <2>3. UNCHANGED vars => boots' = boots
    BY Zenon DEF vars, coreVars
  <2> QED
    BY <2>1, <2>2, <2>3, UpStep, Zenon
<1>2. reorgs' \in {reorgs, reorgs + 1}
  <2>1. UNCHANGED vars => reorgs' = reorgs
    BY Zenon DEF vars, chainVars
  <2> QED
    BY <2>1, ClockStep, ChainMoves, Zenon
<1> QED
  BY <1>0, <1>1, <1>2 DEF Undisturbed

\* The first boot finds nothing signed.
LEMMA FirstBoot ==
  ASSUME TypesInv, Boot, Undisturbed'
  PROVE  signed' = {} /\ dedup' = {} /\ pending' = {} /\ reservation' = << >> /\ job' = NoJob
<1>1. Forgotten /\ pending' = {} /\ boots' = boots + 1 /\ UNCHANGED chainVars
  BY Zenon DEF Boot
<1>2. boots = 0
  BY <1>1 DEF TypesInv, ClockOK, Undisturbed
<1> QED
  BY <1>1, <1>2, Zenon DEF Forgotten, TypesInv, ClockOK, chainVars

LEMMA PatchOnce == ASSUME Counting PROVE Spec => [](Undisturbed => OneReceiptPerPatch)
<1>PatchStep. TypesInv /\ StampInv /\ PatchInv /\ [Next]_vars => PatchInv'
  \* A sweep forgets no patch whose receipt is live.
  <2>GcRemembers. ASSUME TypesInv, MemoryInv, NEW ps, PendingOK(ps), Remembers(ps), Gc(ps), UNCHANGED <<now, signed>>
                  PROVE  MemoryInv'
    <3> USE <2>GcRemembers
    <3>0. now \in Nat /\ \A x \in signed : x.expiresAt \in Nat
      BY ExpiryType, Zenon
    <3>1. dedup' \subseteq dedup
      BY Zenon DEF Gc, GcDedup
    <3>2. ASSUME NEW x \in signed, now < x.expiresAt, HasEntry(x) PROVE HasEntry(x)'
      <4>1. PICK d \in dedup : d.key = OriginalKey(x) /\ d.expiresAt = x.expiresAt
        BY <3>2, Zenon DEF HasEntry
      <4>2. ASSUME NEW p \in Lapsed(ps), OriginalKey(p.x) = d.key PROVE FALSE
        <5>1. p \in ps /\ p.state = "pending" /\ p.x.expiresAt <= now /\ p.x \in signed
          BY <4>2, Zenon DEF Lapsed, PendingOK
        <5>2. PICK e \in dedup : e.key = OriginalKey(p.x) /\ e.expiresAt = p.x.expiresAt
          BY <5>1, Zenon DEF Remembers, HasEntry
        <5>3. e.expiresAt = d.expiresAt
          BY <4>2, <5>2, ZenonT(60) DEF MemoryInv
        <5> QED
          BY <3>0, <3>2, <4>1, <5>1, <5>2, <5>3, SMTT(30)
      <4>3. d.expiresAt > now
        BY <3>0, <3>2, <4>1, Zenon
      <4>4. d \in dedup'
        BY <4>2, <4>3, Zenon DEF Gc, GcDedup
      <4> QED
        BY <4>1, <4>4, Zenon DEF HasEntry
    <3>3. \A x \in signed' : Live(x)' => HasEntry(x)'
      BY <3>2, Zenon DEF Live, MemoryInv
    <3>4. Remembers(pending)'
      <4> SUFFICES ASSUME NEW p \in pending', p.state = "pending" PROVE HasEntry(p.x)'
        BY Zenon DEF Remembers
      <4>1. p \in ps /\ p \notin Lapsed(ps) /\ p.x \in signed
        BY Zenon DEF Gc, PendingOK
      <4>2. now < p.x.expiresAt
        BY <4>1, <3>0 DEF Lapsed
      <4>3. HasEntry(p.x)
        BY <4>1, Zenon DEF Remembers
      <4> QED
        BY <3>2, <4>1, <4>2, <4>3, ZenonT(40)
    <3> QED
      BY <3>1, <3>3, <3>4, Zenon DEF MemoryInv
  <2>FreshFrame. ASSUME FreshJob, dedup' \subseteq dedup, UNCHANGED job PROVE FreshJob'
    BY <2>FreshFrame, Zenon DEF FreshJob, DedupKeys
  <2>PatchFrame. ASSUME OneReceiptPerPatch, UNCHANGED <<now, signed>> PROVE OneReceiptPerPatch'
    BY <2>PatchFrame, Zenon DEF OneReceiptPerPatch, Live
  <2>MemoryFrame. ASSUME MemoryInv, UNCHANGED <<now, signed, dedup>>, Remembers(pending') PROVE MemoryInv'
    BY <2>MemoryFrame, Zenon DEF MemoryInv, Live, Remembers, HasEntry
  <2>AuditedRemembers. ASSUME NEW ps, PendingOK(ps), Remembers(ps), NEW roots PROVE Remembers(Audited(ps, roots))
    <3> USE <2>AuditedRemembers
    <3> SUFFICES ASSUME NEW q \in Audited(ps, roots), q.state = "pending" PROVE HasEntry(q.x)
      BY Zenon DEF Remembers
    <3>1. q \in ps
      BY Zenon DEF Audited, PendingOK
    <3> QED
      BY <3>1, Zenon DEF Remembers
  <2>AfterRemembers. ASSUME PendingOK(pending), Remembers(pending), NEW evs PROVE Remembers(PendingAfter(evs))
    <3> USE <2>AfterRemembers
    <3> SUFFICES ASSUME NEW q \in PendingAfter(evs), q.state = "pending" PROVE HasEntry(q.x)
      BY Zenon DEF Remembers
    <3>1. q \in pending
      BY Zenon DEF PendingAfter, PendingOK
    <3> QED
      BY <3>1, Zenon DEF Remembers
  <2> SUFFICES ASSUME TypesInv, StampInv, PatchInv, [Next]_vars, Undisturbed'
               PROVE  OneReceiptPerPatch' /\ (up' => MemoryInv' /\ FreshJob')
    BY Zenon DEF PatchInv
  <2>0. /\ Undisturbed /\ reorgs = 0 /\ OneReceiptPerPatch /\ (up => MemoryInv /\ FreshJob)
        /\ PendingOK(pending) /\ JobOK /\ (MemoryInv => Remembers(pending))
    BY StillUndisturbed, Zenon DEF PatchInv, Undisturbed, TypesInv, LedgerOK, MemoryInv
  <2>1. CASE UNCHANGED vars
    <3>1. UNCHANGED <<now, signed, up, dedup, pending, job>>
      BY <2>1, Zenon DEF vars, chainVars, coreVars, ledgerVars
    <3>2. dedup' \subseteq dedup
      BY <3>1, Zenon
    <3> QED
      BY <2>0, <3>1, <3>2, <2>PatchFrame, <2>MemoryFrame, <2>FreshFrame, Zenon
  <2>2. CASE ChainStep /\ UNCHANGED coreVars
    <3>1. UNCHANGED <<signed, up, dedup, pending, job>> /\ now' \in {now, now + 1}
      BY <2>2, ChainMoves, Zenon DEF coreVars, ledgerVars
    <3>2. \A x \in signed : Live(x)' => Live(x)
      BY <3>1, ExpiryType, SMTT(30) DEF Live
    <3>3. OneReceiptPerPatch'
      BY <2>0, <3>1, <3>2, Zenon DEF OneReceiptPerPatch
    <3>4. MemoryInv => MemoryInv'
      BY <3>1, <3>2, Zenon DEF MemoryInv, Remembers, HasEntry
    <3>5. FreshJob => FreshJob'
      BY <3>1, Zenon DEF FreshJob, DedupKeys
    <3> QED
      BY <2>0, <3>1, <3>3, <3>4, <3>5, Zenon
  <2>3. CASE Boot
    BY <2>3, FirstBoot, NoJobFields, ZenonT(40) DEF OneReceiptPerPatch, MemoryInv, Remembers, FreshJob
  <2>4. CASE Crash
    <3>1. ~up' /\ UNCHANGED <<now, signed>>
      BY <2>4, Zenon DEF Crash, chainVars
    <3> QED
      BY <2>0, <3>1, <2>PatchFrame, Zenon
  <2>5. CASE FinishStart
    <3>1. UNCHANGED <<chainVars, up, ledgerVars>>
      BY <2>5, Zenon DEF FinishStart
    <3>2. UNCHANGED <<now, signed, dedup, pending>>
      BY <3>1, Zenon DEF chainVars, ledgerVars
    <3>3. OneReceiptPerPatch' /\ (up' => MemoryInv')
      BY <2>0, <3>1, <3>2, <2>PatchFrame, <2>MemoryFrame, ZenonT(40)
    <3>4. FreshJob'
      <4>1. CASE job' = NoJob
        BY <4>1, NoJobFields, Zenon DEF FreshJob
      <4>2. CASE StillAdmissible /\ job' = [job EXCEPT !.pc = "counters"]
        <5>1. <<job.parent, job.patch, "ScreenerPass">> \notin DedupKeys
          BY <4>2, Zenon DEF StillAdmissible
        <5>2. job'.parent = job.parent /\ job'.patch = job.patch
          BY <4>2, <2>0, Zenon DEF JobOK, JobFields
        <5> QED
          BY <5>1, <5>2, <3>2, Zenon DEF FreshJob, DedupKeys
      <4> QED
        BY <2>5, <4>1, <4>2, Zenon DEF FinishStart
    <3> QED
      BY <3>3, <3>4, Zenon
  <2>6. CASE FinishCounters
    <3>1. UNCHANGED <<chainVars, up, pending, dedup>> /\ job.pc = "counters"
      BY <2>6, Zenon DEF FinishCounters
    <3>2. UNCHANGED <<now, signed>>
      BY <3>1, Zenon DEF chainVars
    <3>3. OneReceiptPerPatch' /\ (up' => MemoryInv')
      BY <2>0, <3>1, <3>2, <2>PatchFrame, <2>MemoryFrame, Zenon
    <3>4. job' = NoJob \/ \E i, p : job' = [job EXCEPT !.pc = "sign", !.index = i, !.prev = p]
      BY <2>6, ZenonT(60) DEF FinishCounters
    <3>5. job' = NoJob \/ (job'.parent = job.parent /\ job'.patch = job.patch)
      BY <3>4, <2>0, ZenonT(60) DEF JobOK, JobFields
    <3>6. FreshJob => FreshJob'
      BY <3>1, <3>5, NoJobFields, ZenonT(40) DEF FreshJob, DedupKeys
    <3> QED
      BY <2>0, <3>1, <3>3, <3>6, Zenon
  <2>7. CASE FinishSign
    <3>0. PICK x : x = NewReceipt
      BY Zenon
    <3>1. /\ up /\ job.pc = "sign" /\ job' = NoJob /\ UNCHANGED now
          /\ signed' = signed \cup {x}
          /\ dedup' = {d \in dedup : d.key # OriginalKey(x)} \cup {[key |-> OriginalKey(x), expiresAt |-> x.expiresAt]}
          /\ pending' \subseteq pending \cup {[x |-> x, state |-> "pending"]}
      BY <2>7, <2>0, <3>0, ZenonT(60) DEF FinishSign, JobOK
    <3>2. OriginalKey(x) = <<job.parent, job.patch, "ScreenerPass">>
      BY <3>0, Zenon DEF OriginalKey, NewReceipt
    <3>3. MemoryInv /\ OriginalKey(x) \notin DedupKeys
      BY <2>0, <3>1, <3>2, ZenonT(60) DEF FreshJob
    <3>4. \A y \in signed : Live(y) => OriginalKey(y) # OriginalKey(x)
      BY <3>3, ZenonT(60) DEF MemoryInv, HasEntry, DedupKeys
    <3>5. OneReceiptPerPatch'
      BY <2>0, <3>1, <3>4, Zenon DEF OneReceiptPerPatch, Live
    <3>a. PICK n : n = [key |-> OriginalKey(x), expiresAt |-> x.expiresAt]
      BY ZenonT(60)
    <3>b. n.key = OriginalKey(x) /\ n.expiresAt = x.expiresAt /\ dedup' = dedup \cup {n}
      BY <3>a, <3>1, <3>3, ZenonT(40) DEF DedupKeys
    <3>6. HasEntry(x)' /\ \A y : HasEntry(y) => HasEntry(y)'
      BY <3>b, Zenon DEF HasEntry
    <3>c. \A d \in dedup : d.key # n.key
      BY <3>b, <3>3, Zenon DEF DedupKeys
    <3>7. \A d, e \in dedup' : d.key = e.key => d.expiresAt = e.expiresAt
      BY <3>b, <3>c, <3>3, ZenonT(40) DEF MemoryInv
    <3>8. \A y \in signed' : Live(y)' => HasEntry(y)'
      BY <3>1, <3>3, <3>6, Zenon DEF MemoryInv, Live
    <3>9. Remembers(pending)'
      BY <3>1, <3>3, <3>6, SMTT(30) DEF MemoryInv, Remembers
    <3>10. FreshJob'
      BY <3>1, NoJobFields, Zenon DEF FreshJob
    <3> QED
      BY <3>5, <3>7, <3>8, <3>9, <3>10, Zenon DEF MemoryInv
  <2>8. CASE Bookkeeping
    <3>1. UNCHANGED <<now, signed, up>>
      BY <2>8, ClockStep, SignedStep, UpStep, Zenon DEF Bookkeeping
    <3>2. OneReceiptPerPatch'
      BY <2>0, <3>1, <2>PatchFrame, Zenon
    <3>3. CASE UNCHANGED dedup /\ (UNCHANGED pending \/ \E evs : pending' = PendingAfter(evs))
      <4>1. MemoryInv => Remembers(pending')
        BY <2>0, <3>3, <2>AfterRemembers, ZenonT(40)
      <4> QED
        BY <2>0, <3>1, <3>2, <3>3, <4>1, <2>MemoryFrame, <2>8, JobMoves, <2>FreshFrame, ZenonT(40) DEF FreshJob
    <3>4. CASE \E ps : Gc(ps) /\ (ps = pending \/ \E r : ps = Audited(pending, r))
      <4>1. PICK ps : Gc(ps) /\ (ps = pending \/ \E r : ps = Audited(pending, r))
        BY <3>4, Zenon
      <4>2. PendingOK(ps) /\ (MemoryInv => Remembers(ps))
        BY <2>0, <4>1, AuditedOK, <2>AuditedRemembers, Zenon
      <4>3. MemoryInv => MemoryInv'
        BY <3>1, <4>1, <4>2, <2>GcRemembers, Zenon
      <4>4. dedup' \subseteq dedup
        BY <4>1, Zenon DEF Gc, GcDedup
      <4> QED
        BY <2>0, <3>1, <3>2, <4>3, <4>4, <2>8, JobMoves, <2>FreshFrame, ZenonT(40) DEF FreshJob
    <3> QED
      BY <2>0, <2>8, <3>3, <3>4, LedgerMoves, ZenonT(40)
  <2> QED
    BY <2>1, <2>2, <2>3, <2>4, <2>5, <2>6, <2>7, <2>8, ZenonT(40) DEF Bookkeeping
<1>1. Init => PatchInv
  BY Zenon DEF Init, ChainInit, PatchInv, OneReceiptPerPatch
<1>2. PatchInv => (Undisturbed => OneReceiptPerPatch)
  BY Zenon DEF PatchInv
<1> QED
  BY <1>1, <1>2, <1>PatchStep, StampAlways, PTL DEF Spec

-----------------------------------------------------------------------------
(* One receipt per link of a miner's chain.  The reservation of a miner    *)
(* outlives every live receipt it was made for, or the chain has passed    *)
(* it; the next index is taken beyond both.                                *)
Taken(x) == \/ x.index < NextIndex(chain, x.miner)
            \/ x.miner \in DOMAIN reservation /\ x.index < reservation[x.miner].nextIndex
ReservedInv ==
  /\ \A x \in signed : Live(x) => Taken(x)
  /\ \A x \in signed : x.miner \in DOMAIN reservation => x.expiresAt <= reservation[x.miner].expiresAt
NextJob == job.pc = "sign" => \A x \in signed : Live(x) /\ x.miner = job.miner => x.index < job.index

LinkInv == Undisturbed => OneReceiptPerLink /\ (up => ReservedInv /\ NextJob)

LEMMA LinkAlways == ASSUME Counting PROVE Spec => []LinkInv
<1>LinkStep. TypesInv /\ StampInv /\ LinkInv /\ [Next]_vars => LinkInv'
  <2>LinkFrame. ASSUME OneReceiptPerLink, UNCHANGED <<now, signed>> PROVE OneReceiptPerLink'
    BY <2>LinkFrame, Zenon DEF OneReceiptPerLink, Live
  <2>ReservedFrame. ASSUME ReservedInv, UNCHANGED <<now, chain, signed, reservation>> PROVE ReservedInv'
    BY <2>ReservedFrame, Zenon DEF ReservedInv, Live, Taken
  <2>NextJobFrame. ASSUME NextJob, UNCHANGED <<now, signed, job>> PROVE NextJob'
    BY <2>NextJobFrame, ZenonT(40) DEF NextJob, Live
  <2>GcReserves. ASSUME TypesInv, ReservedInv, NEW ps, Gc(ps), UNCHANGED <<now, chain, signed>>
                 PROVE  ReservedInv'
    <3> USE <2>GcReserves
    <3>0. now \in Nat /\ \A x \in signed : x.expiresAt \in Nat
      BY ExpiryType, Zenon
    <3>1. /\ DOMAIN reservation' = {m \in DOMAIN reservation : reservation[m].expiresAt > now}
          /\ \A m \in DOMAIN reservation' : reservation'[m] = reservation[m]
      BY Zenon DEF Gc, GcReservation
    <3>2. \A m \in DOMAIN reservation : reservation[m].expiresAt \in Nat
      BY Zenon DEF TypesInv, LedgerOK
    <3>3. ASSUME NEW x \in signed, Live(x) PROVE Taken(x)'
      <4>1. CASE x.index < NextIndex(chain, x.miner)
        BY <4>1, Zenon DEF Taken
      <4>2. CASE x.miner \in DOMAIN reservation /\ x.index < reservation[x.miner].nextIndex
        <5>1. x.expiresAt <= reservation[x.miner].expiresAt
          BY <4>2, Zenon DEF ReservedInv
        <5>2. reservation[x.miner].expiresAt > now
          BY <5>1, <4>2, <3>0, <3>2, <3>3, SMTT(30) DEF Live
        <5> QED
          BY <5>2, <4>2, <3>1, Zenon DEF Taken
      <4> QED
        BY <3>3, <4>1, <4>2, Zenon DEF ReservedInv, Taken
    <3>4. \A x \in signed : x.miner \in DOMAIN reservation' => x.expiresAt <= reservation'[x.miner].expiresAt
      BY <3>1, Zenon DEF ReservedInv
    <3> QED
      BY <3>3, <3>4, Zenon DEF ReservedInv, Live
  \* The chain counters only grow.
  <2>CountersGrow. ASSUME TypesInv, ChainStep, reorgs' = reorgs, NEW m
                   PROVE  /\ NextIndex(chain, m) \in Nat /\ NextIndex(chain, m)' \in Nat
                          /\ NextIndex(chain, m) <= NextIndex(chain, m)'
    <3> USE <2>CountersGrow
    <3>0. IsSeq(chain) /\ IsSeq(chain') /\ reorgs \in Nat
      BY ChainStaysSeq, Zenon DEF TypesInv, ClockOK
    <3>1. NextIndex(chain, m) \in Nat /\ NextIndex(chain', m) \in Nat
      BY <3>0, CountersType, Zenon
    <3>2. UNCHANGED chain \/ \E b : chain' = Append(chain, b)
      <4>1. reorgs' # reorgs + 1
        BY <3>0
      <4> QED
        BY <4>1, ChainMoves, Zenon
    <3>3. ASSUME NEW b, chain' = Append(chain, b) PROVE NextIndex(chain, m) <= NextIndex(chain', m)
      <4>1. NextIndex(chain', m) = NextIndex(chain, m) + (IF b.tx # NoReceipt /\ b.tx.miner = m THEN 1 ELSE 0)
        BY <3>0, <3>3, CountersAppend
      <4> QED
        BY <4>1, <3>1, SMTT(30)
    <3> QED
      BY <3>1, <3>2, <3>3, SMTT(30)
  <2>LinkCounters. ASSUME TypesInv, ReservedInv, FinishCounters
                   PROVE  ReservedInv' /\ NextJob'
    <3> USE <2>LinkCounters
    <3> DEFINE m == job.miner
               r == reservation[m]
               n == NextIndex(chain, m)
               ahead == m \in DOMAIN reservation /\ n < r.nextIndex
    <3>0. /\ UNCHANGED <<now, chain, signed>> /\ JobOK /\ IsSeq(chain) /\ SignedOK /\ LedgerOK
      BY Zenon DEF FinishCounters, chainVars, TypesInv
    <3>1. /\ reservation' = IF ahead THEN reservation ELSE Restrict(reservation, DOMAIN reservation \ {m})
          /\ \/ job' = NoJob
             \/ \E p : job' = [job EXCEPT !.pc = "sign", !.index = IF ahead THEN r.nextIndex ELSE n, !.prev = p]
      BY Zenon DEF FinishCounters
    <3>2. n \in Nat /\ (m \in DOMAIN reservation => r.nextIndex \in Nat)
      BY <3>0, CountersType, Zenon DEF LedgerOK
    <3>3. ASSUME NEW x \in signed, Live(x), x.miner = m PROVE x.index < IF ahead THEN r.nextIndex ELSE n
      <4>1. Taken(x) /\ x.index \in Nat
        BY <3>0, <3>3, Zenon DEF ReservedInv, SignedOK
      <4> QED
        BY <4>1, <3>2, <3>3, SMTT(30) DEF Taken
    <3>4. NextJob'
      <4>1. job'.pc = "sign" => job'.miner = m /\ job'.index = IF ahead THEN r.nextIndex ELSE n
        BY <3>0, <3>1, NoJobFields, ZenonT(60) DEF JobOK, JobFields
      <4> QED
        BY <4>1, <3>0, <3>3, Zenon DEF NextJob, Live
    <3>5. ReservedInv'
      <4>1. CASE ahead
        BY <4>1, <3>0, <3>1, <2>ReservedFrame, ZenonT(60)
      <4>2. CASE ~ahead
        <5>1. DOMAIN reservation' = DOMAIN reservation \ {m} /\ \A k \in DOMAIN reservation' : reservation'[k] = reservation[k]
          BY <4>2, <3>1, ZenonT(60) DEF Restrict
        <5>2. ASSUME NEW x \in signed, Live(x) PROVE Taken(x)'
          <6>1. CASE x.miner = m
            BY <6>1, <4>2, <5>2, <3>0, <3>3, ZenonT(40) DEF Taken
          <6>2. CASE x.miner # m
            BY <6>2, <5>1, <5>2, <3>0, ZenonT(60) DEF Taken, ReservedInv
          <6> QED
            BY <6>1, <6>2, Zenon
        <5> QED
          BY <5>1, <5>2, <3>0, Zenon DEF ReservedInv, Live
      <4> QED
        BY <4>1, <4>2, Zenon
    <3> QED
      BY <3>4, <3>5, Zenon
  <2>LinkSign. ASSUME TypesInv, ReservedInv, NextJob, OneReceiptPerLink, FinishSign
               PROVE  OneReceiptPerLink' /\ ReservedInv' /\ NextJob'
    <3> USE <2>LinkSign
    <3>0. PICK x : x = NewReceipt
      BY Zenon
    <3>1. /\ UNCHANGED <<now, chain>> /\ signed' = signed \cup {x} /\ job' = NoJob /\ job.pc = "sign"
          /\ \E l : reservation' = Reserve(x, l)
      BY <3>0, ZenonT(60) DEF FinishSign
    <3>2. x.miner = job.miner /\ x.index = job.index /\ x.issuedAt = job.time /\ x.expiresAt = job.time + Ttl
      BY <3>0, Zenon DEF NewReceipt
    <3>3. /\ Ttl \in Nat /\ x.index \in Nat /\ x.expiresAt \in Nat /\ job.time \in Nat
          /\ \A y \in signed : /\ y.index \in Nat /\ y.issuedAt \in Nat /\ y.issuedAt <= job.time
                               /\ y.expiresAt = y.issuedAt + Ttl
      <4>1. job.index \in Nat /\ job.time \in Nat /\ \A y \in signed : y.issuedAt <= job.time
        BY <3>1, Zenon DEF TypesInv, JobOK
      <4>2. \A y \in signed : y.index \in Nat /\ y.issuedAt \in Nat /\ y.expiresAt = y.issuedAt + Ttl
        BY Zenon DEF TypesInv, SignedOK
      <4>3. Ttl \in Nat
        BY CoreAssumption, Zenon
      <4> QED
        BY <3>2, <4>1, <4>2, <4>3
    <3>4. \A y \in signed : Live(y) /\ y.miner = x.miner => y.index < x.index
      BY <3>1, <3>2, Zenon DEF NextJob
    <3>5. OneReceiptPerLink'
      <4>1. \A y \in signed : Live(y) /\ y.miner = x.miner => y.index # x.index
        BY <3>3, <3>4
      <4> QED
        BY <4>1, <3>1, SMTT(30) DEF OneReceiptPerLink, Live
    <3>6. PICK l : reservation' = Reserve(x, l)
      BY <3>1, Zenon
    <3>7. /\ DOMAIN reservation' = DOMAIN reservation \cup {x.miner}
          /\ reservation'[x.miner].nextIndex = x.index + 1 /\ reservation'[x.miner].expiresAt = x.expiresAt
          /\ \A m \in DOMAIN reservation : m # x.miner => reservation'[m] = reservation[m]
      BY <3>6, Zenon DEF Reserve
    <3>8. ASSUME NEW y \in signed', Live(y)' PROVE Taken(y)'
      <4>1. CASE y.miner = x.miner
        <5>0. \A i, j \in Nat : (i < j \/ i = j) => i < j + 1
          OBVIOUS
        <5>1. y.index \in Nat /\ (y.index < x.index \/ y.index = x.index)
          BY <4>1, <3>1, <3>3, <3>4, <3>8, Zenon DEF Live
        <5>2. y.index < reservation'[y.miner].nextIndex
          BY <5>0, <5>1, <4>1, <3>3, <3>7, Zenon
        <5> QED
          BY <5>2, <4>1, <3>7, Zenon DEF Taken
      <4>2. CASE y.miner # x.miner
        <5>1. Taken(y)
          BY <4>2, <3>1, <3>8, Zenon DEF ReservedInv, Live
        <5> QED
          BY <5>1, <4>2, <3>1, <3>7, Zenon DEF Taken
      <4> QED
        BY <4>1, <4>2, Zenon
    <3>9. ASSUME NEW y \in signed', y.miner \in DOMAIN reservation'
          PROVE  y.expiresAt <= reservation'[y.miner].expiresAt
      <4>1. CASE y.miner = x.miner
        <5>0. /\ \A i, j \in Nat : i <= j => i + Ttl <= j + Ttl
              /\ \A i \in Nat : i <= i
          BY <3>3
        <5>1. y.expiresAt <= x.expiresAt
          BY <5>0, <3>1, <3>2, <3>3, Zenon
        <5> QED
          BY <5>1, <4>1, <3>7, Zenon
      <4>2. CASE y.miner # x.miner
        BY <4>2, <3>1, <3>7, <3>9, ZenonT(40) DEF ReservedInv
      <4> QED
        BY <4>1, <4>2, Zenon
    <3> QED
      BY <3>1, <3>5, <3>8, <3>9, NoJobFields, ZenonT(40) DEF ReservedInv, NextJob
  <2> SUFFICES ASSUME TypesInv, StampInv, LinkInv, [Next]_vars, Undisturbed'
               PROVE  OneReceiptPerLink' /\ (up' => ReservedInv' /\ NextJob')
    BY Zenon DEF LinkInv
  <2>0. /\ Undisturbed /\ reorgs = 0 /\ reorgs' = 0 /\ OneReceiptPerLink /\ (up => ReservedInv /\ NextJob) /\ JobOK
    BY StillUndisturbed, Zenon DEF LinkInv, Undisturbed, TypesInv
  <2>1. CASE UNCHANGED vars
    <3>1. UNCHANGED <<now, chain, signed, up, reservation, job>>
      BY <2>1, Zenon DEF vars, chainVars, coreVars, ledgerVars
    <3> QED
      BY <2>0, <3>1, <2>LinkFrame, <2>ReservedFrame, <2>NextJobFrame, Zenon
  <2>2. CASE ChainStep /\ UNCHANGED coreVars
    <3>1. UNCHANGED <<signed, up, reservation, job>> /\ now' \in {now, now + 1}
      BY <2>2, ChainMoves, Zenon DEF coreVars, ledgerVars
    <3>2. \A x \in signed : Live(x)' => Live(x)
      BY <3>1, ExpiryType, SMTT(30) DEF Live
    <3>3. OneReceiptPerLink'
      BY <2>0, <3>1, <3>2, Zenon DEF OneReceiptPerLink
    <3>4. ASSUME NEW x \in signed, Taken(x) PROVE Taken(x)'
      <4>1. /\ NextIndex(chain, x.miner) \in Nat /\ NextIndex(chain, x.miner)' \in Nat
            /\ NextIndex(chain, x.miner) <= NextIndex(chain, x.miner)'
        BY <2>0, <2>2, <2>CountersGrow, Zenon
      <4>2. x.index \in Nat
        BY Zenon DEF TypesInv, SignedOK
      <4>3. x.index < NextIndex(chain, x.miner) => x.index < NextIndex(chain, x.miner)'
        BY <4>1, <4>2, SMTT(30)
      <4> QED
        BY <3>4, <4>3, <3>1, Zenon DEF Taken
    <3>5. ReservedInv => ReservedInv'
      BY <3>1, <3>2, <3>4, Zenon DEF ReservedInv
    <3>6. NextJob => NextJob'
      BY <3>1, <3>2, Zenon DEF NextJob
    <3> QED
      BY <2>0, <3>1, <3>3, <3>5, <3>6, Zenon
  <2>3. CASE Boot
    <3>1. signed' = {} /\ job'.pc = "none"
      BY <2>3, FirstBoot, NoJobFields, Zenon
    <3> QED
      BY <3>1, Zenon DEF OneReceiptPerLink, ReservedInv, NextJob
  <2>4. CASE Crash
    <3>1. ~up' /\ UNCHANGED <<now, signed>>
      BY <2>4, Zenon DEF Crash, chainVars
    <3> QED
      BY <2>0, <3>1, <2>LinkFrame, Zenon
  <2>5. CASE FinishStart
    <3>1. UNCHANGED <<chainVars, up, ledgerVars>>
      BY <2>5, Zenon DEF FinishStart
    <3>2. UNCHANGED <<now, chain, signed, reservation>>
      BY <3>1, Zenon DEF chainVars, ledgerVars
    <3>3. job'.pc # "sign"
      BY <2>0, <2>5, NoJobFields, Zenon DEF FinishStart, JobOK, JobFields
    <3> QED
      BY <2>0, <3>1, <3>2, <3>3, <2>LinkFrame, <2>ReservedFrame, ZenonT(40) DEF NextJob
  <2>6. CASE FinishCounters
    <3>1. UNCHANGED <<up, now, signed>>
      BY <2>6, Zenon DEF FinishCounters, chainVars
    <3> QED
      BY <2>0, <2>6, <3>1, <2>LinkFrame, <2>LinkCounters, Zenon
  <2>7. CASE FinishSign
    <3>1. up
      BY <2>0, <2>7, ZenonT(60) DEF FinishSign, JobOK
    <3> QED
      BY <2>0, <2>7, <3>1, <2>LinkSign, ZenonT(40)
  <2>8. CASE Bookkeeping
    <3>1. UNCHANGED <<now, chain, signed, up>>
      BY <2>8, ClockStep, SignedStep, UpStep, Zenon DEF Bookkeeping
    <3>2. OneReceiptPerLink'
      BY <2>0, <3>1, <2>LinkFrame, Zenon
    <3>3. ReservedInv => ReservedInv'
      BY <2>0, <2>8, <3>1, LedgerMoves, <2>ReservedFrame, <2>GcReserves, Zenon
    <3>4. NextJob => NextJob'
      BY <2>8, <3>1, JobMoves, <2>NextJobFrame, Zenon DEF NextJob
    <3> QED
      BY <2>0, <3>1, <3>2, <3>3, <3>4, ZenonT(40)
  <2> QED
    BY <2>1, <2>2, <2>3, <2>4, <2>5, <2>6, <2>7, <2>8, ZenonT(40) DEF Bookkeeping
<1>1. Init => LinkInv
  BY Zenon DEF Init, ChainInit, LinkInv, OneReceiptPerLink
<1> QED
  BY <1>1, <1>LinkStep, StampAlways, PTL DEF Spec

LEMMA LinkOnce == ASSUME Counting PROVE Spec => [](Undisturbed => OneReceiptPerLink)
<1>1. LinkInv => (Undisturbed => OneReceiptPerLink)
  BY Zenon DEF LinkInv
<1> QED
  BY <1>1, LinkAlways, PTL

-----------------------------------------------------------------------------
(* The screener cap.  A live screener receipt that is k links ahead of its *)
(* miner's chain leaves room for the k links before it.                    *)
Fits(m, i) == i >= NextIndex(chain, m) => Screeners(chain, m) + (i - NextIndex(chain, m)) < Cap

CapOK ==
  /\ \A m \in Miners : Screeners(chain, m) <= Cap
  /\ \A x \in signed : x.outcome = "ScreenerPass" /\ Live(x) => Fits(x.miner, x.index)
JobFits == job.pc = "sign" /\ job.outcome = "ScreenerPass" => Fits(job.miner, job.index)

CapInv == Undisturbed => CapOK /\ JobFits

LEMMA CapKept == ASSUME Counting PROVE Spec => [](Undisturbed => CapHolds)
\* A block of the chain takes as much room from a link as it brings it closer.
<1>FitsChain. ASSUME TypesInv, ChainStep, reorgs' = reorgs, NEW m \in Miners, Screeners(chain, m) <= Cap
              PROVE  /\ Screeners(chain, m)' <= Cap
                     /\ \A i \in Nat : Fits(m, i) => Fits(m, i)'
  <2> USE <1>FitsChain
  <2>0. IsSeq(chain) /\ IsSeq(chain') /\ reorgs \in Nat /\ Cap \in Nat /\ SignedOK
    BY ChainStaysSeq, ChainAssumption, ZenonT(40) DEF TypesInv, ClockOK
  <2>1. CASE UNCHANGED chain
    BY <2>1, ZenonT(40) DEF Fits
  <2>2. CASE \E tx : /\ chain' = Append(chain, [tx |-> tx, stamp |-> reorgs])
                     /\ \/ tx \in signed /\ V4Accepts(tx, chain, now)
                        \/ tx.outcome \in {"None", "Standard"}
    <3>1. PICK tx : /\ chain' = Append(chain, [tx |-> tx, stamp |-> reorgs])
                    /\ \/ tx \in signed /\ V4Accepts(tx, chain, now)
                       \/ tx.outcome \in {"None", "Standard"}
      BY <2>2, Zenon
    <3>2. PICK b : b = [tx |-> tx, stamp |-> reorgs]
      BY ZenonT(60)
    <3>3. b.tx = tx /\ chain' = Append(chain, b)
      BY <3>1, <3>2, Zenon
    <3> DEFINE mine == tx # NoReceipt /\ tx.miner = m
               n == NextIndex(chain, m)
               s == Screeners(chain, m)
               n2 == NextIndex(chain', m)
               s2 == Screeners(chain', m)
    <3>4. /\ n2 = n + (IF mine THEN 1 ELSE 0)
          /\ s2 = s + (IF mine /\ tx.outcome = "ScreenerPass" THEN 1 ELSE 0)
      BY <2>0, <3>3, CountersAppend, SMTT(60)
    <3>5. n \in Nat /\ s \in Nat
      BY <2>0, CountersType, Zenon
    <3>6. mine /\ tx.outcome = "ScreenerPass" => s < Cap
      BY <3>1, Zenon DEF V4Accepts
    <3>7. s2 <= Cap
      BY <2>0, <3>4, <3>5, <3>6, SMTT(30)
    <3>8. ASSUME NEW i \in Nat, i >= n => s + (i - n) < Cap PROVE i >= n2 => s2 + (i - n2) < Cap
      <4> HIDE DEF mine, n, s, n2, s2
      <4>1. CASE ~mine
        BY <4>1, <3>4, <3>5, <3>8, SMTT(30)
      <4>2. CASE mine /\ tx.outcome = "ScreenerPass"
        BY <4>2, <2>0, <3>4, <3>5, <3>8, SMTT(30)
      <4>3. CASE mine /\ tx.outcome # "ScreenerPass"
        BY <4>3, <2>0, <3>4, <3>5, <3>8, SMTT(30)
      <4> QED
        BY <4>1, <4>2, <4>3, ZenonT(40)
    <3> QED
      BY <3>7, <3>8, Zenon DEF Fits
  <2> QED
    <3>1. reorgs' # reorgs + 1
      BY <2>0, SMTT(30)
    <3> QED
      BY <2>1, <2>2, <3>1, ChainMoves, ZenonT(40)
<1>CapFrame. ASSUME CapOK, UNCHANGED <<now, chain, signed>> PROVE CapOK'
  BY <1>CapFrame, Zenon DEF CapOK, Live, Fits
<1>CapStep. TypesInv /\ StampInv /\ CapInv /\ [Next]_vars => CapInv'
  <2> SUFFICES ASSUME TypesInv, StampInv, CapInv, [Next]_vars, Undisturbed' PROVE CapOK' /\ JobFits'
    BY Zenon DEF CapInv
  <2>0. Undisturbed /\ reorgs = 0 /\ reorgs' = 0 /\ CapOK /\ JobFits /\ JobOK /\ SignedOK /\ IsSeq(chain) /\ LedgerOK
    BY StillUndisturbed, Zenon DEF CapInv, Undisturbed, TypesInv
  <2>1. CASE UNCHANGED vars
    <3>1. UNCHANGED <<now, chain, signed, job>>
      BY <2>1, Zenon DEF vars, chainVars, coreVars
    <3> QED
      BY <2>0, <3>1, <1>CapFrame, Zenon DEF JobFits, Fits
  <2>2. CASE ChainStep /\ UNCHANGED coreVars
    <3>1. UNCHANGED <<signed, job>> /\ now' \in {now, now + 1}
      BY <2>2, ChainMoves, Zenon DEF coreVars
    <3>2. \A x \in signed : Live(x)' => Live(x)
      BY <3>1, ExpiryType, SMTT(30) DEF Live
    <3>3. \A m \in Miners : Screeners(chain, m)' <= Cap /\ \A i \in Nat : Fits(m, i) => Fits(m, i)'
      BY <2>0, <2>2, <1>FitsChain, ZenonT(40) DEF CapOK
    <3>4. CapOK'
      BY <2>0, <3>1, <3>2, <3>3, ZenonT(40) DEF CapOK, SignedOK
    <3>5. JobFits'
      <4> SUFFICES ASSUME job'.pc = "sign", job'.outcome = "ScreenerPass" PROVE Fits(job.miner, job.index)'
        BY Zenon DEF JobFits
      <4>1. job.miner \in Miners /\ job.index \in Nat /\ Fits(job.miner, job.index)
        BY <2>0, <3>1, Zenon DEF JobFits, JobOK
      <4>2. PICK m, i : m = job.miner /\ i = job.index
        BY Zenon 
      <4>3. Fits(m, i)'
        BY <3>3, <4>1, <4>2, Zenon
      <4> QED
        BY <4>2, <4>3, <3>1, ZenonT(40)
    <3> QED
      BY <3>4, <3>5, Zenon
  <2>3. CASE Boot \/ Crash
    <3>1. UNCHANGED <<now, chain, signed>>
      BY <2>3, Zenon DEF Boot, Crash, chainVars
    <3>2. job'.pc = "none"
      <4>1. Forgotten
        BY <2>3, ZenonT(60) DEF Boot, Crash
      <4> QED
        BY <4>1, NoJobFields, Zenon DEF Forgotten
    <3> QED
      BY <2>0, <3>1, <3>2, <1>CapFrame, ZenonT(40) DEF JobFits
  <2>5. CASE FinishStart
    <3>1. UNCHANGED <<now, chain, signed>>
      BY <2>5, Zenon DEF FinishStart, chainVars
    <3>2. job'.pc # "sign"
      BY <2>0, <2>5, NoJobFields, Zenon DEF FinishStart, JobOK, JobFields
    <3> QED
      BY <2>0, <3>1, <3>2, <1>CapFrame, Zenon DEF JobFits
  <2>6. CASE FinishCounters
    <3>1. UNCHANGED <<now, chain, signed>>
      BY <2>6, Zenon DEF FinishCounters, chainVars
    <3> DEFINE m == job.miner
               r == reservation[m]
               n == NextIndex(chain, m)
               ahead == m \in DOMAIN reservation /\ n < r.nextIndex
               count == Screeners(chain, m) + (IF ahead THEN r.nextIndex - n ELSE 0)
               i == IF ahead THEN r.nextIndex ELSE n
    <3>2. \/ job' = NoJob
          \/ /\ ~(job.outcome = "ScreenerPass" /\ count >= Cap)
             /\ \E p : job' = [job EXCEPT !.pc = "sign", !.index = i, !.prev = p]
      BY <2>6, Zenon DEF FinishCounters
    <3>3. CASE job' = NoJob
      BY <2>0, <3>1, <3>3, NoJobFields, <1>CapFrame, Zenon DEF JobFits
    <3>4. CASE ~(job.outcome = "ScreenerPass" /\ count >= Cap) /\ \E p : job' = [job EXCEPT !.pc = "sign", !.index = i, !.prev = p]
      <4>1. job'.miner = m /\ job'.index = i /\ job'.outcome = job.outcome
        BY <3>4, <2>0, Zenon DEF JobOK, JobFields
      <4>2. n \in Nat /\ Screeners(chain, m) \in Nat /\ Cap \in Nat /\ (m \in DOMAIN reservation => r.nextIndex \in Nat)
        BY <2>0, CountersType, ChainAssumption, ZenonT(60) DEF LedgerOK
      <4>3. job.outcome = "ScreenerPass" => Screeners(chain, m) + (i - n) < Cap
        BY <3>4, <4>2, SMTT(30)
      <4> HIDE DEF i, m, n
      <4>4. job.outcome = "ScreenerPass" => Fits(m, i)
        BY <4>3, Zenon DEF Fits, n
      <4> QED
        BY <2>0, <3>1, <4>1, <4>4, <1>CapFrame, ZenonT(60) DEF JobFits, Fits
    <3> QED
      BY <3>2, <3>3, <3>4, ZenonT(60)
  <2>7. CASE FinishSign
    <3>0. PICK x : x = NewReceipt
      BY Zenon 
    <3>1. UNCHANGED <<now, chain>> /\ signed' = signed \cup {x} /\ job' = NoJob /\ job.pc = "sign"
      BY <2>7, <3>0, ZenonT(60) DEF FinishSign
    <3>2. x.miner = job.miner /\ x.index = job.index /\ x.outcome = job.outcome
      BY <3>0, ZenonT(40) DEF NewReceipt
    <3>3. x.outcome = "ScreenerPass" => Fits(x.miner, x.index)
      BY <2>0, <3>1, <3>2, ZenonT(60) DEF JobFits
    <3> QED
      BY <2>0, <3>1, <3>3, NoJobFields, ZenonT(60) DEF CapOK, JobFits, Live, Fits
  <2>8. CASE Bookkeeping
    <3>1. UNCHANGED <<now, chain, signed>>
      BY <2>8, ClockStep, SignedStep, Zenon DEF Bookkeeping
    <3> QED
      BY <2>0, <2>8, <3>1, <1>CapFrame, JobMoves, ZenonT(40) DEF JobFits, Fits
  <2> QED
    BY <2>1, <2>2, <2>3, <2>5, <2>6, <2>7, <2>8, ZenonT(40) DEF Bookkeeping
\* The live screener receipts of a miner have different indices, so no more of
\* them than there is room.
<1>CapFromFits. ASSUME TypesInv, OneReceiptPerLink, CapOK
                PROVE  CapHolds
  <2> USE <1>CapFromFits
  <2> SUFFICES ASSUME NEW m \in Miners
               PROVE  Screeners(chain, m) +
                        Cardinality({x \in signed : /\ x.miner = m /\ x.outcome = "ScreenerPass"
                                                    /\ Live(x) /\ x.index >= NextIndex(chain, m)}) <= Cap
    BY Zenon DEF CapHolds
  <2> DEFINE n == NextIndex(chain, m)
             s == Screeners(chain, m)
             X == {x \in signed : x.miner = m /\ x.outcome = "ScreenerPass" /\ Live(x) /\ x.index >= n}
             top == n + (Cap - s) - 1
             f == [x \in X |-> x.index]
  <2>1. n \in Nat /\ s \in Nat /\ Cap \in Nat /\ s <= Cap
    BY CountersType, ChainAssumption, Zenon DEF TypesInv, CapOK
  <2>2. \A x \in X : x.index \in n..top
    <3> SUFFICES ASSUME NEW x \in X PROVE x.index \in n..top
      BY Zenon 
    <3>1. x.index \in Nat /\ x.index >= n /\ Fits(m, x.index)
      BY Zenon DEF TypesInv, SignedOK, CapOK
    <3>2. s + (x.index - n) < Cap
      BY <3>1, Zenon DEF Fits
    <3>3. \A i, u, v, c \in Nat : i >= u /\ v + (i - u) < c => i \in u..(u + (c - v) - 1)
      OBVIOUS
    <3> QED
      BY <3>1, <3>2, <3>3, <2>1, Zenon
  <2>3. \A x, y \in X : x.index = y.index => x = y
    BY Zenon DEF OneReceiptPerLink
  <2> HIDE DEF X
  <2>4. f \in Injection(X, n..top)
    BY <2>2, <2>3, ZenonT(40) DEF Injection, IsInjective
  <2>5. top \in Int /\ n \in Int /\ top - n + 1 = Cap - s
    BY <2>1
  <2> HIDE DEF top, n, s
  <2>9. IsFiniteSet(n..top) /\ Cardinality(n..top) = IF n > top THEN 0 ELSE top - n + 1
    BY <2>5, IntervalCount, ZenonT(40)
  <2> HIDE DEF f
  <2>6. IsFiniteSet(X) /\ Cardinality(X) <= Cardinality(n..top)
    BY <2>4, <2>9, InjectionCount, Zenon
  <2>7. Cardinality(X) \in Nat
    BY <2>6, CountNat, Zenon
  <2>8. s + Cardinality(X) <= Cap
    BY <2>1, <2>5, <2>6, <2>7, <2>9, SMTT(30)
  <2> QED
    BY <2>8, Zenon DEF X, n, s
<1>1. Init => CapInv
  <2> SUFFICES ASSUME Init PROVE CapOK /\ JobFits
    BY Zenon DEF CapInv
  <2>1. IsSeq(chain) /\ DOMAIN chain = {} /\ signed = {} /\ job.pc = "none"
    BY NilSeq, NoJobFields, SMTT(30) DEF Init, ChainInit, IsSeq
  <2>2. \A m \in Miners : Screeners(chain, m) = 0
    <3>1. \A m \in Miners : {i \in BlocksOf(chain, m) : chain[i].tx.outcome = "ScreenerPass"} = {}
      BY <2>1, Zenon DEF BlocksOf, TxBlocks
    <3> QED
      BY <3>1, EmptyCount, Zenon DEF Screeners
  <2> QED
    BY <2>1, <2>2, ChainAssumption DEF CapOK, JobFits
<1>2. TypesInv /\ LinkInv /\ CapInv => (Undisturbed => CapHolds)
  BY <1>CapFromFits, Zenon DEF LinkInv, CapInv
<1> QED
  BY <1>1, <1>2, <1>CapStep, LinkAlways, StampAlways, PTL DEF Spec

-----------------------------------------------------------------------------
(* Pending receipts.  A rollback judges them by the snapshots, so the view *)
(* must reach back to the epoch's parent root: the promise is about a      *)
(* chain of no more blocks than the coordinator keeps snapshots.           *)
PeakOK == peak \in Nat /\ Len(chain) <= peak

LEMMA PeakStep == ASSUME TypesInv, PeakOK, [Next]_vars PROVE PeakOK' /\ peak <= peak'
<1>0. Len(chain) \in Nat /\ IsSeq(chain) /\ peak \in Nat /\ Len(chain) <= peak
  BY SeqFacts, Zenon DEF TypesInv, PeakOK
<1>1. CASE UNCHANGED <<chain, peak>>
  BY <1>0, <1>1 DEF PeakOK
<1>2. CASE \E b : chain' = Append(chain, b) /\ peak' = Max({peak, Len(chain) + 1})
  <2>1. Len(chain') = Len(chain) + 1
    BY <1>0, <1>2, AppendFacts, Zenon
  <2>2. peak \in Int /\ Len(chain) + 1 \in Int
    BY <1>0
  <2>3. peak' = IF peak >= Len(chain) + 1 THEN peak ELSE Len(chain) + 1
    BY <2>2, <1>2, MaxOfTwo, Zenon
  <2> QED
    BY <2>1, <2>2, <2>3, <1>0, SMTT(30) DEF PeakOK
<1>3. CASE UNCHANGED peak /\ \E n \in 0..(Len(chain) - 1) : chain' = SubSeq(chain, 1, n)
  <2>1. PICK n \in 0..(Len(chain) - 1) : chain' = SubSeq(chain, 1, n)
    BY <1>3, Zenon
  <2>2. n \in 0..Len(chain)
    BY <1>0, SMTT(30)
  <2>3. Len(chain') = n
    BY <2>1, <2>2, <1>0, PrefixFacts, Zenon
  <2> QED
    BY <2>2, <2>3, <1>0, <1>3, SMTT(30) DEF PeakOK
<1>4. CASE ChainStep
  <2>1. \A tx : Mine(tx) => \E b : chain' = Append(chain, b) /\ peak' = Max({peak, Len(chain) + 1})
    BY Zenon DEF Mine
  <2>2. (\E x \in signed : Land(x)) \/ MineEmpty \/ (\E m \in Miners : LandStandard(m)) => \E tx : Mine(tx)
    BY Zenon DEF Land, MineEmpty, LandStandard
  <2>3. (\E n \in 0..(Len(chain) - 1) : Reorg(n))
          => UNCHANGED peak /\ \E n \in 0..(Len(chain) - 1) : chain' = SubSeq(chain, 1, n)
    BY Zenon DEF Reorg
  <2>4. Tick \/ RollEpoch => UNCHANGED <<chain, peak>>
    BY Zenon DEF Tick, RollEpoch
  <2> QED
    BY <1>1, <1>2, <1>3, <1>4, <2>1, <2>2, <2>3, <2>4, ZenonT(60) DEF ChainStep
<1>5. CASE Next /\ ~ChainStep
  <2>1. UNCHANGED chainVars => UNCHANGED <<chain, peak>>
    BY Zenon DEF chainVars
  <2>2. Boot \/ Crash => UNCHANGED chainVars
    BY Zenon DEF Boot, Crash
  <2>3. TickStep => UNCHANGED chainVars
    BY Zenon DEF TickStep, TickStart, TickReorg, TickScan, TickParity, TickFault
  <2>4. SubmitStep => UNCHANGED <<chain, peak>>
    BY <2>1, ZenonT(60) DEF SubmitStep, PrepareStart, PrepareFinish, Evaluate, FinishStart, FinishCounters, FinishSign, FinishRejects, FinishFails
  <2>5. OtherStep => UNCHANGED chainVars
    BY ZenonT(60) DEF OtherStep, Freeze, FreezeResolves, Unfreeze, SetRecomputedBaseline, InvalidateBaselines, GetStatus, GetReceiptByHash
  <2> QED
    BY <1>1, <1>5, <2>1, <2>2, <2>3, <2>4, <2>5, ZenonT(40) DEF Next
<1>6. CASE UNCHANGED vars
  BY <1>1, <1>6, Zenon DEF vars, chainVars
<1> QED
  BY <1>4, <1>5, <1>6, Zenon

\* A submission that has passed its re-check holds the mutex, so the live root
\* stays the one it was evaluated on until it is signed.
JobRoot == job.pc \in {"counters", "sign"} => tick = Idle /\ job.parent = liveRoot
ParentsOK == \A x \in signed : IsSeq(x.parent)

LEMMA JobRootStep == ASSUME TypesInv, JobRoot, [Next]_vars PROVE JobRoot'
<1>0. DOMAIN job = JobFields
  BY Zenon DEF TypesInv, JobOK
<1>1. CASE UNCHANGED <<job, tick, liveRoot>>
  BY <1>1, Zenon DEF JobRoot
<1>2. CASE job' = NoJob
  BY <1>2, Zenon DEF JobRoot, NoJob
<1>3. CASE job.pc \notin {"counters", "sign"} /\ UNCHANGED job
  BY <1>3, Zenon DEF JobRoot
<1>4. Idle.pc = "idle"
  BY Zenon DEF Idle
<1>5. CASE TickStart
  <2>1. job.pc \notin {"counters", "sign"} /\ UNCHANGED job
    BY <1>5, Zenon DEF TickStart, MutexFree
  <2> QED
    BY <2>1, <1>3, Zenon
<1>6. CASE TickReorg \/ TickScan
  <2>1. tick # Idle /\ UNCHANGED job
    BY <1>4, <1>6, Zenon DEF TickReorg, TickScan
  <2> QED
    BY <2>1, <1>3, Zenon DEF JobRoot
<1>7. CASE TickParity \/ \E t \in Faults : TickFault(t)
  <2>1. tick' = Idle /\ UNCHANGED <<job, liveRoot>>
    BY <1>7, Zenon DEF TickParity, TickFault, rootVars
  <2> QED
    BY <2>1, Zenon DEF JobRoot
<1>8. CASE Boot \/ Crash
  BY <1>2, <1>8, ZenonT(60) DEF Boot, Crash, Forgotten
<1>9. CASE (\E m \in Miners, q \in Patches : PrepareStart(m, q)) \/ PrepareFinish
  <2>1. job' = NoJob \/ job'.pc \in {"epochCheck", "evaluating"}
    BY <1>0, <1>9, NoJobFields, ZenonT(60) DEF PrepareStart, PrepareFinish, JobFields
  <2> QED
    BY <2>1, <1>2, Zenon DEF JobRoot
<1>10. CASE \E o \in {"reject", "ScreenerPass", "StateAdvance"} : Evaluate(o)
  <2>1. job' = NoJob \/ job'.pc = "scored"
    BY <1>0, <1>10, Zenon DEF Evaluate, JobFields
  <2> QED
    BY <2>1, <1>2, Zenon DEF JobRoot
<1>11. CASE FinishStart
  <2>1. \/ job' = NoJob
        \/ tick = Idle /\ UNCHANGED <<tick, liveRoot>> /\ liveRoot = job.parent /\ job' = [job EXCEPT !.pc = "counters"]
    BY <1>11, Zenon DEF FinishStart, MutexFree, StillAdmissible, rootVars
  <2> QED
    BY <2>1, <1>0, <1>2, Zenon DEF JobRoot, JobFields
<1>12. CASE FinishCounters
  <2>1. \/ job' = NoJob
        \/ job.pc = "counters" /\ UNCHANGED <<tick, liveRoot>>
           /\ \E i, r : job' = [job EXCEPT !.pc = "sign", !.index = i, !.prev = r]
    BY <1>12, ZenonT(60) DEF FinishCounters, rootVars
  <2> QED
    BY <2>1, <1>0, <1>2, Zenon DEF JobRoot, JobFields
<1>13. CASE FinishSign \/ FinishRejects \/ FinishFails
  BY <1>2, <1>13, Zenon DEF FinishSign, FinishRejects, FinishFails
<1>14. CASE OtherStep
  <2>1. UNCHANGED <<tick, liveRoot>> /\ (UNCHANGED job \/ (job.pc \notin {"counters", "sign"} /\ job' = [job EXCEPT !.crossed = TRUE]))
    BY <1>14, ZenonT(60) DEF OtherStep, Freeze, FreezeResolves, Unfreeze, SetRecomputedBaseline, InvalidateBaselines, GetStatus, GetReceiptByHash, rootVars
  <2> QED
    BY <2>1, <1>0, <1>1, Zenon DEF JobRoot, JobFields
<1>15. CASE UNCHANGED coreVars \/ UNCHANGED vars
  BY <1>1, <1>15, Zenon DEF coreVars, rootVars, vars
<1> QED
  BY <1>5, <1>6, <1>7, <1>8, <1>9, <1>10, <1>11, <1>12, <1>13, <1>14, <1>15, ZenonT(60) DEF Next, TickStep, SubmitStep

\* With no snapshot dropped the view reaches back to the parent root: the i-th
\* snapshot is the i-th advance, and every root on the way is a parent of one.
LEMMA BranchLength ==
  ASSUME Counting, NEW s, IsSeq(s), Branch(s), Len(s) > 0 => s[1].parent = << >>
  PROVE  \A i \in 1..Len(s) : IsSeq(s[i].parent) /\ IsSeq(s[i].root) /\ Len(s[i].parent) = i - 1 /\ Len(s[i].root) = i
<1>0. Len(s) \in Nat
  BY SeqFacts, Zenon
<1>1. ASSUME NEW i \in 1..Len(s)
      PROVE  /\ IsSeq(s[i].parent) /\ IsSeq(s[i].root) /\ Len(s[i].parent) \in Nat
             /\ Len(s[i].root) = Len(s[i].parent) + 1
  <2>1. IsSeq(s[i].parent) /\ IsSeq(s[i].root) /\ s[i].root = Append(s[i].parent, s[i].key[2])
    BY Zenon DEF Branch, SnapOK
  <2>2. Len(Append(s[i].parent, s[i].key[2])) = Len(s[i].parent) + 1 /\ Len(s[i].parent) \in Nat
    BY <2>1, AppendFacts, SeqFacts, ZenonT(60)
  <2> QED
    BY <2>1, <2>2, Zenon
<1> DEFINE T == {i \in 1..Len(s) : Len(s[i].parent) # i - 1}
<1>2. T = {}
  <2> SUFFICES ASSUME T # {} PROVE FALSE
    BY Zenon 
  <2>1. PICK i \in T : \A j \in T : i <= j
    <3>1. T \in SUBSET Nat
      OBVIOUS
    <3> QED
      BY <3>1, Least, Zenon
  <2>2. i # 1
    <3>1. Len(<< >>) = 0
      BY NilSeq, Zenon
    <3> QED
      BY <3>1, <1>0, <2>1, SMTT(30)
  <2>3. i \in 2..Len(s) /\ i - 1 \in 1..Len(s) /\ i - 1 \notin T
    BY <1>0, <2>1, <2>2, SMTT(30)
  <2>4. s[i].parent = s[i - 1].root
    BY <2>3, Zenon DEF Branch, Follows
  <2>5. Len(s[i - 1].parent) = (i - 1) - 1 /\ Len(s[i - 1].root) = Len(s[i - 1].parent) + 1
    BY <1>1, <2>3, Zenon
  <2>6. Len(s[i].parent) # i - 1 /\ i \in Int
    BY <2>1, SMTT(30)
  <2>7. ((i - 1) - 1) + 1 = i - 1
    BY <2>6
  <2> HIDE DEF T
  <2> QED
    BY <2>4, <2>5, <2>6, <2>7, Zenon
<1>3. \A i \in 1..Len(s) : Len(s[i].parent) = i - 1
  BY <1>2, Zenon
<1>4. \A i \in 1..Len(s) : (i - 1) + 1 = i
  OBVIOUS
<1> QED
  BY <1>1, <1>3, <1>4, Zenon

LEMMA StrictlyShorter ==
  ASSUME NEW r, IsSeq(r), NEW t, IsSeq(t), IsStrictPrefix(r, t)
  PROVE  Len(r) \in Nat /\ Len(t) \in Nat /\ Len(r) < Len(t) /\ IsPrefix(r, t)
<1>1. IsPrefix(r, t) /\ r # t
  BY Zenon DEF IsStrictPrefix
<1>2. Len(r) \in Nat /\ Len(t) \in Nat /\ Len(r) <= Len(t)
  BY <1>1, SeqFacts, PrefixDef, Zenon
<1>3. Len(r) # Len(t)
  BY <1>1, PrefixEq, Zenon
<1> QED
  BY <1>1, <1>2, <1>3, SMTT(30)

LEMMA BranchCovers ==
  ASSUME Counting, NEW s, IsSeq(s), Branch(s), Len(s) > 0, s[1].parent = << >>,
         NEW r, IsSeq(r), IsStrictPrefix(r, s[Len(s)].root)
  PROVE  \E i \in 1..Len(s) : s[i].parent = r
<1>0. PICK n : n = Len(s)
  BY Zenon
<1>1. n \in Nat /\ n \in 1..n
  BY <1>0, SeqFacts, SMTT(30)
<1>2. \A i \in 1..n : IsSeq(s[i].parent) /\ IsSeq(s[i].root) /\ Len(s[i].parent) = i - 1 /\ Len(s[i].root) = i
  BY <1>0, BranchLength, ZenonT(60)
<1>3. Len(r) \in Nat /\ Len(r) < n /\ IsPrefix(r, s[n].root)
  <2>1. IsSeq(s[n].root) /\ Len(s[n].root) = n
    BY <1>1, <1>2, Zenon
  <2> QED
    BY <1>0, <2>1, StrictlyShorter, ZenonT(60)
<1>4. PICK i \in 1..n : i = Len(r) + 1
  <2>1. Len(r) + 1 \in 1..n
    BY <1>1, <1>3, SMTT(30)
  <2> QED
    BY <2>1, Zenon
<1>5. IsPrefix(s[i].parent, s[i].root)
  <2>1. s[i].root = Append(s[i].parent, s[i].key[2]) /\ IsSeq(s[i].parent)
    BY <1>0, ZenonT(60) DEF Branch, SnapOK
  <2>2. IsPrefix(s[i].parent, Append(s[i].parent, s[i].key[2]))
    BY <2>1, PrefixAppend, Zenon
  <2> QED
    BY <2>1, <2>2, Zenon
<1>6. IsPrefix(s[i].root, s[n].root)
  <2>1. CASE i = n
    BY <2>1, <1>1, <1>2, PrefixRefl, ZenonT(60)
  <2>2. CASE i # n
    BY <2>2, <1>0, <1>1, SMTT(60) DEF Branch
  <2> QED
    BY <2>1, <2>2, Zenon
<1>7. IsPrefix(s[i].parent, s[n].root)
  BY <1>1, <1>2, <1>5, <1>6, PrefixTrans, ZenonT(60)
<1>8. Len(s[i].parent) = Len(r)
  <2>1. Len(s[i].parent) = i - 1
    BY <1>2, ZenonT(60)
  <2>2. (Len(r) + 1) - 1 = Len(r)
    BY <1>3
  <2> QED
    BY <1>4, <2>1, <2>2, Zenon
<1>9. IsPrefix(r, s[i].parent)
  <2>1. PICK u, t : u = s[i].parent /\ t = s[n].root
    BY Zenon
  <2>2. IsSeq(u) /\ IsSeq(t) /\ IsPrefix(r, t) /\ IsPrefix(u, t)
    BY <2>1, <1>1, <1>2, <1>3, <1>7, Zenon
  <2>3. Len(r) <= Len(u)
    BY <2>1, <1>3, <1>8, SMTT(30)
  <2>4. IsPrefix(r, u)
    BY <2>2, <2>3, PrefixCompare, Zenon
  <2> QED
    BY <2>1, <2>4, ZenonT(60)
<1>10. r = s[i].parent
  BY <1>2, <1>8, <1>9, PrefixEq, Zenon
<1> QED
  BY <1>0, <1>10, Zenon

Reaches(s) == Len(s) <= peak /\ (Len(s) > 0 => s[1].parent = << >>)
Whole == peak <= MaxSnapshots => Reaches(snapshots)

LEMMA WholeStep ==
  ASSUME Counting, TypesInv, StampInv, RegistryOK(chain), PeakOK, TickOK, ViewInv, Whole, [Next]_vars PROVE Whole'
<1>RootsFitChain. ASSUME IsSeq(chain), RegistryOK(chain), NEW e \in AdvanceBlocks(chain)
                  PROVE  Len(chain[e].tx.parent) \in Nat /\ Len(chain[e].tx.parent) < Len(chain)
  <2> USE <1>RootsFitChain
  <2>1. Len(chain) \in Nat /\ e \in 1..Len(chain)
    BY SeqFacts, Zenon DEF AdvanceBlocks, TxBlocks
  <2>2. Len(chain[e].tx.parent) = Cardinality(Before(chain, e))
    BY Zenon DEF RegistryOK
  <2>3. Before(chain, e) \subseteq 1..(e - 1)
    <3>1. \A x \in Before(chain, e) : x \in 1..Len(chain) /\ x < e
      BY SeqFacts, Zenon DEF AdvanceBlocks, TxBlocks, Before
    <3>2. \A x \in 1..Len(chain) : x < e => x \in 1..(e - 1)
      BY <2>1, SMTT(30)
    <3> QED
      BY <3>1, <3>2, Zenon
  <2>4. IsFiniteSet(1..(e - 1)) /\ Cardinality(1..(e - 1)) = e - 1
    <3>1. 1 \in Int /\ e - 1 \in Int /\ ~(1 > (e - 1) + 1)
      BY <2>1, SMTT(30)
    <3>2. Cardinality(1..(e - 1)) = IF 1 > e - 1 THEN 0 ELSE (e - 1) - 1 + 1
      BY <3>1, IntervalCount, Zenon
    <3> QED
      BY <3>1, <3>2, <2>1, IntervalCount, SMTT(30)
  <2>5. Cardinality(Before(chain, e)) \in Nat /\ Cardinality(Before(chain, e)) <= e - 1
    <3>1. PICK A, B : A = Before(chain, e) /\ B = 1..(e - 1)
      BY Zenon
    <3>2. IsFiniteSet(A) /\ Cardinality(A) <= Cardinality(B) /\ Cardinality(A) \in Nat
      BY <3>1, <2>3, <2>4, PartFinite, CountNat, Zenon
    <3> QED
      BY <3>1, <3>2, <2>4, Zenon
  <2> QED
    BY <2>1, <2>2, <2>5, SMTT(30)
<1>WholeScan. ASSUME TypesInv, RegistryOK(chain), PeakOK, peak <= MaxSnapshots,
                     NEW a \in Int, NEW b \in Int, NEW evs \in EventLists(chain, a, b),
                     NEW s, IsSeq(s), Branch(s), Reaches(s), NEW root, IsSeq(root),
                     root = IF s = << >> THEN ParentRoot ELSE Last(s).root,
                     evs # << >> => chain[evs[1]].tx.parent = root
              PROVE  Reaches(AppendSnapshots(s, [i \in DOMAIN evs |-> SnapshotAt(evs[i])]))
  <2> USE <1>WholeScan
  <2>0. PICK t, r, l, m : /\ t = [i \in DOMAIN evs |-> SnapshotAt(evs[i])] /\ r = AppendSnapshots(s, t)
                          /\ l = Len(s) /\ m = Len(evs)
    BY ZenonT(60)
  <2>1. /\ IsSeq(chain) /\ IsSeq(evs) /\ m \in Nat /\ l \in Nat /\ MaxSnapshots \in Nat /\ peak \in Nat
        /\ Len(chain) \in Nat /\ Len(chain) <= peak
    <3>1. IsSeq(chain)
      BY Zenon DEF TypesInv
    <3>2. IsSeq(evs) /\ Len(evs) \in Nat
      BY <3>1, EventListFacts, ZenonT(60)
    <3> QED
      BY <3>1, <3>2, <2>0, SeqFacts, CoreAssumption, ZenonT(60) DEF PeakOK
  <2>2. IsSeq(t) /\ Len(t) = m /\ \A i \in 1..m : t[i] = SnapshotAt(evs[i])
    BY <2>0, <2>1, NewsFacts, ZenonT(60)
  <2>3. l + m <= peak
    <3>1. CASE m = 0
      <4>1. l <= peak
        BY <2>0, Zenon DEF Reaches
      <4> QED
        BY <3>1, <4>1, <2>1, SMTT(30)
    <3>2. CASE m # 0
      <4>1. 1 \in 1..m /\ m \in 1..m /\ evs # << >>
        BY <3>2, <2>0, <2>1, NilSeq, SMTT(30)
      <4>2. chain[evs[1]].tx.parent = root
        BY <4>1, Zenon
      <4>3. Len(root) = l
        <5>1. CASE s = << >>
          BY <5>1, <2>0, NilSeq, ZenonT(60) DEF ParentRoot
        <5>2. CASE s # << >>
          <6>1. l \in 1..l
            <7>1. PICK S : s \in Seq(S)
              BY ZenonT(60) DEF IsSeq
            <7> QED
              BY <7>1, <5>2, <2>0, <2>1, NilSeq, SMTT(30)
          <6>2. Len(s[l].root) = l
            BY <6>1, <2>0, BranchLength, ZenonT(60) DEF Reaches
          <6> QED
            BY <6>2, <5>2, <2>0, Zenon DEF Last
        <5> QED
          BY <5>1, <5>2, Zenon
      <4>4. Len(chain[evs[m]].tx.parent) = Len(chain[evs[1]].tx.parent) + m - 1
        BY <4>1, <2>0, <2>1, ScanRoots, ZenonT(60)
      <4>5. evs[m] \in AdvanceBlocks(chain)
        BY <4>1, <2>0, <2>1, EventListFacts, ZenonT(60)
      <4>6. PICK q : q = Len(chain[evs[m]].tx.parent)
        BY Zenon
      <4>7. q \in Nat /\ q < Len(chain)
        BY <4>5, <4>6, <2>1, <1>RootsFitChain, ZenonT(60)
      <4>8. q = l + m - 1
        BY <4>2, <4>3, <4>4, <4>6, ZenonT(60)
      <4> QED
        BY <4>7, <4>8, <2>1, SMTT(30)
    <3> QED
      BY <3>1, <3>2, Zenon
  <2>4. Len(r) = l + m /\ (l + m > 0 => r[1] = IF 1 <= l THEN s[1] ELSE t[1 - l])
    <3>1. PICK k \in Nat :
            /\ Len(r) = l + m - k /\ (l + m <= MaxSnapshots => k = 0)
            /\ \A i \in 1..Len(r) : r[i] = IF k + i <= l THEN s[k + i] ELSE t[k + i - l]
      <4>1. LET q == AppendSnapshots(s, t) IN
            \E k \in Nat :
              /\ Len(q) = Len(s) + Len(t) - k
              /\ Len(s) + Len(t) <= MaxSnapshots => k = 0
              /\ MaxSnapshots > 0 /\ Len(s) + Len(t) > 0 => Len(q) > 0
              /\ \A i \in 1..Len(q) : q[i] = IF k + i <= Len(s) THEN s[k + i] ELSE t[k + i - Len(s)]
        BY <2>2, AppendSnapshotsFacts, ZenonT(60)
      <4>2. Len(s) = l /\ Len(t) = m
        BY <2>0, <2>2, ZenonT(60)
      <4>3. \E k \in Nat :
              /\ Len(r) = Len(s) + Len(t) - k
              /\ Len(s) + Len(t) <= MaxSnapshots => k = 0
              /\ \A i \in 1..Len(r) : r[i] = IF k + i <= Len(s) THEN s[k + i] ELSE t[k + i - Len(s)]
        BY <4>1, <2>0, ZenonT(60)
      <4> QED
        BY <4>2, <4>3, Zenon
    <3>2. k = 0 /\ Len(r) = l + m
      BY <3>1, <2>1, <2>3, SMTT(30)
    <3>3. ASSUME l + m > 0 PROVE r[1] = IF 1 <= l THEN s[1] ELSE t[1 - l]
      <4>1. 1 \in 1..Len(r) /\ k + 1 = 1 /\ k + 1 - l = 1 - l
        BY <3>2, <3>3, <2>1, SMTT(30)
      <4> QED
        BY <4>1, <3>1, SMTT(30)
    <3> QED
      BY <3>2, <3>3, Zenon
  <2>5. ASSUME Len(r) > 0 PROVE r[1].parent = << >>
    <3>1. CASE l > 0
      <4>1. l + m > 0 /\ 1 <= l
        BY <3>1, <2>1, SMTT(30)
      <4>2. s[1].parent = << >>
        BY <3>1, <2>0, Zenon DEF Reaches
      <4> QED
        BY <4>1, <4>2, <2>4, Zenon
    <3>2. CASE ~(l > 0)
      <4>0. Len(r) = l + m
        BY <2>4, Zenon
      <4>a. l = 0 /\ m > 0 /\ m # 0 /\ l + m > 0 /\ ~(1 <= l) /\ 1 \in 1..m /\ 1 - l = 1
        BY <4>0, <3>2, <2>1, <2>5, SMTT(30)
      <4>1. l = 0 /\ m > 0 /\ 1 \in 1..m /\ r[1] = t[1] /\ evs # << >>
        BY <4>a, <2>0, <2>4, NilSeq, Zenon
      <4>2. s = << >>
        <5>1. PICK S : s \in Seq(S)
          BY Zenon DEF IsSeq
        <5> QED
          BY <5>1, <4>1, <2>0, NilSeq, ZenonT(60)
      <4>3. chain[evs[1]].tx.parent = << >>
        BY <4>1, <4>2, Zenon DEF ParentRoot
      <4>4. \A e : SnapshotAt(e).parent = chain[e].tx.parent
        BY Zenon DEF SnapshotAt
      <4> QED
        BY <4>1, <4>3, <4>4, <2>2, Zenon
    <3> QED
      BY <3>1, <3>2, Zenon
  <2> QED
    BY <2>0, <2>3, <2>4, <2>5, ZenonT(60) DEF Reaches
<1>BootReaches. ASSUME TypesInv, RegistryOK(chain), PeakOK, Boot, peak <= MaxSnapshots PROVE Reaches(snapshots')
  <2> USE <1>BootReaches
  <2>0. Len(chain) \in Nat /\ Depth \in Nat /\ IsSeq(chain)
    BY SeqFacts, CoreAssumption, Zenon DEF TypesInv
  <2>1. PICK safe, a : safe = Max({0, Len(chain) - Depth}) /\ a = 1
    BY Zenon 
  <2>2. safe \in Int /\ a \in Int
    <3>1. 0 \in Int /\ Len(chain) - Depth \in Int
      BY <2>0
    <3> QED
      BY <3>1, <2>1, MaxOfTwo, SMTT(30)
  <2>3. PICK evs \in EventLists(chain, a, safe) :
          snapshots' = AppendSnapshots(<< >>, [i \in DOMAIN evs |-> SnapshotAt(evs[i])])
    BY <2>1, Zenon DEF Boot
  <2>4. IsSeq(<< >>) /\ Len(<< >>) = 0
    BY NilSeq, Zenon DEF IsSeq
  <2>5. Branch(<< >>) /\ Reaches(<< >>)
    BY <2>4, SMTT(30) DEF Branch, Reaches, PeakOK
  <2>6. evs # << >> => chain[evs[1]].tx.parent = << >>
    <3>1. Len(evs) > 0 => chain[evs[1]].tx.parent = << >>
      BY <2>0, <2>1, <2>2, ScanRoots, Zenon
    <3>2. IsSeq(evs) /\ Len(evs) \in Nat
      BY <2>0, EventListFacts, Zenon
    <3>3. PICK S : evs \in Seq(S)
      BY <3>2, Zenon DEF IsSeq
    <3> QED
      BY <3>1, <3>2, <3>3, NilSeq, SMTT(30)
  <2>7. PICK s, root : s = << >> /\ root = << >>
    BY Zenon
  <2>8. /\ IsSeq(s) /\ Branch(s) /\ Reaches(s) /\ IsSeq(root)
        /\ root = IF s = << >> THEN ParentRoot ELSE Last(s).root
        /\ evs # << >> => chain[evs[1]].tx.parent = root
    BY <2>4, <2>5, <2>6, <2>7, Zenon DEF ParentRoot
  <2>9. Reaches(AppendSnapshots(s, [i \in DOMAIN evs |-> SnapshotAt(evs[i])]))
    BY <2>2, <2>8, <1>WholeScan, ZenonT(60)
  <2> QED
    BY <2>3, <2>7, <2>9, Zenon
<1>ScanReaches. ASSUME TypesInv, StampInv, RegistryOK(chain), PeakOK, TickOK, ViewInv, TickScan, peak <= MaxSnapshots,
                       Reaches(snapshots)
                PROVE  Reaches(snapshots')
  <2> USE <1>ScanReaches
  <2>1. CASE UNCHANGED rootVars
    BY <2>1, Zenon DEF rootVars
  <2>2. CASE ~UNCHANGED rootVars
    <3>1. PICK evs \in EventLists(chain, lastScanned + 1, tick.safe) : EventsLink(evs) /\ ApplyEvents(evs)
      BY <2>2, Zenon DEF TickScan
    <3>2. snapshots' = AppendSnapshots(snapshots, [i \in DOMAIN evs |-> SnapshotAt(evs[i])])
      BY <3>1, Zenon DEF ApplyEvents
    <3>3. PICK a, b : a = lastScanned + 1 /\ b = tick.safe
      BY Zenon
    <3>4. a \in Int /\ b \in Int /\ evs \in EventLists(chain, a, b)
      BY <3>1, <3>3, SMTT(60) DEF TickOK, ViewInv
    <3>5. /\ IsSeq(snapshots) /\ Branch(snapshots) /\ IsSeq(liveRoot)
          /\ liveRoot = IF snapshots = << >> THEN ParentRoot ELSE Last(snapshots).root
      BY Zenon DEF StampInv, ViewInv
    <3>6. evs # << >> => chain[evs[1]].tx.parent = liveRoot
      BY <3>1, Zenon DEF EventsLink
    <3>7. Reaches(AppendSnapshots(snapshots, [i \in DOMAIN evs |-> SnapshotAt(evs[i])]))
      BY <3>4, <3>5, <3>6, <1>WholeScan, ZenonT(60)
    <3> QED
      BY <3>2, <3>7, Zenon
  <2> QED
    BY <2>1, <2>2, Zenon
<1> SUFFICES ASSUME peak' <= MaxSnapshots PROVE Reaches(snapshots)'
  BY Zenon DEF Whole
<1>0. peak \in Nat /\ peak' \in Nat /\ peak <= peak' /\ MaxSnapshots \in Nat /\ IsSeq(snapshots)
      /\ Len(snapshots) \in Nat /\ DOMAIN snapshots = 1..Len(snapshots)
  BY PeakStep, CoreAssumption, SeqFacts, ZenonT(60) DEF PeakOK, StampInv
<1>1. peak <= MaxSnapshots /\ Reaches(snapshots)
  <2>1. peak <= MaxSnapshots
    BY <1>0, SMTT(30)
  <2> QED
    BY <2>1, Zenon DEF Whole
<1>2. ASSUME Reaches(snapshots'), Len(snapshots') \in Nat PROVE Reaches(snapshots)'
  BY <1>0, <1>2, SMTT(30) DEF Reaches
<1>3. CASE UNCHANGED rootVars
  BY <1>0, <1>1, <1>2, <1>3, Zenon DEF rootVars
<1>4. Len(snapshots') \in Nat
  <2>1. IsSeq(snapshots')
    BY StampStep, Zenon DEF StampInv
  <2> QED
    BY <2>1, SeqFacts, Zenon
<1>5. CASE Boot
  BY <1>1, <1>2, <1>4, <1>5, <1>BootReaches, Zenon
<1>6. CASE Crash
  <2>1. snapshots' = << >> /\ Len(<< >>) = 0
    BY <1>6, NilSeq, Zenon DEF Crash
  <2> QED
    BY <2>1, <1>0, SMTT(30) DEF Reaches
<1>7. CASE TickScan
  BY <1>1, <1>2, <1>4, <1>7, <1>ScanReaches, Zenon
<1>8. CASE TickReorg
  <2>1. HandleReorg \/ UNCHANGED rootVars
    BY <1>8, Zenon DEF TickReorg
  <2>2. CASE HandleReorg
    <3>1. PICK n \in 0..Len(snapshots) : snapshots' = SubSeq(snapshots, 1, n)
      BY <2>2, <1>0, RollbackFacts, ZenonT(60)
    <3>2. Len(snapshots') = n /\ \A i \in 1..n : snapshots'[i] = snapshots[i]
      BY <3>1, <1>0, PrefixFacts, Zenon
    <3>3. n <= peak /\ (n > 0 => snapshots'[1].parent = << >>)
      BY <3>2, <1>0, <1>1, SMTT(30) DEF Reaches
    <3> QED
      BY <3>2, <3>3, <1>2, <1>4, Zenon DEF Reaches
  <2> QED
    BY <2>1, <2>2, <1>3, Zenon
<1>9. CASE UNCHANGED vars
  <2>1. UNCHANGED rootVars
    BY <1>9, Zenon DEF vars, coreVars, rootVars
  <2> QED
    BY <1>3, <2>1, Zenon
<1> QED
  BY <1>3, <1>5, <1>6, <1>7, <1>8, <1>9, RootStep, ZenonT(40)

HonestOne(p, root) ==
  /\ p.state = "confirmed" => IsPrefix(Append(p.x.parent, p.x.patch), root)
  /\ p.state = "pending" => ~IsStrictPrefix(p.x.parent, root)
Honest(ps, root) == \A p \in ps : HonestOne(p, root)

LEMMA HonestAudited ==
  ASSUME NEW ps, PendingOK(ps), NEW roots, NEW root, Honest(ps, root) PROVE Honest(Audited(ps, roots), root)
<1> SUFFICES ASSUME NEW q \in Audited(ps, roots) PROVE HonestOne(q, root)
  BY Zenon DEF Honest
<1>1. PICK p \in ps : q = IF p.state = "pending" /\ p.x.parent \notin roots THEN [p EXCEPT !.state = "stale"] ELSE p
  BY Zenon DEF Audited
<1>2. q = p \/ q.state = "stale"
  BY <1>1, Zenon DEF PendingOK
<1> QED
  BY <1>2, Zenon DEF Honest, HonestOne

\* The advances of a scan: a receipt for one of them is on the new branch, and
\* one for none of their parents was not beaten.
LEMMA HonestScan ==
  ASSUME Counting, IsSeq(chain), RegistryOK(chain), NEW a \in Int, NEW b \in Int, NEW evs \in EventLists(chain, a, b),
         PendingOK(pending), ParentsOK, NEW root, IsSeq(root), Honest(pending, root),
         NEW m, m = Len(evs), m > 0, chain[evs[1]].tx.parent = root
  PROVE  Honest(PendingAfter(evs), RootAfter(chain[evs[m]].tx))
<1> DEFINE P(i) == chain[evs[i]].tx.parent
           R(i) == RootAfter(chain[evs[i]].tx)
<1>0. m \in Nat /\ 1 \in 1..m /\ m \in 1..m /\ DOMAIN evs = 1..m
  <2>1. Len(evs) \in Nat /\ DOMAIN evs = 1..Len(evs)
    BY EventListFacts, Zenon
  <2> QED
    BY <2>1, SMTT(30)
<1>1. \A i \in 1..m : IsSeq(P(i)) /\ IsSeq(R(i)) /\ IsPrefix(P(i), R(i)) /\ Len(R(i)) = Len(P(i)) + 1
  BY ScanRoots, ZenonT(60)
<1>2. \A i, j \in 1..m : i < j => IsPrefix(R(i), P(j))
  BY ScanRoots, ZenonT(60)
<1>3. \A i \in 1..m : Len(P(i)) = Len(P(1)) + i - 1
  BY ScanRoots, ZenonT(60)
<1>4. P(1) = root
  BY Zenon 
<1>5. \A i \in 1..m : R(i) = Append(P(i), chain[evs[i]].tx.patch)
  BY Zenon DEF RootAfter
<1> HIDE DEF P, R
<1>6. ASSUME NEW i \in 1..m PROVE IsPrefix(R(i), R(m)) /\ IsPrefix(P(i), R(m))
  <2>1. IsPrefix(R(i), R(m))
    <3>1. CASE i = m
      BY <3>1, <1>1, PrefixRefl, Zenon
    <3>2. CASE i # m
      <4>1. IsPrefix(R(i), P(m)) /\ IsPrefix(P(m), R(m)) /\ IsSeq(R(i)) /\ IsSeq(P(m)) /\ IsSeq(R(m))
        BY <3>2, <1>0, <1>1, <1>2, SMTT(30)
      <4> QED
        BY <4>1, PrefixTrans, Zenon
    <3> QED
      BY <3>1, <3>2, Zenon
  <2>2. IsPrefix(P(i), R(i)) /\ IsSeq(P(i)) /\ IsSeq(R(i)) /\ IsSeq(R(m))
    BY <1>0, <1>1, Zenon
  <2> QED
    BY <2>1, <2>2, PrefixTrans, Zenon
<1>7. IsSeq(R(m)) /\ IsPrefix(root, R(m)) /\ Len(root) \in Nat /\ Len(R(m)) = Len(root) + m
  <2>1. Len(R(m)) = Len(P(m)) + 1 /\ Len(P(m)) = Len(root) + m - 1 /\ Len(root) \in Nat
    BY <1>0, <1>1, <1>3, <1>4, SeqFacts, ZenonT(60)
  <2> QED
    BY <2>1, <1>0, <1>1, <1>4, <1>6, SMTT(30)
<1>8. ASSUME NEW q \in PendingAfter(evs) PROVE HonestOne(q, R(m))
  <2>1. PICK p \in pending : q = IF p.state # "pending" \/ ~Contested(p, evs) THEN p
                                 ELSE [p EXCEPT !.state = IF Matched(p, evs) THEN "confirmed" ELSE "stale"]
    BY Zenon DEF PendingAfter
  <2>2. IsSeq(p.x.parent) /\ DOMAIN p = {"x", "state"} /\ HonestOne(p, root)
    BY Zenon DEF PendingOK, ParentsOK, Honest
  <2>3. CASE q = p /\ p.state # "pending"
    <3>1. ASSUME p.state = "confirmed" PROVE IsPrefix(Append(p.x.parent, p.x.patch), R(m))
      <4>1. PICK u : u = Append(p.x.parent, p.x.patch)
        BY ZenonT(60)
      <4>2. IsPrefix(u, root) /\ IsSeq(u)
        BY <3>1, <4>1, <2>2, AppendFacts, ZenonT(60) DEF HonestOne
      <4>3. IsPrefix(u, R(m))
        BY <4>2, <1>7, PrefixTrans, Zenon
      <4> QED
        BY <4>1, <4>3, Zenon
    <3> QED
      BY <2>3, <3>1, Zenon DEF HonestOne
  <2>4. CASE q = p /\ p.state = "pending" /\ ~Contested(p, evs)
    <3>0. \A i \in 1..m : p.x.parent # P(i)
      BY <2>4, <1>0, Zenon DEF Contested, P
    <3>1. PICK r : r = p.x.parent
      BY Zenon 
    <3>2. ASSUME IsStrictPrefix(r, R(m)) PROVE FALSE
      <4>1. Len(r) \in Nat /\ Len(r) < Len(R(m)) /\ IsPrefix(r, R(m)) /\ IsSeq(r)
        BY <3>1, <3>2, <2>2, <1>7, StrictlyShorter, ZenonT(60)
      <4>2. CASE Len(r) < Len(root)
        <5>1. IsPrefix(r, root)
          BY <4>1, <4>2, <1>7, PrefixCompare, SMTT(30)
        <5>2. r # root
          BY <4>1, <4>2, <1>7, SMTT(30)
        <5>3. IsStrictPrefix(r, root)
          BY <5>1, <5>2, Zenon DEF IsStrictPrefix
        <5> QED
          BY <5>3, <3>1, <2>2, <2>4, ZenonT(60) DEF HonestOne
      <4>3. CASE ~(Len(r) < Len(root))
        <5>1. PICK i \in 1..m : i = Len(r) - Len(root) + 1
          BY <4>1, <4>3, <1>0, <1>7, SMTT(30)
        <5>2. PICK u, w : u = P(i) /\ w = R(m)
          BY Zenon
        <5>3. IsSeq(u) /\ IsSeq(w) /\ IsPrefix(u, w) /\ IsPrefix(r, w)
          BY <5>2, <4>1, <1>0, <1>1, <1>6, Zenon
        <5>4. Len(u) = Len(root) + i - 1
          BY <5>2, <1>3, <1>4, Zenon
        <5>5. Len(u) = Len(r) /\ Len(r) <= Len(u)
          BY <5>1, <5>4, <4>1, <1>7, SMTT(30)
        <5>6. IsPrefix(r, u)
          BY <5>3, <5>5, <4>1, PrefixCompare, Zenon
        <5>7. r = u
          BY <5>3, <5>5, <5>6, <4>1, PrefixEq, Zenon
        <5> QED
          BY <5>2, <5>7, <3>0, <3>1, ZenonT(60)
      <4> QED
        BY <4>2, <4>3, Zenon
    <3> QED
      BY <2>4, <3>1, <3>2, Zenon DEF HonestOne
  <2>5. CASE q = [p EXCEPT !.state = IF Matched(p, evs) THEN "confirmed" ELSE "stale"]
    <3>1. q.x = p.x /\ (q.state = "stale" \/ (q.state = "confirmed" /\ Matched(p, evs)))
      BY <2>2, <2>5, Zenon
    <3>2. ASSUME Matched(p, evs) PROVE IsPrefix(Append(p.x.parent, p.x.patch), R(m))
      <4>1. PICK i \in 1..m : PatchKey(p.x) = PatchKey(chain[evs[i]].tx)
        BY <3>2, <1>0, Zenon DEF Matched
      <4>2. p.x.parent = P(i) /\ p.x.patch = chain[evs[i]].tx.patch
        BY <4>1, Zenon DEF PatchKey, P
      <4> QED
        BY <4>2, <1>5, <1>6, ZenonT(60)
    <3> QED
      BY <3>1, <3>2, Zenon DEF HonestOne
  <2> QED
    BY <2>1, <2>3, <2>4, <2>5, Zenon
<1> QED
  BY <1>8, Zenon DEF Honest, R

\* A rollback judges every receipt by the snapshots that are left.
LEMMA HonestRollback ==
  ASSUME Counting, PendingOK(pending), ParentsOK, NEW k, IsSeq(k), Branch(k), Len(k) > 0 => k[1].parent = << >>,
         NEW root, root = IF Len(k) = 0 THEN << >> ELSE k[Len(k)].root
  PROVE  Honest(Reconciled(pending, k), root)
<1>0. Len(k) \in Nat /\ DOMAIN k = 1..Len(k)
  BY SeqFacts, Zenon
<1>1. ASSUME NEW q \in Reconciled(pending, k) PROVE HonestOne(q, root)
  <2>1. PICK p \in pending : q = [p EXCEPT !.state =
           IF \A i \in DOMAIN k : k[i].parent # p.x.parent THEN "pending"
           ELSE IF \E i \in DOMAIN k : k[i].key = PatchKey(p.x) THEN "confirmed" ELSE "stale"]
    BY Zenon DEF Reconciled
  <2>2. IsSeq(p.x.parent) /\ DOMAIN p = {"x", "state"}
    BY Zenon DEF PendingOK, ParentsOK
  <2>3. /\ q.x = p.x
        /\ q.state = "pending" => \A i \in DOMAIN k : k[i].parent # p.x.parent
        /\ q.state = "confirmed" => \E i \in DOMAIN k : k[i].key = PatchKey(p.x)
    BY <2>1, <2>2, Zenon
  <2>4. ASSUME q.state = "confirmed" PROVE IsPrefix(Append(p.x.parent, p.x.patch), root)
    <3>1. PICK i \in 1..Len(k) : k[i].key = PatchKey(p.x)
      BY <2>3, <2>4, <1>0, Zenon
    <3>2. SnapOK(k[i]) /\ Len(k) \in 1..Len(k) /\ SnapOK(k[Len(k)]) /\ root = k[Len(k)].root
      BY <1>0, SMTT(30) DEF Branch
    <3>3. k[i].key[1] = p.x.parent /\ k[i].key[2] = p.x.patch
      BY <3>1, SMTT(30) DEF PatchKey
    <3>4. k[i].root = Append(p.x.parent, p.x.patch) /\ IsSeq(k[i].root) /\ IsSeq(root)
      BY <3>2, <3>3, ZenonT(60) DEF SnapOK
    <3>5. IsPrefix(k[i].root, root)
      <4>1. CASE i = Len(k)
        BY <4>1, <3>2, <3>4, PrefixRefl, ZenonT(60)
      <4>2. CASE i # Len(k)
        <5>0. PICK n : n = Len(k)
          BY Zenon
        <5>1. n \in Nat /\ i \in 1..n /\ n \in 1..n /\ i < n
          BY <4>2, <5>0, <1>0, <3>1, SMTT(30)
        <5>2. IsPrefix(k[i].root, k[Len(k)].root)
          BY <5>0, <5>1, ZenonT(60) DEF Branch
        <5> QED
          BY <5>2, <3>2, ZenonT(60)
      <4> QED
        BY <4>1, <4>2, ZenonT(60)
    <3> QED
      BY <3>4, <3>5, Zenon
  <2>5. ASSUME q.state = "pending", IsStrictPrefix(p.x.parent, root) PROVE FALSE
    <3>1. CASE Len(k) = 0
      <4>1. root = << >> /\ IsSeq(root) /\ Len(root) = 0
        BY <3>1, NilSeq, Zenon DEF IsSeq
      <4> QED
        BY <4>1, <2>2, <2>5, StrictlyShorter, SMTT(30)
    <3>2. CASE Len(k) # 0
      <4>1. Len(k) > 0 /\ root = k[Len(k)].root
        <5>1. Len(k) > 0
          BY <3>2, <1>0, SMTT(30)
        <5> QED
          BY <3>2, <5>1, Zenon
      <4>2. \E i \in 1..Len(k) : k[i].parent = p.x.parent
        BY <4>1, <2>2, <2>5, BranchCovers, SMTT(60)
      <4> QED
        BY <4>2, <2>3, <2>5, <1>0, ZenonT(60)
    <3> QED
      BY <3>1, <3>2, Zenon
  <2> QED
    BY <2>3, <2>4, <2>5, ZenonT(60) DEF HonestOne
<1> QED
  BY <1>1, Zenon DEF Honest

HonestInv == peak <= MaxSnapshots => Honest(pending, liveRoot)

LEMMA ScanStaysHonest ==
  ASSUME Counting, TypesInv, RegistryOK(chain), TickOK, ViewInv, ParentsOK, TickScan, Honest(pending, liveRoot)
  PROVE  Honest(pending', liveRoot')
<1>1. CASE UNCHANGED <<rootVars, pending>>
  BY <1>1, Zenon DEF rootVars
<1>2. CASE ~UNCHANGED <<rootVars, pending>>
  <2>1. PICK evs \in EventLists(chain, lastScanned + 1, tick.safe) : EventsLink(evs) /\ ApplyEvents(evs)
    BY <1>2, Zenon DEF TickScan
  <2>2. PICK news :
          /\ news = [i \in DOMAIN evs |-> SnapshotAt(evs[i])]
          /\ liveRoot' = IF evs = << >> THEN liveRoot ELSE Last(news).root
          /\ pending' = PendingAfter(evs)
    BY <2>1, Zenon DEF ApplyEvents
  <2>3. PICK a, b : a = lastScanned + 1 /\ b = tick.safe
    BY Zenon
  <2>4. a \in Int /\ b \in Int /\ evs \in EventLists(chain, a, b) /\ IsSeq(chain) /\ PendingOK(pending) /\ IsSeq(liveRoot)
    <3>1. lastScanned \in Int /\ tick.safe \in Int /\ IsSeq(liveRoot)
      BY Zenon DEF TickOK, ViewInv
    <3>2. IsSeq(chain) /\ PendingOK(pending)
      BY Zenon DEF TypesInv, LedgerOK
    <3>3. lastScanned + 1 \in Int
      BY <3>1
    <3> QED
      BY <3>1, <3>2, <3>3, <2>1, <2>3, Zenon
  <2>5. IsSeq(evs) /\ Len(evs) \in Nat
    BY <2>4, EventListFacts, ZenonT(60)
  <2>6. CASE evs = << >>
    <3>1. DOMAIN evs = {}
      BY <2>6, NilSeq, SMTT(30)
    <3>2. \A p \in pending : ~Contested(p, evs)
      BY <3>1, Zenon DEF Contested
    <3>3. pending' \subseteq pending
      BY <3>2, <2>2, Zenon DEF PendingAfter
    <3> QED
      BY <3>3, <2>2, <2>6, Zenon DEF Honest
  <2>7. CASE evs # << >>
    <3>1. PICK m : m = Len(evs)
      BY ZenonT(60)
    <3>2. m > 0 /\ m \in 1..m /\ m \in Nat
      <4>1. PICK S : evs \in Seq(S)
        BY <2>5, Zenon DEF IsSeq
      <4> QED
        BY <4>1, <3>1, <2>5, <2>7, NilSeq, SMTT(30)
    <3>3. chain[evs[1]].tx.parent = liveRoot
      BY <2>1, <2>7, Zenon DEF EventsLink
    <3>4. Len(news) = m /\ news[m] = SnapshotAt(evs[m])
      BY <2>2, <2>5, <3>1, <3>2, NewsFacts, ZenonT(40)
    <3>5. liveRoot' = RootAfter(chain[evs[m]].tx)
      <4>1. Last(news) = SnapshotAt(evs[m])
        BY <3>4, Zenon DEF Last
      <4>2. SnapshotAt(evs[m]).root = RootAfter(chain[evs[m]].tx)
        BY ZenonT(60) DEF SnapshotAt
      <4> QED
        BY <4>1, <4>2, <2>2, <2>7, ZenonT(40)
    <3>6. Honest(PendingAfter(evs), RootAfter(chain[evs[m]].tx))
      BY <2>4, <3>1, <3>2, <3>3, HonestScan, ZenonT(60)
    <3> QED
      BY <2>2, <3>5, <3>6, Zenon
  <2> QED
    BY <2>6, <2>7, Zenon
<1> QED
  BY <1>1, <1>2, Zenon

LEMMA RollbackIsHonest ==
  ASSUME Counting, TypesInv, StampInv, ViewInv, ParentsOK, HandleReorg, Reaches(snapshots)
  PROVE  Honest(pending', liveRoot')
<1>0. /\ IsSeq(snapshots) /\ Len(snapshots) \in Nat /\ PendingOK(pending)
  BY SeqFacts, Zenon DEF StampInv, TypesInv, LedgerOK
<1>a. PICK n \in 0..Len(snapshots) : \E k :
        /\ k = SubSeq(snapshots, 1, n) /\ snapshots' = k
        /\ liveRoot' = IF n = 0 THEN ParentRoot ELSE snapshots[n].root
        /\ pending' = Audited(Reconciled(pending, k), stateByRoot')
  BY <1>0, RollbackFacts, ZenonT(60)
<1>1. PICK k :
        /\ k = SubSeq(snapshots, 1, n) /\ snapshots' = k
        /\ liveRoot' = IF n = 0 THEN ParentRoot ELSE snapshots[n].root
        /\ pending' = Audited(Reconciled(pending, k), stateByRoot')
  BY <1>a, ZenonT(60)
<1>2. IsSeq(k) /\ Len(k) = n /\ \A i \in 1..n : k[i] = snapshots[i]
  BY <1>0, <1>1, PrefixFacts, Zenon
<1>3. Branch(k)
  <2>1. Branch(snapshots)'
    BY ViewRollback, Zenon DEF ViewInv
  <2> QED
    BY <1>1, <2>1, Zenon DEF Branch
<1>4. n \in Nat /\ (n > 0 => n \in 1..n /\ 1 \in 1..n /\ k[1].parent = << >>)
  <2>1. n \in Nat /\ (n > 0 => n \in 1..n /\ 1 \in 1..n /\ Len(snapshots) > 0)
    BY <1>0
  <2> QED
    BY <2>1, <1>2, Zenon DEF Reaches
<1>5. liveRoot' = IF Len(k) = 0 THEN << >> ELSE k[Len(k)].root
  <2>1. n # 0 => n \in 1..n
    BY <1>4
  <2> QED
    BY <1>1, <1>2, <2>1, Zenon DEF ParentRoot
<1>6. PICK root : root = liveRoot'
  BY Zenon
<1>7. Honest(Reconciled(pending, k), root)
  BY <1>0, <1>2, <1>3, <1>4, <1>5, <1>6, HonestRollback, ZenonT(60)
<1>8. PendingOK(Reconciled(pending, k))
  BY <1>0, PendingMoves, Zenon
<1>9. Honest(Audited(Reconciled(pending, k), stateByRoot'), root)
  BY <1>7, <1>8, HonestAudited, Zenon
<1> QED
  BY <1>1, <1>6, <1>9, Zenon

LEMMA ParentsStep == ASSUME TypesInv, ViewInv, JobRoot, ParentsOK, [Next]_vars PROVE ParentsOK'
<1>1. CASE UNCHANGED signed
  BY <1>1, Zenon DEF ParentsOK
<1>2. CASE FinishSign
  <2>1. PICK x : x = NewReceipt
    BY Zenon 
  <2>2. job.pc = "sign" /\ signed' = signed \cup {x}
    BY <1>2, <2>1, ZenonT(60) DEF FinishSign
  <2>3. x.parent = job.parent
    BY <2>1, Zenon DEF NewReceipt
  <2>4. IsSeq(x.parent)
    BY <2>2, <2>3, Zenon DEF JobRoot, ViewInv
  <2> QED
    BY <2>2, <2>4, Zenon DEF ParentsOK
<1>3. CASE UNCHANGED vars
  BY <1>1, <1>3, Zenon DEF vars, chainVars
<1> QED
  BY <1>1, <1>2, <1>3, SignedStep, Zenon

LEMMA HonestGc ==
  ASSUME TypesInv, NEW ps, Gc(ps), UNCHANGED liveRoot, Honest(ps, liveRoot) PROVE Honest(pending', liveRoot')
<1>1. pending' \subseteq ps
  BY Zenon DEF Gc
<1> QED
  BY <1>1, Zenon DEF Honest

LEMMA HonestStep ==
  ASSUME Counting, TypesInv, StampInv, RegistryOK(chain), PeakOK, TickOK, ViewInv, Whole, JobRoot, ParentsOK, HonestInv, [Next]_vars
  PROVE  HonestInv'
<1> SUFFICES ASSUME peak' <= MaxSnapshots PROVE Honest(pending', liveRoot')
  BY Zenon DEF HonestInv, Honest, HonestOne
<1>0. peak <= MaxSnapshots
  <2>1. peak \in Nat /\ peak' \in Nat /\ peak <= peak' /\ MaxSnapshots \in Nat
    BY PeakStep, CoreAssumption, Zenon DEF PeakOK
  <2> QED
    BY <2>1, SMTT(30)
<1>1. Honest(pending, liveRoot) /\ Reaches(snapshots) /\ PendingOK(pending)
  BY <1>0, Zenon DEF HonestInv, Whole, TypesInv, LedgerOK
<1>2. CASE UNCHANGED <<pending, liveRoot>>
  BY <1>1, <1>2, Zenon
<1>3. CASE Gc(pending) /\ UNCHANGED liveRoot
  BY <1>1, <1>3, HonestGc, Zenon
<1>4. CASE Boot \/ Crash
  <2>1. pending' = {}
    BY <1>4, Zenon DEF Boot, Crash
  <2> QED
    BY <2>1, Zenon DEF Honest
<1>5. CASE TickStart
  <2>1. UNCHANGED liveRoot /\ (Gc(pending) \/ UNCHANGED pending)
    BY <1>5, Zenon DEF TickStart, rootVars, ledgerVars
  <2> QED
    BY <2>1, <1>2, <1>3, Zenon
<1>6. CASE TickReorg
  <2>1. HandleReorg \/ UNCHANGED <<rootVars, pending>>
    BY <1>6, Zenon DEF TickReorg
  <2>2. CASE HandleReorg
    BY <2>2, <1>1, RollbackIsHonest, Zenon
  <2>3. CASE UNCHANGED <<rootVars, pending>>
    BY <2>3, <1>2, Zenon DEF rootVars
  <2> QED
    BY <2>1, <2>2, <2>3, Zenon
<1>7. CASE TickScan
  BY <1>1, <1>7, ScanStaysHonest, Zenon
<1>8. CASE TickParity
  <2>1. PICK ps : ps = IF InParity THEN Audited(pending, stateByRoot) ELSE pending
    BY Zenon 
  <2>2. Gc(ps) /\ UNCHANGED liveRoot
    <3>1. Gc(IF InParity THEN Audited(pending, stateByRoot) ELSE pending) /\ UNCHANGED rootVars
      BY <1>8, Zenon DEF TickParity
    <3>2. UNCHANGED rootVars => UNCHANGED liveRoot
      BY Zenon DEF rootVars
    <3> QED
      BY <2>1, <3>1, <3>2, Zenon
  <2>3. Honest(ps, liveRoot)
    BY <2>1, <1>1, HonestAudited, Zenon
  <2> QED
    BY <2>2, <2>3, HonestGc, Zenon
<1>9. CASE \E t \in Faults : TickFault(t)
  BY <1>2, <1>9, Zenon DEF TickFault, rootVars, ledgerVars
<1>10. CASE FinishSign
  <2>1. PICK x : x = NewReceipt
    BY Zenon 
  <2>2. /\ job.pc = "sign" /\ UNCHANGED rootVars
        /\ pending' = IF x.outcome = "ScreenerPass" THEN pending
                      ELSE {p \in pending : PatchKey(p.x) # PatchKey(x)} \cup {[x |-> x, state |-> "pending"]}
    BY <1>10, <2>1, ZenonT(60) DEF FinishSign
  <2>3. x.parent = liveRoot
    BY <2>1, <2>2, ZenonT(60) DEF NewReceipt, JobRoot
  <2>4. UNCHANGED liveRoot
    BY <2>2, Zenon DEF rootVars
  <2>5. HonestOne([x |-> x, state |-> "pending"], liveRoot)
    BY <2>3, ZenonT(40) DEF HonestOne, IsStrictPrefix
  <2> QED
    BY <2>2, <2>4, <2>5, <1>1, Zenon DEF Honest
<1>11. CASE SubmitStep /\ ~FinishSign
  <2>1. UNCHANGED liveRoot /\ (Gc(pending) \/ UNCHANGED pending)
    BY <1>11, ZenonT(60) DEF SubmitStep, PrepareStart, PrepareFinish, Evaluate, FinishStart, FinishCounters, FinishRejects, FinishFails, rootVars, ledgerVars
  <2> QED
    BY <2>1, <1>2, <1>3, ZenonT(60)
<1>12. CASE OtherStep
  <2>1. UNCHANGED liveRoot /\ (Gc(pending) \/ UNCHANGED pending)
    BY <1>12, ZenonT(60) DEF OtherStep, Freeze, FreezeResolves, Unfreeze, SetRecomputedBaseline, InvalidateBaselines, GetStatus,
                 GetReceiptByHash, rootVars, ledgerVars
  <2> QED
    BY <2>1, <1>2, <1>3, Zenon
<1>13. CASE UNCHANGED coreVars \/ UNCHANGED vars
  BY <1>2, <1>13, Zenon DEF coreVars, rootVars, ledgerVars, vars
<1> QED
  BY <1>4, <1>5, <1>6, <1>7, <1>8, <1>9, <1>10, <1>11, <1>12, <1>13, ZenonT(40) DEF Next, TickStep

LEMMA HonestLedger == ASSUME Counting PROVE Spec => [](peak <= MaxSnapshots => PendingHonest)
<1> DEFINE I == PeakOK /\ Whole /\ JobRoot /\ ParentsOK /\ HonestInv
<1>1. Init => I
  <2>1. Len(<< >>) = 0
    BY NilSeq, Zenon
  <2> QED
    BY <2>1, SMTT(60) DEF Init, ChainInit, PeakOK, Whole, Reaches, JobRoot, NoJob, ParentsOK, HonestInv, Honest
<1>2. TypesInv /\ StampInv /\ RegistryOK(chain) /\ TickOK /\ ViewInv /\ I /\ [Next]_vars => I'
  BY PeakStep, WholeStep, JobRootStep, ParentsStep, HonestStep, Zenon
<1>3. I => (peak <= MaxSnapshots => PendingHonest)
  BY Zenon DEF HonestInv, Honest, HonestOne, PendingHonest
<1> QED
  BY <1>1, <1>2, <1>3, ViewAlways, PTL DEF Spec

-----------------------------------------------------------------------------
(* The theorems. *)
INSTANCE FiniteSetTheorems

LEMMA CountingHolds == Counting
<1>1. ASSUME NEW T \in SUBSET Nat, T # {} PROVE \E n \in T : \A m \in T : n <= m
  <2> DEFINE R == {p \in Nat \X Nat : p[1] < p[2]}
  <2>1. IsWellFoundedOn(R, Nat)
    BY NatLessThanWellFounded, Zenon DEF OpToRel
  <2>2. PICK n \in T : \A m \in T : ~(<<m, n>> \in R)
    BY <1>1, <2>1, WFMin, Zenon
  <2>3. \A m \in T : <<m, n>> \in Nat \X Nat
    BY <2>2, Zenon
  <2>4. \A m \in T : ~(m < n)
    BY <2>2, <2>3, Zenon
  <2> QED
    BY <2>2, <2>4
<1>2. IsFiniteSet({}) /\ Cardinality({}) = 0
  BY FS_EmptySet, Zenon
<1>3. \A S : IsFiniteSet(S) => Cardinality(S) \in Nat
  BY FS_CardinalityType, Zenon
<1>4. \A S, x : IsFiniteSet(S) =>
        /\ IsFiniteSet(S \cup {x})
        /\ x \notin S => Cardinality(S \cup {x}) = Cardinality(S) + 1
  BY FS_AddElement, Zenon
<1>5. \A S : \A T \in SUBSET S : IsFiniteSet(S) => IsFiniteSet(T) /\ Cardinality(T) <= Cardinality(S)
  BY FS_Subset, Zenon
<1>6. \A a, b \in Int : IsFiniteSet(a..b) /\ Cardinality(a..b) = IF a > b THEN 0 ELSE b - a + 1
  BY FS_Interval, Zenon
<1>7. \A S, T : \A f \in Injection(S, T) : IsFiniteSet(T) => IsFiniteSet(S) /\ Cardinality(S) <= Cardinality(T)
  BY FS_Injection, Zenon
<1> QED
  BY <1>1, <1>2, <1>3, <1>4, <1>5, <1>6, <1>7, Zenon DEF Counting

\* Through boots, scans, rollbacks and crashes the coordinator's view is one
\* branch of the registry's history: the snapshots link up to the live root,
\* lastTransitionIndex counts it, and the substrate of each root is at hand.
THEOREM ViewIsOneBranch == Spec => []SnapshotsLinked
BY CountingHolds, OneBranch, PTL

\* For any miners, patches and times: until a restart or a reorganisation, one
\* patch on one parent root has at most one unexpired receipt, whatever ticks,
\* sweeps and evaluations run in between (submitDedup, gcPending).
THEOREM PatchSignedOnce == Spec => [](Undisturbed => OneReceiptPerPatch)
BY CountingHolds, PatchOnce, PTL

\* For any miners, patches and times: until a restart or a reorganisation, no
\* two unexpired receipts are signed for the same link of a miner's chain, with
\* any number of them in flight ahead of the chain (minerChainReservations).
THEOREM LinkSignedOnce == Spec => [](Undisturbed => OneReceiptPerLink)
BY CountingHolds, LinkOnce, PTL

\* For any miners, cap and times: until a restart or a reorganisation, the
\* screener receipts a miner has landed and those it still holds never exceed
\* the cap together, with standard-lane receipts taking links of the same chain
\* (effectiveScreenerCount).
THEOREM CapSigned == Spec => [](Undisturbed => CapHolds)
BY CountingHolds, CapKept, PTL

\* While the chain has no more blocks than the coordinator keeps snapshots, its
\* ledger of advances is honest: a receipt is confirmed only if its advance is
\* on the branch followed, and one beaten to its parent root is not left
\* pending, whatever reorganisations, restarts and failed ticks come between.
THEOREM LedgerIsHonest == Spec => [](peak <= MaxSnapshots => PendingHonest)
BY CountingHolds, HonestLedger, PTL
=============================================================================
