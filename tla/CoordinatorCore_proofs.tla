----------------------- MODULE CoordinatorCore_proofs -----------------------
(***************************************************************************)
(* The coordinator, for any number of miners, patches, blocks,             *)
(* reorganisations, freezes and restarts: what it keeps is about receipts  *)
(* it has signed (TypesInv), what it has seen of the chain and in which    *)
(* version (StampInv), nothing is signed across a freeze, and, whatever    *)
(* the chain does and whichever reads fail, its snapshots are one branch   *)
(* of the registry's history (ViewInv).                                    *)
(***************************************************************************)
EXTENDS CoordinatorCore, TLAPS

-----------------------------------------------------------------------------
(* Sequences and the counters of a chain. *)
LEMMA SeqWidens == ASSUME NEW S, NEW T, S \subseteq T, NEW s \in Seq(S) PROVE s \in Seq(T)
OBVIOUS

LEMMA SeqElement == ASSUME NEW S, NEW s \in Seq(S), NEW i \in 1..Len(s) PROVE s[i] \in S
OBVIOUS

LEMMA NilSeq ==
  ASSUME NEW S
  PROVE  <<>> \in Seq(S) /\ Len(<<>>) = 0 /\ \A s \in Seq(S) : s # <<>> => Len(s) \in Nat \ {0}
OBVIOUS

LEMMA SeqIsFunction ==
  ASSUME NEW S, NEW s \in Seq(S)
  PROVE  Len(s) \in Nat /\ s \in [1..Len(s) -> S] /\ DOMAIN s = 1..Len(s)
OBVIOUS

LEMMA SeqExtensional ==
  ASSUME NEW S, NEW s \in Seq(S), NEW t \in Seq(S), Len(s) = Len(t), \A i \in 1..Len(s) : s[i] = t[i]
  PROVE  s = t
OBVIOUS

LEMMA ConcatOfSeqs ==
  ASSUME NEW S, NEW s \in Seq(S), NEW t \in Seq(S)
  PROVE  /\ s \o t \in Seq(S) /\ Len(s \o t) = Len(s) + Len(t)
         /\ \A i \in 1..(Len(s) + Len(t)) : (s \o t)[i] = IF i <= Len(s) THEN s[i] ELSE t[i - Len(s)]
OBVIOUS

LEMMA SubSeqOfSeq ==
  ASSUME NEW S, NEW s, NEW m \in Int, NEW n \in Int, \A i \in m..n : s[i] \in S
  PROVE  /\ SubSeq(s, m, n) \in Seq(S)
         /\ Len(SubSeq(s, m, n)) = IF m <= n THEN n - m + 1 ELSE 0
         /\ \A i \in 1..(n - m + 1) : SubSeq(s, m, n)[i] = s[m + i - 1]
OBVIOUS

LEMMA AppendToSeq ==
  ASSUME NEW S, NEW s \in Seq(S), NEW e \in S
  PROVE  /\ Append(s, e) \in Seq(S) /\ Append(s, e) # <<>> /\ Len(Append(s, e)) = Len(s) + 1
         /\ \A i \in 1..Len(s) : Append(s, e)[i] = s[i]
         /\ Append(s, e)[Len(s) + 1] = e
OBVIOUS

IsSeq(s) == \E S : s \in Seq(S)

LEMMA SeqFacts ==
  ASSUME NEW s, IsSeq(s)
  PROVE  Len(s) \in Nat /\ DOMAIN s = 1..Len(s)
BY SeqIsFunction, Zenon DEF IsSeq

LEMMA AppendFacts ==
  ASSUME NEW s, IsSeq(s), NEW e
  PROVE  /\ IsSeq(Append(s, e)) /\ Len(Append(s, e)) = Len(s) + 1
         /\ DOMAIN Append(s, e) = 1..(Len(s) + 1)
         /\ \A i \in 1..Len(s) : Append(s, e)[i] = s[i]
         /\ Append(s, e)[Len(s) + 1] = e
<1>1. PICK S : s \in Seq(S)
  BY Zenon DEF IsSeq
<1>2. s \in Seq(S \cup {e})
  BY <1>1, SeqWidens, Zenon
<1>3. Append(s, e) \in Seq(S \cup {e})
  BY <1>2, AppendToSeq, Zenon
<1>4. IsSeq(Append(s, e))
  BY <1>3, Zenon DEF IsSeq
<1>5. /\ Len(Append(s, e)) = Len(s) + 1
      /\ \A i \in 1..Len(s) : Append(s, e)[i] = s[i]
      /\ Append(s, e)[Len(s) + 1] = e
  BY <1>2, AppendToSeq
<1> QED
  BY <1>4, <1>5, SeqFacts, Zenon

LEMMA PrefixFacts ==
  ASSUME NEW s, IsSeq(s), NEW n \in 0..Len(s)
  PROVE  /\ IsSeq(SubSeq(s, 1, n)) /\ Len(SubSeq(s, 1, n)) = n
         /\ DOMAIN SubSeq(s, 1, n) = 1..n
         /\ \A i \in 1..n : SubSeq(s, 1, n)[i] = s[i]
<1>1. PICK S : s \in Seq(S)
  BY Zenon DEF IsSeq
<1>2. Len(s) \in Nat /\ n \in Int /\ \A i \in 1..n : s[i] \in S
  BY <1>1, SeqIsFunction, SeqElement
<1>3. /\ SubSeq(s, 1, n) \in Seq(S)
      /\ Len(SubSeq(s, 1, n)) = IF 1 <= n THEN n - 1 + 1 ELSE 0
      /\ \A i \in 1..(n - 1 + 1) : SubSeq(s, 1, n)[i] = s[1 + i - 1]
  BY <1>2, SubSeqOfSeq
<1>4. IsSeq(SubSeq(s, 1, n)) /\ Len(SubSeq(s, 1, n)) = n
  BY <1>3, <1>2 DEF IsSeq
<1> QED
  BY <1>3, <1>4, <1>2, SeqFacts

-----------------------------------------------------------------------------
(* Finite sets.  What the proofs use of them is a hypothesis of the lemmas *)
(* that count, until CountingHolds takes it from the library's theorems.   *)
Counting ==
  /\ \A T \in SUBSET Nat : T # {} => \E n \in T : \A m \in T : n <= m
  /\ IsFiniteSet({}) /\ Cardinality({}) = 0
  /\ \A S : IsFiniteSet(S) => Cardinality(S) \in Nat
  /\ \A S, x : IsFiniteSet(S) =>
       /\ IsFiniteSet(S \cup {x})
       /\ x \notin S => Cardinality(S \cup {x}) = Cardinality(S) + 1
  /\ \A S : \A T \in SUBSET S : IsFiniteSet(S) => IsFiniteSet(T) /\ Cardinality(T) <= Cardinality(S)
  /\ \A a, b \in Int : IsFiniteSet(a..b) /\ Cardinality(a..b) = IF a > b THEN 0 ELSE b - a + 1
  /\ \A S, T : \A f \in Injection(S, T) : IsFiniteSet(T) => IsFiniteSet(S) /\ Cardinality(S) <= Cardinality(T)

LEMMA EmptyCount == ASSUME Counting PROVE IsFiniteSet({}) /\ Cardinality({}) = 0
BY Zenon DEF Counting

LEMMA CountNat == ASSUME Counting, NEW S, IsFiniteSet(S) PROVE Cardinality(S) \in Nat
BY Zenon DEF Counting

LEMMA AddOne ==
  ASSUME Counting, NEW S, NEW x, IsFiniteSet(S)
  PROVE  IsFiniteSet(S \cup {x}) /\ (x \notin S => Cardinality(S \cup {x}) = Cardinality(S) + 1)
BY Zenon DEF Counting

LEMMA PartFinite ==
  ASSUME Counting, NEW S, IsFiniteSet(S), NEW T \in SUBSET S
  PROVE  IsFiniteSet(T) /\ Cardinality(T) <= Cardinality(S)
BY Zenon DEF Counting

LEMMA IntervalCount ==
  ASSUME Counting, NEW a \in Int, NEW b \in Int
  PROVE  IsFiniteSet(a..b) /\ Cardinality(a..b) = IF a > b THEN 0 ELSE b - a + 1
BY Zenon DEF Counting

LEMMA InjectionCount ==
  ASSUME Counting, NEW S, NEW T, NEW f \in Injection(S, T), IsFiniteSet(T)
  PROVE  IsFiniteSet(S) /\ Cardinality(S) <= Cardinality(T)
BY Zenon DEF Counting

LEMMA BlocksFinite ==
  ASSUME Counting, NEW c, IsSeq(c), NEW T \in SUBSET DOMAIN c
  PROVE  IsFiniteSet(T) /\ Cardinality(T) \in Nat
<1>1. IsFiniteSet(1..Len(c))
  BY SeqFacts, IntervalCount
<1> QED
  BY <1>1, SeqFacts, PartFinite, CountNat, Zenon

LEMMA CountersType ==
  ASSUME Counting, NEW c, IsSeq(c), NEW m
  PROVE  NextIndex(c, m) \in Nat /\ Screeners(c, m) \in Nat
BY BlocksFinite, Zenon DEF NextIndex, Screeners, BlocksOf, TxBlocks

-----------------------------------------------------------------------------
(* The record of a submission. *)
JobFields ==
  {"pc", "miner", "patch", "time", "parent", "gen", "crossed", "outcome", "index", "prev"}

LEMMA NoJobFields ==
  /\ DOMAIN NoJob = JobFields
  /\ NoJob.pc = "none" /\ NoJob.gen = 0 /\ ~NoJob.crossed
BY Zenon DEF NoJob, JobFields

-----------------------------------------------------------------------------
(* Which steps sign, and which move the view. *)
\* Only the signature adds a receipt.
LEMMA SignedStep == Next /\ ~FinishSign => UNCHANGED signed
BY ZenonT(60) DEF Next, TickStep, SubmitStep, OtherStep, ChainStep, Land, MineEmpty, LandStandard, Mine, Reorg, Tick, RollEpoch,
       Boot, Crash, TickStart, TickReorg, TickScan, TickParity, TickFault, PrepareStart, PrepareFinish, Evaluate,
       FinishStart, FinishCounters, FinishRejects, FinishFails, Freeze, FreezeResolves, Unfreeze, SetRecomputedBaseline,
       InvalidateBaselines, GetStatus, GetReceiptByHash, chainVars

\* Only a boot, a crash and the watcher tick move the coordinator's view.
LEMMA RootStep == Next /\ ~(Boot \/ Crash \/ TickReorg \/ TickScan) => UNCHANGED rootVars
BY Zenon DEF Next, TickStep, SubmitStep, OtherStep, TickStart, TickParity, TickFault, PrepareStart, PrepareFinish,
       Evaluate, FinishStart, FinishCounters, FinishSign, FinishRejects, FinishFails, Freeze, FreezeResolves, Unfreeze,
       SetRecomputedBaseline, InvalidateBaselines, GetStatus, GetReceiptByHash, coreVars

-----------------------------------------------------------------------------
(* What the chain may do in a step. *)
LEMMA ChainMoves ==
  ASSUME ChainStep
  PROVE  /\ UNCHANGED signed
         /\ \/ UNCHANGED <<now, chain, reorgs>>
            \/ now' = now + 1 /\ UNCHANGED <<chain, reorgs>>
            \/ /\ UNCHANGED <<now, reorgs>>
               /\ \E tx : /\ chain' = Append(chain, [tx |-> tx, stamp |-> reorgs])
                          /\ \/ tx \in signed /\ V4Accepts(tx, chain, now)
                             \/ tx.outcome \in {"None", "Standard"}
            \/ /\ UNCHANGED now /\ reorgs' = reorgs + 1
               /\ \E n \in 0..(Len(chain) - 1) : chain' = SubSeq(chain, 1, n)
<1>1. CASE \E x \in signed : Land(x)
  BY <1>1, Zenon DEF Land, Mine
<1>2. CASE MineEmpty
  <2>1. NoReceipt.outcome = "None"
    BY Zenon DEF NoReceipt
  <2> QED
    BY <1>2, <2>1, Zenon DEF MineEmpty, Mine
<1>3. CASE \E m \in Miners : LandStandard(m)
  <2>1. PICK m \in Miners : LandStandard(m)
    BY <1>3, Zenon
  <2> DEFINE tx == [miner |-> m, outcome |-> "Standard", index |-> NextIndex(chain, m), prev |-> LastReceipt(chain, m)]
  <2>2. Mine(tx) /\ tx.outcome = "Standard"
    BY <2>1, Zenon DEF LandStandard
  <2> HIDE DEF tx
  <2> QED
    BY <2>2, Zenon DEF Mine
<1>4. CASE \E n \in 0..(Len(chain) - 1) : Reorg(n)
  BY <1>4, Zenon DEF Reorg
<1>5. CASE Tick \/ RollEpoch
  BY <1>5, Zenon DEF Tick, RollEpoch
<1> QED
  BY <1>1, <1>2, <1>3, <1>4, <1>5, Zenon DEF ChainStep

LEMMA ChainStaysSeq == ASSUME IsSeq(chain), ChainStep PROVE IsSeq(chain')
<1>1. CASE UNCHANGED chain
  BY <1>1, Zenon
<1>2. CASE \E b : chain' = Append(chain, b)
  BY <1>2, AppendFacts
<1>3. CASE \E n \in 0..(Len(chain) - 1) : chain' = SubSeq(chain, 1, n)
  BY <1>3, PrefixFacts, SeqFacts
<1>4. \/ UNCHANGED chain
      \/ \E b : chain' = Append(chain, b)
      \/ \E n \in 0..(Len(chain) - 1) : chain' = SubSeq(chain, 1, n)
  BY ChainMoves, Zenon
<1> QED
  BY <1>1, <1>2, <1>3, <1>4, Zenon

-----------------------------------------------------------------------------
(* What the coordinator keeps is about receipts it has signed. *)
ClockOK ==
  /\ now \in Nat /\ boots \in Nat /\ reorgs \in Nat
  /\ boots = 0 => ~up /\ signed = {}

SignedOK ==
  /\ IsFiniteSet(signed)
  /\ \A x \in signed :
       /\ x.miner \in Miners /\ x.index \in Nat
       /\ x.issuedAt \in Nat /\ x.issuedAt <= now /\ x.expiresAt = x.issuedAt + Ttl
       /\ x.outcome \in {"ScreenerPass", "StateAdvance"}

JobOK ==
  /\ DOMAIN job = JobFields /\ job.index \in Nat
  /\ ~up => job.pc = "none"
  /\ job.pc # "none" => /\ job.miner \in Miners /\ job.time \in Nat /\ job.time <= now
                        /\ \A x \in signed : x.issuedAt <= job.time
  /\ job.pc \in {"scored", "counters", "sign"} => job.outcome \in {"ScreenerPass", "StateAdvance"}

PendingOK(ps) == \A p \in ps : DOMAIN p = {"x", "state"} /\ p.x \in signed
LedgerOK ==
  /\ PendingOK(pending)
  /\ \A d \in dedup : d.expiresAt \in Nat
  /\ \A m \in DOMAIN reservation : reservation[m].nextIndex \in Nat /\ reservation[m].expiresAt \in Nat

TypesInv == ClockOK /\ SignedOK /\ JobOK /\ LedgerOK /\ IsSeq(chain)

LEMMA AuditedOK == ASSUME NEW ps, PendingOK(ps), NEW roots PROVE PendingOK(Audited(ps, roots))
BY Zenon DEF PendingOK, Audited

LEMMA PendingMoves ==
  ASSUME PendingOK(pending)
  PROVE  /\ \A evs : PendingOK(PendingAfter(evs))
         /\ \A snaps : PendingOK(Reconciled(pending, snaps))
BY Zenon DEF PendingOK, PendingAfter, Reconciled

LEMMA TypesAlways == ASSUME Counting PROVE Spec => []TypesInv
<1>GcLedger. ASSUME LedgerOK, NEW ps, PendingOK(ps), Gc(ps), UNCHANGED signed
             PROVE  LedgerOK'
  <2> USE <1>GcLedger
  <2>1. pending' \subseteq ps /\ dedup' \subseteq dedup
    BY Zenon DEF Gc, GcDedup
  <2>2. PendingOK(pending)'
    BY <2>1, Zenon DEF PendingOK
  <2>3. DOMAIN reservation' \subseteq DOMAIN reservation /\ \A m \in DOMAIN reservation' : reservation'[m] = reservation[m]
    BY Zenon DEF Gc, GcReservation
  <2> QED
    BY <2>1, <2>2, <2>3, Zenon DEF LedgerOK
<1>TypesInit. Init => TypesInv
  <2> SUFFICES ASSUME Init PROVE TypesInv
    BY Zenon 
  <2>1. IsSeq(chain)
    BY NilSeq, Zenon DEF Init, ChainInit, IsSeq
  <2>2. ClockOK /\ SignedOK /\ LedgerOK
    BY EmptyCount DEF Init, ChainInit, ClockOK, SignedOK, LedgerOK, PendingOK
  <2>3. JobOK
    BY NoJobFields, Zenon DEF Init, JobOK, NoJob
  <2> QED
    BY <2>1, <2>2, <2>3, Zenon DEF TypesInv
<1>TypesFrame. ASSUME TypesInv, UNCHANGED <<now, chain, reorgs, signed, up, boots, job, pending, dedup, reservation>>
               PROVE  TypesInv'
  BY <1>TypesFrame, Zenon DEF TypesInv, ClockOK, SignedOK, JobOK, LedgerOK, PendingOK
\* A step that signs nothing and lets no time pass leaves job and ledger to check.
<1>TypesFrame2. ASSUME TypesInv, UNCHANGED <<now, chain, reorgs, signed, up, boots>>, JobOK', LedgerOK'
                PROVE  TypesInv'
  BY <1>TypesFrame2, Zenon DEF TypesInv, ClockOK, SignedOK
<1>LedgerFrame. ASSUME LedgerOK, UNCHANGED <<signed, pending, dedup, reservation>> PROVE LedgerOK'
  BY <1>LedgerFrame, Zenon DEF LedgerOK, PendingOK
<1>JobFrame. ASSUME JobOK, UNCHANGED <<now, signed, up, job>> PROVE JobOK'
  BY <1>JobFrame, ZenonT(40) DEF JobOK
<1>JobEnds. ASSUME job' = NoJob PROVE JobOK'
  <2> USE <1>JobEnds
  <2>1. NoJob.pc = "none" /\ NoJob.index \in Nat
    BY Zenon DEF NoJob
  <2> QED
    BY <2>1, NoJobFields, ZenonT(40) DEF JobOK
<1>TypesChain. TypesInv /\ ChainStep /\ UNCHANGED coreVars => TypesInv'
  <2> SUFFICES ASSUME TypesInv, ChainStep, UNCHANGED coreVars PROVE TypesInv'
    BY Zenon 
  <2>1. IsSeq(chain')
    BY ChainStaysSeq, Zenon DEF TypesInv
  <2>2. now \in Nat /\ reorgs \in Nat
    BY Zenon DEF TypesInv, ClockOK
  <2>3. now' \in {now, now + 1} /\ reorgs' \in {reorgs, reorgs + 1} /\ UNCHANGED signed
    BY ChainMoves, Zenon
  <2>4. now' \in Nat /\ now <= now' /\ reorgs' \in Nat
    BY <2>2, <2>3
  <2>5. UNCHANGED <<up, boots, job, pending, dedup, reservation>>
    BY Zenon DEF coreVars, ledgerVars
  <2>6. ClockOK'
    BY <2>3, <2>4, <2>5, Zenon DEF TypesInv, ClockOK
  <2>7. SignedOK'
    BY <2>2, <2>3, <2>4, <2>5 DEF TypesInv, SignedOK
  <2>8. JobOK'
    BY <2>2, <2>3, <2>4, <2>5 DEF TypesInv, JobOK
  <2>9. LedgerOK'
    BY <2>3, <2>5, <1>LedgerFrame, Zenon DEF TypesInv
  <2> QED
    BY <2>1, <2>6, <2>7, <2>8, <2>9, Zenon DEF TypesInv
<1>TypesRestart. TypesInv /\ (Boot \/ Crash) => TypesInv'
  <2> SUFFICES ASSUME TypesInv, Boot \/ Crash PROVE TypesInv'
    BY Zenon 
  <2>1. /\ Forgotten /\ pending' = {} /\ UNCHANGED <<now, chain, reorgs, signed>>
        /\ (up' /\ boots' = boots + 1) \/ (~up' /\ up /\ boots' = boots)
    <3>1. Boot => Forgotten /\ pending' = {} /\ up' /\ boots' = boots + 1 /\ UNCHANGED chainVars
      BY Zenon DEF Boot
    <3>2. Crash => Forgotten /\ pending' = {} /\ ~up' /\ up /\ boots' = boots /\ UNCHANGED chainVars
      BY Zenon DEF Crash
    <3>3. UNCHANGED chainVars => UNCHANGED <<now, chain, reorgs, signed>>
      BY Zenon DEF chainVars
    <3> QED
      BY <3>1, <3>2, <3>3, Zenon
  <2>2. ClockOK' /\ SignedOK' /\ IsSeq(chain')
    BY <2>1 DEF TypesInv, ClockOK, SignedOK
  <2>3. JobOK'
    BY <2>1, <1>JobEnds, Zenon DEF Forgotten
  <2>4. LedgerOK'
    BY <2>1 DEF Forgotten, LedgerOK, PendingOK
  <2> QED
    BY <2>2, <2>3, <2>4, Zenon DEF TypesInv
\* The watcher's steps.
<1>TypesTick. TypesInv /\ TickStep => TypesInv'
  <2> SUFFICES ASSUME TypesInv, TickStep PROVE TypesInv'
    BY Zenon 
  <2>0. JobOK /\ LedgerOK /\ PendingOK(pending)
    BY Zenon DEF TypesInv, LedgerOK
  <2>1. UNCHANGED <<chainVars, up, boots, job>>
    BY Zenon DEF TickStep, TickStart, TickReorg, TickScan, TickParity, TickFault
  <2>2. UNCHANGED <<now, chain, reorgs, signed, up, boots, job>>
    BY <2>1, Zenon DEF chainVars
  <2>3. JobOK'
    BY <2>0, <2>2, <1>JobFrame, Zenon
  <2>4. LedgerOK'
    <3>1. CASE TickStart \/ \E t \in Faults : TickFault(t)
      <4>1. Gc(pending) \/ UNCHANGED ledgerVars
        BY <3>1, Zenon DEF TickStart, TickFault
      <4> QED
        BY <4>1, <2>0, <2>2, <1>GcLedger, <1>LedgerFrame, Zenon DEF ledgerVars
    <3>2. CASE TickReorg
      <4>1. UNCHANGED <<reservation, dedup>>
        BY <3>2, Zenon DEF TickReorg
      <4>2. \/ UNCHANGED pending
            \/ \E snaps, roots : pending' = Audited(Reconciled(pending, snaps), roots)
        <5>1. HandleReorg => \E snaps, roots : pending' = Audited(Reconciled(pending, snaps), roots)
          BY Zenon DEF HandleReorg
        <5> QED
          BY <3>2, <5>1, Zenon DEF TickReorg
      <4>3. PendingOK(pending')
        BY <2>0, <4>2, PendingMoves, AuditedOK, Zenon
      <4> QED
        BY <2>0, <2>2, <4>1, <4>3, Zenon DEF LedgerOK, PendingOK
    <3>3. CASE TickScan
      <4>1. UNCHANGED <<reservation, dedup>>
        BY <3>3, Zenon DEF TickScan
      <4>2. UNCHANGED pending \/ \E evs : pending' = PendingAfter(evs)
        BY <3>3, Zenon DEF TickScan, ApplyEvents
      <4>3. PendingOK(pending')
        BY <2>0, <4>2, PendingMoves, Zenon
      <4> QED
        BY <2>0, <2>2, <4>1, <4>3, Zenon DEF LedgerOK, PendingOK
    <3>4. CASE TickParity
      <4> DEFINE ps == IF InParity THEN Audited(pending, stateByRoot) ELSE pending
      <4>1. Gc(ps)
        BY <3>4, Zenon DEF TickParity
      <4>2. PendingOK(ps)
        BY <2>0, AuditedOK, Zenon
      <4> HIDE DEF ps
      <4> QED
        BY <2>0, <2>2, <4>1, <4>2, <1>GcLedger, Zenon
    <3> QED
      BY <3>1, <3>2, <3>3, <3>4, Zenon DEF TickStep
  <2> QED
    BY <2>2, <2>3, <2>4, <1>TypesFrame2, Zenon
\* The phases of a submission up to the signature.
<1>TypesSubmit. TypesInv /\ SubmitStep /\ ~FinishSign => TypesInv'
  <2> SUFFICES ASSUME TypesInv, SubmitStep, ~FinishSign PROVE TypesInv'
    BY Zenon 
  <2>0. JobOK /\ LedgerOK /\ PendingOK(pending) /\ SignedOK /\ ClockOK /\ IsSeq(chain)
    BY Zenon DEF TypesInv, LedgerOK
  <2>1. UNCHANGED <<chainVars, up, boots>>
    BY Zenon DEF SubmitStep, PrepareStart, PrepareFinish, Evaluate, FinishStart, FinishCounters, FinishRejects, FinishFails
  <2>2. UNCHANGED <<now, chain, reorgs, signed, up, boots>>
    BY <2>1, Zenon DEF chainVars
  <2>3. LedgerOK'
    <3>1. CASE \E m \in Miners, q \in Patches : PrepareStart(m, q)
      <4>1. Gc(pending)
        BY <3>1, Zenon DEF PrepareStart
      <4> QED
        BY <4>1, <2>0, <2>2, <1>GcLedger, Zenon
    <3>2. CASE FinishCounters
      <4>1. UNCHANGED <<pending, dedup>>
        BY <3>2, Zenon DEF FinishCounters
      <4>2. \/ UNCHANGED reservation
            \/ reservation' = Restrict(reservation, DOMAIN reservation \ {job.miner})
        BY <3>2, Zenon DEF FinishCounters
      <4>3. DOMAIN reservation' \subseteq DOMAIN reservation /\ \A m \in DOMAIN reservation' : reservation'[m] = reservation[m]
        BY <4>2, Zenon DEF Restrict
      <4> QED
        BY <2>0, <2>2, <4>1, <4>3, Zenon DEF LedgerOK, PendingOK
    <3>3. CASE ~((\E m \in Miners, q \in Patches : PrepareStart(m, q)) \/ FinishCounters)
      <4>1. UNCHANGED ledgerVars
        BY <3>3, Zenon DEF SubmitStep, PrepareFinish, Evaluate, FinishStart, FinishRejects, FinishFails
      <4> QED
        BY <4>1, <2>0, <2>2, <1>LedgerFrame, Zenon DEF ledgerVars
    <3> QED
      BY <3>1, <3>2, <3>3, Zenon
  <2>4. JobOK'
    <3> USE <2>0, <2>2
    <3>0. CASE job' = NoJob
      BY <3>0, <1>JobEnds, Zenon
    <3> SUFFICES ASSUME job' # NoJob PROVE JobOK'
      BY <3>0, Zenon
    <3>1. ASSUME NEW m \in Miners, NEW q \in Patches, PrepareStart(m, q) PROVE JobOK'
      <4>1. job' = [NoJob EXCEPT !.pc = "epochCheck", !.miner = m, !.patch = q, !.time = now] /\ up
        BY <3>1, Zenon DEF PrepareStart
      <4>2. DOMAIN job' = JobFields /\ job'.pc = "epochCheck" /\ job'.miner = m /\ job'.time = now /\ job'.index = NoJob.index
        BY <4>1, NoJobFields, Zenon DEF JobFields
      <4>3. NoJob.index \in Nat
        BY Zenon DEF NoJob
      <4> QED
        BY <4>1, <4>2, <4>3 DEF JobOK, SignedOK, ClockOK
    <3>2. CASE PrepareFinish
      <4>1. job.pc = "epochCheck" /\ job' = [job EXCEPT !.pc = "evaluating", !.parent = liveRoot, !.gen = freezeGeneration]
        BY <3>2, Zenon DEF PrepareFinish
      <4> QED
        BY <4>1, Zenon DEF JobOK, JobFields
    <3>3. ASSUME NEW o \in {"reject", "ScreenerPass", "StateAdvance"}, Evaluate(o) PROVE JobOK'
      BY <3>3 DEF Evaluate, JobOK, JobFields
    <3>4. CASE FinishStart
      <4>1. job.pc = "scored" /\ job' = [job EXCEPT !.pc = "counters"]
        BY <3>4, Zenon DEF FinishStart
      <4> QED
        BY <4>1, Zenon DEF JobOK, JobFields
    <3>5. CASE FinishCounters
      <4>1. PICK i, r : job' = [job EXCEPT !.pc = "sign", !.index = i, !.prev = r] /\ i \in {reservation[job.miner].nextIndex, NextIndex(chain, job.miner)}
                        /\ (i # NextIndex(chain, job.miner) => job.miner \in DOMAIN reservation) /\ job.pc = "counters"
        BY <3>5, Zenon DEF FinishCounters
      <4>2. i \in Nat
        BY <4>1, CountersType, Zenon DEF LedgerOK
      <4> QED
        BY <4>1, <4>2, Zenon DEF JobOK, JobFields
    <3>6. CASE FinishRejects \/ FinishFails
      BY <3>6, Zenon DEF FinishRejects, FinishFails
    <3> QED
      BY <3>1, <3>2, <3>3, <3>4, <3>5, <3>6, Zenon DEF SubmitStep
  <2> QED
    BY <2>2, <2>3, <2>4, <1>TypesFrame2, Zenon
\* The signature: the new receipt carries the time of the first phase.
<1>TypesSign. TypesInv /\ FinishSign => TypesInv'
  <2> SUFFICES ASSUME TypesInv, FinishSign PROVE TypesInv'
    BY Zenon 
  <2> DEFINE x == NewReceipt
  <2>0. JobOK /\ LedgerOK /\ PendingOK(pending) /\ SignedOK /\ ClockOK /\ IsSeq(chain) /\ Ttl \in Nat
    BY CoreAssumption, Zenon DEF TypesInv, LedgerOK
  <2>1. UNCHANGED <<now, chain, reorgs, up, boots>> /\ signed' = signed \cup {x} /\ job' = NoJob /\ job.pc = "sign"
    BY Zenon DEF FinishSign
  <2>2. /\ x.miner = job.miner /\ x.index = job.index /\ x.outcome = job.outcome
        /\ x.issuedAt = job.time /\ x.expiresAt = job.time + Ttl
    BY Zenon DEF NewReceipt
  <2>3. /\ pending' \subseteq pending \cup {[x |-> x, state |-> "pending"]}
        /\ dedup' \subseteq dedup \cup {[key |-> OriginalKey(x), expiresAt |-> x.expiresAt]}
        /\ \E l : reservation' = Reserve(x, l)
    BY Zenon DEF FinishSign
  <2> HIDE DEF x
  <2>4. x.miner \in Miners /\ x.index \in Nat /\ x.issuedAt \in Nat /\ x.issuedAt <= now /\ x.outcome \in {"ScreenerPass", "StateAdvance"}
    BY <2>0, <2>1, <2>2, Zenon DEF JobOK
  <2>5. IsFiniteSet(signed')
    BY <2>0, <2>1, AddOne, Zenon DEF SignedOK
  <2>6. SignedOK'
    BY <2>0, <2>1, <2>2, <2>4, <2>5, Zenon DEF SignedOK
  <2>7. JobOK'
    BY <2>1, <1>JobEnds, Zenon
  <2>8. LedgerOK'
    <3>1. PendingOK(pending)'
      BY <2>0, <2>1, <2>3, SMTT(30) DEF PendingOK
    <3>2. \A d \in dedup' : d.expiresAt \in Nat
      BY <2>0, <2>2, <2>3, <2>4, SMTT(30) DEF LedgerOK
    <3>3. \A m \in DOMAIN reservation' : reservation'[m].nextIndex \in Nat /\ reservation'[m].expiresAt \in Nat
      BY <2>0, <2>2, <2>3, <2>4 DEF LedgerOK, Reserve
    <3> QED
      BY <3>1, <3>2, <3>3, Zenon DEF LedgerOK
  <2>9. ClockOK'
    BY <2>0, <2>1, Zenon DEF ClockOK, JobOK
  <2> QED
    BY <2>0, <2>1, <2>6, <2>7, <2>8, <2>9, ZenonT(40) DEF TypesInv
<1>TypesOther. TypesInv /\ OtherStep => TypesInv'
  <2> SUFFICES ASSUME TypesInv, OtherStep PROVE TypesInv'
    BY Zenon 
  <2>0. JobOK /\ LedgerOK /\ PendingOK(pending)
    BY Zenon DEF TypesInv, LedgerOK
  <2>1. UNCHANGED <<chainVars, up, boots>>
    BY Zenon DEF OtherStep, Freeze, FreezeResolves, Unfreeze, SetRecomputedBaseline, InvalidateBaselines, GetStatus, GetReceiptByHash
  <2>2. UNCHANGED <<now, chain, reorgs, signed, up, boots>>
    BY <2>1, Zenon DEF chainVars
  <2>3. Gc(pending) \/ UNCHANGED ledgerVars
    BY Zenon DEF OtherStep, Freeze, FreezeResolves, Unfreeze, SetRecomputedBaseline, InvalidateBaselines, GetStatus, GetReceiptByHash
  <2>4. LedgerOK'
    BY <2>0, <2>2, <2>3, <1>GcLedger, <1>LedgerFrame, Zenon DEF ledgerVars
  <2>5. UNCHANGED job \/ job' = [job EXCEPT !.crossed = TRUE]
    BY Zenon DEF OtherStep, Freeze, FreezeResolves, Unfreeze, SetRecomputedBaseline, InvalidateBaselines, GetStatus, GetReceiptByHash
  <2>6. JobOK'
    BY <2>0, <2>2, <2>5, Zenon DEF JobOK, JobFields
  <2> QED
    BY <2>2, <2>4, <2>6, <1>TypesFrame2, Zenon
<1>1. TypesInv /\ [Next]_vars => TypesInv'
  <2>1. TypesInv /\ UNCHANGED vars => TypesInv'
    BY <1>TypesFrame, Zenon DEF vars, chainVars, coreVars, ledgerVars
  <2> QED
    BY <2>1, <1>TypesChain, <1>TypesRestart, <1>TypesTick, <1>TypesSubmit, <1>TypesSign, <1>TypesOther, Zenon DEF Next
<1> QED
  BY <1>1, <1>TypesInit, PTL DEF Spec

-----------------------------------------------------------------------------
(* Greatest elements, and the list of snapshots. *)
LEMMA Least ==
  ASSUME Counting, NEW T \in SUBSET Nat, T # {} PROVE \E n \in T : \A m \in T : n <= m
BY Zenon DEF Counting

LEMMA MaxIs == ASSUME NEW T \in SUBSET Int, NEW n \in T, \A t \in T : t <= n PROVE Max(T) = n
<1>1. \E x \in T : \A y \in T : x >= y
  BY Zenon 
<1>2. Max(T) \in T /\ \A y \in T : Max(T) >= y
  BY <1>1, Zenon DEF Max
<1>3. PICK m : m = Max(T)
  BY Zenon 
<1>4. m \in Int /\ n \in Int /\ m >= n /\ m <= n
  BY <1>2, <1>3, Zenon
<1> QED
  BY <1>3, <1>4

LEMMA MaxOfTwo == ASSUME NEW x \in Int, NEW y \in Int PROVE Max({x, y}) = IF x >= y THEN x ELSE y
<1>1. PICK T : T = {x, y}
  BY Zenon
<1>2. T \in SUBSET Int
  BY <1>1, Zenon
<1>3. CASE x >= y
  <2>1. \A t \in T : t <= x
    BY <1>1, <1>3
  <2>2. Max(T) = x
    BY <1>1, <1>2, <2>1, MaxIs, Zenon
  <2> QED
    BY <1>1, <1>3, <2>2, Zenon
<1>4. CASE ~(x >= y)
  <2>1. \A t \in T : t <= y
    BY <1>1, <1>4
  <2>2. Max(T) = y
    BY <1>1, <1>2, <2>1, MaxIs, Zenon
  <2> QED
    BY <1>1, <1>4, <2>2, Zenon
<1> QED
  BY <1>3, <1>4, Zenon

LEMMA MaxFacts ==
  ASSUME Counting, NEW N \in Nat, NEW T \in SUBSET (0..N), T # {}
  PROVE  Max(T) \in T /\ \A t \in T : t <= Max(T)
<1> DEFINE D == {N - t : t \in T}
<1>0. \A t \in T : t \in Int /\ t <= N /\ N - t \in Nat
  OBVIOUS
<1>1. D \in SUBSET Nat /\ D # {}
  BY <1>0, Zenon
<1>2. PICK d \in D : \A e \in D : d <= e
  BY <1>1, Least, Zenon
<1>3. PICK n \in T : d = N - n
  BY <1>2, Zenon
<1>4. \A t \in T : N - n <= N - t
  BY <1>2, <1>3, Zenon
<1>5. \A t \in T : t <= n
  BY <1>0, <1>3, <1>4
<1> QED
  BY <1>5, MaxIs

LEMMA AppendSnapshotsFacts ==
  ASSUME NEW s, IsSeq(s), NEW t, IsSeq(t)
  PROVE  LET r == AppendSnapshots(s, t) IN
         /\ IsSeq(r)
         /\ \E k \in Nat :
              /\ Len(r) = Len(s) + Len(t) - k
              /\ Len(s) + Len(t) <= MaxSnapshots => k = 0
              /\ MaxSnapshots > 0 /\ Len(s) + Len(t) > 0 => Len(r) > 0
              /\ \A i \in 1..Len(r) : r[i] = IF k + i <= Len(s) THEN s[k + i] ELSE t[k + i - Len(s)]
<1> DEFINE u == s \o t
           k == Max({1, Len(u) - MaxSnapshots + 1})
           r == AppendSnapshots(s, t)
<1>1. PICK S : s \in Seq(S)
  BY Zenon DEF IsSeq
<1>2. PICK T : t \in Seq(T)
  BY Zenon DEF IsSeq
<1> DEFINE U == S \cup T
<1>3. s \in Seq(U) /\ t \in Seq(U)
  BY <1>1, <1>2, SeqWidens, Zenon
<1>4. /\ u \in Seq(U) /\ Len(u) = Len(s) + Len(t)
      /\ \A i \in 1..Len(s) + Len(t) : u[i] = IF i <= Len(s) THEN s[i] ELSE t[i - Len(s)]
  BY <1>3, ConcatOfSeqs, Zenon
<1>5. Len(s) \in Nat /\ Len(t) \in Nat /\ MaxSnapshots \in Nat
  BY SeqFacts, CoreAssumption, Zenon
<1> HIDE DEF U
<1>6. \A i \in 1..Len(u) : u[i] \in U
  BY <1>4, SeqElement, Zenon
<1>8. r = SubSeq(u, k, Len(u))
  BY Zenon DEF AppendSnapshots
<1> HIDE DEF u, r
<1>0. PICK l, a, b : l = Len(u) /\ a = Len(s) /\ b = Len(t)
  BY Zenon
<1>a. l \in Nat /\ a \in Nat /\ b \in Nat /\ l = a + b
  BY <1>0, <1>4, <1>5
<1> DEFINE j == l - MaxSnapshots + 1
<1>7. k = IF j <= 1 THEN 1 ELSE j
  <2>1. j \in Int /\ k = Max({1, j})
    BY <1>0, <1>a, <1>5, SMTT(30)
  <2> HIDE DEF j, k
  <2>2. j <= 1 => Max({1, j}) = 1
    BY <2>1, MaxIs
  <2>3. ~(j <= 1) => Max({1, j}) = j
    BY <2>1, MaxIs
  <2> QED
    BY <2>1, <2>2, <2>3, Zenon
<1> HIDE DEF k
<1>9. k \in Nat /\ k >= 1 /\ k <= l + 1
  BY <1>a, <1>5, <1>7
<1>10. \A i \in k..l : u[i] \in U
  BY <1>0, <1>6, <1>9, <1>a, SMTT(30)
<1>11. /\ r \in Seq(U)
       /\ Len(r) = IF k <= l THEN l - k + 1 ELSE 0
       /\ \A i \in 1..(l - k + 1) : r[i] = u[k + i - 1]
  <2>1. r = SubSeq(u, k, l) /\ k \in Int /\ l \in Int
    BY <1>0, <1>8, <1>9, <1>a, SMTT(30)
  <2> QED
    BY <2>1, <1>10, SubSeqOfSeq
<1>12. IsSeq(r)
  BY <1>11, Zenon DEF IsSeq
<1> DEFINE d == k - 1
<1>b. d \in Nat /\ k = d + 1 /\ (a + b <= MaxSnapshots => d = 0)
  BY <1>a, <1>5, <1>7, <1>9, SMTT(30)
<1>13. Len(r) = a + b - d
  BY <1>a, <1>9, <1>11, SMTT(30)
<1>14. ASSUME NEW i \in 1..Len(r)
       PROVE  r[i] = IF d + i <= Len(s) THEN s[d + i] ELSE t[d + i - Len(s)]
  <2>1. i \in 1..(l - k + 1) /\ k + i - 1 = d + i /\ d + i \in 1..(a + b)
    BY <1>a, <1>b, <1>13, SMTT(30)
  <2>2. r[i] = u[d + i]
    BY <2>1, <1>11, Zenon
  <2>3. u[d + i] = IF d + i <= Len(s) THEN s[d + i] ELSE t[d + i - Len(s)]
    <3>1. \A n \in 1..(a + b) : u[n] = IF n <= Len(s) THEN s[n] ELSE t[n - Len(s)]
      BY <1>0, <1>4, Zenon
    <3>2. PICK n \in 1..(a + b) : n = d + i
      BY <2>1, Zenon
    <3>3. u[n] = IF n <= Len(s) THEN s[n] ELSE t[n - Len(s)]
      BY <3>1, Zenon
    <3> HIDE DEF d
    <3>4. CASE n <= Len(s)
      BY <3>2, <3>3, <3>4, <1>b, <1>5, <2>1, Zenon
    <3>5. CASE ~(n <= Len(s))
      BY <3>2, <3>3, <3>5, <1>b, <1>5, <2>1, SMTT(30)
    <3> QED
      BY <3>4, <3>5, Zenon
  <2> QED
    BY <2>2, <2>3, Zenon
<1>16. MaxSnapshots > 0 /\ a + b > 0 => Len(r) > 0
  BY <1>a, <1>5, <1>7, <1>11, SMTT(30)
<1> HIDE DEF d
<1>17. \E n \in Nat :
         /\ Len(r) = Len(s) + Len(t) - n
         /\ Len(s) + Len(t) <= MaxSnapshots => n = 0
         /\ MaxSnapshots > 0 /\ Len(s) + Len(t) > 0 => Len(r) > 0
         /\ \A i \in 1..Len(r) : r[i] = IF n + i <= Len(s) THEN s[n + i] ELSE t[n + i - Len(s)]
  BY <1>0, <1>b, <1>13, <1>14, <1>16, Zenon
<1> QED
  BY <1>12, <1>17, Zenon DEF r

LEMMA FunctionIsSeq ==
  ASSUME NEW n \in Nat, NEW f, f = [i \in 1..n |-> f[i]]
  PROVE  IsSeq(f) /\ Len(f) = n
<1> DEFINE S == {f[i] : i \in 1..n}
<1>1. f \in [1..n -> S]
  BY Zenon 
<1> HIDE DEF S
<1>2. f \in Seq(S)
  BY <1>1
<1>3. IsSeq(f) /\ Len(f) \in Nat /\ 1..Len(f) = 1..n
  BY <1>1, <1>2, SeqIsFunction, Zenon DEF IsSeq
<1>4. ~(Len(f) < n)
  <2> SUFFICES ASSUME Len(f) < n PROVE FALSE
    BY Zenon 
  <2>1. n \in 1..n /\ n \notin 1..Len(f)
    BY <1>3
  <2> QED
    BY <2>1, <1>3, Zenon
<1>5. ~(Len(f) > n)
  <2> SUFFICES ASSUME Len(f) > n PROVE FALSE
    BY Zenon 
  <2>1. Len(f) \in 1..Len(f) /\ Len(f) \notin 1..n
    BY <1>3
  <2> QED
    BY <2>1, <1>3, Zenon
<1> QED
  BY <1>3, <1>4, <1>5

\* A scan lists the advances in its range, all of them and in order.
LEMMA EventListFacts ==
  ASSUME Counting, NEW c, IsSeq(c), NEW a, NEW b, NEW evs \in EventLists(c, a, b)
  PROVE  LET events == AdvanceBlocks(c) \cap a..b IN
         /\ IsSeq(evs) /\ Len(evs) \in Nat /\ Len(evs) = Cardinality(events) /\ DOMAIN evs = 1..Len(evs)
         /\ \A i \in 1..Len(evs) : evs[i] \in events
         /\ \A e \in events : \E i \in 1..Len(evs) : evs[i] = e
         /\ \A i, j \in 1..Len(evs) : i < j => evs[i] < evs[j]
<1> DEFINE events == AdvanceBlocks(c) \cap a..b
           n == Cardinality(events)
<1>1. n \in Nat
  <2>1. events \in SUBSET DOMAIN c
    BY Zenon DEF AdvanceBlocks, TxBlocks
  <2> QED
    BY <2>1, BlocksFinite, Zenon
<1>2. /\ evs \in [1..n -> events]
      /\ \A e \in events : \E i \in DOMAIN evs : evs[i] = e
      /\ \A i, j \in DOMAIN evs : i < j => evs[i] < evs[j]
  BY Zenon DEF EventLists
<1> HIDE DEF n, events
<1>3. evs = [i \in 1..n |-> evs[i]] /\ DOMAIN evs = 1..n
  BY <1>2, Zenon
<1>4. IsSeq(evs) /\ Len(evs) = n
  BY <1>1, <1>3, FunctionIsSeq, Zenon
<1>5. /\ \A i \in 1..Len(evs) : evs[i] \in events
      /\ \A e \in events : \E i \in 1..Len(evs) : evs[i] = e
      /\ \A i, j \in 1..Len(evs) : i < j => evs[i] < evs[j]
  BY <1>2, <1>3, <1>4, Zenon
<1> QED
  BY <1>1, <1>3, <1>4, <1>5, Zenon DEF n, events

LEMMA NewsFacts ==
  ASSUME NEW evs, IsSeq(evs)
  PROVE  LET news == [i \in DOMAIN evs |-> SnapshotAt(evs[i])] IN
         /\ IsSeq(news) /\ Len(news) = Len(evs) /\ DOMAIN news = 1..Len(evs)
         /\ \A i \in 1..Len(evs) : news[i] = SnapshotAt(evs[i])
<1> DEFINE news == [i \in DOMAIN evs |-> SnapshotAt(evs[i])]
<1>1. DOMAIN evs = 1..Len(evs) /\ Len(evs) \in Nat
  BY SeqFacts, Zenon
<1>2. news = [i \in 1..Len(evs) |-> news[i]] /\ DOMAIN news = 1..Len(evs)
  BY <1>1, Zenon
<1>3. \A i \in 1..Len(evs) : news[i] = SnapshotAt(evs[i])
  BY <1>1, Zenon
<1> HIDE DEF news
<1>4. IsSeq(news) /\ Len(news) = Len(evs)
  BY <1>1, <1>2, FunctionIsSeq, Zenon
<1> QED
  BY <1>2, <1>3, <1>4, Zenon DEF news

-----------------------------------------------------------------------------
(* Without a reorganisation every block is its first version, and the      *)
(* coordinator does not roll back.                                         *)
StampInv ==
  /\ IsSeq(snapshots)
  /\ reorgs = 0 => /\ \A i \in DOMAIN chain : chain[i].stamp = 0
                   /\ \A i \in DOMAIN snapshots : snapshots[i].stamp = 0

LEMMA NoRollback == ASSUME TypesInv, StampInv, reorgs = 0, TickReorg PROVE UNCHANGED <<rootVars, pending, signing>>
<1> SUFFICES ASSUME snapshots # << >>, HasReorged(Last(snapshots)) PROVE FALSE
  BY Zenon DEF TickReorg
<1>1. Len(snapshots) \in DOMAIN snapshots
  <2>1. PICK S : snapshots \in Seq(S)
    BY Zenon DEF StampInv, IsSeq
  <2>2. Len(snapshots) \in Nat \ {0} /\ DOMAIN snapshots = 1..Len(snapshots)
    BY <2>1, NilSeq, SeqIsFunction, Zenon
  <2> QED
    BY <2>2
<1>2. Last(snapshots).stamp = 0
  BY <1>1, Zenon DEF StampInv, Last
<1> QED
  BY <1>2, Zenon DEF HasReorged, StampInv

\* A rollback keeps an initial part of the snapshots and works from its end.
LEMMA RollbackFacts ==
  ASSUME Counting, IsSeq(snapshots), HandleReorg
  PROVE  \E n \in 0..Len(snapshots) : LET kept == SubSeq(snapshots, 1, n) IN
         /\ snapshots' = kept
         /\ liveRoot' = IF n = 0 THEN ParentRoot ELSE snapshots[n].root
         /\ lastScanned' = IF n = 0 THEN 0 ELSE snapshots[n].block
         /\ stateByRoot' = stateByRoot \cap ({snapshots[i].root : i \in 1..n} \cup {ParentRoot})
         /\ pending' = Audited(Reconciled(pending, kept), stateByRoot')
<1>SubSeqNil. ASSUME NEW s, NEW m \in Int, NEW n \in Int, n < m PROVE SubSeq(s, m, n) = <<>>
  BY <1>SubSeqNil
<1> DEFINE good == {i \in DOMAIN snapshots : Canonical(snapshots[i])}
           n == IF good = {} THEN 0 ELSE Max(good)
           kept == SubSeq(snapshots, 1, n)
<1>1. Len(snapshots) \in Nat /\ DOMAIN snapshots = 1..Len(snapshots)
  BY SeqFacts, Zenon
<1>2. n \in 0..Len(snapshots)
  <2>1. good \in SUBSET (0..Len(snapshots))
    BY <1>1
  <2> HIDE DEF good
  <2>2. good # {} => Max(good) \in good
    BY <2>1, <1>1, MaxFacts, Zenon
  <2>3. CASE good = {}
    BY <2>3, <1>1
  <2>4. CASE good # {}
    BY <2>1, <2>2, <2>4, Zenon
  <2> QED
    BY <2>3, <2>4, Zenon
<1>3. kept = IF good = {} THEN << >> ELSE SubSeq(snapshots, 1, Max(good))
  <2>1. SubSeq(snapshots, 1, 0) = << >>
    BY <1>SubSeqNil
  <2> HIDE DEF good
  <2> QED
    BY <2>1, Zenon
<1>4. good # {} => n # 0
  <2>1. good \in SUBSET (0..Len(snapshots)) /\ 0 \notin good
    BY <1>1
  <2> HIDE DEF good
  <2> QED
    BY <2>1, <1>1, MaxFacts, Zenon
<1>5. /\ snapshots' = kept
      /\ liveRoot' = IF kept = << >> THEN ParentRoot ELSE Last(kept).root
      /\ lastScanned' = IF kept = << >> THEN 0 ELSE Last(kept).block
      /\ stateByRoot' = stateByRoot \cap ({kept[i].root : i \in DOMAIN kept} \cup {ParentRoot})
      /\ pending' = Audited(Reconciled(pending, kept), stateByRoot')
  <2>1. PICK k : k = IF good = {} THEN << >> ELSE SubSeq(snapshots, 1, Max(good))
    BY Zenon
  <2>2. /\ snapshots' = k
        /\ liveRoot' = IF k = << >> THEN ParentRoot ELSE Last(k).root
        /\ lastScanned' = IF k = << >> THEN 0 ELSE Last(k).block
        /\ stateByRoot' = stateByRoot \cap ({k[i].root : i \in DOMAIN k} \cup {ParentRoot})
        /\ pending' = Audited(Reconciled(pending, k), stateByRoot')
    BY <2>1, Zenon DEF HandleReorg
  <2> QED
    BY <1>3, <2>1, <2>2, Zenon
<1> HIDE DEF good, n
<1>6. /\ IsSeq(kept) /\ Len(kept) = n /\ DOMAIN kept = 1..n
      /\ \A i \in 1..n : kept[i] = snapshots[i]
  BY <1>2, PrefixFacts, Zenon
<1>7. (kept = << >>) <=> (n = 0)
  <2>1. PICK S : kept \in Seq(S)
    BY <1>6, Zenon DEF IsSeq
  <2> HIDE DEF kept
  <2> QED
    BY <1>6, <2>1, NilSeq, Zenon
<1>8. n # 0 => Last(kept) = snapshots[n]
  BY <1>1, <1>2, <1>6 DEF Last
<1>9. {kept[i].root : i \in DOMAIN kept} = {snapshots[i].root : i \in 1..n}
  BY <1>6, Zenon
<1> HIDE DEF kept
<1>10. /\ snapshots' = kept
       /\ liveRoot' = IF n = 0 THEN ParentRoot ELSE snapshots[n].root
       /\ lastScanned' = IF n = 0 THEN 0 ELSE snapshots[n].block
       /\ stateByRoot' = stateByRoot \cap ({snapshots[i].root : i \in 1..n} \cup {ParentRoot})
       /\ pending' = Audited(Reconciled(pending, kept), stateByRoot')
  BY <1>5, <1>7, <1>8, <1>9, Zenon
<1> QED
  BY <1>2, <1>10, Zenon DEF kept

LEMMA ClockStep == Next => (ChainStep /\ UNCHANGED coreVars) \/ UNCHANGED <<now, chain, reorgs>>
<1> SUFFICES ASSUME Next, ~(ChainStep /\ UNCHANGED coreVars) PROVE UNCHANGED <<now, chain, reorgs>>
  BY Zenon 
<1>1. UNCHANGED chainVars => UNCHANGED <<now, chain, reorgs>>
  BY Zenon DEF chainVars
<1>2. Boot \/ Crash => UNCHANGED chainVars
  BY ZenonT(60) DEF Boot, Crash
<1>3. TickStep => UNCHANGED chainVars
  BY Zenon DEF TickStep, TickStart, TickReorg, TickScan, TickParity, TickFault
<1>4. SubmitStep /\ ~FinishSign => UNCHANGED chainVars
  BY ZenonT(60) DEF SubmitStep, PrepareStart, PrepareFinish, Evaluate, FinishStart, FinishCounters, FinishRejects, FinishFails
<1>5. FinishSign => UNCHANGED <<now, chain, reorgs>>
  BY Zenon DEF FinishSign
<1>6. OtherStep => UNCHANGED chainVars
  BY Zenon DEF OtherStep, Freeze, FreezeResolves, Unfreeze, SetRecomputedBaseline, InvalidateBaselines, GetStatus, GetReceiptByHash
<1> QED
  BY <1>1, <1>2, <1>3, <1>4, <1>5, <1>6, Zenon DEF Next

LEMMA StampStep == ASSUME Counting PROVE TypesInv /\ StampInv /\ [Next]_vars => StampInv'
\* A scan or a boot appends the snapshots of the events it applies.
<1>ScanFacts.
    ASSUME IsSeq(chain), IsSeq(snapshots), NEW a, NEW b, NEW evs \in EventLists(chain, a, b), NEW s, IsSeq(s)
    PROVE  LET r == AppendSnapshots(s, [i \in DOMAIN evs |-> SnapshotAt(evs[i])]) IN
           /\ IsSeq(r)
           /\ \A i \in DOMAIN r : (\E j \in DOMAIN s : r[i] = s[j])
                                    \/ (\E e \in AdvanceBlocks(chain) : r[i] = SnapshotAt(e))
  <2> USE <1>ScanFacts
  <2> DEFINE t == [i \in DOMAIN evs |-> SnapshotAt(evs[i])]
             r == AppendSnapshots(s, t)
  <2>1. /\ Len(evs) \in Nat /\ IsSeq(evs)
        /\ \A i \in 1..Len(evs) : evs[i] \in AdvanceBlocks(chain)
    BY EventListFacts, Zenon
  <2>2. IsSeq(t) /\ Len(t) = Len(evs) /\ \A i \in 1..Len(evs) : t[i] = SnapshotAt(evs[i])
    BY <2>1, NewsFacts, Zenon
  <2>3. Len(s) \in Nat /\ DOMAIN s = 1..Len(s)
    BY SeqFacts, Zenon
  <2> HIDE DEF t
  <2>4. IsSeq(r)
    BY <2>2, AppendSnapshotsFacts, Zenon
  <2>5. PICK k \in Nat :
          /\ Len(r) = Len(s) + Len(t) - k
          /\ \A i \in 1..Len(r) : r[i] = IF k + i <= Len(s) THEN s[k + i] ELSE t[k + i - Len(s)]
    BY <2>2, AppendSnapshotsFacts, ZenonT(60)
  <2>6. DOMAIN r = 1..Len(r) /\ Len(r) \in Nat
    BY <2>4, SeqFacts, Zenon
  <2> HIDE DEF r
  <2>7. ASSUME NEW i \in DOMAIN r
        PROVE  (\E j \in DOMAIN s : r[i] = s[j]) \/ (\E e \in AdvanceBlocks(chain) : r[i] = SnapshotAt(e))
    <3>1. PICK j : j = k + i
      BY Zenon
    <3>2. j \in Nat /\ j >= 1 /\ j <= Len(s) + Len(t) /\ i \in 1..Len(r)
      BY <3>1, <2>1, <2>2, <2>3, <2>5, <2>6, SMTT(30)
    <3>3. CASE j <= Len(s)
      BY <3>1, <3>2, <3>3, <2>3, <2>5, SMTT(30)
    <3>4. CASE ~(j <= Len(s))
      <4>1. PICK h : h = j - Len(s)
        BY Zenon
      <4>2. h \in 1..Len(evs) /\ r[i] = t[h]
        <5>1. Len(t) = Len(evs) /\ Len(evs) \in Nat /\ Len(s) \in Nat
          BY <2>1, <2>2, <2>3, Zenon
        <5>2. h \in 1..Len(evs)
          BY <5>1, <4>1, <3>2, <3>4, SMTT(30)
        <5>3. r[i] = IF j <= Len(s) THEN s[j] ELSE t[j - Len(s)]
          BY <2>5, <3>1, <3>2, SMTT(60)
        <5> QED
          BY <5>2, <5>3, <4>1, <3>4, Zenon
      <4> QED
        BY <4>2, <2>1, <2>2, Zenon
    <3> QED
      BY <3>3, <3>4, Zenon
  <2> QED
    BY <2>4, <2>7, Zenon DEF r, t
<1> SUFFICES ASSUME TypesInv, StampInv, [Next]_vars PROVE StampInv'
  BY Zenon 
<1>0. IsSeq(chain) /\ IsSeq(snapshots) /\ reorgs \in Nat
  BY Zenon DEF TypesInv, StampInv, ClockOK
<1>1. CASE UNCHANGED <<chain, reorgs, snapshots>>
  BY <1>1, Zenon DEF StampInv
<1>2. CASE UNCHANGED vars
  BY <1>2, <1>1, Zenon DEF vars, chainVars, coreVars, rootVars
<1>3. CASE ChainStep /\ UNCHANGED coreVars
  <2>1. UNCHANGED snapshots
    BY <1>3, Zenon DEF coreVars, rootVars
  <2>2. CASE UNCHANGED <<chain, reorgs>>
    BY <2>1, <2>2, <1>1, Zenon
  <2>3. CASE UNCHANGED reorgs /\ \E tx : chain' = Append(chain, [tx |-> tx, stamp |-> reorgs])
    <3>1. PICK tx : chain' = Append(chain, [tx |-> tx, stamp |-> reorgs])
      BY <2>3, ZenonT(60)
    <3>2. /\ DOMAIN chain' = 1..(Len(chain) + 1) /\ DOMAIN chain = 1..Len(chain) /\ Len(chain) \in Nat
          /\ \A i \in 1..Len(chain) : chain'[i] = chain[i]
          /\ chain'[Len(chain) + 1].stamp = reorgs
      BY <3>1, <1>0, AppendFacts, SeqFacts, SMTT(30)
    <3>3. reorgs = 0 => \A i \in DOMAIN chain' : chain'[i].stamp = 0
      BY <3>2 DEF StampInv
    <3> QED
      BY <2>1, <2>3, <3>3, Zenon DEF StampInv
  <2>4. CASE reorgs' = reorgs + 1
    BY <2>1, <2>4, <1>0 DEF StampInv
  <2> QED
    BY <1>3, <2>2, <2>3, <2>4, ChainMoves, Zenon
<1>4. CASE Next /\ ~(ChainStep /\ UNCHANGED coreVars)
  <2>0. UNCHANGED <<chain, reorgs>>
    BY <1>4, ClockStep, Zenon
  <2>1. CASE Boot
    <3>1. PICK b : \E evs \in EventLists(chain, 1, b) :
                snapshots' = AppendSnapshots(<< >>, [i \in DOMAIN evs |-> SnapshotAt(evs[i])])
      BY <2>1, Zenon DEF Boot
    <3>2. IsSeq(<< >>) /\ DOMAIN << >> = {}
      BY NilSeq, SMTT(30) DEF IsSeq
    <3>3. /\ IsSeq(snapshots')
          /\ \A i \in DOMAIN snapshots' : \E e \in AdvanceBlocks(chain) : snapshots'[i] = SnapshotAt(e)
      BY <3>1, <3>2, <1>0, <1>ScanFacts, SMTT(30)
    <3>4. \A e \in AdvanceBlocks(chain) : e \in DOMAIN chain /\ SnapshotAt(e).stamp = chain[e].stamp
      BY Zenon DEF AdvanceBlocks, TxBlocks, SnapshotAt
    <3> QED
      BY <2>0, <3>3, <3>4, Zenon DEF StampInv
  <2>2. CASE Crash
    <3>1. snapshots' = << >>
      BY <2>2, Zenon DEF Crash
    <3>2. IsSeq(<< >>) /\ DOMAIN << >> = {}
      BY NilSeq DEF IsSeq
    <3> QED
      BY <2>0, <3>1, <3>2, Zenon DEF StampInv
  <2>3. CASE TickReorg
    <3>1. CASE reorgs = 0
      BY <2>0, <2>3, <3>1, <1>1, NoRollback, Zenon DEF rootVars
    <3>2. CASE reorgs # 0
      <4>1. UNCHANGED snapshots \/ \E n \in 0..Len(snapshots) : snapshots' = SubSeq(snapshots, 1, n)
        <5>1. HandleReorg => \E n \in 0..Len(snapshots) : snapshots' = SubSeq(snapshots, 1, n)
          BY <1>0, RollbackFacts, Zenon
        <5> QED
          BY <2>3, <5>1, Zenon DEF TickReorg, rootVars
      <4> QED
        BY <4>1, <3>2, <2>0, <1>0, PrefixFacts, ZenonT(60) DEF StampInv
    <3> QED
      BY <3>1, <3>2, Zenon
  <2>4. CASE TickScan
    <3>1. \/ UNCHANGED snapshots
          \/ \E evs \in EventLists(chain, lastScanned + 1, tick.safe) :
                snapshots' = AppendSnapshots(snapshots, [i \in DOMAIN evs |-> SnapshotAt(evs[i])])
      <4>1. \A evs : ApplyEvents(evs)
              => snapshots' = AppendSnapshots(snapshots, [i \in DOMAIN evs |-> SnapshotAt(evs[i])])
        BY Zenon DEF ApplyEvents
      <4>2. PICK evs \in EventLists(chain, lastScanned + 1, tick.safe) : ApplyEvents(evs) \/ UNCHANGED rootVars
        BY <2>4, Zenon DEF TickScan
      <4>3. UNCHANGED rootVars => UNCHANGED snapshots
        BY Zenon DEF rootVars
      <4> QED
        BY <4>1, <4>2, <4>3, Zenon
    <3>2. CASE UNCHANGED snapshots
      BY <3>2, <2>0, <1>1, Zenon
    <3>3. CASE \E evs \in EventLists(chain, lastScanned + 1, tick.safe) :
                snapshots' = AppendSnapshots(snapshots, [i \in DOMAIN evs |-> SnapshotAt(evs[i])])
      <4>1. /\ IsSeq(snapshots')
            /\ \A i \in DOMAIN snapshots' : (\E j \in DOMAIN snapshots : snapshots'[i] = snapshots[j])
                                              \/ (\E e \in AdvanceBlocks(chain) : snapshots'[i] = SnapshotAt(e))
        BY <3>3, <1>0, <1>ScanFacts
      <4>2. \A e \in AdvanceBlocks(chain) : e \in DOMAIN chain /\ SnapshotAt(e).stamp = chain[e].stamp
        BY Zenon DEF AdvanceBlocks, TxBlocks, SnapshotAt
      <4> QED
        BY <2>0, <4>1, <4>2, SMTT(30) DEF StampInv
    <3> QED
      BY <3>1, <3>2, <3>3, Zenon
  <2>5. CASE ~(Boot \/ Crash \/ TickReorg \/ TickScan)
    BY <1>4, <2>0, <2>5, <1>1, RootStep, Zenon DEF rootVars
  <2> QED
    BY <2>1, <2>2, <2>3, <2>4, <2>5, Zenon
<1> QED
  BY <1>2, <1>3, <1>4, Zenon

LEMMA StampAlways == ASSUME Counting PROVE Spec => [](TypesInv /\ StampInv)
<1>1. Init => StampInv
  BY NilSeq DEF Init, ChainInit, StampInv, IsSeq
<1> QED
  BY <1>1, StampStep, TypesAlways, PTL DEF Spec

-----------------------------------------------------------------------------
(* Freezing. *)
\* A submission in flight carries the freeze generation it started under, and
\* has crossed a freeze only if that generation is past.  A freeze that has
\* resolved left neither a tick nor a phase of a submission under way.
FreezeInv ==
  /\ freezeGeneration \in Nat
  /\ ~up => ~frozen
  /\ frozen /\ ~freezing => MutexFree
  /\ DOMAIN job = JobFields
  /\ job.gen \in Nat
  /\ job.pc \in {"evaluating", "scored"} =>
       job.gen <= freezeGeneration /\ (job.crossed => job.gen < freezeGeneration)
  /\ job.pc \notin {"evaluating", "scored"} => ~job.crossed

LEMMA FreezeAlways == Spec => []FreezeInv
<1>FreezeInit. Init => FreezeInv
  BY NoJobFields DEF Init, FreezeInv
<1>FreezeFrame. ASSUME FreezeInv, UNCHANGED <<up, freezeVars, job, tick>>
                PROVE  FreezeInv'
  BY <1>FreezeFrame, Zenon DEF FreezeInv, freezeVars, MutexFree
<1>FreezeStep. FreezeInv /\ [Next]_vars => FreezeInv'
  <2> SUFFICES ASSUME FreezeInv, [Next]_vars PROVE FreezeInv'
    BY Zenon 
  <2>1. CASE UNCHANGED vars
    BY <2>1, <1>FreezeFrame, Zenon DEF vars, coreVars
  <2>2. CASE ChainStep /\ UNCHANGED coreVars
    BY <2>2, <1>FreezeFrame, Zenon DEF coreVars
  <2>3. CASE Boot \/ Crash
    <3>1. Forgotten
      BY <2>3, Zenon DEF Boot, Crash
    <3> QED
      BY <3>1, NoJobFields DEF Forgotten, FreezeInv
  <2>4. CASE TickStart
    BY <2>4, Zenon DEF TickStart, FreezeInv, freezeVars, MutexFree
  <2>5. CASE TickReorg \/ TickScan \/ TickParity \/ \E t \in Faults : TickFault(t)
    BY <2>5 DEF TickReorg, TickScan, TickParity, TickFault, FreezeInv, freezeVars, MutexFree, Idle
  <2>6. CASE \E m \in Miners, q \in Patches : PrepareStart(m, q)
    BY <2>6, NoJobFields DEF PrepareStart, FreezeInv, freezeVars, MutexFree, JobFields
  <2>7. CASE PrepareFinish
    <3>1. job.pc = "epochCheck" /\ UNCHANGED <<up, freezeVars, tick>>
      BY <2>7, Zenon DEF PrepareFinish
    <3>2. CASE job' = [job EXCEPT !.pc = "evaluating", !.parent = liveRoot, !.gen = freezeGeneration]
      BY <3>1, <3>2, SMTT(30) DEF FreezeInv, freezeVars, MutexFree, JobFields
    <3>3. CASE job' = NoJob
      BY <3>1, <3>3, NoJobFields DEF FreezeInv, freezeVars, MutexFree
    <3> QED
      BY <2>7, <3>2, <3>3, Zenon DEF PrepareFinish
  <2>8. CASE \E o \in {"reject", "ScreenerPass", "StateAdvance"} : Evaluate(o)
    BY <2>8, NoJobFields DEF Evaluate, FreezeInv, freezeVars, MutexFree, JobFields
  <2>9. CASE FinishStart
    BY <2>9, NoJobFields DEF FinishStart, StillAdmissible, FreezeInv, freezeVars, MutexFree, JobFields
  <2>10. CASE FinishCounters \/ FinishSign \/ FinishRejects \/ FinishFails
    <3>1. job.pc \in {"counters", "sign"} /\ UNCHANGED <<up, freezeVars, tick>>
      BY <2>10, Zenon DEF FinishCounters, FinishSign, FinishRejects, FinishFails
    <3>2. CASE \E i, p : job' = [job EXCEPT !.pc = "sign", !.index = i, !.prev = p]
      BY <3>1, <3>2, ZenonT(40) DEF FreezeInv, freezeVars, MutexFree, JobFields
    <3>3. CASE job' = NoJob
      BY <3>1, <3>3, NoJobFields DEF FreezeInv, freezeVars, MutexFree
    <3> QED
      BY <2>10, <3>2, <3>3, Zenon DEF FinishCounters, FinishSign, FinishRejects, FinishFails
  <2>11. CASE Freeze
    BY <2>11, NoJobFields DEF Freeze, FreezeInv, MutexFree, JobFields
  <2>12. CASE FreezeResolves \/ Unfreeze
    BY <2>12 DEF FreezeResolves, Unfreeze, FreezeInv, MutexFree
  <2>13. CASE (\E root \in PatchLists : SetRecomputedBaseline(root)) \/ InvalidateBaselines \/ GetStatus \/ GetReceiptByHash
    BY <2>13, <1>FreezeFrame, Zenon DEF SetRecomputedBaseline, InvalidateBaselines, GetStatus, GetReceiptByHash
  <2> QED
    BY <2>1, <2>2, <2>3, <2>4, <2>5, <2>6, <2>7, <2>8, <2>9, <2>10, <2>11, <2>12, <2>13, ZenonT(40)
       DEF Next, TickStep, SubmitStep, OtherStep
<1>. QED
  BY <1>FreezeInit, <1>FreezeStep, PTL DEF Spec

\* For any freezes, restarts and reorganisations: a submission whose evaluation
\* was running when freeze() was called is never signed.
THEOREM FreezeCuts == Spec => FreezeCutsInFlight
<1>1. FreezeInv /\ [Next]_vars => [signed' # signed => ~job.crossed]_vars
  <2> SUFFICES ASSUME FreezeInv, Next, signed' # signed PROVE ~job.crossed
    BY Zenon DEF vars, chainVars
  <2>1. FinishSign
    BY SignedStep, Zenon
  <2> QED
    BY <2>1, Zenon DEF FinishSign, FreezeInv
<1> QED
  BY <1>1, FreezeAlways, PTL DEF Spec, FreezeCutsInFlight

\* Between the resolution of freeze() and unfreeze() nothing is signed and the
\* live root stays, whatever ticks, submissions and lookups interleave.
THEOREM FrozenIsQuiet == Spec => FreezeHolds
<1>1. FreezeInv /\ [Next]_vars
        => [frozen /\ ~freezing /\ up' => signed' = signed /\ liveRoot' = liveRoot]_vars
  <2> SUFFICES ASSUME FreezeInv, Next, frozen, ~freezing, up' PROVE signed' = signed /\ liveRoot' = liveRoot
    BY Zenon DEF vars, chainVars, coreVars, rootVars
  <2>1. up /\ tick = Idle /\ job.pc \in {"none", "evaluating", "scored"}
    BY Zenon DEF FreezeInv, MutexFree
  <2>2. ~FinishSign
    BY <2>1, Zenon DEF FinishSign
  <2>3. ~(Boot \/ Crash \/ TickReorg \/ TickScan)
    BY <2>1, Zenon DEF Boot, Crash, TickReorg, TickScan, Idle
  <2> QED
    BY <2>2, <2>3, SignedStep, RootStep, Zenon DEF rootVars
<1> QED
  BY <1>1, FreezeAlways, PTL DEF Spec, FreezeHolds

-----------------------------------------------------------------------------
(* Prefixes: roots are sequences of patches. *)
LEMMA PrefixDef ==
  ASSUME NEW s, IsSeq(s), NEW t, IsSeq(t)
  PROVE  IsPrefix(s, t) <=> Len(s) <= Len(t) /\ \A i \in 1..Len(s) : s[i] = t[i]
<1>0. Len(s) \in Nat /\ Len(t) \in Nat
  BY SeqFacts, Zenon
<1> SUFFICES ASSUME Len(s) <= Len(t)
             PROVE  SubSeq(s, 1, Len(s)) = SubSeq(t, 1, Len(s)) <=> \A i \in 1..Len(s) : s[i] = t[i]
  BY Zenon DEF IsPrefix
<1> DEFINE u == SubSeq(s, 1, Len(s))
           v == SubSeq(t, 1, Len(s))
<1>1. /\ IsSeq(u) /\ Len(u) = Len(s) /\ \A i \in 1..Len(s) : u[i] = s[i]
      /\ IsSeq(v) /\ Len(v) = Len(s) /\ \A i \in 1..Len(s) : v[i] = t[i]
  <2>1. Len(s) \in 0..Len(s) /\ Len(s) \in 0..Len(t)
    BY <1>0
  <2> QED
    BY <2>1, PrefixFacts, Zenon
<1> HIDE DEF u, v
<1>2. (\A i \in 1..Len(s) : u[i] = v[i]) => u = v
  <2>1. PICK S : u \in Seq(S)
    BY <1>1, Zenon DEF IsSeq
  <2>2. PICK T : v \in Seq(T)
    BY <1>1, Zenon DEF IsSeq
  <2>3. u \in Seq(S \cup T) /\ v \in Seq(S \cup T)
    BY <2>1, <2>2, SeqWidens, Zenon
  <2> QED
    BY <2>3, <1>1, SeqExtensional, Zenon
<1>3. u = v <=> \A i \in 1..Len(s) : s[i] = t[i]
  BY <1>1, <1>2, Zenon
<1> QED
  BY <1>3, Zenon DEF u, v

LEMMA SameSeq ==
  ASSUME NEW s, IsSeq(s), NEW t, IsSeq(t), Len(s) = Len(t), \A i \in 1..Len(s) : s[i] = t[i]
  PROVE  s = t
<1>1. PICK S : s \in Seq(S)
  BY Zenon DEF IsSeq
<1>2. PICK T : t \in Seq(T)
  BY Zenon DEF IsSeq
<1>3. s \in Seq(S \cup T) /\ t \in Seq(S \cup T)
  BY <1>1, <1>2, SeqWidens, Zenon
<1> QED
  BY <1>3, SeqExtensional, Zenon

LEMMA PrefixEq ==
  ASSUME NEW s, IsSeq(s), NEW t, IsSeq(t), IsPrefix(s, t), Len(s) = Len(t)
  PROVE  s = t
BY PrefixDef, SameSeq, Zenon

LEMMA PrefixRefl == ASSUME NEW s, IsSeq(s) PROVE IsPrefix(s, s)
BY PrefixDef, SeqFacts

LEMMA PrefixTrans ==
  ASSUME NEW s, IsSeq(s), NEW t, IsSeq(t), NEW u, IsSeq(u), IsPrefix(s, t), IsPrefix(t, u)
  PROVE  IsPrefix(s, u)
<1>1. Len(s) \in Nat /\ Len(t) \in Nat /\ Len(u) \in Nat
  BY SeqFacts, Zenon
<1>2. Len(s) <= Len(t) /\ Len(t) <= Len(u)
  BY PrefixDef, Zenon
<1>3. \A i \in 1..Len(s) : i \in 1..Len(t)
  BY <1>1, <1>2
<1>4. \A i \in 1..Len(s) : s[i] = u[i]
  BY <1>3, PrefixDef
<1> QED
  BY <1>1, <1>2, <1>4, PrefixDef

LEMMA PrefixCompare ==
  ASSUME NEW s, IsSeq(s), NEW t, IsSeq(t), NEW u, IsSeq(u),
         IsPrefix(s, u), IsPrefix(t, u), Len(s) <= Len(t)
  PROVE  IsPrefix(s, t)
<1>1. Len(s) \in Nat /\ Len(t) \in Nat
  BY SeqFacts, Zenon
<1>2. \A i \in 1..Len(s) : i \in 1..Len(t)
  BY <1>1
<1>3. \A i \in 1..Len(s) : s[i] = t[i]
  BY <1>2, PrefixDef
<1> QED
  BY <1>3, PrefixDef, Zenon

LEMMA PrefixAppend == ASSUME NEW s, IsSeq(s), NEW e PROVE IsPrefix(s, Append(s, e))
<1>1. Len(s) \in Nat
  BY SeqFacts, Zenon
<1>2. PICK t : t = Append(s, e)
  BY Zenon
<1>3. IsSeq(t) /\ Len(t) = Len(s) + 1 /\ \A i \in 1..Len(s) : t[i] = s[i]
  BY <1>2, AppendFacts
<1>4. IsPrefix(s, t)
  BY <1>1, <1>3, PrefixDef, SMTT(30)
<1> QED
  BY <1>2, <1>4, Zenon

-----------------------------------------------------------------------------
(* The registry's history: the advances on a chain form one line of roots. *)
Before(c, b) == {a \in AdvanceBlocks(c) : a < b}
RegistryOK(c) ==
  \A b \in AdvanceBlocks(c) :
    /\ IsSeq(c[b].tx.parent)
    /\ Len(c[b].tx.parent) = Cardinality(Before(c, b))
    /\ \A a \in Before(c, b) : IsPrefix(RootAfter(c[a].tx), c[b].tx.parent)

LEMMA RootAfterFacts ==
  ASSUME NEW x, IsSeq(x.parent)
  PROVE  /\ IsSeq(RootAfter(x)) /\ Len(RootAfter(x)) = Len(x.parent) + 1
         /\ IsPrefix(x.parent, RootAfter(x))
BY AppendFacts, PrefixAppend, Zenon DEF RootAfter

LEMMA AdvancesFinite ==
  ASSUME Counting, NEW c, IsSeq(c)
  PROVE  /\ AdvanceBlocks(c) \in SUBSET (0..Len(c)) /\ Len(c) \in Nat
         /\ \A b : IsFiniteSet(Before(c, b)) /\ Cardinality(Before(c, b)) \in Nat
         /\ \A T \in SUBSET AdvanceBlocks(c) : IsFiniteSet(T) /\ Cardinality(T) \in Nat
<1>1. DOMAIN c = 1..Len(c) /\ Len(c) \in Nat
  BY SeqFacts, Zenon
<1>2. AdvanceBlocks(c) \subseteq DOMAIN c
  BY Zenon DEF AdvanceBlocks, TxBlocks
<1>3. \A T \in SUBSET AdvanceBlocks(c) : IsFiniteSet(T) /\ Cardinality(T) \in Nat
  BY <1>2, BlocksFinite, Zenon
<1> QED
  BY <1>1, <1>2, <1>3, SMTT(30) DEF Before

\* The events of a scan link to one another: what applyChainEvent checks of each
\* follows from its check of the first.
LEMMA ScanRoots ==
  ASSUME Counting, IsSeq(chain), RegistryOK(chain), NEW a \in Int, NEW b \in Int, NEW evs \in EventLists(chain, a, b)
  PROVE  LET P(i) == chain[evs[i]].tx.parent
             R(i) == RootAfter(chain[evs[i]].tx)
         IN  /\ \A i \in 1..Len(evs) : IsSeq(P(i)) /\ IsSeq(R(i)) /\ IsPrefix(P(i), R(i)) /\ Len(R(i)) = Len(P(i)) + 1
             /\ \A i, j \in 1..Len(evs) : i < j => IsPrefix(R(i), P(j))
             /\ \A i \in 2..Len(evs) : P(i) = R(i - 1)
             /\ \A i \in 1..Len(evs) : Len(P(i)) = Len(P(1)) + i - 1
             /\ a = 1 /\ Len(evs) > 0 => P(1) = << >>
<1> DEFINE P(i) == chain[evs[i]].tx.parent
           R(i) == RootAfter(chain[evs[i]].tx)
           events == AdvanceBlocks(chain) \cap a..b
<1>1. /\ Len(evs) \in Nat
      /\ \A i \in 1..Len(evs) : evs[i] \in events
      /\ \A e \in events : \E i \in 1..Len(evs) : evs[i] = e
      /\ \A i, j \in 1..Len(evs) : i < j => evs[i] < evs[j]
  <2>1. Len(evs) \in Nat
    BY EventListFacts, Zenon
  <2>2. \A i \in 1..Len(evs) : evs[i] \in events
    BY EventListFacts, Zenon
  <2>3. ASSUME NEW e \in events PROVE \E i \in 1..Len(evs) : evs[i] = e
    <3>1. \E i \in DOMAIN evs : evs[i] = e
      BY Zenon DEF EventLists
    <3>2. DOMAIN evs = 1..Len(evs)
      BY EventListFacts, Zenon
    <3> QED
      BY <3>1, <3>2, Zenon
  <2>4. \A i, j \in 1..Len(evs) : i < j => evs[i] < evs[j]
    BY EventListFacts, Zenon
  <2> QED
    BY <2>1, <2>2, <2>3, <2>4, Zenon
<1>2. \A e \in AdvanceBlocks(chain) : e \in Int /\ e >= 1
  <2>1. DOMAIN chain = 1..Len(chain)
    BY SeqFacts, Zenon
  <2> QED
    BY <2>1 DEF AdvanceBlocks, TxBlocks
<1>3. \A i \in 1..Len(evs) : evs[i] \in AdvanceBlocks(chain) /\ evs[i] \in Int /\ evs[i] >= a /\ evs[i] <= b
  BY <1>1, <1>2, SMTT(30)
<1>4. \A i \in 1..Len(evs) : IsSeq(P(i)) /\ IsSeq(R(i)) /\ IsPrefix(P(i), R(i)) /\ Len(R(i)) = Len(P(i)) + 1
  BY <1>3, RootAfterFacts, Zenon DEF RegistryOK
<1>5. \A i, j \in 1..Len(evs) : i < j => evs[i] \in Before(chain, evs[j])
  BY <1>1, <1>3, Zenon DEF Before
<1>6. \A i, j \in 1..Len(evs) : i < j => IsPrefix(R(i), P(j))
  BY <1>3, <1>5, Zenon DEF RegistryOK
<1>7. ASSUME NEW i \in 2..Len(evs) PROVE P(i) = R(i - 1)
  <2>1. PICK h : h = i - 1
    BY Zenon 
  <2>2. i \in 1..Len(evs) /\ h \in 1..Len(evs) /\ h < i /\ i = h + 1
    BY <1>1, <2>1, SMTT(30)
  <2> DEFINE B(k) == Before(chain, evs[k])
  <2>3. evs[h] < evs[i] /\ evs[h] \in AdvanceBlocks(chain) /\ evs[h] \in Int /\ evs[i] \in Int
    BY <1>1, <1>3, <2>2, Zenon
  <2>4. ASSUME NEW e \in B(i), e \notin B(h), e # evs[h] PROVE FALSE
    <3>1. e \in AdvanceBlocks(chain) /\ e \in Int /\ e < evs[i] /\ evs[h] < e
      BY <2>3, <2>4, <1>2, SMTT(30) DEF Before
    <3>2. e \in events
      BY <3>1, <2>2, <2>3, <1>3, SMTT(30)
    <3>3. PICK j \in 1..Len(evs) : evs[j] = e
      BY <3>2, <1>1, Zenon
    <3>4. CASE j < h
      <4>1. evs[j] < evs[h]
        BY <3>4, <1>1, <2>2, Zenon
      <4> QED
        BY <4>1, <3>1, <3>3, <2>3, SMTT(30)
    <3>5. CASE j > i
      <4>1. evs[i] < evs[j]
        BY <3>5, <1>1, <2>2, ZenonT(40)
      <4> QED
        BY <4>1, <3>1, <3>3, <2>3, SMTT(30)
    <3>6. CASE j = h \/ j = i
      BY <3>6, <3>1, <3>3, <2>3, SMTT(30)
    <3>7. j < h \/ j > i \/ j = h \/ j = i
      BY <2>2
    <3> QED
      BY <3>4, <3>5, <3>6, <3>7, Zenon
  <2>5. B(i) = B(h) \cup {evs[h]} /\ evs[h] \notin B(h)
    <3>1. \A e \in B(h) : e \in B(i)
      BY <2>3, <1>2 DEF Before
    <3>2. evs[h] \in B(i)
      BY <2>2, <1>5, Zenon
    <3>3. evs[h] \notin B(h)
      BY <2>3 DEF Before
    <3> HIDE DEF B
    <3> QED
      BY <3>1, <3>2, <3>3, <2>4, Zenon
  <2>6. Cardinality(B(i)) = Cardinality(B(h)) + 1
    <3>1. IsFiniteSet(B(h))
      BY AdvancesFinite, Zenon
    <3> HIDE DEF B
    <3> QED
      BY <2>5, <3>1, AddOne, Zenon
  <2>7. Len(P(i)) = Cardinality(B(i)) /\ Len(P(h)) = Cardinality(B(h))
    BY <2>2, <1>3, Zenon DEF RegistryOK
  <2>8. Len(P(i)) = Len(R(h)) /\ IsSeq(P(i)) /\ IsSeq(R(h)) /\ IsPrefix(R(h), P(i))
    BY <2>2, <2>6, <2>7, <1>4, <1>6, Zenon
  <2>9. R(h) = P(i)
    BY <2>8, PrefixEq, Zenon
  <2> QED
    BY <2>1, <2>9, Zenon
<1>8. \A i \in 1..Len(evs) : Len(P(i)) = Len(P(1)) + i - 1
  <2> DEFINE T == {i \in 1..Len(evs) : Len(P(i)) # Len(P(1)) + i - 1}
  <2> SUFFICES ASSUME T # {} PROVE FALSE
    BY Zenon
  <2>0. \A i \in 1..Len(evs) : Len(P(i)) \in Nat
    BY <1>4, SeqFacts, Zenon
  <2>1. T \in SUBSET Nat
    OBVIOUS
  <2>2. PICK n \in T : \A m \in T : n <= m
    <3> HIDE DEF T
    <3> QED
      BY <2>1, Least, Zenon
  <2>3. n \in 1..Len(evs) /\ Len(P(n)) # Len(P(1)) + n - 1
    BY Zenon 
  <2>4. n # 1
    BY <2>0, <2>3
  <2>5. PICK h : h = n - 1
    BY Zenon
  <2>6. h \in 1..Len(evs) /\ h < n /\ n \in 2..Len(evs) /\ n = h + 1 /\ h \in Nat
    BY <2>3, <2>4, <2>5, <1>1, SMTT(30)
  <2>7. h \notin T
    BY <2>2, <2>6
  <2>8. Len(P(h)) = Len(P(1)) + h - 1
    BY <2>6, <2>7, ZenonT(60)
  <2>9. P(n) = R(h)
    BY <1>7, <2>5, <2>6, Zenon
  <2>10. Len(P(n)) = Len(P(h)) + 1
    BY <2>6, <2>9, <1>4, ZenonT(60)
  <2> HIDE DEF T, P
  <2>11. Len(P(n)) = Len(P(1)) + n - 1
    <3>1. 1 \in 1..Len(evs)
      BY <2>6, <1>1
    <3> QED
      BY <2>0, <2>6, <2>8, <2>10, <3>1, SMTT(30)
  <2> QED
    BY <2>3, <2>11, Zenon
<1>9. ASSUME a = 1, Len(evs) > 0 PROVE P(1) = << >>
  <2>1. 1 \in 1..Len(evs)
    BY <1>1, <1>9
  <2>2. Before(chain, evs[1]) = {}
    <3> SUFFICES ASSUME NEW e \in AdvanceBlocks(chain), e < evs[1] PROVE FALSE
      BY Zenon DEF Before
    <3>1. e \in events
      BY <2>1, <1>2, <1>3, <1>9, SMTT(30)
    <3>2. PICK j \in 1..Len(evs) : evs[j] = e
      BY <3>1, <1>1, Zenon
    <3>3. evs[1] <= evs[j]
      BY <3>2, <2>1, <1>1, <1>3, SMTT(30)
    <3> QED
      BY <3>2, <3>3, <2>1, <1>3, SMTT(30)
  <2>3. Len(P(1)) = 0 /\ IsSeq(P(1))
    BY <2>1, <2>2, <1>3, <1>4, EmptyCount, Zenon DEF RegistryOK
  <2> HIDE DEF P
  <2> QED
    BY <2>3, NilSeq, Zenon DEF IsSeq
<1> QED
  BY <1>4, <1>6, <1>7, <1>8, <1>9, ZenonT(60)

-----------------------------------------------------------------------------
(* The coordinator's view: one branch of roots, from snapshot to snapshot. *)
SnapOK(s) ==
  /\ IsSeq(s.parent) /\ IsSeq(s.root) /\ s.block \in Int
  /\ s.key[1] = s.parent /\ s.root = Append(s.parent, s.key[2])
Follows(s, t) == t.parent = s.root /\ t.block > s.block
Branch(s) ==
  /\ \A i \in 1..Len(s) : SnapOK(s[i])
  /\ \A i, j \in 1..Len(s) : i < j => IsPrefix(s[i].root, s[j].root)
  /\ \A i \in 2..Len(s) : Follows(s[i-1], s[i])

TickOK == DOMAIN tick = {"pc", "safe"} /\ tick.safe \in Int

ViewInv ==
  /\ lastScanned \in Int /\ IsSeq(liveRoot) /\ Branch(snapshots)
  /\ liveRoot = IF snapshots = << >> THEN ParentRoot ELSE Last(snapshots).root
  /\ transitions = Len(liveRoot)
  /\ \A i \in DOMAIN snapshots : snapshots[i].root \in stateByRoot /\ snapshots[i].block <= lastScanned

\* The root at the tip of a branch, and after a scan that found evs.
TipOf(s) == IF s = << >> THEN ParentRoot ELSE Last(s).root
TipAfter(root, evs, t) == IF evs = << >> THEN root ELSE Last(t).root

\* The view before the first advance.
LEMMA EmptyBranch == IsSeq(<< >>) /\ Len(<< >>) = 0 /\ DOMAIN << >> = {} /\ Branch(<< >>)
<1>1. IsSeq(<< >>) /\ Len(<< >>) = 0 /\ DOMAIN << >> = {}
  BY NilSeq DEF IsSeq
<1> QED
  BY <1>1 DEF Branch

LEMMA ViewRollback == ASSUME Counting, StampInv, ViewInv, HandleReorg PROVE ViewInv'
<1>0. IsSeq(snapshots) /\ Len(snapshots) \in Nat /\ DOMAIN snapshots = 1..Len(snapshots) /\ Branch(snapshots)
  BY SeqFacts, ZenonT(60) DEF StampInv, ViewInv
<1>1. PICK n \in 0..Len(snapshots) :
        /\ snapshots' = SubSeq(snapshots, 1, n)
        /\ liveRoot' = IF n = 0 THEN ParentRoot ELSE snapshots[n].root
        /\ lastScanned' = IF n = 0 THEN 0 ELSE snapshots[n].block
        /\ stateByRoot' = stateByRoot \cap ({snapshots[i].root : i \in 1..n} \cup {ParentRoot})
  BY <1>0, RollbackFacts, Zenon
<1>2. transitions' = Len(liveRoot')
  BY Zenon DEF HandleReorg
<1>3. PICK k : k = SubSeq(snapshots, 1, n)
  BY Zenon
<1>4. IsSeq(k) /\ Len(k) = n /\ DOMAIN k = 1..n /\ \A i \in 1..n : k[i] = snapshots[i]
  BY <1>0, <1>3, PrefixFacts, Zenon
<1>5. \A i \in 1..n : i \in 1..Len(snapshots) /\ SnapOK(snapshots[i])
  BY <1>0 DEF Branch
<1>6. Branch(k)
  <2>1. \A i \in 1..Len(k) : SnapOK(k[i])
    BY <1>4, <1>5, Zenon
  <2>2. \A i, j \in 1..Len(k) : i < j => IsPrefix(k[i].root, k[j].root)
    BY <1>0, <1>4, <1>5, Zenon DEF Branch
  <2>3. ASSUME NEW i \in 2..Len(k) PROVE Follows(k[i-1], k[i])
    <3>1. i \in 2..Len(snapshots) /\ i \in 1..n /\ i - 1 \in 1..n
      BY <1>0, <1>4, SMTT(30)
    <3>2. Follows(snapshots[i-1], snapshots[i])
      BY <3>1, <1>0, Zenon DEF Branch
    <3> QED
      BY <3>1, <3>2, <1>4, Zenon
  <2> QED
    BY <2>1, <2>2, <2>3, Zenon DEF Branch
<1>7. (k = << >>) <=> (n = 0)
  <2>1. PICK S : k \in Seq(S)
    BY <1>4, Zenon DEF IsSeq
  <2> QED
    BY <2>1, <1>4, NilSeq, Zenon
<1>8. /\ lastScanned' \in Int /\ IsSeq(liveRoot')
      /\ liveRoot' = IF k = << >> THEN ParentRoot ELSE Last(k).root
  <2>1. CASE n = 0
    <3>1. IsSeq(<< >>)
      BY NilSeq, Zenon DEF IsSeq
    <3> QED
      BY <2>1, <3>1, <1>1, <1>7, SMTT(30) DEF ParentRoot
  <2>2. CASE n # 0
    <3>1. n \in 1..n
      BY <2>2, <1>0, SMTT(30)
    <3> QED
      BY <3>1, <2>2, <1>1, <1>4, <1>5, <1>7, Zenon DEF Last, SnapOK
  <2> QED
    BY <2>1, <2>2, Zenon
<1>9. ASSUME NEW i \in 1..n PROVE snapshots[i].root \in stateByRoot' /\ snapshots[i].block <= lastScanned'
  <2>1. snapshots[i].root \in stateByRoot'
    BY <1>0, <1>1, <1>5, Zenon DEF ViewInv
  <2>2. n # 0 /\ n \in 1..Len(snapshots) /\ n \in 1..n
    BY <1>0, SMTT(30)
  <2>3. snapshots[i].block <= snapshots[n].block
    <3> DEFINE T == {j \in 0..n : j + i <= n /\ ~(snapshots[i].block <= snapshots[i + j].block)}
    <3> SUFFICES ASSUME T # {} PROVE FALSE
      <4>1. PICK d \in 0..n : i + d = n /\ d + i <= n
        <5>1. n - i \in 0..n /\ i + (n - i) = n /\ (n - i) + i <= n
          BY <1>0, SMTT(30)
        <5> QED
          BY <5>1, Zenon
      <4>2. d \in T <=> ~(snapshots[i].block <= snapshots[i + d].block)
        BY <4>1, Zenon
      <4> QED
        BY <4>1, <4>2, ZenonT(60)
    <3>1. PICK j \in T : \A m \in T : j <= m
      <4>1. T \in SUBSET Nat
        BY SMTT(30)
      <4> QED
        BY <4>1, Least, Zenon
    <3>2. snapshots[i].block \in Int
      BY <1>5, Zenon DEF SnapOK
    <3>3. j # 0
      BY <3>1, <3>2, SMTT(30)
    <3>4. j - 1 \in 0..n /\ j - 1 \notin T /\ i + (j - 1) \in 1..n /\ i + j \in 1..n /\ i + j - 1 = i + (j - 1)
      BY <3>1, <3>3, SMTT(30)
    <3>5. snapshots[i].block <= snapshots[i + (j - 1)].block
      BY <3>4, SMTT(30)
    <3>6. i + j \in 2..Len(snapshots)
      BY <3>4, <1>0, SMTT(30)
    <3>7. Follows(snapshots[i + j - 1], snapshots[i + j])
      BY <3>6, <1>0, SMTT(30) DEF Branch
    <3>8. snapshots[i + j].block > snapshots[i + (j - 1)].block
      BY <3>4, <3>7, Zenon DEF Follows
    <3>9. snapshots[i + (j - 1)].block \in Int /\ snapshots[i + j].block \in Int
      BY <3>4, <1>5, Zenon DEF SnapOK
    <3>10. ~(snapshots[i].block <= snapshots[i + j].block)
      BY <3>1, Zenon
    <3> HIDE DEF T
    <3> QED
      BY <3>2, <3>5, <3>8, <3>9, <3>10, SMTT(30)
  <2> QED
    BY <2>1, <2>2, <2>3, <1>1, Zenon
<1> QED
  BY <1>1, <1>2, <1>3, <1>4, <1>6, <1>8, <1>9, ZenonT(60) DEF ViewInv, Branch

LEMMA ViewAlways == ASSUME Counting PROVE Spec => [](TypesInv /\ StampInv /\ RegistryOK(chain) /\ TickOK /\ ViewInv)
<1>RegistryAlways. Spec => [](TypesInv /\ StampInv /\ RegistryOK(chain))
  <2>LiveRootFacts. ASSUME NEW c, IsSeq(c), RegistryOK(c)
                    PROVE  /\ IsSeq(LiveRootOf(c)) /\ Len(LiveRootOf(c)) = Cardinality(AdvanceBlocks(c))
                           /\ \A a \in AdvanceBlocks(c) : IsPrefix(RootAfter(c[a].tx), LiveRootOf(c))
    <3> USE <2>LiveRootFacts
    <3> DEFINE A == AdvanceBlocks(c)
    <3>1. CASE A = {}
      BY <3>1, NilSeq, EmptyCount, Zenon DEF LiveRootOf, IsSeq
    <3>2. CASE A # {}
      <4>1. PICK m : m = Max(A)
        BY Zenon 
      <4>2. m \in A /\ (\A a \in A : a <= m) /\ A \subseteq Int
        <5>1. A \in SUBSET (0..Len(c)) /\ Len(c) \in Nat
          BY AdvancesFinite, Zenon
        <5>2. \A h \in 0..Len(c) : h \in Int
          OBVIOUS
        <5> HIDE DEF A
        <5> QED
          BY <3>2, <4>1, <5>1, <5>2, MaxFacts, ZenonT(60)
      <4>3. A = Before(c, m) \cup {m} /\ m \notin Before(c, m)
        BY <4>2 DEF Before
      <4>4. Cardinality(A) = Cardinality(Before(c, m)) + 1
        BY <4>3, AdvancesFinite, AddOne, Zenon
      <4>5. LiveRootOf(c) = RootAfter(c[m].tx)
        BY <3>2, <4>1, Zenon DEF LiveRootOf
      <4>6. IsSeq(c[m].tx.parent) /\ Len(c[m].tx.parent) = Cardinality(Before(c, m))
        BY <4>2, Zenon DEF RegistryOK
      <4>7. IsSeq(RootAfter(c[m].tx)) /\ Len(RootAfter(c[m].tx)) = Cardinality(A)
        BY <4>4, <4>6, RootAfterFacts, Zenon
      <4>8. ASSUME NEW a \in A PROVE IsPrefix(RootAfter(c[a].tx), RootAfter(c[m].tx))
        <5>1. CASE a = m
          BY <5>1, <4>7, PrefixRefl, Zenon
        <5>2. CASE a \in Before(c, m)
          <6>1. IsSeq(RootAfter(c[a].tx)) /\ IsPrefix(RootAfter(c[a].tx), c[m].tx.parent)
            BY <4>2, <5>2, RootAfterFacts, Zenon DEF RegistryOK
          <6> QED
            BY <6>1, <4>6, <4>7, RootAfterFacts, PrefixTrans, Zenon
        <5> QED
          BY <4>3, <5>1, <5>2, Zenon
      <4> QED
        BY <4>5, <4>7, <4>8, Zenon
    <3> QED
      BY <3>1, <3>2, Zenon
  <2>RegistryAppend. ASSUME NEW c, IsSeq(c), RegistryOK(c), NEW b,
                            b.tx # NoReceipt /\ b.tx.outcome = "StateAdvance" => b.tx.parent = LiveRootOf(c)
                     PROVE  RegistryOK(Append(c, b))
    <3> USE <2>RegistryAppend
    <3>0. PICK d, n : d = Append(c, b) /\ n = Len(c) + 1
      BY Zenon
    <3>1. /\ DOMAIN d = DOMAIN c \cup {n} /\ n \notin DOMAIN c /\ DOMAIN c = 1..Len(c) /\ Len(c) \in Nat
          /\ d[n] = b /\ \A i \in DOMAIN c : d[i] = c[i]
      BY <3>0, AppendFacts, SeqFacts, SMTT(30)
    <3> DEFINE adv == b.tx # NoReceipt /\ b.tx.outcome = "StateAdvance"
    <3>2. AdvanceBlocks(d) = AdvanceBlocks(c) \cup (IF adv THEN {n} ELSE {})
      BY <3>1, Zenon DEF AdvanceBlocks, TxBlocks
    <3>3. \A a \in AdvanceBlocks(c) : a \in DOMAIN c /\ a \in Int /\ a < n /\ d[a] = c[a]
      BY <3>0, <3>1, SMTT(30) DEF AdvanceBlocks, TxBlocks
    <3>9. n \in Int /\ ~(n < n) /\ \A a \in Int : a < n => ~(n < a)
      BY <3>0, <3>1, SMTT(30)
    <3>4. \A a \in AdvanceBlocks(c) : Before(d, a) = Before(c, a)
      BY <3>2, <3>3, <3>9, Zenon DEF Before
    <3>5. adv => Before(d, n) = AdvanceBlocks(c)
      BY <3>2, <3>3, <3>9, Zenon DEF Before
    <3>6. ASSUME NEW a \in AdvanceBlocks(c)
          PROVE  /\ IsSeq(d[a].tx.parent) /\ Len(d[a].tx.parent) = Cardinality(Before(d, a))
                 /\ \A e \in Before(d, a) : IsPrefix(RootAfter(d[e].tx), d[a].tx.parent)
      <4>1. \A e \in Before(c, a) : e \in AdvanceBlocks(c)
        BY Zenon DEF Before
      <4> QED
        BY <4>1, <3>3, <3>4, ZenonT(60) DEF RegistryOK
    <3>7. ASSUME adv
          PROVE  /\ IsSeq(d[n].tx.parent) /\ Len(d[n].tx.parent) = Cardinality(Before(d, n))
                 /\ \A e \in Before(d, n) : IsPrefix(RootAfter(d[e].tx), d[n].tx.parent)
      <4>1. d[n].tx.parent = LiveRootOf(c)
        <5>1. d[n] = b
          BY <3>1, Zenon
        <5>2. b.tx.parent = LiveRootOf(c)
          BY <3>7, Zenon
        <5> QED
          BY <5>1, <5>2, Zenon
      <4>2. /\ IsSeq(LiveRootOf(c)) /\ Len(LiveRootOf(c)) = Cardinality(AdvanceBlocks(c))
            /\ \A a \in AdvanceBlocks(c) : IsPrefix(RootAfter(c[a].tx), LiveRootOf(c))
        BY <2>LiveRootFacts, Zenon
      <4>3. Before(d, n) = AdvanceBlocks(c) /\ \A a \in AdvanceBlocks(c) : d[a] = c[a]
        BY <3>3, <3>5, <3>7, Zenon
      <4> QED
        BY <4>1, <4>2, <4>3, Zenon
    <3>8. RegistryOK(d)
      BY <3>2, <3>6, <3>7, ZenonT(60) DEF RegistryOK
    <3> QED
      BY <3>0, <3>8, Zenon
  <2>RegistryPrefix. ASSUME NEW c, IsSeq(c), RegistryOK(c), NEW n \in 0..Len(c)
                     PROVE  RegistryOK(SubSeq(c, 1, n))
    <3> USE <2>RegistryPrefix
    <3>0. PICK d : d = SubSeq(c, 1, n)
      BY ZenonT(60)
    <3>1. DOMAIN d = 1..n /\ DOMAIN c = 1..Len(c) /\ Len(c) \in Nat /\ \A i \in 1..n : d[i] = c[i] /\ i \in DOMAIN c
      BY <3>0, PrefixFacts, SeqFacts, SMTT(60)
    <3>2. AdvanceBlocks(d) = {a \in AdvanceBlocks(c) : a \in 1..n}
      BY <3>1, Zenon DEF AdvanceBlocks, TxBlocks
    <3>3. \A b \in AdvanceBlocks(d) : Before(d, b) = Before(c, b)
      <4>1. \A a \in AdvanceBlocks(c) : a \in Int /\ a >= 1
        BY <3>1 DEF AdvanceBlocks, TxBlocks
      <4> QED
        BY <3>2, <4>1, SMTT(30) DEF Before
    <3>4. \A b \in AdvanceBlocks(d) : \A a \in Before(d, b) : a \in AdvanceBlocks(d)
      BY Zenon DEF Before
    <3>5. RegistryOK(d)
      BY <3>1, <3>2, <3>3, <3>4, ZenonT(60) DEF RegistryOK
    <3> QED
      BY <3>0, <3>5, Zenon
  <2>1. Init => RegistryOK(chain)
    BY DEF Init, ChainInit, RegistryOK, AdvanceBlocks, TxBlocks
  <2>2. TypesInv /\ RegistryOK(chain) /\ [Next]_vars => RegistryOK(chain)'
    <3> SUFFICES ASSUME TypesInv, RegistryOK(chain), [Next]_vars PROVE RegistryOK(chain')
      BY Zenon 
    <3>0. IsSeq(chain) /\ Len(chain) \in Nat
      BY SeqFacts, Zenon DEF TypesInv
    <3>1. CASE UNCHANGED chain
      BY <3>1, Zenon
    <3>2. CASE ChainStep
      <4>1. CASE \E tx : /\ chain' = Append(chain, [tx |-> tx, stamp |-> reorgs])
                         /\ \/ tx \in signed /\ V4Accepts(tx, chain, now)
                            \/ tx.outcome \in {"None", "Standard"}
        <5>1. PICK tx : /\ chain' = Append(chain, [tx |-> tx, stamp |-> reorgs])
                        /\ \/ tx \in signed /\ V4Accepts(tx, chain, now)
                           \/ tx.outcome \in {"None", "Standard"}
          BY <4>1, Zenon
        <5>2. PICK b : b = [tx |-> tx, stamp |-> reorgs]
          BY Zenon
        <5>3. b.tx = tx /\ chain' = Append(chain, b)
          BY <5>1, <5>2, Zenon
        <5>4. tx.outcome = "StateAdvance" => tx.parent = LiveRootOf(chain)
          BY <5>1, Zenon DEF V4Accepts
        <5> QED
          BY <3>0, <5>3, <5>4, <2>RegistryAppend, Zenon
      <4>2. CASE \E n \in 0..(Len(chain) - 1) : chain' = SubSeq(chain, 1, n)
        BY <3>0, <4>2, <2>RegistryPrefix
      <4> QED
        BY <3>1, <3>2, <4>1, <4>2, ChainMoves, ZenonT(60)
    <3> QED
      BY <3>1, <3>2, ClockStep, Zenon DEF vars, chainVars
  <2> QED
    BY <2>1, <2>2, StampAlways, PTL DEF Spec
<1>TickTypeStep. TypesInv /\ TickOK /\ [Next]_vars => TickOK'
  <2> SUFFICES ASSUME TypesInv, TickOK, [Next]_vars PROVE TickOK'
    BY Zenon 
  <2>1. Len(chain) \in Nat /\ Depth \in Nat
    BY SeqFacts, CoreAssumption, Zenon DEF TypesInv
  <2>2. CASE UNCHANGED tick
    BY <2>2, Zenon DEF TickOK
  <2>3. CASE tick' = Idle
    BY <2>3 DEF TickOK, Idle
  <2>4. CASE \E p : tick' = [tick EXCEPT !.pc = p]
    BY <2>4, Zenon DEF TickOK
  <2>5. CASE tick' = [pc |-> "reorg", safe |-> Len(chain) - Depth]
    BY <2>1, <2>5, SMTT(30) DEF TickOK
  <2>6. TickStart => UNCHANGED tick \/ tick' = [pc |-> "reorg", safe |-> Len(chain) - Depth]
    BY Zenon DEF TickStart
  <2>7. TickReorg \/ TickScan => tick' = Idle \/ \E p : tick' = [tick EXCEPT !.pc = p]
    BY Zenon DEF TickReorg, TickScan
  <2>8. TickParity \/ (\E t \in Faults : TickFault(t)) => tick' = Idle
    BY Zenon DEF TickParity, TickFault
  <2>9. Boot \/ Crash => tick' = Idle
    BY Zenon DEF Boot, Crash, Forgotten
  <2>10. SubmitStep => UNCHANGED tick
    BY Zenon DEF SubmitStep, PrepareStart, PrepareFinish, Evaluate, FinishStart, FinishCounters, FinishSign, FinishRejects, FinishFails
  <2>11. OtherStep => UNCHANGED tick
    BY Zenon DEF OtherStep, Freeze, FreezeResolves, Unfreeze, SetRecomputedBaseline, InvalidateBaselines, GetStatus, GetReceiptByHash
  <2>12. UNCHANGED coreVars \/ UNCHANGED vars => UNCHANGED tick
    BY Zenon DEF coreVars, vars
  <2> QED
    BY <2>2, <2>3, <2>4, <2>5, <2>6, <2>7, <2>8, <2>9, <2>10, <2>11, <2>12, ZenonT(40) DEF Next, TickStep
<1>ViewStep. TypesInv /\ StampInv /\ RegistryOK(chain) /\ TickOK /\ ViewInv /\ [Next]_vars => ViewInv'
  <2>BranchAppend. ASSUME NEW s, IsSeq(s), Branch(s), NEW t, IsSeq(t), Branch(t),
                          Len(s) > 0 /\ Len(t) > 0 => Follows(s[Len(s)], t[1])
                   PROVE  Branch(AppendSnapshots(s, t))
    <3> USE <2>BranchAppend
    <3>0. PICK l, m : l = Len(s) /\ m = Len(t)
      BY Zenon
    <3>1. l \in Nat /\ m \in Nat
      BY <3>0, SeqFacts, Zenon
    <3> DEFINE U(n) == IF n <= l THEN s[n] ELSE t[n - l]
    <3>2. \A n \in 1..(l + m) : \/ n <= l /\ n \in 1..l /\ U(n) = s[n]
                                \/ n > l /\ n - l \in 1..m /\ U(n) = t[n - l]
      BY <3>1, SMTT(30)
    <3>3. \A n \in 1..(l + m) : SnapOK(U(n))
      BY <3>0, <3>2, Zenon DEF Branch
    <3> HIDE DEF U
    <3>4. ASSUME NEW n \in 2..(l + m) PROVE Follows(U(n - 1), U(n))
      <4>1. n \in Int /\ n - 1 \in 1..(l + m) /\ n \in 1..(l + m)
        BY <3>1, SMTT(30)
      <4>2. CASE n <= l
        <5>1. U(n) = s[n] /\ U(n - 1) = s[n - 1] /\ n \in 2..l
          BY <4>1, <4>2, <3>1, <3>2, SMTT(30)
        <5> QED
          BY <5>1, <3>0, Zenon DEF Branch
      <4>3. CASE n = l + 1
        <5>1. l > 0 /\ m > 0 /\ n - 1 = l /\ n - l = 1
          BY <4>1, <4>3, <3>1, SMTT(30)
        <5>2. U(n) = t[1] /\ U(n - 1) = s[l]
          BY <5>1, <4>1, <4>3, <3>1, <3>2, SMTT(30)
        <5> QED
          BY <5>1, <5>2, <3>0, Zenon
      <4>4. CASE n > l + 1
        <5>1. PICK h : h = n - l
          BY Zenon 
        <5>2. h \in 2..m /\ (n - 1) - l = h - 1
          BY <5>1, <4>1, <4>4, <3>1, SMTT(30)
        <5>3. U(n) = t[h] /\ U(n - 1) = t[h - 1]
          BY <5>1, <5>2, <4>1, <4>4, <3>1, <3>2, SMTT(30)
        <5> QED
          BY <5>2, <5>3, <3>0, Zenon DEF Branch
      <4> QED
        BY <4>1, <4>2, <4>3, <4>4, <3>1, SMTT(30)
    <3>5. ASSUME NEW i \in 1..(l + m), NEW j \in 1..(l + m), i < j PROVE IsPrefix(U(i).root, U(j).root)
      <4>1. CASE j <= l
        <5>1. U(i) = s[i] /\ U(j) = s[j] /\ i \in 1..l /\ j \in 1..l
          BY <4>1, <3>1, <3>2, <3>5, SMTT(30)
        <5> QED
          BY <5>1, <3>0, <3>5, Zenon DEF Branch
      <4>2. CASE i > l
        <5>1. PICK h, k : h = i - l /\ k = j - l
          BY Zenon
        <5>2. U(i) = t[h] /\ U(j) = t[k] /\ h \in 1..m /\ k \in 1..m /\ h < k
          BY <5>1, <4>2, <3>1, <3>2, <3>5, SMTT(30)
        <5> QED
          BY <5>2, <3>0, Zenon DEF Branch
      <4>3. CASE i <= l /\ j > l
        <5>1. PICK k : k = j - l
          BY Zenon
        <5>2. U(i) = s[i] /\ U(j) = t[k] /\ i \in 1..l /\ k \in 1..m /\ l \in 1..l /\ 1 \in 1..m
          BY <5>1, <4>3, <3>1, <3>2, <3>5, SMTT(30)
        <5>3. SnapOK(s[i]) /\ SnapOK(s[l]) /\ SnapOK(t[1]) /\ SnapOK(t[k])
          BY <5>2, <3>0, Zenon DEF Branch
        <5>4. IsSeq(s[i].root) /\ IsSeq(s[l].root) /\ IsSeq(t[1].root) /\ IsSeq(t[k].root)
          BY <5>3, ZenonT(60) DEF SnapOK
        <5>5. IsPrefix(s[i].root, s[l].root)
          <6>1. CASE i = l
            BY <6>1, <5>4, PrefixRefl, Zenon
          <6>2. CASE i < l
            BY <6>2, <5>2, <3>0, Zenon DEF Branch
          <6> QED
            BY <6>1, <6>2, <4>3, <3>1, SMTT(30)
        <5>6. IsPrefix(s[l].root, t[1].root)
          <6>1. t[1].parent = s[l].root
            BY <5>2, <3>0, <3>1, SMTT(30) DEF Follows
          <6> QED
            BY <6>1, <5>3, PrefixAppend, ZenonT(60) DEF SnapOK
        <5>7. IsPrefix(t[1].root, t[k].root)
          <6>1. CASE k = 1
            BY <6>1, <5>4, PrefixRefl, Zenon
          <6>2. CASE 1 < k
            BY <6>2, <5>2, <3>0, Zenon DEF Branch
          <6> QED
            BY <6>1, <6>2, <5>2, SMTT(30)
        <5> QED
          BY <5>2, <5>4, <5>5, <5>6, <5>7, PrefixTrans, ZenonT(60)
      <4> QED
        BY <4>1, <4>2, <4>3, <3>1, SMTT(30)
    <3>6. PICK r : r = AppendSnapshots(s, t)
      BY Zenon
    <3>7. Len(r) \in Nat
      BY <3>6, AppendSnapshotsFacts, SeqFacts, Zenon
    <3>8. PICK k \in Nat : /\ Len(r) = l + m - k
                           /\ \A i \in 1..Len(r) : r[i] = IF k + i <= l THEN s[k + i] ELSE t[k + i - l]
      BY <3>0, <3>6, AppendSnapshotsFacts, ZenonT(60)
    <3>9. \A i \in 1..Len(r) : k + i \in 1..(l + m) /\ r[i] = U(k + i)
      BY <3>1, <3>7, <3>8, SMTT(60) DEF U
    <3>10. \A i \in 1..Len(r) : SnapOK(r[i])
      BY <3>3, <3>9, Zenon
    <3>11. \A i, j \in 1..Len(r) : i < j => IsPrefix(r[i].root, r[j].root)
      <4> SUFFICES ASSUME NEW i \in 1..Len(r), NEW j \in 1..Len(r), i < j PROVE IsPrefix(r[i].root, r[j].root)
        BY Zenon
      <4>1. k + i < k + j /\ k + i \in 1..(l + m) /\ k + j \in 1..(l + m) /\ r[i] = U(k + i) /\ r[j] = U(k + j)
        BY <3>7, <3>9, SMTT(30)
      <4> QED
        BY <4>1, <3>5, Zenon
    <3>12. ASSUME NEW i \in 2..Len(r) PROVE Follows(r[i-1], r[i])
      <4>1. i \in 1..Len(r) /\ i - 1 \in 1..Len(r)
        BY <3>7
      <4>2. PICK n : n = k + i
        BY Zenon
      <4>3. n \in 2..(l + m) /\ n - 1 = k + (i - 1)
        BY <4>1, <4>2, <3>1, <3>7, <3>8, SMTT(30)
      <4>4. r[i] = U(n) /\ r[i - 1] = U(n - 1)
        BY <4>1, <4>2, <4>3, <3>9, Zenon
      <4> QED
        BY <4>3, <4>4, <3>4, Zenon
    <3>13. Branch(r)
      BY <3>10, <3>11, <3>12, Zenon DEF Branch
    <3> QED
      BY <3>6, <3>13, Zenon
  <2>NewsBranch.
      ASSUME IsSeq(chain), RegistryOK(chain), NEW a \in Int, NEW b \in Int, NEW evs \in EventLists(chain, a, b)
      PROVE  Branch([i \in DOMAIN evs |-> SnapshotAt(evs[i])])
    <3> USE <2>NewsBranch
    <3>0. PICK t : t = [i \in DOMAIN evs |-> SnapshotAt(evs[i])]
      BY Zenon
    <3>1. /\ Len(evs) \in Nat /\ IsSeq(evs)
          /\ \A i \in 1..Len(evs) : evs[i] \in Int
          /\ \A i, j \in 1..Len(evs) : i < j => evs[i] < evs[j]
      <4>1. \A i \in 1..Len(evs) : evs[i] \in a..b
        BY EventListFacts, Zenon
      <4>2. Len(evs) \in Nat /\ IsSeq(evs)
        BY EventListFacts, ZenonT(60)
      <4>3. \A i, j \in 1..Len(evs) : i < j => evs[i] < evs[j]
        BY EventListFacts, Zenon
      <4> QED
        BY <4>1, <4>2, <4>3
    <3>2. Len(t) = Len(evs) /\ \A i \in 1..Len(evs) : t[i] = SnapshotAt(evs[i])
      BY <3>0, <3>1, NewsFacts, Zenon
    <3> DEFINE P(i) == chain[evs[i]].tx.parent
               R(i) == RootAfter(chain[evs[i]].tx)
    <3>3. /\ \A i \in 1..Len(evs) : IsSeq(P(i)) /\ IsSeq(R(i)) /\ IsPrefix(P(i), R(i))
          /\ \A i, j \in 1..Len(evs) : i < j => IsPrefix(R(i), P(j))
          /\ \A i \in 2..Len(evs) : P(i) = R(i - 1)
      <4>1. \A i \in 1..Len(evs) : IsSeq(P(i)) /\ IsSeq(R(i)) /\ IsPrefix(P(i), R(i))
        BY ScanRoots, Zenon
      <4>2. \A i, j \in 1..Len(evs) : i < j => IsPrefix(R(i), P(j))
        BY ScanRoots, Zenon
      <4>3. \A i \in 2..Len(evs) : P(i) = R(i - 1)
        BY ScanRoots, Zenon
      <4> QED
        BY <4>1, <4>2, <4>3, ZenonT(60)
    <3>4. ASSUME NEW i \in 1..Len(evs)
          PROVE  /\ t[i].block = evs[i] /\ t[i].parent = P(i) /\ t[i].root = R(i)
                 /\ t[i].key[1] = P(i) /\ R(i) = Append(P(i), t[i].key[2])
      <4>1. PICK x : x = chain[evs[i]].tx
        BY Zenon
      <4>2. t[i].block = evs[i] /\ t[i].parent = x.parent /\ t[i].root = RootAfter(x) /\ t[i].key = PatchKey(x)
        <5>1. t[i] = SnapshotAt(evs[i])
          BY <3>2, Zenon
        <5> QED
          BY <5>1, <4>1, SMTT(60) DEF SnapshotAt
      <4>3. PatchKey(x)[1] = x.parent /\ RootAfter(x) = Append(x.parent, PatchKey(x)[2])
        BY Zenon DEF PatchKey, RootAfter
      <4> QED
        BY <4>1, <4>2, <4>3, ZenonT(60)
    <3> HIDE DEF P, R
    <3>5. \A i \in 1..Len(t) : SnapOK(t[i])
      BY <3>1, <3>2, <3>3, <3>4, ZenonT(60) DEF SnapOK
    <3>6. ASSUME NEW i \in 1..Len(t), NEW j \in 1..Len(t), i < j PROVE IsPrefix(t[i].root, t[j].root)
      <4>1. IsPrefix(R(i), P(j)) /\ IsPrefix(P(j), R(j)) /\ IsSeq(R(i)) /\ IsSeq(P(j)) /\ IsSeq(R(j))
        BY <3>2, <3>3, <3>6, Zenon
      <4>2. IsPrefix(R(i), R(j))
        BY <4>1, PrefixTrans, Zenon
      <4> QED
        BY <4>2, <3>2, <3>4, ZenonT(60)
    <3>7. ASSUME NEW i \in 2..Len(t) PROVE Follows(t[i-1], t[i])
      <4>1. i \in 1..Len(evs) /\ i - 1 \in 1..Len(evs) /\ i - 1 < i
        BY <3>1, <3>2
      <4>2. evs[i - 1] < evs[i] /\ P(i) = R(i - 1)
        BY <4>1, <3>1, <3>2, <3>3, ZenonT(60)
      <4> QED
        BY <4>1, <4>2, <3>1, <3>4, ZenonT(60) DEF Follows
    <3> QED
      BY <3>0, <3>5, <3>6, <3>7, Zenon DEF Branch
  \* What a boot or a scan leaves, when its first event links to the root before.
  <2>ScanView.
      ASSUME IsSeq(chain), RegistryOK(chain), NEW a \in Int, NEW b \in Int, NEW evs \in EventLists(chain, a, b),
             NEW s, IsSeq(s), Branch(s), NEW root, IsSeq(root), a - 1 <= b,
             root = TipOf(s),
             \A i \in DOMAIN s : s[i].block <= a - 1,
             evs # << >> => chain[evs[1]].tx.parent = root,
             NEW t, t = [i \in DOMAIN evs |-> SnapshotAt(evs[i])],
             NEW r, r = AppendSnapshots(s, t),
             NEW new, new = TipAfter(root, evs, t)
      PROVE  /\ IsSeq(r) /\ Branch(r) /\ IsSeq(new)
             /\ new = TipOf(r)
             /\ Len(new) = Len(root) + Len(evs)
             /\ \A i \in DOMAIN r : r[i].block <= b
             /\ \A i \in DOMAIN r : (\E j \in DOMAIN s : r[i] = s[j]) \/ (\E j \in DOMAIN t : r[i] = t[j])
    <3>a. IsSeq(chain) /\ RegistryOK(chain) /\ IsSeq(s) /\ Branch(s) /\ IsSeq(root)
      BY <2>ScanView, Zenon
    <3>b. root = IF s = << >> THEN ParentRoot ELSE Last(s).root
      BY <2>ScanView, Zenon DEF TipOf
    <3>c. a - 1 <= b /\ \A i \in DOMAIN s : s[i].block <= a - 1
      BY <2>ScanView, Zenon
    <3>d. evs # << >> => chain[evs[1]].tx.parent = root
      BY <2>ScanView, Zenon
    <3>0. PICK l, m : /\ t = [i \in DOMAIN evs |-> SnapshotAt(evs[i])] /\ r = AppendSnapshots(s, t)
                      /\ l = Len(s) /\ m = Len(evs)
      BY <2>ScanView, Zenon
    <3>f. new = IF evs = << >> THEN root ELSE Last(t).root
      BY <2>ScanView, Zenon DEF TipAfter
    <3>1. IsSeq(evs) /\ m \in Nat /\ l \in Nat /\ DOMAIN s = 1..l /\ DOMAIN evs = 1..m
          /\ \A i \in 1..m : evs[i] \in a..b
      <4>1. \A i \in 1..Len(evs) : evs[i] \in a..b
        BY <3>a, EventListFacts, ZenonT(60)
      <4> QED
        BY <4>1, <3>0, <3>a, EventListFacts, SeqFacts, Zenon
    <3>2. IsSeq(t) /\ Len(t) = m /\ DOMAIN t = 1..m /\ \A i \in 1..m : t[i] = SnapshotAt(evs[i])
      BY <3>0, <3>1, <3>a, NewsFacts, Zenon
    <3>3. \A i \in 1..m : /\ t[i].block = evs[i] /\ t[i].parent = chain[evs[i]].tx.parent
                          /\ t[i].root = RootAfter(chain[evs[i]].tx)
      BY <3>2, SMTT(30) DEF SnapshotAt
    <3>4. (evs = << >> <=> m = 0) /\ (s = << >> <=> l = 0)
      <4>1. PICK S : evs \in Seq(S)
        BY <3>1, Zenon DEF IsSeq
      <4>2. PICK T : s \in Seq(T)
        BY <3>a, Zenon DEF IsSeq
      <4> QED
        BY <4>1, <4>2, <3>0, NilSeq, ZenonT(60)
    <3>5. Branch(t)
      BY <3>0, <3>a, <2>NewsBranch, Zenon
    <3>6. l > 0 /\ m > 0 => Follows(s[l], t[1])
      <4> SUFFICES ASSUME l > 0, m > 0 PROVE Follows(s[l], t[1])
        BY Zenon
      <4>0. 1 \in 1..m /\ l \in DOMAIN s /\ m # 0 /\ l # 0
        BY <3>1, SMTT(30)
      <4>1. 1 \in 1..m /\ l \in DOMAIN s /\ root = s[l].root
        BY <4>0, <3>0, <3>4, <3>b, Zenon DEF Last
      <4>2. t[1].parent = s[l].root
        BY <4>0, <4>1, <3>3, <3>4, <3>d, Zenon
      <4>3. s[l].block \in Int
        BY <4>1, <3>0, <3>1, <3>a, ZenonT(60) DEF Branch, SnapOK
      <4>4. t[1].block > s[l].block
        <5>1. PICK e, h : e = evs[1] /\ h = s[l].block
          BY Zenon
        <5>2. t[1].block = e /\ e \in a..b /\ h \in Int /\ h <= a - 1
          BY <5>1, <4>0, <4>3, <3>1, <3>3, <3>c, Zenon
        <5>3. e > h
          BY <5>2, SMTT(30)
        <5> QED
          BY <5>1, <5>2, <5>3, Zenon
      <4> QED
        BY <4>2, <4>4, Zenon DEF Follows
    <3>7. Branch(r) /\ IsSeq(r)
      BY <3>0, <3>2, <3>5, <3>6, <3>a, <2>BranchAppend, AppendSnapshotsFacts, ZenonT(60)
    <3>8. Len(r) \in Nat /\ DOMAIN r = 1..Len(r) /\ (r = << >> <=> Len(r) = 0)
      <4>1. PICK S : r \in Seq(S)
        BY <3>7, ZenonT(60) DEF IsSeq
      <4> QED
        BY <4>1, <3>7, SeqFacts, NilSeq, ZenonT(60)
    <3>9. PICK k \in Nat : /\ Len(r) = l + m - k /\ (l + m > 0 => Len(r) > 0)
                           /\ \A i \in 1..Len(r) : r[i] = IF k + i <= l THEN s[k + i] ELSE t[k + i - l]
      <4>1. \E k \in Nat :
              /\ Len(r) = Len(s) + Len(t) - k
              /\ MaxSnapshots > 0 /\ Len(s) + Len(t) > 0 => Len(r) > 0
              /\ \A i \in 1..Len(r) : r[i] = IF k + i <= Len(s) THEN s[k + i] ELSE t[k + i - Len(s)]
        <5>1. IsSeq(s) /\ IsSeq(t)
          BY <3>0, <3>2, <3>a, Zenon
        <5>2. \E k \in Nat :
                /\ Len(r) = Len(s) + Len(t) - k
                /\ Len(s) + Len(t) <= MaxSnapshots => k = 0
                /\ MaxSnapshots > 0 /\ Len(s) + Len(t) > 0 => Len(r) > 0
                /\ \A i \in 1..Len(r) : r[i] = IF k + i <= Len(s) THEN s[k + i] ELSE t[k + i - Len(s)]
          <6>1. LET q == AppendSnapshots(s, t) IN
                \E k \in Nat :
                  /\ Len(q) = Len(s) + Len(t) - k
                  /\ Len(s) + Len(t) <= MaxSnapshots => k = 0
                  /\ MaxSnapshots > 0 /\ Len(s) + Len(t) > 0 => Len(q) > 0
                  /\ \A i \in 1..Len(q) : q[i] = IF k + i <= Len(s) THEN s[k + i] ELSE t[k + i - Len(s)]
            BY <5>1, AppendSnapshotsFacts, ZenonT(60)
          <6> QED
            BY <6>1, <3>0, Zenon
        <5> QED
          BY <5>2, Zenon
      <4>2. Len(s) = l /\ Len(t) = m /\ MaxSnapshots > 0
        BY <3>0, <3>2, CoreAssumption, ZenonT(60)
      <4> QED
        <5>1. PICK x, y, g : x = Len(s) /\ y = Len(t) /\ g = Len(r)
          BY Zenon
        <5>2. x = l /\ y = m
          BY <5>1, <4>2, Zenon
        <5> QED
          BY <5>1, <5>2, <4>1, <4>2, ZenonT(60)
    <3>e. Len(r) = l + m - k /\ (l + m > 0 => Len(r) > 0)
      BY <3>9, Zenon
    <3>10. ASSUME NEW i \in 1..Len(r)
           PROVE  \/ k + i \in 1..l /\ r[i] = s[k + i]
                  \/ k + i - l \in 1..m /\ r[i] = t[k + i - l]
      <4>1. CASE k + i <= l
        <5>1. k + i \in 1..l
          BY <4>1, <3>1, <3>8, SMTT(30)
        <5> QED
          BY <4>1, <5>1, <3>9, Zenon
      <4>2. CASE ~(k + i <= l)
        <5>1. k + i - l \in 1..m
          BY <4>2, <3>1, <3>8, <3>e, SMTT(30)
        <5> QED
          BY <4>2, <5>1, <3>9, Zenon
      <4> QED
        BY <4>1, <4>2, Zenon
    <3>11. \A i \in DOMAIN r : (\E j \in DOMAIN s : r[i] = s[j]) \/ (\E j \in DOMAIN t : r[i] = t[j])
      BY <3>1, <3>2, <3>8, <3>10, ZenonT(60)
    <3>12. \A i \in DOMAIN r : r[i].block <= b
      <4>1. \A j \in 1..m : t[j].block <= b
        <5>1. \A h \in a..b : h <= b
          BY SMTT(30)
        <5> QED
          BY <5>1, <3>1, <3>3, Zenon
      <4>2. \A j \in 1..l : s[j].block <= b
        <5> TAKE j \in 1..l
        <5>1. PICK h : h = s[j].block
          BY Zenon
        <5>2. h \in Int /\ h <= a - 1
          BY <5>1, <3>0, <3>1, <3>a, <3>c, ZenonT(60) DEF Branch, SnapOK
        <5>3. h <= b
          BY <5>2, <3>c, SMTT(30)
        <5> QED
          BY <5>1, <5>3, Zenon
      <4> QED
        BY <4>1, <4>2, <3>8, <3>10, ZenonT(60)
    <3>13. new = IF r = << >> THEN ParentRoot ELSE Last(r).root
      <4>1. CASE l + m = 0
        <5>1. l = 0 /\ m = 0 /\ Len(r) = 0
          BY <4>1, <3>1, <3>8, <3>e, SMTT(30)
        <5> QED
          BY <5>1, <3>4, <3>8, <3>b, <3>f, Zenon
      <4>2. CASE l + m > 0
        <5>1. Len(r) \in 1..Len(r) /\ k + Len(r) = l + m /\ r # << >>
          <6>1. Len(r) \in 1..Len(r) /\ k + Len(r) = l + m /\ Len(r) # 0
            BY <4>2, <3>1, <3>8, <3>e, SMTT(30)
          <6> QED
            BY <6>1, <3>8, Zenon
        <5>2. CASE m = 0
          <6>1. Last(r) = s[l] /\ Last(s) = s[l]
            <7>1. k + Len(r) = l /\ k + Len(r) <= l
              BY <5>1, <5>2, <3>1, SMTT(30)
            <7>2. r[Len(r)] = s[k + Len(r)]
              BY <7>1, <5>1, <3>9, Zenon
            <7> QED
              BY <7>1, <7>2, <3>0, Zenon DEF Last
          <6> QED
            <7>1. l # 0
              BY <5>2, <4>2, <3>1, SMTT(30)
            <7> QED
              BY <7>1, <6>1, <5>1, <5>2, <3>4, <3>b, <3>f, Zenon
        <5>3. CASE m > 0
          <6>1. Last(r) = t[m] /\ Last(t) = t[m]
            <7>1. k + Len(r) > l /\ k + Len(r) - l = m
              BY <5>1, <5>3, <3>1, SMTT(30)
            <7>2. r[Len(r)] = t[m]
              <8>1. ~(k + Len(r) <= l)
                BY <7>1, <3>1, <3>8, SMTT(30)
              <8> QED
                BY <7>1, <8>1, <5>1, <3>9, Zenon
            <7> QED
              BY <7>2, <3>2, Zenon DEF Last
          <6>2. m # 0
            BY <5>3, <3>1, SMTT(30)
          <6> QED
            BY <6>1, <6>2, <5>1, <3>4, <3>f, Zenon
        <5> QED
          BY <5>2, <5>3, <3>1, SMTT(30)
      <4> QED
        BY <4>1, <4>2, <3>1, SMTT(30)
    <3>14. IsSeq(new) /\ Len(new) = Len(root) + m
      <4>1. CASE m = 0
        <5>1. new = root /\ Len(root) \in Nat
          BY <4>1, <3>4, <3>a, <3>f, SeqFacts, Zenon
        <5>2. Len(root) = Len(root) + m
          BY <5>1, <4>1, SMTT(30)
        <5> QED
          BY <5>1, <5>2, <3>a, Zenon
      <4>2. CASE m > 0
        <5>1. m \in 1..m /\ 1 \in 1..m /\ Last(t) = t[m]
          <6>1. m \in 1..m /\ 1 \in 1..m
            BY <4>2, <3>1, SMTT(30)
          <6> QED
            BY <6>1, <3>2, Zenon DEF Last
        <5>2. new = RootAfter(chain[evs[m]].tx) /\ chain[evs[1]].tx.parent = root
          <6>1. m # 0
            BY <4>2, <3>1, SMTT(30)
          <6> QED
            BY <6>1, <5>1, <3>3, <3>4, <3>d, <3>f, Zenon
        <5>3. IsSeq(RootAfter(chain[evs[m]].tx)) /\ Len(RootAfter(chain[evs[m]].tx)) = Len(chain[evs[m]].tx.parent) + 1
          BY <5>1, <3>0, <3>a, ScanRoots, ZenonT(60)
        <5>4. Len(chain[evs[m]].tx.parent) = Len(chain[evs[1]].tx.parent) + m - 1
          BY <5>1, <3>0, <3>a, ScanRoots, ZenonT(60)
        <5>5. Len(root) \in Nat
          BY <3>a, SeqFacts, Zenon
        <5>6. PICK u, v, w : u = chain[evs[1]].tx.parent /\ v = chain[evs[m]].tx.parent /\ w = RootAfter(chain[evs[m]].tx)
          BY Zenon
        <5>7. new = w /\ u = root /\ IsSeq(w) /\ Len(w) = Len(v) + 1 /\ Len(v) = Len(u) + m - 1
          BY <5>2, <5>3, <5>4, <5>6, ZenonT(60)
        <5> QED
          BY <5>5, <5>7, <3>1, SMTT(30)
      <4> QED
        BY <4>1, <4>2, <3>1, SMTT(30)
    <3> QED
      BY <3>0, <3>7, <3>11, <3>12, <3>13, <3>14, ZenonT(60) DEF TipOf
  <2>ViewFrame. ASSUME ViewInv, UNCHANGED rootVars PROVE ViewInv'
    BY <2>ViewFrame, Zenon DEF ViewInv, rootVars
  \* A view that holds no advance yet.
  <2>ViewEmpty. ASSUME snapshots' = << >>, liveRoot' = ParentRoot, transitions' = 0, lastScanned' = 0
                PROVE  ViewInv'
    BY <2>ViewEmpty, EmptyBranch DEF ViewInv, ParentRoot
  \* What a scan, or a boot, makes of a view.
  <2>ViewScan. ASSUME TypesInv, RegistryOK(chain), NEW a \in Int, NEW b \in Int, NEW evs \in EventLists(chain, a, b),
                      NEW s, IsSeq(s), Branch(s), NEW root, IsSeq(root), a - 1 <= b,
                      root = IF s = << >> THEN ParentRoot ELSE Last(s).root,
                      \A i \in DOMAIN s : s[i].block <= a - 1,
                      evs # << >> => chain[evs[1]].tx.parent = root,
                      NEW old, \A i \in DOMAIN s : s[i].root \in old,
                      NEW news, news = [i \in DOMAIN evs |-> SnapshotAt(evs[i])],
                      snapshots' = AppendSnapshots(s, news),
                      liveRoot' = IF evs = << >> THEN root ELSE Last(news).root,
                      transitions' = Len(root) + Len(evs),
                      stateByRoot' = old \cup {news[i].root : i \in DOMAIN news},
                      lastScanned' = b
               PROVE  ViewInv'
    <3>1. /\ IsSeq(snapshots') /\ Branch(snapshots') /\ IsSeq(liveRoot')
          /\ liveRoot' = IF snapshots' = << >> THEN ParentRoot ELSE Last(snapshots').root
          /\ Len(liveRoot') = Len(root) + Len(evs)
          /\ \A i \in DOMAIN snapshots' : snapshots'[i].block <= b
          /\ \A i \in DOMAIN snapshots' : (\E j \in DOMAIN s : snapshots'[i] = s[j]) \/ (\E j \in DOMAIN news : snapshots'[i] = news[j])
      <4>1. IsSeq(chain)
        BY <2>ViewScan, Zenon DEF TypesInv
      <4>0. /\ RegistryOK(chain) /\ IsSeq(s) /\ Branch(s) /\ IsSeq(root) /\ a - 1 <= b
            /\ root = TipOf(s)
            /\ \A i \in DOMAIN s : s[i].block <= a - 1
            /\ evs # << >> => chain[evs[1]].tx.parent = root
        BY <2>ViewScan, Zenon DEF TipOf
      <4>2. /\ news = [i \in DOMAIN evs |-> SnapshotAt(evs[i])] /\ snapshots' = AppendSnapshots(s, news)
            /\ liveRoot' = TipAfter(root, evs, news)
        BY <2>ViewScan, Zenon DEF TipAfter
      <4>3. /\ IsSeq(snapshots') /\ Branch(snapshots') /\ IsSeq(liveRoot') /\ liveRoot' = TipOf(snapshots')
            /\ Len(liveRoot') = Len(root) + Len(evs)
            /\ \A i \in DOMAIN snapshots' : snapshots'[i].block <= b
            /\ \A i \in DOMAIN snapshots' : (\E j \in DOMAIN s : snapshots'[i] = s[j]) \/ (\E j \in DOMAIN news : snapshots'[i] = news[j])
        BY <4>0, <4>1, <4>2, <2>ScanView, SMTT(60)
      <4> QED
        BY <4>3, Zenon DEF TipOf
    <3>2. ASSUME NEW i \in DOMAIN snapshots' PROVE snapshots'[i].root \in stateByRoot'
      <4>1. stateByRoot' = old \cup {news[h].root : h \in DOMAIN news} /\ \A h \in DOMAIN s : s[h].root \in old
        BY <2>ViewScan, Zenon
      <4>2. (\E h \in DOMAIN s : snapshots'[i] = s[h]) \/ (\E h \in DOMAIN news : snapshots'[i] = news[h])
        BY <3>1, <3>2, Zenon
      <4> QED
        BY <4>1, <4>2, Zenon
    <3>3. Branch(snapshots)'
      BY <3>1, Zenon DEF Branch
    <3> QED
      BY <3>1, <3>2, <3>3, <2>ViewScan, Zenon DEF ViewInv
  <2>ViewBoot. ASSUME TypesInv, RegistryOK(chain), Boot PROVE ViewInv'
    <3> USE <2>ViewBoot
    <3>0. Len(chain) \in Nat /\ Depth \in Nat /\ IsSeq(chain)
      BY SeqFacts, CoreAssumption, Zenon DEF TypesInv
    <3>1. PICK safe : safe = Max({0, Len(chain) - Depth})
      BY Zenon 
    <3>2. safe \in Int /\ safe >= 0
      <4>1. 0 \in Int /\ Len(chain) - Depth \in Int
        BY <3>0
      <4>2. safe = IF 0 >= Len(chain) - Depth THEN 0 ELSE Len(chain) - Depth
        BY <4>1, <3>1, MaxOfTwo, Zenon
      <4> QED
        BY <4>1, <4>2
    <3>a. PICK evs \in EventLists(chain, 1, safe) : \E news :
            /\ news = [i \in DOMAIN evs |-> SnapshotAt(evs[i])]
            /\ snapshots' = AppendSnapshots(<< >>, news)
            /\ liveRoot' = IF evs = << >> THEN ParentRoot ELSE Last(news).root
            /\ transitions' = Len(evs)
            /\ stateByRoot' = {ParentRoot} \cup {news[i].root : i \in DOMAIN news}
            /\ lastScanned' = safe
      BY <3>1, Zenon DEF Boot
    <3>3. PICK news :
            /\ news = [i \in DOMAIN evs |-> SnapshotAt(evs[i])]
            /\ snapshots' = AppendSnapshots(<< >>, news)
            /\ liveRoot' = IF evs = << >> THEN ParentRoot ELSE Last(news).root
            /\ transitions' = Len(evs)
            /\ stateByRoot' = {ParentRoot} \cup {news[i].root : i \in DOMAIN news}
            /\ lastScanned' = safe
      BY <3>a, Zenon
    <3>4. /\ IsSeq(<< >>) /\ Len(<< >>) = 0 /\ DOMAIN << >> = {}
          /\ Len(evs) \in Nat /\ IsSeq(evs)
      <4>1. IsSeq(<< >>) /\ Len(<< >>) = 0 /\ DOMAIN << >> = {}
        BY EmptyBranch, Zenon
      <4>2. Len(evs) \in Nat /\ IsSeq(evs)
        BY <3>0, EventListFacts, ZenonT(60)
      <4> QED
        BY <4>1, <4>2, Zenon
    <3>5. Branch(<< >>)
      BY EmptyBranch, Zenon
    <3>6. evs # << >> => chain[evs[1]].tx.parent = << >>
      <4>0. 1 \in Int /\ RegistryOK(chain)
        OBVIOUS
      <4>1. Len(evs) > 0 => chain[evs[1]].tx.parent = << >>
        BY <4>0, <3>0, <3>2, ScanRoots, ZenonT(60)
      <4>2. PICK S : evs \in Seq(S)
        BY <3>4, Zenon DEF IsSeq
      <4> QED
        BY <4>1, <4>2, <3>4, NilSeq, SMTT(30)
    <3>7. PICK s, root, old, a : s = << >> /\ root = << >> /\ old = {ParentRoot} /\ a = 1
      BY ZenonT(60)
    <3>8. /\ a \in Int /\ evs \in EventLists(chain, a, safe) /\ IsSeq(s) /\ Branch(s) /\ IsSeq(root) /\ a - 1 <= safe
          /\ root = IF s = << >> THEN ParentRoot ELSE Last(s).root
          /\ \A i \in DOMAIN s : s[i].block <= a - 1
          /\ evs # << >> => chain[evs[1]].tx.parent = root
          /\ \A i \in DOMAIN s : s[i].root \in old
      BY <3>2, <3>4, <3>5, <3>6, <3>7, SMTT(30) DEF ParentRoot
    <3>9. /\ snapshots' = AppendSnapshots(s, news)
          /\ liveRoot' = IF evs = << >> THEN root ELSE Last(news).root
          /\ transitions' = Len(root) + Len(evs)
          /\ stateByRoot' = old \cup {news[i].root : i \in DOMAIN news}
      BY <3>3, <3>4, <3>7, SMTT(30) DEF ParentRoot
    <3> QED
      <4>1. safe \in Int /\ lastScanned' = safe /\ news = [i \in DOMAIN evs |-> SnapshotAt(evs[i])]
        BY <3>2, <3>3, Zenon
      <4> QED
        BY <4>1, <3>8, <3>9, <2>ViewScan, ZenonT(60)
  <2>ViewTickScan. ASSUME TypesInv, StampInv, RegistryOK(chain), TickOK, ViewInv, TickScan PROVE ViewInv'
    <3> USE <2>ViewTickScan
    <3>1. CASE UNCHANGED rootVars
      BY <3>1, <2>ViewFrame, Zenon
    <3>2. CASE ~UNCHANGED rootVars
      <4>1. PICK evs \in EventLists(chain, lastScanned + 1, tick.safe) :
              tick.safe > lastScanned /\ EventsLink(evs) /\ ApplyEvents(evs) /\ lastScanned' = tick.safe
        BY <3>2, Zenon DEF TickScan
      <4>2. PICK news :
              /\ news = [i \in DOMAIN evs |-> SnapshotAt(evs[i])]
              /\ snapshots' = AppendSnapshots(snapshots, news)
              /\ liveRoot' = IF evs = << >> THEN liveRoot ELSE Last(news).root
              /\ transitions' = transitions + Len(evs)
              /\ stateByRoot' = stateByRoot \cup {news[i].root : i \in DOMAIN news}
        BY <4>1, Zenon DEF ApplyEvents
      <4>3. PICK a, b : a = lastScanned + 1 /\ b = tick.safe
        BY Zenon 
      <4>4. /\ a \in Int /\ b \in Int /\ evs \in EventLists(chain, a, b) /\ a - 1 = lastScanned /\ a - 1 <= b
            /\ lastScanned' = b
        BY <4>1, <4>3, SMTT(30) DEF TickOK, ViewInv
      <4>5. /\ IsSeq(snapshots) /\ Branch(snapshots) /\ IsSeq(liveRoot)
            /\ liveRoot = IF snapshots = << >> THEN ParentRoot ELSE Last(snapshots).root
            /\ \A i \in DOMAIN snapshots : snapshots[i].block <= a - 1
            /\ \A i \in DOMAIN snapshots : snapshots[i].root \in stateByRoot
            /\ transitions' = Len(liveRoot) + Len(evs)
        BY <4>2, <4>4, ZenonT(60) DEF StampInv, ViewInv
      <4>6. evs # << >> => chain[evs[1]].tx.parent = liveRoot
        BY <4>1, Zenon DEF EventsLink
      <4> QED
        BY <4>2, <4>4, <4>5, <4>6, <2>ViewScan, ZenonT(60)
    <3> QED
      BY <3>1, <3>2, Zenon
  <2> SUFFICES ASSUME TypesInv, StampInv, RegistryOK(chain), TickOK, ViewInv, [Next]_vars PROVE ViewInv'
    BY Zenon 
  <2>1. CASE UNCHANGED rootVars
    BY <2>1, <2>ViewFrame, Zenon
  <2>2. CASE Boot
    BY <2>2, <2>ViewBoot, Zenon
  <2>3. CASE Crash
    BY <2>3, <2>ViewEmpty, Zenon DEF Crash
  <2>4. CASE TickReorg
    <3>1. HandleReorg \/ UNCHANGED rootVars
      BY <2>4, Zenon DEF TickReorg
    <3> QED
      BY <2>1, <3>1, ViewRollback, Zenon
  <2>5. CASE TickScan
    BY <2>5, <2>ViewTickScan, Zenon
  <2>6. CASE UNCHANGED vars
    <3>1. UNCHANGED rootVars
      BY <2>6, Zenon DEF vars, coreVars, rootVars
    <3> QED
      BY <2>1, <3>1, Zenon
  <2> QED
    BY <2>1, <2>2, <2>3, <2>4, <2>5, <2>6, RootStep, ZenonT(40)
<1>1. Init => TickOK
  BY SMTT(30) DEF Init, TickOK, Idle
<1>2. Init => ViewInv
  BY EmptyBranch DEF Init, ViewInv, ParentRoot
<1> QED
  BY <1>1, <1>2, <1>TickTypeStep, <1>ViewStep, <1>RegistryAlways, PTL DEF Spec

LEMMA OneBranch == ASSUME Counting PROVE Spec => []SnapshotsLinked
<1>1. StampInv /\ ViewInv => SnapshotsLinked
  <2> SUFFICES ASSUME StampInv, ViewInv PROVE SnapshotsLinked
    BY Zenon 
  <2>1. Len(snapshots) \in Nat /\ DOMAIN snapshots = 1..Len(snapshots)
    BY SeqFacts, Zenon DEF StampInv
  <2>2. \A i \in DOMAIN snapshots : i > 1 => i \in 2..Len(snapshots)
    BY <2>1, SMTT(30)
  <2>3. \A i \in DOMAIN snapshots : i > 1 => /\ snapshots[i].parent = snapshots[i-1].root
                                            /\ snapshots[i].block > snapshots[i-1].block
    BY <2>2, Zenon DEF ViewInv, Branch, Follows
  <2> QED
    BY <2>3, Zenon DEF ViewInv, SnapshotsLinked
<1> QED
  BY <1>1, ViewAlways, PTL
=============================================================================
