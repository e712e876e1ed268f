------------------------- MODULE V4Receipts_proofs --------------------------
(***************************************************************************)
(* The receipts of BotcoinMiningV4 and their registry, for any miners,     *)
(* epochs, registries, receipts and admin behaviour: the chain of each     *)
(* miner, the registry's log and its seal, one credit for a patch, what a  *)
(* replay of an accepted receipt finds, and that every advance is paid.    *)
(***************************************************************************)
EXTENDS V4Receipts, TLAPS

-----------------------------------------------------------------------------
\* What a submission pays is a natural number: no credit is lost to a negative
\* or fractional product (creditsEarned in submitCoreTexReceipt).
LEMMA EarnedIsNat ==
  ASSUME NEW tier \in Nat, NEW r, r.work \in Nat
  PROVE  CreditsEarned(tier, r) \in Nat
<1>. DEFINE n == tier * r.work
<1>1. n \in Nat
  OBVIOUS
<1>2. n \div 10000 \in Nat
  <2>. HIDE DEF n
  <2>. QED BY <1>1
<1>. QED BY <1>2 DEF CreditsEarned

\* Updating one entry of a table of tables keeps it one and changes nothing else
\* (mapping(uint64 => mapping(address => uint256)) and its like).
LEMMA TableUpdate ==
  ASSUME NEW D, NEW E, NEW T, NEW f \in [D -> [E -> T]], NEW d \in D, NEW e \in E, NEW v \in T
  PROVE  LET g == [f EXCEPT ![d][e] = v] IN
         /\ g \in [D -> [E -> T]]
         /\ g[d][e] = v
         /\ \A x \in D, y \in E : <<x, y>> # <<d, e>> => g[x][y] = f[x][y]
         /\ \A x \in D : x # d => g[x] = f[x]
<1>. DEFINE row == [f[d] EXCEPT ![e] = v]
<1>1. row \in [E -> T] /\ row[e] = v /\ \A y \in E : y # e => row[y] = f[d][y]
  BY Zenon 
<1>2. [f EXCEPT ![d][e] = v] = [f EXCEPT ![d] = row]
  BY Zenon 
<1>3. [f EXCEPT ![d] = row] \in [D -> [E -> T]]
  BY <1>1, Zenon
<1>. QED BY <1>1, <1>2, <1>3, Zenon

\* Every chain link a receipt can have been signed for is well typed.
LEMMA CandidateLinksType ==
  ASSUME ReceiptsTypeOK
  PROVE  CandidateLinks \subseteq Links
<1>1. receiptUsed \cup {<< >>} \subseteq ReceiptHash
  <2>1. << >> \in ReceiptHash
    BY DEF ReceiptHash
  <2>2. receiptUsed \subseteq ReceiptHash
    BY Zenon DEF ReceiptsTypeOK
  <2>. QED BY <2>1, <2>2, Zenon
<1>2. \A h \in ReceiptHash : Len(h) \in Nat
  BY DEF ReceiptHash
<1>. QED BY <1>1, <1>2 DEF CandidateLinks, Links

\* The state of the contracts is always well typed: in particular no counter,
\* credit or total ever goes below zero.
THEOREM TypeCorrect == ReceiptsSpec => []ReceiptsTypeOK
\* A chain stays a chain of receipts when one is appended (_acceptCredit).
<1>AcceptCreditType. ASSUME ReceiptsTypeOK, NEW m \in Miners, NEW link \in Links, NEW r \in AnyReceipt,
                            NEW earned \in Nat, AcceptCredit(m, link, r, earned)
                     PROVE  /\ nextIndex' \in [Miners -> Nat]
                            /\ lastReceiptHash' \in [Miners -> ReceiptHash]
                            /\ receiptUsed' \in SUBSET ReceiptHash
                            /\ credits' \in [Epochs -> [Miners -> Nat]]
                            /\ totalCredits' \in [Epochs -> Nat]
  <2>. USE <1>AcceptCreditType
  <2>. DEFINE hash == Append(link.prev, [miner |-> m, receipt |-> r])
  <2>1. r.epoch \in Epochs
    BY Zenon DEF AnyReceipt, CoreTexReceipt, StandardReceipt
  <2>2. hash \in ReceiptHash
    BY DEF Links, ReceiptHash
  <2>3. nextIndex' \in [Miners -> Nat]
    BY SMTT(60) DEF ReceiptsTypeOK, AcceptCredit, Links
  <2>4. lastReceiptHash' \in [Miners -> ReceiptHash]
    BY <2>2, Zenon DEF ReceiptsTypeOK, AcceptCredit
  <2>5. receiptUsed' \in SUBSET ReceiptHash
    BY <2>2, Zenon DEF ReceiptsTypeOK, AcceptCredit
  <2>6. credits' \in [Epochs -> [Miners -> Nat]]
    <3>1. credits \in [Epochs -> [Miners -> Nat]]
      BY Zenon DEF ReceiptsTypeOK
    <3>2. credits[r.epoch][m] + earned \in Nat
      BY <2>1, <3>1
    <3>3. credits' = [credits EXCEPT ![r.epoch][m] = credits[r.epoch][m] + earned]
      BY Zenon DEF AcceptCredit
    <3>. QED BY <2>1, <3>1, <3>2, <3>3, TableUpdate, Zenon
  <2>7. totalCredits' \in [Epochs -> Nat]
    <3>1. totalCredits \in [Epochs -> Nat]
      BY Zenon DEF ReceiptsTypeOK
    <3>2. totalCredits[r.epoch] + earned \in Nat
      BY <2>1, <3>1
    <3>3. totalCredits' = [totalCredits EXCEPT ![r.epoch] = totalCredits[r.epoch] + earned]
      BY Zenon DEF AcceptCredit
    <3>. QED BY <3>1, <3>2, <3>3, Zenon
  <2>. QED BY <2>3, <2>4, <2>5, <2>6, <2>7, Zenon
\* submitStateAdvance keeps the registry's tables well typed.
<1>SubmitStateAdvanceType. ASSUME RegistryTypeOK, NEW r \in Registries, NEW e \in Epochs, NEW m \in Miners,
                                  NEW parent \in Roots, NEW new \in Roots, NEW pins \in Pins, NEW patch \in Patches,
                                  SubmitStateAdvance(r, e, m, parent, new, pins, patch), UNCHANGED context
                           PROVE  RegistryTypeOK'
  <2>. USE <1>SubmitStateAdvanceType
  <2>. DEFINE adv == [index |-> transitionCount[r][e], miner |-> m,
                      parent |-> parent, new |-> new, patch |-> patch]
  <2>1. transitionCount[r][e] \in Nat /\ transitionCount[r][e] + 1 \in Nat
    BY DEF RegistryTypeOK
  <2>2. adv \in Advances
    BY <2>1, Zenon DEF Advances
  <2>3. advances[r][e] \in Seq(Advances)
    BY Zenon DEF RegistryTypeOK
  <2>4. Append(advances[r][e], adv) \in Seq(Advances)
    BY <2>2, <2>3, SMTT(60)
  <2>5. advances' \in [Registries -> [Epochs -> Seq(Advances)]]
    <3>1. advances' = [advances EXCEPT ![r][e] = Append(advances[r][e], adv)]
      BY Zenon DEF SubmitStateAdvance
    <3>. QED BY <2>4, <3>1, TableUpdate, ZenonT(60) DEF RegistryTypeOK
  <2>6. transitionCount' \in [Registries -> [Epochs -> Nat]]
    <3>1. transitionCount' = [transitionCount EXCEPT ![r][e] = transitionCount[r][e] + 1]
      BY Zenon DEF SubmitStateAdvance
    <3>. QED BY <2>1, <3>1, TableUpdate, SMTT(60) DEF RegistryTypeOK
  <2>7. liveRoot' \in [Registries -> [Epochs -> Roots \cup {NoRoot}]]
    <3>1. liveRoot' = [liveRoot EXCEPT ![r][e] = new]
      BY Zenon DEF SubmitStateAdvance
    <3>. QED BY <3>1, TableUpdate DEF RegistryTypeOK
  <2>. QED BY <2>5, <2>6, <2>7, Zenon DEF RegistryTypeOK, SubmitStateAdvance
\* A CoreTex submission keeps the state well typed.
<1>SubmitCoreTexReceiptType. ASSUME ReceiptsTypeOK, NEW m \in Miners, NEW link \in Links, NEW r \in Receipts,
                                    NEW tier \in Nat, SubmitCoreTexReceipt(m, link, r, tier)
                             PROVE  ReceiptsTypeOK'
  <2>. USE <1>SubmitCoreTexReceiptType
  <2>1. r \in CoreTexReceipt /\ r \in AnyReceipt
    BY ReceiptAssumption, Zenon DEF AnyReceipt
  <2>2. /\ r.epoch \in Epochs /\ r.parent \in Roots /\ r.new \in Roots
        /\ r.pins \in Pins /\ r.patch \in Patches /\ r.work \in Nat
    BY <2>1, Zenon DEF CoreTexReceipt
  <2>3. CreditsEarned(tier, r) \in Nat
    BY <2>2, EarnedIsNat, ZenonT(60)
  <2>4. AcceptCredit(m, link, r, CreditsEarned(tier, r))
    BY Zenon DEF SubmitCoreTexReceipt
  <2>5. /\ nextIndex' \in [Miners -> Nat]
        /\ lastReceiptHash' \in [Miners -> ReceiptHash]
        /\ receiptUsed' \in SUBSET ReceiptHash
        /\ credits' \in [Epochs -> [Miners -> Nat]]
        /\ totalCredits' \in [Epochs -> Nat]
    BY <2>1, <2>3, <2>4, <1>AcceptCreditType, ZenonT(60)
  <2>6. patchCredited' \in SUBSET (Epochs \X Roots \X Patches)
    BY <2>2, SMTT(60) DEF SubmitCoreTexReceipt, ReceiptsTypeOK
  <2>7. /\ RegistryTypeOK'
        /\ screenerCount' \in [Epochs -> Nat]
        /\ passesByMiner' \in [Epochs -> [Miners -> Nat]]
    <3>1. CASE ScreenerPass(m, r)
      <4>1. passesByMiner[r.epoch][m] + 1 \in Nat
        BY <2>2 DEF ReceiptsTypeOK
      <4>2. passesByMiner' = [passesByMiner EXCEPT ![r.epoch][m] = passesByMiner[r.epoch][m] + 1]
        BY <3>1, ZenonT(60) DEF ScreenerPass
      <4>3. passesByMiner' \in [Epochs -> [Miners -> Nat]]
        BY <2>2, <4>1, <4>2, TableUpdate, SMTT(60) DEF ReceiptsTypeOK
      <4>4. screenerCount' \in [Epochs -> Nat]
        BY <2>2, <3>1, SMTT(60) DEF ScreenerPass, ReceiptsTypeOK
      <4>5. UNCHANGED <<context, registryVars>>
        BY <3>1, Zenon DEF ScreenerPass, SubmitCoreTexReceipt
      <4>6. RegistryTypeOK'
        BY <4>5, Zenon DEF ReceiptsTypeOK, RegistryTypeOK, registryVars
      <4>. QED BY <4>3, <4>4, <4>6, Zenon
    <3>2. CASE StateAdvance(m, r)
      <4>1. SubmitStateAdvance(registry, r.epoch, m, r.parent, r.new, r.pins, r.patch)
        BY <3>2, Zenon DEF StateAdvance
      <4>2. RegistryTypeOK'
        BY <2>2, <4>1, <1>SubmitStateAdvanceType, Zenon DEF ReceiptsTypeOK, SubmitCoreTexReceipt
      <4>3. screenerCount' \in [Epochs -> Nat]
        BY <2>2, <3>2, Zenon DEF StateAdvance, ReceiptsTypeOK
      <4>. QED BY <3>2, <4>2, <4>3, Zenon DEF StateAdvance, ReceiptsTypeOK
    <3>. QED BY <3>1, <3>2, Zenon DEF SubmitCoreTexReceipt
  <2>. QED BY <2>5, <2>6, <2>7, Zenon DEF ReceiptsTypeOK, SubmitCoreTexReceipt, adminVars
\* Everything the admins, the registry owner and the clocks do is well typed.
<1>OtherStepsType. ASSUME ReceiptsTypeOK, ClockStep \/ AdminStep \/ RegistryStep
                   PROVE  ReceiptsTypeOK'
  <2>. USE <1>OtherStepsType
  <2>. USE DEF ReceiptsTypeOK
  <2>1. CASE ClockStep
    <3>1. epoch' \in Epochs /\ now' \in Nat
      BY <2>1, BoundsAssumption, SMTT(60) DEF ClockStep, NextEpoch, Tick, Epochs
    <3>. QED BY <2>1, <3>1, Zenon DEF ClockStep, RegistryTypeOK, registryVars, creditVars,
                               coreTexVars, adminVars
  <2>2. CASE AdminStep
    <3>. USE DEF RegistryTypeOK, registryVars, creditVars, coreTexVars, adminVars
    <3>1. ASSUME NEW e \in Epochs, NEW c \in Secrets, SetEpochCommit(e, c)
          PROVE  ReceiptsTypeOK'
      BY <3>1, Zenon DEF SetEpochCommit
    <3>2. ASSUME NEW e \in Epochs, NEW s \in Secrets, RevealEpochSecret(e, s)
          PROVE  ReceiptsTypeOK'
      BY <3>2, Zenon DEF RevealEpochSecret
    <3>3. ASSUME NEW e \in Epochs, NEW ctx \in ContextInputs, SetCoreTexEpochContext(e, ctx)
          PROVE  ReceiptsTypeOK'
      BY <3>3, InputAssumption, Zenon DEF SetCoreTexEpochContext
    <3>4. ASSUME NEW r \in Registries, SetCoreTexRegistry(r)
          PROVE  ReceiptsTypeOK'
      BY <3>4, Zenon DEF SetCoreTexRegistry
    <3>5. ASSUME NEW p \in PolicyInputs, ScheduleCoreTexPolicy(p)
          PROVE  ReceiptsTypeOK'
      BY <3>5, PolicyAssumption, Zenon DEF ScheduleCoreTexPolicy
    <3>6. ASSUME NEW n \in Caps, SetScreenerCap(n)
          PROVE  ReceiptsTypeOK'
      BY <3>6, InputAssumption, Zenon DEF SetScreenerCap
    <3>7. ASSUME NEW s \in Signers, SetCoordinatorSigner(s)
          PROVE  ReceiptsTypeOK'
      BY <3>7, Zenon DEF SetCoordinatorSigner
    <3>8. ASSUME NEW p \in PauseInputs, SetV4Paused(p)
          PROVE  ReceiptsTypeOK'
      BY <3>8, InputAssumption, Zenon DEF SetV4Paused
    <3>. QED BY <2>2, <3>1, <3>2, <3>3, <3>4, <3>5, <3>6, <3>7, <3>8, Zenon DEF AdminStep
  <2>3. CASE RegistryStep
    <3>1. RegistryTypeOK'
      <4>. USE DEF RegistryTypeOK
      <4>1. ASSUME NEW r \in Registries, NEW e \in Epochs, NEW f \in Roots, NEW p \in Pins,
                   SealEpoch(r, e, f, p), UNCHANGED context
            PROVE  RegistryTypeOK'
        <5>. DEFINE h == [parent |-> context[e].parent, final |-> f, pins |-> p]
        <5>1. h \in Headers
          BY <4>1, Zenon DEF SealEpoch, HasContext, Contexts, Headers
        <5>2. header' = [header EXCEPT ![r][e] = h] /\ sealed' = [sealed EXCEPT ![r][e] = TRUE]
          BY <4>1, Zenon DEF SealEpoch
        <5>3. header' \in [Registries -> [Epochs -> Headers \cup {NoHeader}]]
          <6>. HIDE DEF h
          <6>. QED BY <5>1, <5>2, TableUpdate, SMTT(60)
        <5>4. sealed' \in [Registries -> [Epochs -> BOOLEAN]]
          BY <5>2, TableUpdate, SMTT(60)
        <5>. QED BY <4>1, <5>3, <5>4, Zenon DEF SealEpoch
      <4>2. ASSUME NEW r \in Registries, SetBotcoinMiningV4(r), UNCHANGED context
            PROVE  RegistryTypeOK'
        BY <4>2, Zenon DEF SetBotcoinMiningV4
      <4>3. ASSUME NEW r \in Registries, NEW p \in PauseInputs, SetRegistryPaused(r, p),
                   UNCHANGED context
            PROVE  RegistryTypeOK'
        BY <4>3, InputAssumption, Zenon DEF SetRegistryPaused
      <4>. QED BY <2>3, <4>1, <4>2, <4>3, Zenon DEF RegistryStep
    <3>. QED BY <2>3, <3>1, Zenon DEF RegistryStep, creditVars, coreTexVars, adminVars
  <2>. QED BY <2>1, <2>2, <2>3, Zenon
<1>1. ReceiptsInit => ReceiptsTypeOK
  <2>. SUFFICES ASSUME ReceiptsInit PROVE ReceiptsTypeOK
    BY Zenon 
  <2>1. << >> \in ReceiptHash /\ << >> \in Seq(Advances)
    BY SMTT(60) DEF ReceiptHash
  <2>2. RegistryTypeOK
    BY <2>1, Zenon DEF ReceiptsInit, RegistryInit, RegistryTypeOK
  <2>3. InitialPolicy \in Policy
    BY PolicyAssumption, Zenon DEF ValidPolicy
  <2>4. epoch \in Epochs /\ now \in Nat /\ policies \in SUBSET Policy /\ screenerCap \in Nat
    BY <2>3, InputAssumption, BoundsAssumption, SMTT(60) DEF ReceiptsInit, Epochs
  <2>5. /\ credits \in [Epochs -> [Miners -> Nat]] /\ totalCredits \in [Epochs -> Nat]
        /\ passesByMiner \in [Epochs -> [Miners -> Nat]] /\ screenerCount \in [Epochs -> Nat]
        /\ nextIndex \in [Miners -> Nat] /\ lastReceiptHash \in [Miners -> ReceiptHash]
    BY <2>1, Zenon DEF ReceiptsInit
  <2>6. /\ epochCommit \in [Epochs -> Secrets \cup {NoSecret}]
        /\ epochSecret \in [Epochs -> Secrets \cup {NoSecret}]
        /\ v4Paused \in BOOLEAN /\ coordinatorSigner \in Signers /\ registry \in Registries
        /\ receiptUsed \in SUBSET ReceiptHash
        /\ patchCredited \in SUBSET (Epochs \X Roots \X Patches)
    BY Zenon DEF ReceiptsInit
  <2>. QED BY <2>2, <2>4, <2>5, <2>6, Zenon DEF ReceiptsTypeOK
<1>2. ReceiptsTypeOK /\ [ReceiptsNext]_receiptVars => ReceiptsTypeOK'
  <2>. SUFFICES ASSUME ReceiptsTypeOK, [ReceiptsNext]_receiptVars PROVE ReceiptsTypeOK'
    BY Zenon 
  <2>1. CASE ClockStep \/ AdminStep \/ RegistryStep
    BY <2>1, <1>OtherStepsType, Zenon
  <2>2. ASSUME NEW m \in Miners, NEW tier \in TierCredits, SubmitStep(m, tier)
        PROVE  ReceiptsTypeOK'
    <3>. tier \in Nat
      BY InputAssumption, Zenon
    <3>1. ASSUME NEW link \in Links, NEW r \in StandardReceipt, SubmitReceipt(m, link, r, tier)
          PROVE  ReceiptsTypeOK'
      <4>1. AcceptCredit(m, link, r, tier) /\ r \in AnyReceipt
        BY <3>1, Zenon DEF SubmitReceipt, AnyReceipt
      <4>2. /\ nextIndex' \in [Miners -> Nat]
            /\ lastReceiptHash' \in [Miners -> ReceiptHash]
            /\ receiptUsed' \in SUBSET ReceiptHash
            /\ credits' \in [Epochs -> [Miners -> Nat]]
            /\ totalCredits' \in [Epochs -> Nat]
        BY <4>1, <1>AcceptCreditType, Zenon
      <4>. QED BY <3>1, <4>2, Zenon DEF ReceiptsTypeOK, RegistryTypeOK, SubmitReceipt, registryVars,
                                 coreTexVars, adminVars
    <3>2. ASSUME NEW link \in Links, NEW r \in Receipts, SubmitCoreTexReceipt(m, link, r, tier)
          PROVE  ReceiptsTypeOK'
      BY <3>2, <1>SubmitCoreTexReceiptType, Zenon
    <3>. QED BY <2>2, <3>1, <3>2, CandidateLinksType, Zenon DEF SubmitStep
  <2>3. CASE UNCHANGED receiptVars
    BY <2>3, Zenon DEF ReceiptsTypeOK, RegistryTypeOK, receiptVars, registryVars, creditVars,
                coreTexVars, adminVars
  <2>. QED BY <2>1, <2>2, <2>3, Zenon DEF ReceiptsNext
<1>. QED BY <1>1, <1>2, PTL DEF ReceiptsSpec

-----------------------------------------------------------------------------
\* What each kind of step leaves alone.
LEMMA AdminFrame ==
  ASSUME AdminStep
  PROVE  UNCHANGED <<epoch, now, registryVars, creditVars, coreTexVars>>
BY Zenon DEF AdminStep, SetEpochCommit, RevealEpochSecret, SetCoreTexEpochContext,
       SetCoreTexRegistry, ScheduleCoreTexPolicy, SetScreenerCap, SetCoordinatorSigner,
       SetV4Paused, adminVars

\* What a submission does to the accounts, in either lane: it adds `earned' to
\* the miner's credits of the current, committed epoch and appends the receipt
\* to that miner's chain.
CreditEffect(m, r, earned) ==
  /\ r.epoch = epoch /\ epochCommit[epoch] # NoSecret
  /\ earned \in Nat \ {0}
  /\ credits' = [credits EXCEPT ![epoch][m] = credits[epoch][m] + earned]
  /\ totalCredits' = [totalCredits EXCEPT ![epoch] = totalCredits[epoch] + earned]
  /\ lastReceiptHash' = [lastReceiptHash EXCEPT ![m] =
                           Append(lastReceiptHash[m], [miner |-> m, receipt |-> r])]
  /\ nextIndex' = [nextIndex EXCEPT ![m] = nextIndex[m] + 1]
  /\ receiptUsed' = receiptUsed \cup
                      {Append(lastReceiptHash[m], [miner |-> m, receipt |-> r])}
  /\ UNCHANGED <<epoch, now, context, adminVars>>

\* The guards under which a CoreTex receipt was accepted.
CoreTexGuards(r) ==
  /\ InForce(r.epoch) # {} /\ r.policy = ActivePolicy(r.epoch)
  /\ r.work = WorkUnitsBps(r.policy, r.outcome, r.difficulty)
  /\ ~PatchCredited(r)
  /\ patchCredited' = patchCredited \cup {<<r.epoch, r.parent, r.patch>>}

\* Accepting a linked receipt has that effect (_validateCommonReceipt, _acceptCredit).
LEMMA CreditEffectHolds ==
  ASSUME NEW m \in Miners, NEW link \in Links, NEW r \in AnyReceipt, NEW earned \in Nat \ {0},
         CommonReceiptOK(m, link, r.epoch), AcceptCredit(m, link, r, earned),
         UNCHANGED <<epoch, now, context, adminVars>>
  PROVE  CreditEffect(m, r, earned)
BY Zenon DEF CommonReceiptOK, AcceptCredit, CreditEffect

\* Every submission is a standard credit or one of the two CoreTex outcomes.
LEMMA SubmitCases ==
  ASSUME ReceiptsTypeOK, NEW m \in Miners, NEW tier \in TierCredits, SubmitStep(m, tier)
  PROVE  \/ \E r \in StandardReceipt :
              CreditEffect(m, r, tier) /\ UNCHANGED <<registryVars, coreTexVars>>
         \/ \E r \in Receipts, earned \in Nat \ {0} :
              /\ CreditEffect(m, r, earned) /\ CoreTexGuards(r)
              /\ ScreenerPass(m, r) \/ StateAdvance(m, r)
<1>. tier \in Nat
  BY InputAssumption, Zenon
<1>1. PICK link \in Links :
        \/ \E r \in StandardReceipt : SubmitReceipt(m, link, r, tier)
        \/ \E r \in Receipts : SubmitCoreTexReceipt(m, link, r, tier)
  BY CandidateLinksType, Zenon DEF SubmitStep
<1>2. ASSUME NEW r \in StandardReceipt, SubmitReceipt(m, link, r, tier)
      PROVE  CreditEffect(m, r, tier) /\ UNCHANGED <<registryVars, coreTexVars>>
  BY <1>2, CreditEffectHolds, Zenon DEF SubmitReceipt, AnyReceipt
<1>3. ASSUME NEW r \in Receipts, SubmitCoreTexReceipt(m, link, r, tier)
      PROVE  \E earned \in Nat \ {0} :
              /\ CreditEffect(m, r, earned) /\ CoreTexGuards(r)
              /\ ScreenerPass(m, r) \/ StateAdvance(m, r)
  <2>1. r \in AnyReceipt /\ r.work \in Nat
    BY ReceiptAssumption, Zenon DEF AnyReceipt, CoreTexReceipt
  <2>2. CreditsEarned(tier, r) \in Nat \ {0}
    <3>1. CreditsEarned(tier, r) # 0
      BY <1>3, Zenon DEF SubmitCoreTexReceipt
    <3>. QED BY <2>1, <3>1, EarnedIsNat, Zenon
  <2>3. AcceptCredit(m, link, r, CreditsEarned(tier, r)) /\ CommonReceiptOK(m, link, r.epoch)
    BY <1>3, Zenon DEF SubmitCoreTexReceipt
  <2>4. UNCHANGED <<epoch, now, context, adminVars>>
    BY <1>3, Zenon DEF SubmitCoreTexReceipt
  <2>5. CoreTexGuards(r) /\ (ScreenerPass(m, r) \/ StateAdvance(m, r))
    BY <1>3, Zenon DEF SubmitCoreTexReceipt, CoreTexGuards, DifficultyLive
  <2>6. CreditEffect(m, r, CreditsEarned(tier, r))
    BY <2>1, <2>2, <2>3, <2>4, CreditEffectHolds, Zenon
  <2>. QED BY <2>2, <2>5, <2>6, Zenon
<1>. QED BY <1>1, <1>2, <1>3, Zenon

-----------------------------------------------------------------------------
\* The step formula of EndedEpochClosed.
Closed(e) ==
  /\ credits'[e] = credits[e] /\ totalCredits'[e] = totalCredits[e]
  /\ screenerCount'[e] = screenerCount[e]
  /\ \A r \in Registries : advances'[r][e] = advances[r][e]

\* Once an epoch has ended its credits, totals, counter and advances are frozen,
\* for any receipts and any admin behaviour.
THEOREM EndedEpochsClosed == ReceiptsSpec => EndedEpochClosed
\* A CoreTex outcome touches the counters and the log of its own epoch only.
<1>OutcomeLocal. ASSUME ReceiptsTypeOK, NEW m \in Miners, NEW r \in Receipts, r.epoch = epoch,
                        ScreenerPass(m, r) \/ StateAdvance(m, r), NEW e \in Epochs, e # epoch
                 PROVE  /\ screenerCount'[e] = screenerCount[e]
                        /\ \A g \in Registries : advances'[g][e] = advances[g][e]
  <2>. USE <1>OutcomeLocal
  <2>1. CASE ScreenerPass(m, r)
    BY <2>1, Zenon DEF ScreenerPass, registryVars, ReceiptsTypeOK
  <2>2. CASE StateAdvance(m, r)
    <3>. DEFINE adv == [index |-> transitionCount[registry][epoch], miner |-> m,
                        parent |-> r.parent, new |-> r.new, patch |-> r.patch]
    <3>1. advances' = [advances EXCEPT ![registry][epoch] = Append(advances[registry][epoch], adv)]
      BY <2>2, Zenon DEF StateAdvance, SubmitStateAdvance
    <3>2. \A g \in Registries : advances'[g][e] = advances[g][e]
      BY <3>1, Zenon DEF ReceiptsTypeOK, RegistryTypeOK
    <3>. QED BY <2>2, <3>2, Zenon DEF StateAdvance, ReceiptsTypeOK
  <2>. QED BY <2>1, <2>2, Zenon
<1>1. ReceiptsTypeOK /\ [ReceiptsNext]_receiptVars
        => [\A e \in Epochs : e < epoch =>
              /\ credits'[e] = credits[e] /\ totalCredits'[e] = totalCredits[e]
              /\ screenerCount'[e] = screenerCount[e]
              /\ \A r \in Registries : advances'[r][e] = advances[r][e]]_receiptVars
  <2>. SUFFICES ASSUME ReceiptsTypeOK, ReceiptsNext, NEW e \in Epochs, e < epoch
                PROVE  Closed(e)
    BY Zenon DEF Closed
  <2>0. UNCHANGED <<credits, totalCredits, screenerCount, advances>> => Closed(e)
    BY Zenon DEF Closed
  <2>1. CASE ClockStep
    BY <2>0, <2>1, Zenon DEF ClockStep, creditVars, coreTexVars, registryVars
  <2>2. CASE AdminStep
    <3>1. UNCHANGED <<registryVars, creditVars, coreTexVars>>
      BY <2>2, AdminFrame, Zenon
    <3>. QED BY <2>0, <3>1, Zenon DEF creditVars, coreTexVars, registryVars
  <2>3. CASE RegistryStep
    BY <2>0, <2>3, Zenon DEF RegistryStep, SealEpoch, SetBotcoinMiningV4, SetRegistryPaused,
                      creditVars, coreTexVars
  <2>4. ASSUME NEW m \in Miners, NEW tier \in TierCredits, SubmitStep(m, tier)
        PROVE  Closed(e)
    <3>. e # epoch
      BY SMTT(60) DEF ReceiptsTypeOK, Epochs
    <3>1. ASSUME NEW r \in AnyReceipt, NEW earned \in Nat, CreditEffect(m, r, earned)
          PROVE  credits'[e] = credits[e] /\ totalCredits'[e] = totalCredits[e]
      BY <3>1, Zenon DEF CreditEffect, ReceiptsTypeOK
    <3>2. ASSUME NEW r \in StandardReceipt, CreditEffect(m, r, tier),
                 UNCHANGED <<registryVars, coreTexVars>>
          PROVE  Closed(e)
      BY <3>1, <3>2, InputAssumption, Zenon DEF Closed, AnyReceipt, registryVars, coreTexVars
    <3>3. ASSUME NEW r \in Receipts, NEW earned \in Nat \ {0}, CreditEffect(m, r, earned),
                 ScreenerPass(m, r) \/ StateAdvance(m, r)
          PROVE  Closed(e)
      <4>1. r.epoch = epoch
        BY <3>3, ZenonT(60) DEF CreditEffect
      <4>2. /\ screenerCount'[e] = screenerCount[e]
            /\ \A g \in Registries : advances'[g][e] = advances[g][e]
        BY <3>3, <4>1, <1>OutcomeLocal, Zenon
      <4>. QED BY <3>1, <3>3, <4>2, ReceiptAssumption, Zenon DEF Closed, AnyReceipt
    <3>. QED BY <2>4, <3>2, <3>3, SubmitCases, Zenon
  <2>. QED BY <2>1, <2>2, <2>3, <2>4, Zenon DEF ReceiptsNext
<1>. QED BY <1>1, TypeCorrect, PTL DEF ReceiptsSpec, EndedEpochClosed

\* No step changes which policies are in force in an epoch that has begun.
LEMMA PolicyStep ==
  ASSUME ReceiptsTypeOK, ReceiptsNext, NEW e \in 0..epoch
  PROVE  InForce(e)' = InForce(e)
<1>1. ASSUME NEW p \in PolicyInputs, ScheduleCoreTexPolicy(p)
      PROVE  InForce(e)' = InForce(e)
  <2>1. p.effective > epoch /\ policies' = policies \cup {p} /\ p.effective \in Nat
    BY <1>1, Zenon DEF ScheduleCoreTexPolicy, ValidPolicy, Policy
  <2>2. epoch \in Nat
    BY DEF ReceiptsTypeOK, Epochs
  <2>3. ~(p.effective <= e)
    BY <2>1, <2>2
  <2>. QED BY <2>1, <2>3, Zenon DEF InForce
<1>2. policies' = policies \/ \E p \in PolicyInputs : ScheduleCoreTexPolicy(p)
  <2>1. CASE ClockStep \/ RegistryStep
    BY <2>1, Zenon DEF ClockStep, RegistryStep, adminVars
  <2>2. CASE AdminStep
    BY <2>2, Zenon DEF AdminStep, SetEpochCommit, RevealEpochSecret, SetCoreTexEpochContext,
                SetCoreTexRegistry, SetScreenerCap, SetCoordinatorSigner, SetV4Paused, adminVars
  <2>3. ASSUME NEW m \in Miners, NEW tier \in TierCredits, SubmitStep(m, tier)
        PROVE  policies' = policies
    BY <2>3, SubmitCases, Zenon DEF CreditEffect, adminVars
  <2>. QED BY <2>1, <2>2, <2>3, Zenon DEF ReceiptsNext
<1>3. CASE policies' = policies
  BY <1>3, Zenon DEF InForce
<1>. QED BY <1>1, <1>2, <1>3, Zenon

\* The work policy of an epoch that has begun never changes, for any schedule.
THEOREM PolicyFixed == ReceiptsSpec => PolicyOfBegunEpochFixed
<1>1. ReceiptsTypeOK /\ [ReceiptsNext]_receiptVars
        => [\A e \in 0..epoch : InForce(e)' = InForce(e)]_receiptVars
  BY PolicyStep, Zenon
<1>. QED BY <1>1, TypeCorrect, PTL DEF ReceiptsSpec, PolicyOfBegunEpochFixed

-----------------------------------------------------------------------------
\* The receipt at place i of miner m's chain, and the key a CoreTex receipt is
\* deduplicated by.
RcptOf(h, i) == h[i].receipt
Key(r) == <<r.epoch, r.parent, r.patch>>

Clash(a, b) == IsCoreTex(a) /\ IsCoreTex(b) /\ Key(a) = Key(b)

\* Every credited CoreTex receipt has spent its key, and no two share one.
KeysSpent(chains, spent) ==
  \A m \in Miners : \A i \in 1..Len(chains[m]) :
    IsCoreTex(RcptOf(chains[m], i)) => Key(RcptOf(chains[m], i)) \in spent
KeysDistinct(chains) ==
  \A m, n \in Miners : \A i \in 1..Len(chains[m]), j \in 1..Len(chains[n]) :
    Clash(RcptOf(chains[m], i), RcptOf(chains[n], j)) => m = n /\ i = j
PatchInv == KeysSpent(lastReceiptHash, patchCredited) /\ KeysDistinct(lastReceiptHash)

\* Appending a receipt leaves the places before it alone.
LEMMA Appended ==
  ASSUME ReceiptsTypeOK, NEW m \in Miners, NEW r \in AnyReceipt, NEW earned,
         CreditEffect(m, r, earned)
  PROVE  /\ \A n \in Miners : n # m => lastReceiptHash'[n] = lastReceiptHash[n]
         /\ Len(lastReceiptHash[m]) \in Nat
         /\ Len(lastReceiptHash'[m]) = Len(lastReceiptHash[m]) + 1
         /\ \A i \in 1..Len(lastReceiptHash[m]) : lastReceiptHash'[m][i] = lastReceiptHash[m][i]
         /\ RcptOf(lastReceiptHash'[m], Len(lastReceiptHash[m]) + 1) = r
<1>. DEFINE entry == [miner |-> m, receipt |-> r]
<1>1. lastReceiptHash[m] \in Seq([miner : Miners, receipt : AnyReceipt])
  BY Zenon DEF ReceiptsTypeOK, ReceiptHash
<1>2. entry \in [miner : Miners, receipt : AnyReceipt] /\ entry.receipt = r
  BY Zenon 
<1>3. /\ lastReceiptHash'[m] = Append(lastReceiptHash[m], entry)
      /\ \A n \in Miners : n # m => lastReceiptHash'[n] = lastReceiptHash[n]
  BY Zenon DEF CreditEffect, ReceiptsTypeOK
<1>. HIDE DEF entry
<1>. QED BY <1>1, <1>2, <1>3, SMTT(60) DEF RcptOf

\* A standard receipt spends no key.
LEMMA StandardIsNotCoreTex ==
  ASSUME NEW r \in StandardReceipt
  PROVE  ~IsCoreTex(r)
BY Zenon DEF StandardReceipt, IsCoreTex

\* A position of a CoreTex receipt is a place in some miner's chain.
LEMMA PositionIsPlace ==
  ASSUME ReceiptsTypeOK, NEW x \in CoreTexPositions
  PROVE  \E m \in Miners : \E i \in 1..Len(lastReceiptHash[m]) :
           /\ x = <<m, i>> /\ IsCoreTex(RcptOf(lastReceiptHash[m], i))
           /\ ReceiptAt(x) = RcptOf(lastReceiptHash[m], i)
<1>1. PICK m \in Miners : \E i \in DOMAIN lastReceiptHash[m] : x = <<m, i>>
  BY Zenon DEF CoreTexPositions, Positions
<1>2. PICK i \in DOMAIN lastReceiptHash[m] : x = <<m, i>>
  BY <1>1, Zenon
<1>3. lastReceiptHash[m] \in Seq([miner : Miners, receipt : AnyReceipt])
  BY Zenon DEF ReceiptsTypeOK, ReceiptHash
<1>4. i \in 1..Len(lastReceiptHash[m])
  BY <1>3, SMTT(30)
<1>5. ReceiptAt(x) = RcptOf(lastReceiptHash[m], i) /\ IsCoreTex(ReceiptAt(x))
  BY <1>2, Zenon DEF ReceiptAt, RcptOf, CoreTexPositions
<1>. QED BY <1>2, <1>4, <1>5, Zenon

\* For any receipts, miners and admin behaviour, one patch on one parent is
\* credited once per epoch.
THEOREM PatchCreditedOnce == ReceiptsSpec => []OnePatchOneCredit
\* What a step does to the chains and the keys, in either lane.
<1>PatchKept. ASSUME ReceiptsTypeOK, PatchInv, NEW m \in Miners, NEW r \in AnyReceipt, NEW earned,
                     CreditEffect(m, r, earned),
                     \/ ~IsCoreTex(r) /\ patchCredited' = patchCredited
                     \/ Key(r) \notin patchCredited /\ patchCredited' = patchCredited \cup {Key(r)}
              PROVE  PatchInv'
  <2>. USE <1>PatchKept
  <2>. DEFINE last == Len(lastReceiptHash[m]) + 1
              Old(n, i) == i \in 1..Len(lastReceiptHash[n])
              Rc(n, i) == RcptOf(lastReceiptHash[n], i)
              RcN(n, i) == RcptOf(lastReceiptHash'[n], i)
  <2>1. \A n \in Miners : \A i \in 1..Len(lastReceiptHash'[n]) :
          \/ Old(n, i) /\ RcN(n, i) = Rc(n, i)
          \/ n = m /\ i = last /\ RcN(n, i) = r
    <3>. SUFFICES ASSUME NEW n \in Miners, NEW i \in 1..Len(lastReceiptHash'[n])
                  PROVE  \/ Old(n, i) /\ RcN(n, i) = Rc(n, i)
                         \/ n = m /\ i = last /\ RcN(n, i) = r
      BY Zenon 
    <3>1. CASE n # m
      BY <3>1, Appended, Zenon
    <3>2. CASE n = m
      <4>1. i \in 1..Len(lastReceiptHash[m]) \/ i = last
        BY <3>2, Appended
      <4>. QED BY <3>2, <4>1, Appended, Zenon DEF RcptOf
    <3>. QED BY <3>1, <3>2, Zenon
  <2>2. \A i : \A n \in Miners : Old(n, i) /\ IsCoreTex(Rc(n, i)) => Key(Rc(n, i)) \in patchCredited
    BY Zenon DEF PatchInv, KeysSpent
  <2>3. \A i, j : \A n1, n2 \in Miners :
          Old(n1, i) /\ Old(n2, j) /\ Clash(Rc(n1, i), Rc(n2, j)) => n1 = n2 /\ i = j
    BY Zenon DEF PatchInv, KeysDistinct
  <2>. HIDE DEF last, Old, Rc, RcN
  <2>4. \A n \in Miners : \A i \in 1..Len(lastReceiptHash'[n]) :
          IsCoreTex(RcN(n, i)) => Key(RcN(n, i)) \in patchCredited'
    BY <2>1, <2>2, Zenon
  <2>5. \A n1, n2 \in Miners :
          \A i \in 1..Len(lastReceiptHash'[n1]), j \in 1..Len(lastReceiptHash'[n2]) :
            Clash(RcN(n1, i), RcN(n2, j)) => n1 = n2 /\ i = j
    <3>. SUFFICES ASSUME NEW n1 \in Miners, NEW n2 \in Miners,
                         NEW i \in 1..Len(lastReceiptHash'[n1]),
                         NEW j \in 1..Len(lastReceiptHash'[n2]),
                         Clash(RcN(n1, i), RcN(n2, j))
                  PROVE  n1 = n2 /\ i = j
      BY ZenonT(60)
    <3>1. CASE Old(n1, i) /\ RcN(n1, i) = Rc(n1, i) /\ Old(n2, j) /\ RcN(n2, j) = Rc(n2, j)
      BY <3>1, <2>3, ZenonT(60)
    <3>2. CASE Old(n1, i) /\ RcN(n1, i) = Rc(n1, i) /\ n2 = m /\ j = last /\ RcN(n2, j) = r
      BY <3>2, <2>2, Zenon DEF Clash
    <3>3. CASE n1 = m /\ i = last /\ RcN(n1, i) = r /\ Old(n2, j) /\ RcN(n2, j) = Rc(n2, j)
      BY <3>3, <2>2, Zenon DEF Clash
    <3>4. CASE n1 = m /\ i = last /\ n2 = m /\ j = last
      BY <3>4, Zenon
    <3>. QED BY <2>1, <3>1, <3>2, <3>3, <3>4, Zenon
  <2>. QED BY <2>4, <2>5, Zenon DEF PatchInv, KeysSpent, KeysDistinct, RcN
<1>PatchStep. ASSUME ReceiptsTypeOK, PatchInv, ReceiptsNext
              PROVE  PatchInv'
  <2>. USE <1>PatchStep
  <2>1. CASE UNCHANGED <<lastReceiptHash, patchCredited>>
    BY <2>1, Zenon DEF PatchInv
  <2>2. CASE ClockStep \/ RegistryStep
    BY <2>1, <2>2, Zenon DEF ClockStep, RegistryStep, creditVars, coreTexVars
  <2>3. CASE AdminStep
    BY <2>1, <2>3, AdminFrame, Zenon DEF creditVars, coreTexVars
  <2>4. ASSUME NEW m \in Miners, NEW tier \in TierCredits, SubmitStep(m, tier)
        PROVE  PatchInv'
    <3>1. ASSUME NEW r \in StandardReceipt, CreditEffect(m, r, tier),
                 UNCHANGED <<registryVars, coreTexVars>>
          PROVE  PatchInv'
      <4>1. r \in AnyReceipt /\ ~IsCoreTex(r) /\ patchCredited' = patchCredited
        BY <3>1, StandardIsNotCoreTex, Zenon DEF AnyReceipt, coreTexVars
      <4>. QED BY <3>1, <4>1, <1>PatchKept, Zenon
    <3>2. ASSUME NEW r \in Receipts, NEW earned \in Nat \ {0}, CreditEffect(m, r, earned),
                 CoreTexGuards(r)
          PROVE  PatchInv'
      <4>1. /\ r \in AnyReceipt /\ Key(r) \notin patchCredited
            /\ patchCredited' = patchCredited \cup {Key(r)}
        BY <3>2, ReceiptAssumption, Zenon DEF AnyReceipt, CoreTexGuards, PatchCredited, Key
      <4>. QED BY <3>2, <4>1, <1>PatchKept, Zenon
    <3>. QED BY <2>4, <3>1, <3>2, SubmitCases, Zenon
  <2>. QED BY <2>2, <2>3, <2>4, Zenon DEF ReceiptsNext
\* The invariant is the property, said by miner and place.
<1>PatchInvIsProperty. ASSUME ReceiptsTypeOK, PatchInv
                       PROVE  OnePatchOneCredit
  <2>. USE <1>PatchInvIsProperty
  <2>. SUFFICES ASSUME NEW p \in CoreTexPositions, NEW q \in CoreTexPositions,
                       ReceiptAt(p).epoch = ReceiptAt(q).epoch,
                       ReceiptAt(p).parent = ReceiptAt(q).parent,
                       ReceiptAt(p).patch = ReceiptAt(q).patch
                PROVE  p = q
    BY Zenon DEF OnePatchOneCredit
  <2>2. PICK m \in Miners : \E i \in 1..Len(lastReceiptHash[m]) :
          /\ p = <<m, i>> /\ IsCoreTex(RcptOf(lastReceiptHash[m], i))
          /\ ReceiptAt(p) = RcptOf(lastReceiptHash[m], i)
    BY PositionIsPlace, Zenon
  <2>3. PICK n \in Miners : \E i \in 1..Len(lastReceiptHash[n]) :
          /\ q = <<n, i>> /\ IsCoreTex(RcptOf(lastReceiptHash[n], i))
          /\ ReceiptAt(q) = RcptOf(lastReceiptHash[n], i)
    BY PositionIsPlace, Zenon
  <2>4. Clash(ReceiptAt(p), ReceiptAt(q))
    BY <2>2, <2>3, Zenon DEF Clash, Key
  <2>5. PICK i \in 1..Len(lastReceiptHash[m]) :
          p = <<m, i>> /\ ReceiptAt(p) = RcptOf(lastReceiptHash[m], i)
    BY <2>2, Zenon
  <2>6. PICK j \in 1..Len(lastReceiptHash[n]) :
          q = <<n, j>> /\ ReceiptAt(q) = RcptOf(lastReceiptHash[n], j)
    BY <2>3, Zenon
  <2>7. Clash(RcptOf(lastReceiptHash[m], i), RcptOf(lastReceiptHash[n], j))
    BY <2>4, <2>5, <2>6, Zenon
  <2>8. m = n /\ i = j
    BY <2>7, Zenon DEF PatchInv, KeysDistinct
  <2>. QED BY <2>5, <2>6, <2>8, Zenon
<1>1. ReceiptsInit => PatchInv
  BY DEF ReceiptsInit, PatchInv, KeysSpent, KeysDistinct
<1>2. ReceiptsTypeOK /\ PatchInv /\ [ReceiptsNext]_receiptVars => PatchInv'
  <2>1. CASE UNCHANGED receiptVars
    BY <2>1, Zenon DEF receiptVars, creditVars, coreTexVars, PatchInv
  <2>. QED BY <2>1, <1>PatchStep, Zenon
<1>3. ReceiptsTypeOK /\ PatchInv => OnePatchOneCredit
  BY <1>PatchInvIsProperty, Zenon
<1>. QED BY <1>1, <1>2, <1>3, TypeCorrect, PTL DEF ReceiptsSpec

-----------------------------------------------------------------------------
\* Each miner's receipts, both lanes together, are one gapless chain, and the
\* receipt hashes ever used are exactly the prefixes of the miners' chains, for
\* any receipts and any order of submissions.
THEOREM ReceiptsChained == ReceiptsSpec => []ReceiptChain
\* The prefixes of a longer chain are the prefixes of the old one and itself.
<1>PrefixOfAppend. ASSUME NEW S, NEW s \in Seq(S), NEW x \in S
                   PROVE  /\ \A i \in 1..Len(s) : SubSeq(Append(s, x), 1, i) = SubSeq(s, 1, i)
                          /\ SubSeq(Append(s, x), 1, Len(s) + 1) = Append(s, x)
                          /\ Len(Append(s, x)) = Len(s) + 1
  <2>. USE <1>PrefixOfAppend
  <2>1. /\ Len(s) \in Nat /\ Append(s, x) \in Seq(S) /\ Len(Append(s, x)) = Len(s) + 1
        /\ \A i \in 1..Len(s) : Append(s, x)[i] = s[i]
    BY SMTT(60)
  <2>2. ASSUME NEW i \in 1..Len(s)
        PROVE  SubSeq(Append(s, x), 1, i) = SubSeq(s, 1, i)
    BY <2>1, <2>2, SMTT(60)
  <2>3. SubSeq(Append(s, x), 1, Len(s) + 1) = Append(s, x)
    BY <2>1, SMTT(60)
  <2>. QED BY <2>1, <2>2, <2>3, Zenon
\* A credit lengthens one chain by one receipt of its own miner and uses up the
\* hash of the longer chain.
<1>ChainCredited. ASSUME ReceiptsTypeOK, ReceiptChain, NEW m \in Miners, NEW r \in AnyReceipt, NEW earned,
                         CreditEffect(m, r, earned)
                  PROVE  ReceiptChain'
  <2>. USE <1>ChainCredited
  <2>1. PICK x \in [miner : Miners, receipt : AnyReceipt] :
          x = [miner |-> m, receipt |-> r] /\ x.miner = m
    <3>1. /\ [miner |-> m, receipt |-> r] \in [miner : Miners, receipt : AnyReceipt]
          /\ [miner |-> m, receipt |-> r].miner = m
      BY Zenon 
    <3>. QED BY <3>1, Zenon
  <2>2. PICK s \in Seq([miner : Miners, receipt : AnyReceipt]) : s = lastReceiptHash[m]
    BY Zenon DEF ReceiptsTypeOK, ReceiptHash
  <2>3. PICK t : t = Append(s, x)
    BY Zenon
  <2>4. PICK k \in Nat : k = Len(s)
    BY <2>2, SMTT(60)
  <2>5. /\ lastReceiptHash'[m] = t /\ nextIndex'[m] = nextIndex[m] + 1
        /\ receiptUsed' = receiptUsed \cup {t}
        /\ \A n \in Miners : n # m => /\ lastReceiptHash'[n] = lastReceiptHash[n]
                                      /\ nextIndex'[n] = nextIndex[n]
    BY <2>1, <2>2, <2>3, Zenon DEF CreditEffect, ReceiptsTypeOK
  <2>6. nextIndex[m] = k /\ nextIndex'[m] = k + 1
    BY <2>2, <2>4, <2>5, Zenon DEF ReceiptChain
  <2>7. /\ Len(t) = k + 1 /\ SubSeq(t, 1, k + 1) = t
        /\ \A i \in 1..k : SubSeq(t, 1, i) = SubSeq(s, 1, i) /\ t[i] = s[i]
        /\ t[k + 1].miner = m
    BY <2>1, <2>2, <2>3, <2>4, <1>PrefixOfAppend, SMTT(60)
  <2>8. \A i : i \in 1..(k + 1) <=> i \in 1..k \/ i = k + 1
    BY <2>4, SMTT(30)
  <2>9. ASSUME NEW n \in Miners
        PROVE  /\ nextIndex'[n] = Len(lastReceiptHash'[n])
               /\ \A i \in 1..nextIndex'[n] :
                    /\ lastReceiptHash'[n][i].miner = n
                    /\ SubSeq(lastReceiptHash'[n], 1, i) \in receiptUsed'
    <3>1. CASE n # m
      BY <2>5, <3>1, Zenon DEF ReceiptChain
    <3>2. CASE n = m
      <4>1. \A i \in 1..k : s[i].miner = m /\ SubSeq(s, 1, i) \in receiptUsed
        BY <2>2, <2>6, Zenon DEF ReceiptChain
      <4>2. \A i \in 1..(k + 1) : t[i].miner = m /\ SubSeq(t, 1, i) \in receiptUsed'
        BY <2>5, <2>7, <2>8, <4>1, ZenonT(60)
      <4>. QED BY <2>5, <2>6, <2>7, <3>2, <4>2, Zenon
    <3>. QED BY <3>1, <3>2, Zenon
  <2>10. ASSUME NEW h \in receiptUsed'
         PROVE  \E n \in Miners : /\ Len(h) \in 1..nextIndex'[n]
                                  /\ h = SubSeq(lastReceiptHash'[n], 1, Len(h))
    <3>1. CASE h = t
      <4>1. k + 1 \in 1..(k + 1)
        BY <2>4
      <4>. QED BY <2>5, <2>6, <2>7, <3>1, <4>1, Zenon
    <3>2. CASE h \in receiptUsed
      <4>1. PICK n \in Miners : Len(h) \in 1..nextIndex[n] /\ h = SubSeq(lastReceiptHash[n], 1, Len(h))
        BY <3>2, Zenon DEF ReceiptChain
      <4>2. CASE n # m
        BY <2>5, <4>1, <4>2, Zenon
      <4>3. CASE n = m
        BY <2>2, <2>5, <2>6, <2>7, <2>8, <4>1, <4>3, Zenon
      <4>. QED BY <4>2, <4>3, Zenon
    <3>. QED BY <2>5, <3>1, <3>2, Zenon
  <2>. QED BY <2>9, <2>10, Zenon DEF ReceiptChain
<1>1. ReceiptsInit => ReceiptChain
  BY SMTT(60) DEF ReceiptsInit, ReceiptChain
<1>2. ReceiptsTypeOK /\ ReceiptChain /\ [ReceiptsNext]_receiptVars => ReceiptChain'
  <2>. SUFFICES ASSUME ReceiptsTypeOK, ReceiptChain, [ReceiptsNext]_receiptVars
                PROVE  ReceiptChain'
    BY Zenon 
  <2>1. CASE UNCHANGED <<nextIndex, lastReceiptHash, receiptUsed>>
    BY <2>1, Zenon DEF ReceiptChain
  <2>2. CASE ClockStep \/ RegistryStep
    BY <2>1, <2>2, Zenon DEF ClockStep, RegistryStep, creditVars
  <2>3. CASE AdminStep
    BY <2>1, <2>3, AdminFrame, Zenon DEF creditVars
  <2>4. ASSUME NEW m \in Miners, NEW tier \in TierCredits, SubmitStep(m, tier)
        PROVE  ReceiptChain'
    BY <2>4, SubmitCases, <1>ChainCredited, ReceiptAssumption, Zenon DEF AnyReceipt
  <2>5. CASE UNCHANGED receiptVars
    BY <2>1, <2>5, Zenon DEF receiptVars, creditVars
  <2>. QED BY <2>2, <2>3, <2>4, <2>5, Zenon DEF ReceiptsNext
<1>. QED BY <1>1, <1>2, TypeCorrect, PTL DEF ReceiptsSpec

-----------------------------------------------------------------------------
(***************************************************************************)
(* The registry's state advances: the log of an epoch is one linked list   *)
(* in one registry, sealing is final, and every credit stays replayable.   *)
(*                                                                         *)
(* None of AdvanceChain, OneRegistryPerEpoch and SealMatchesLog is         *)
(* inductive: they need AdvancesBacked, which says why an admin can no     *)
(* longer move the context or the registry under existing advances.        *)
(***************************************************************************)
LogOK(g, e) ==
  /\ transitionCount[g][e] = Len(advances[g][e])
  /\ liveRoot[g][e] = IF advances[g][e] = << >> THEN NoRoot
                      ELSE advances[g][e][Len(advances[g][e])].new
  /\ advances[g][e] # << >> =>
       context[e] # NoContext /\ advances[g][e][1].parent = context[e].parent
  /\ \A i \in DOMAIN advances[g][e] :
       /\ advances[g][e][i].index = i - 1
       /\ i > 1 => advances[g][e][i].parent = advances[g][e][i-1].new

BackedOK(g, e) ==
  advances[g][e] # << >> =>
    /\ epochCommit[e] # NoSecret /\ totalCredits[e] # 0
    /\ e <= epoch /\ (e = epoch => g = registry)

SealOK(g, e) ==
  sealed[g][e] /\ advances[g][e] # << >> =>
    header[g][e] = [parent |-> advances[g][e][1].parent,
                    final  |-> advances[g][e][Len(advances[g][e])].new,
                    pins   |-> context[e].pins]

\* The three properties, epoch by epoch and registry by registry.
LEMMA Unfold ==
  /\ AdvanceChain <=> \A g \in Registries, e \in Epochs : LogOK(g, e)
  /\ AdvancesBacked <=> \A g \in Registries, e \in Epochs : BackedOK(g, e)
  /\ SealMatchesLog <=> \A g \in Registries, e \in Epochs : SealOK(g, e)
BY ZenonT(60) DEF AdvanceChain, AdvancesBacked, SealMatchesLog, LogOK, BackedOK, SealOK

\* The inductive invariant.
AdvanceInv ==
  /\ ReceiptsTypeOK /\ AdvanceChain /\ AdvancesBacked /\ OneRegistryPerEpoch /\ SealMatchesLog

\* What an admin may not do to a committed epoch, nor to the registry pointer
\* while the current epoch has credits.
LEMMA AdminRespectsCommit ==
  ASSUME ReceiptsTypeOK, AdminStep
  PROVE  /\ \A e \in Epochs : epochCommit[e] # NoSecret =>
              context'[e] = context[e] /\ epochCommit'[e] = epochCommit[e]
         /\ registry' = registry \/ totalCredits[epoch] = 0
<1>1. ASSUME NEW x \in Epochs, NEW c \in Secrets, SetEpochCommit(x, c)
      PROVE  /\ \A e \in Epochs : epochCommit[e] # NoSecret =>
                  context'[e] = context[e] /\ epochCommit'[e] = epochCommit[e]
             /\ registry' = registry
  BY <1>1, Zenon DEF SetEpochCommit, ReceiptsTypeOK
<1>2. ASSUME NEW x \in Epochs, NEW ctx \in ContextInputs, SetCoreTexEpochContext(x, ctx)
      PROVE  /\ \A e \in Epochs : epochCommit[e] # NoSecret =>
                  context'[e] = context[e] /\ epochCommit'[e] = epochCommit[e]
             /\ registry' = registry
  BY <1>2, Zenon DEF SetCoreTexEpochContext, ReceiptsTypeOK, RegistryTypeOK, adminVars
<1>3. ASSUME NEW r \in Registries, SetCoreTexRegistry(r)
      PROVE  totalCredits[epoch] = 0 /\ UNCHANGED <<context, epochCommit>>
  BY <1>3, Zenon DEF SetCoreTexRegistry
<1>. QED
  BY <1>1, <1>2, <1>3, ZenonT(60)
     DEF AdminStep, RevealEpochSecret, ScheduleCoreTexPolicy, SetScreenerCap,
         SetCoordinatorSigner, SetV4Paused

\* The advance of a state-advance receipt, written as table updates.
LEMMA AdvanceUpdates ==
  ASSUME AdvanceInv, NEW m \in Miners, NEW r \in Receipts, r.epoch = epoch, StateAdvance(m, r)
  PROVE  LET adv == [index |-> transitionCount[registry][epoch], miner |-> m,
                     parent |-> r.parent, new |-> r.new, patch |-> r.patch]
         IN /\ registry \in Registries /\ epoch \in Epochs
            /\ adv \in Advances
            /\ advances'[registry][epoch] = Append(advances[registry][epoch], adv)
            /\ transitionCount'[registry][epoch] = transitionCount[registry][epoch] + 1
            /\ liveRoot'[registry][epoch] = r.new
            /\ context[epoch] # NoContext
            /\ r.parent = LiveStateRoot(registry, epoch)
            /\ ~sealed[registry][epoch] /\ UNCHANGED <<sealed, header>>
            /\ \A g \in Registries, e \in Epochs : <<g, e>> # <<registry, epoch>> =>
                 /\ advances'[g][e] = advances[g][e]
                 /\ transitionCount'[g][e] = transitionCount[g][e]
                 /\ liveRoot'[g][e] = liveRoot[g][e]
<1>. DEFINE adv == [index |-> transitionCount[registry][epoch], miner |-> m,
                    parent |-> r.parent, new |-> r.new, patch |-> r.patch]
<1>1. /\ registry \in Registries /\ epoch \in Epochs
      /\ advances \in [Registries -> [Epochs -> Seq(Advances)]]
      /\ transitionCount \in [Registries -> [Epochs -> Nat]]
      /\ liveRoot \in [Registries -> [Epochs -> Roots \cup {NoRoot}]]
  BY Zenon DEF AdvanceInv, ReceiptsTypeOK, RegistryTypeOK
<1>2. SubmitStateAdvance(registry, epoch, m, r.parent, r.new, r.pins, r.patch)
  BY Zenon DEF StateAdvance
<1>3. r.parent \in Roots /\ r.new \in Roots /\ r.patch \in Patches
  BY ReceiptAssumption, Zenon DEF CoreTexReceipt
<1>4. adv \in Advances
  BY <1>1, <1>3, ZenonT(60) DEF Advances
<1>5. Append(advances[registry][epoch], adv) \in Seq(Advances)
  <2>. HIDE DEF adv
  <2>1. advances[registry][epoch] \in Seq(Advances)
    BY <1>1, ZenonT(60)
  <2>. QED BY <1>4, <2>1, SMTT(60)
<1>6. /\ advances' = [advances EXCEPT ![registry][epoch] = Append(advances[registry][epoch], adv)]
      /\ transitionCount' = [transitionCount EXCEPT
                               ![registry][epoch] = transitionCount[registry][epoch] + 1]
      /\ liveRoot' = [liveRoot EXCEPT ![registry][epoch] = r.new]
      /\ context[epoch] # NoContext
      /\ r.parent = LiveStateRoot(registry, epoch)
      /\ ~sealed[registry][epoch] /\ UNCHANGED <<sealed, header>>
  BY <1>2, ZenonT(60) DEF SubmitStateAdvance, HasContext
<1>. HIDE DEF adv
<1>7. /\ advances'[registry][epoch] = Append(advances[registry][epoch], adv)
      /\ \A g \in Registries, e \in Epochs : <<g, e>> # <<registry, epoch>> =>
           advances'[g][e] = advances[g][e]
  BY <1>1, <1>5, <1>6, TableUpdate, SMTT(60)
<1>8. /\ transitionCount'[registry][epoch] = transitionCount[registry][epoch] + 1
      /\ \A g \in Registries, e \in Epochs : <<g, e>> # <<registry, epoch>> =>
           transitionCount'[g][e] = transitionCount[g][e]
  <2>1. transitionCount[registry][epoch] + 1 \in Nat
    BY <1>1, SMTT(60)
  <2>. QED BY <1>1, <1>6, <2>1, TableUpdate, SMTT(60)
<1>9. /\ liveRoot'[registry][epoch] = r.new
      /\ \A g \in Registries, e \in Epochs : <<g, e>> # <<registry, epoch>> =>
           liveRoot'[g][e] = liveRoot[g][e]
  <2>1. r.new \in Roots \cup {NoRoot}
    BY <1>3, Zenon
  <2>. QED BY <1>1, <1>6, <2>1, TableUpdate, SMTT(60)
<1>10. \A g \in Registries, e \in Epochs : <<g, e>> # <<registry, epoch>> =>
          /\ advances'[g][e] = advances[g][e]
          /\ transitionCount'[g][e] = transitionCount[g][e]
          /\ liveRoot'[g][e] = liveRoot[g][e]
  BY <1>7, <1>8, <1>9, Zenon
<1>11. /\ adv \in Advances
       /\ advances'[registry][epoch] = Append(advances[registry][epoch], adv)
       /\ transitionCount'[registry][epoch] = transitionCount[registry][epoch] + 1
       /\ liveRoot'[registry][epoch] = r.new
  BY <1>4, <1>7, <1>8, <1>9, Zenon
<1>12. /\ context[epoch] # NoContext
       /\ r.parent = LiveStateRoot(registry, epoch)
       /\ ~sealed[registry][epoch] /\ UNCHANGED <<sealed, header>>
  BY <1>6, Zenon
<1>. QED BY <1>1, <1>10, <1>11, <1>12, Zenon DEF adv

-----------------------------------------------------------------------------
\* AdvanceInv holds in every reachable state.
THEOREM AdvanceInvariant == ReceiptsSpec => []AdvanceInv
\* A step that leaves the log, the header and the commits of an epoch alone
\* keeps its three facts.
<1>LogFrame. ASSUME NEW g \in Registries, NEW e \in Epochs, LogOK(g, e), SealOK(g, e), BackedOK(g, e),
                    advances'[g][e] = advances[g][e], transitionCount'[g][e] = transitionCount[g][e],
                    liveRoot'[g][e] = liveRoot[g][e],
                    advances[g][e] # << >> => context'[e] = context[e]
             PROVE  /\ LogOK(g, e)'
                    /\ header'[g][e] = header[g][e] /\ sealed'[g][e] = sealed[g][e] => SealOK(g, e)'
  BY <1>LogFrame, ZenonT(60) DEF LogOK, SealOK, BackedOK
\* The advance of the current epoch extends its list by one link.
<1>AdvanceKeepsLog. ASSUME AdvanceInv, NEW m \in Miners, NEW r \in Receipts, r.epoch = epoch, StateAdvance(m, r),
                           UNCHANGED <<epoch, context, epochCommit, registry>>
                    PROVE  LogOK(registry, epoch)'
  <2>. USE <1>AdvanceKeepsLog
  <2>. DEFINE log == advances[registry][epoch]
              adv == [index |-> transitionCount[registry][epoch], miner |-> m,
                      parent |-> r.parent, new |-> r.new, patch |-> r.patch]
  <2>1. /\ registry \in Registries /\ epoch \in Epochs /\ adv \in Advances
        /\ advances'[registry][epoch] = Append(log, adv)
        /\ transitionCount'[registry][epoch] = transitionCount[registry][epoch] + 1
        /\ liveRoot'[registry][epoch] = r.new
        /\ context[epoch] # NoContext
        /\ r.parent = LiveStateRoot(registry, epoch)
    BY AdvanceUpdates, ZenonT(60)
  <2>2. LogOK(registry, epoch)
    BY <2>1, Unfold, ZenonT(60) DEF AdvanceInv
  <2>3. log \in Seq(Advances) /\ Len(log) \in Nat
    BY <2>1, SMTT(60) DEF AdvanceInv, ReceiptsTypeOK, RegistryTypeOK
  <2>4. transitionCount[registry][epoch] = Len(log)
    BY <2>2, Zenon DEF LogOK
  <2>5. /\ Len(Append(log, adv)) = Len(log) + 1
        /\ \A i \in 1..Len(log) : Append(log, adv)[i] = log[i]
        /\ Append(log, adv)[Len(log) + 1] = adv
        /\ Append(log, adv) # << >>
        /\ DOMAIN Append(log, adv) = 1..(Len(log) + 1)
        /\ DOMAIN log = 1..Len(log)
    <3>. HIDE DEF log, adv
    <3>. QED BY <2>1, <2>3, SMTT(60)
  <2>6. adv.index = Len(log) /\ adv.parent = r.parent /\ adv.new = r.new
    BY <2>4, ZenonT(60)
  <2>7. CASE log = << >>
    <3>1. Len(log) = 0 /\ liveRoot[registry][epoch] = NoRoot
      BY <2>2, <2>7, ZenonT(60) DEF LogOK
    <3>2. r.parent = context[epoch].parent
      BY <2>1, <3>1, ZenonT(60) DEF LiveStateRoot
    <3>3. Append(log, adv)[1] = adv /\ DOMAIN Append(log, adv) = {1}
      BY <2>5, <3>1, SMTT(60)
    <3>. HIDE DEF log, adv
    <3>. QED BY <2>1, <2>4, <2>5, <2>6, <3>1, <3>2, <3>3, SMTT(60) DEF LogOK
  <2>8. CASE log # << >>
    <3>0. Len(log) > 0
      <4>. HIDE DEF log
      <4>. QED BY <2>3, <2>8, SMTT(30)
    <3>1. liveRoot[registry][epoch] = log[Len(log)].new /\ log[Len(log)] \in Advances
      BY <2>2, <2>3, <2>8, <3>0, SMTT(60) DEF LogOK
    <3>2. r.parent = log[Len(log)].new
      BY <2>1, <3>1, SentinelAssumption, Zenon DEF LiveStateRoot, Advances
    <3>3. /\ log[1].parent = context[epoch].parent
          /\ \A i \in 1..Len(log) : log[i].index = i - 1 /\ (i > 1 => log[i].parent = log[i-1].new)
      BY <2>2, <2>5, <2>8, ZenonT(60) DEF LogOK
    <3>. HIDE DEF log, adv
    <3>4. Append(log, adv)[1].parent = context[epoch].parent
      BY <2>3, <2>5, <3>0, <3>3, SMTT(30)
    <3>5. ASSUME NEW i \in 1..(Len(log) + 1)
          PROVE  /\ Append(log, adv)[i].index = i - 1
                 /\ i > 1 => Append(log, adv)[i].parent = Append(log, adv)[i-1].new
      <4>1. CASE i = Len(log) + 1
        <5>1. i - 1 = Len(log) /\ i - 1 \in 1..Len(log)
          BY <2>3, <3>0, <4>1, SMTT(60)
        <5>. QED BY <2>5, <2>6, <3>2, <4>1, <5>1, Zenon
      <4>2. CASE i \in 1..Len(log)
        <5>1. i > 1 => i - 1 \in 1..Len(log)
          BY <2>3, <4>2, SMTT(60)
        <5>. QED BY <2>5, <3>3, <4>2, <5>1, Zenon
      <4>. QED BY <2>3, <4>1, <4>2, SMTT(30)
    <3>. QED BY <2>1, <2>4, <2>5, <2>6, <3>4, <3>5, SMTT(60) DEF LogOK
  <2>. QED BY <2>7, <2>8, Zenon
\* A submission keeps every fact of every epoch and registry.
<1>SubmitKeepsAdvanceInv.
    ASSUME AdvanceInv, NEW m \in Miners, NEW tier \in TierCredits, SubmitStep(m, tier)
    PROVE  /\ \A g \in Registries, e \in Epochs : LogOK(g, e)' /\ BackedOK(g, e)' /\ SealOK(g, e)'
           /\ OneRegistryPerEpoch'
  <2>. USE <1>SubmitKeepsAdvanceInv
  <2>0. ReceiptsTypeOK /\ epoch \in Epochs
    BY Zenon DEF AdvanceInv, ReceiptsTypeOK
  <2>1. \A g \in Registries, e \in Epochs : LogOK(g, e) /\ BackedOK(g, e) /\ SealOK(g, e)
    BY Unfold, ZenonT(60) DEF AdvanceInv
  <2>2. ASSUME NEW r, NEW earned \in Nat \ {0}, CreditEffect(m, r, earned)
        PROVE  /\ UNCHANGED <<epoch, context, epochCommit, registry>>
               /\ epochCommit[epoch] # NoSecret /\ r.epoch = epoch
               /\ totalCredits'[epoch] # 0
               /\ \A e \in Epochs : totalCredits[e] # 0 => totalCredits'[e] # 0
    BY <2>0, <2>2, SMTT(60) DEF CreditEffect, adminVars, ReceiptsTypeOK
  <2>3. ASSUME NEW r, NEW earned \in Nat \ {0}, CreditEffect(m, r, earned), UNCHANGED registryVars
        PROVE  /\ \A g \in Registries, e \in Epochs :
                     LogOK(g, e)' /\ BackedOK(g, e)' /\ SealOK(g, e)'
               /\ OneRegistryPerEpoch'
    <3>1. OneRegistryPerEpoch'
      BY <2>3, Zenon DEF AdvanceInv, OneRegistryPerEpoch, registryVars
    <3>2. ASSUME NEW g \in Registries, NEW e \in Epochs
          PROVE  LogOK(g, e)' /\ BackedOK(g, e)' /\ SealOK(g, e)'
      <4>1. BackedOK(g, e)'
        BY <2>1, <2>2, <2>3, Zenon DEF BackedOK, registryVars
      <4>. QED BY <2>1, <2>2, <2>3, <4>1, <1>LogFrame, Zenon DEF registryVars
    <3>. QED BY <3>1, <3>2, Zenon
  <2>4. ASSUME NEW r \in Receipts, NEW earned \in Nat \ {0}, CreditEffect(m, r, earned),
               StateAdvance(m, r)
        PROVE  /\ \A g \in Registries, e \in Epochs :
                     LogOK(g, e)' /\ BackedOK(g, e)' /\ SealOK(g, e)'
               /\ OneRegistryPerEpoch'
    <3>1. r.epoch = epoch /\ UNCHANGED <<epoch, context, epochCommit, registry>>
      BY <2>2, <2>4, Zenon
    <3>2. /\ registry \in Registries
          /\ ~sealed[registry][epoch] /\ UNCHANGED <<sealed, header>>
          /\ \A g \in Registries, e \in Epochs : <<g, e>> # <<registry, epoch>> =>
               /\ advances'[g][e] = advances[g][e]
               /\ transitionCount'[g][e] = transitionCount[g][e]
               /\ liveRoot'[g][e] = liveRoot[g][e]
      BY <2>4, <3>1, AdvanceUpdates, ZenonT(60)
    <3>3. ASSUME NEW g \in Registries, NEW e \in Epochs, <<g, e>> # <<registry, epoch>>
          PROVE  LogOK(g, e)' /\ BackedOK(g, e)' /\ SealOK(g, e)'
      <4>1. BackedOK(g, e)'
        <5>1. BackedOK(g, e)
          BY <2>1, Zenon
        <5>2. /\ advances'[g][e] = advances[g][e]
              /\ UNCHANGED <<epoch, epochCommit, registry>>
          BY <3>1, <3>2, <3>3, Zenon
        <5>3. totalCredits[e] # 0 => totalCredits'[e] # 0
          BY <2>2, <2>4, Zenon
        <5>. QED BY <5>1, <5>2, <5>3, Zenon DEF BackedOK
      <4>. QED BY <2>1, <3>1, <3>2, <3>3, <4>1, <1>LogFrame, ZenonT(60)
    <3>4. LogOK(registry, epoch)'
      BY <2>4, <3>1, <1>AdvanceKeepsLog, ZenonT(60)
    <3>5. BackedOK(registry, epoch)'
      BY <2>0, <2>2, <2>4, <3>1, SMTT(60) DEF BackedOK, Epochs
    <3>6. SealOK(registry, epoch)'
      BY <3>2, <3>1, Zenon DEF SealOK
    <3>7. OneRegistryPerEpoch'
      <4>. SUFFICES ASSUME NEW e \in Epochs, NEW g \in Registries, NEW h \in Registries,
                           advances'[g][e] # << >>, advances'[h][e] # << >>
                    PROVE  g = h
        BY Zenon DEF OneRegistryPerEpoch
      <4>1. CASE e = epoch
        <5>1. \A x \in Registries : x # registry => advances[x][epoch] = << >>
          BY <2>0, <2>1, Zenon DEF BackedOK
        <5>2. \A x \in Registries : x # registry => advances'[x][epoch] = << >>
          <6>. SUFFICES ASSUME NEW x \in Registries, x # registry PROVE advances'[x][epoch] = << >>
            BY Zenon
          <6>1. <<x, epoch>> # <<registry, epoch>>
            BY Zenon 
          <6>. QED BY <2>0, <3>2, <5>1, <6>1, Zenon
        <5>. QED BY <4>1, <5>2, Zenon
      <4>2. CASE e # epoch
        <5>1. <<g, e>> # <<registry, epoch>> /\ <<h, e>> # <<registry, epoch>>
          BY <4>2, Zenon
        <5>2. advances[g][e] # << >> /\ advances[h][e] # << >>
          BY <3>2, <5>1, Zenon
        <5>. QED BY <5>2, Zenon DEF AdvanceInv, OneRegistryPerEpoch
      <4>. QED BY <4>1, <4>2, Zenon
    <3>8. ASSUME NEW g \in Registries, NEW e \in Epochs
          PROVE  LogOK(g, e)' /\ BackedOK(g, e)' /\ SealOK(g, e)'
      <4>1. CASE g = registry /\ e = epoch
        BY <3>1, <3>4, <3>5, <3>6, <4>1, Zenon
      <4>2. CASE ~(g = registry /\ e = epoch)
        BY <3>3, <4>2, Zenon
      <4>. QED BY <4>1, <4>2, Zenon
    <3>. QED BY <3>7, <3>8, Zenon
  <2>5. tier \in Nat /\ \A r : CreditEffect(m, r, tier) => tier # 0
    BY InputAssumption, Zenon DEF CreditEffect
  <2>6. ASSUME NEW r \in StandardReceipt, CreditEffect(m, r, tier), UNCHANGED <<registryVars, coreTexVars>>
        PROVE  /\ \A g \in Registries, e \in Epochs :
                     LogOK(g, e)' /\ BackedOK(g, e)' /\ SealOK(g, e)'
               /\ OneRegistryPerEpoch'
    BY <2>3, <2>5, <2>6, Zenon
  <2>7. ASSUME NEW r \in Receipts, NEW earned \in Nat \ {0}, CreditEffect(m, r, earned),
               ScreenerPass(m, r)
        PROVE  /\ \A g \in Registries, e \in Epochs :
                     LogOK(g, e)' /\ BackedOK(g, e)' /\ SealOK(g, e)'
               /\ OneRegistryPerEpoch'
    <3>1. UNCHANGED registryVars
      BY <2>7, Zenon DEF ScreenerPass
    <3>. QED BY <2>3, <2>7, <3>1, Zenon
  <2>. QED BY <2>0, <2>4, <2>6, <2>7, SubmitCases, Zenon
\* The clocks, the admins and the registry owner keep every fact too.
<1>OtherStepsKeepAdvanceInv.
    ASSUME AdvanceInv, ClockStep \/ AdminStep \/ RegistryStep
    PROVE  /\ \A g \in Registries, e \in Epochs : LogOK(g, e)' /\ BackedOK(g, e)' /\ SealOK(g, e)'
           /\ OneRegistryPerEpoch'
  <2>. USE <1>OtherStepsKeepAdvanceInv
  <2>0. ReceiptsTypeOK /\ epoch \in Epochs /\ epoch \in Nat
    BY DEF AdvanceInv, ReceiptsTypeOK, Epochs
  <2>1. \A g \in Registries, e \in Epochs : LogOK(g, e) /\ BackedOK(g, e) /\ SealOK(g, e)
    BY Unfold, Zenon DEF AdvanceInv
  <2>2. UNCHANGED <<advances, transitionCount, liveRoot, totalCredits>>
    <3>1. CASE ClockStep
      BY <3>1, Zenon DEF ClockStep, registryVars, creditVars
    <3>2. CASE AdminStep
      BY <3>2, AdminFrame, ZenonT(60) DEF registryVars, creditVars
    <3>3. CASE RegistryStep
      BY <3>3, ZenonT(60) DEF RegistryStep, SealEpoch, SetBotcoinMiningV4, SetRegistryPaused, creditVars
    <3>. QED BY <3>1, <3>2, <3>3, Zenon
  <2>3. OneRegistryPerEpoch'
    BY <2>2, Zenon DEF AdvanceInv, OneRegistryPerEpoch
  <2>4. ASSUME NEW g \in Registries, NEW e \in Epochs
        PROVE  LogOK(g, e)' /\ BackedOK(g, e)' /\ SealOK(g, e)'
    <3>1. CASE ClockStep
      <4>1. UNCHANGED <<context, sealed, header, epochCommit, registry>>
            /\ epoch' \in {epoch, epoch + 1}
        BY <3>1, ZenonT(60) DEF ClockStep, NextEpoch, Tick, registryVars, adminVars
      <4>2. BackedOK(g, e)'
        <5>1. BackedOK(g, e)
          BY <2>1, Zenon
        <5>2. e <= epoch /\ (e = epoch => g = registry) => e <= epoch' /\ (e = epoch' => g = registry)
          BY <2>0, <4>1, SMTT(60) DEF Epochs
        <5>. QED BY <2>2, <4>1, <5>1, <5>2, Zenon DEF BackedOK
      <4>. QED BY <2>1, <2>2, <4>1, <4>2, <1>LogFrame, Zenon
    <3>2. CASE AdminStep
      <4>1. UNCHANGED <<epoch, sealed, header>>
        BY <3>2, AdminFrame, Zenon DEF registryVars
      <4>2. /\ epochCommit[e] # NoSecret =>
                 context'[e] = context[e] /\ epochCommit'[e] = epochCommit[e]
            /\ registry' = registry \/ totalCredits[epoch] = 0
        BY <2>0, <3>2, AdminRespectsCommit, Zenon
      <4>3. BackedOK(g, e)'
        BY <2>1, <2>2, <4>1, <4>2, Zenon DEF BackedOK
      <4>4. advances[g][e] # << >> => context'[e] = context[e]
        BY <2>1, <4>2, Zenon DEF BackedOK
      <4>. QED BY <2>1, <2>2, <4>1, <4>3, <4>4, <1>LogFrame, Zenon
    <3>3. CASE RegistryStep
      <4>1. UNCHANGED <<epoch, context, epochCommit, registry>>
        BY <3>3, Zenon DEF RegistryStep, adminVars
      <4>2. BackedOK(g, e)' /\ LogOK(g, e)'
        BY <2>1, <2>2, <4>1, <1>LogFrame, Zenon DEF BackedOK
      <4>3. SealOK(g, e)'
        <5>1. CASE header'[g][e] = header[g][e] /\ sealed'[g][e] = sealed[g][e]
          BY <2>1, <2>2, <4>1, <5>1, <1>LogFrame, Zenon
        <5>2. ASSUME NEW f \in Roots, NEW p \in Pins, SealEpoch(g, e, f, p)
              PROVE  SealOK(g, e)'
          <6>1. header'[g][e] = [parent |-> context[e].parent, final |-> f, pins |-> p]
            <7>1. context[e].parent \in Roots
              BY <2>0, <5>2, Zenon DEF SealEpoch, HasContext, ReceiptsTypeOK, RegistryTypeOK, Contexts
            <7>2. [parent |-> context[e].parent, final |-> f, pins |-> p] \in Headers \cup {NoHeader}
              BY <7>1, Zenon DEF Headers
            <7>3. header \in [Registries -> [Epochs -> Headers \cup {NoHeader}]]
              BY <2>0, Zenon DEF ReceiptsTypeOK, RegistryTypeOK
            <7>4. header' = [header EXCEPT ![g][e] =
                              [parent |-> context[e].parent, final |-> f, pins |-> p]]
              BY <5>2, Zenon DEF SealEpoch
            <7>. QED BY <7>2, <7>3, <7>4, TableUpdate, SMTT(60)
          <6>2. f = LiveStateRoot(g, e) /\ p = context[e].pins
            BY <5>2, Zenon DEF SealEpoch
          <6>3. advances[g][e] # << >> =>
                  /\ f = advances[g][e][Len(advances[g][e])].new
                  /\ context[e].parent = advances[g][e][1].parent
            <7>. SUFFICES ASSUME advances[g][e] # << >>
                          PROVE  /\ f = advances[g][e][Len(advances[g][e])].new
                                 /\ context[e].parent = advances[g][e][1].parent
              BY Zenon 
            <7>1. advances[g][e] \in Seq(Advances)
              BY <2>0, ZenonT(60) DEF ReceiptsTypeOK, RegistryTypeOK
            <7>2. advances[g][e][Len(advances[g][e])] \in Advances
              BY <7>1, SMTT(60)
            <7>3. liveRoot[g][e] = advances[g][e][Len(advances[g][e])].new
              BY <2>1, Zenon DEF LogOK
            <7>4. liveRoot[g][e] # NoRoot
              BY <7>2, <7>3, SentinelAssumption, Zenon DEF Advances
            <7>. QED BY <2>1, <6>2, <7>3, <7>4, ZenonT(60) DEF LogOK, LiveStateRoot
          <6>. QED BY <2>2, <4>1, <6>1, <6>2, <6>3, ZenonT(60) DEF SealOK
        <5>3. \/ header'[g][e] = header[g][e] /\ sealed'[g][e] = sealed[g][e]
              \/ \E f \in Roots, p \in Pins : SealEpoch(g, e, f, p)
          <6>1. ASSUME NEW h \in Registries, NEW x \in Epochs, NEW f \in Roots, NEW p \in Pins,
                       SealEpoch(h, x, f, p), <<h, x>> # <<g, e>>
                PROVE  header'[g][e] = header[g][e] /\ sealed'[g][e] = sealed[g][e]
            BY <2>0, <6>1, Zenon DEF SealEpoch, ReceiptsTypeOK, RegistryTypeOK
          <6>. QED BY <3>3, <6>1, Zenon DEF RegistryStep, SetBotcoinMiningV4, SetRegistryPaused
        <5>. QED BY <5>1, <5>2, <5>3, Zenon
      <4>. QED BY <4>2, <4>3, Zenon
    <3>. QED BY <3>1, <3>2, <3>3, Zenon
  <2>. QED BY <2>3, <2>4, Zenon
<1>1. ReceiptsInit => AdvanceChain /\ AdvancesBacked /\ OneRegistryPerEpoch /\ SealMatchesLog
  <2>. SUFFICES ASSUME ReceiptsInit
                PROVE  AdvanceChain /\ AdvancesBacked /\ OneRegistryPerEpoch /\ SealMatchesLog
    BY Zenon 
  <2>1. \A g \in Registries, e \in Epochs :
          /\ advances[g][e] = << >> /\ transitionCount[g][e] = 0
          /\ liveRoot[g][e] = NoRoot /\ ~sealed[g][e] /\ header[g][e] = NoHeader
    BY ZenonT(60) DEF ReceiptsInit, RegistryInit
  <2>2. AdvanceChain
    BY <2>1, SMTT(60) DEF AdvanceChain
  <2>3. AdvancesBacked /\ OneRegistryPerEpoch
    BY <2>1, ZenonT(60) DEF AdvancesBacked, OneRegistryPerEpoch
  <2>4. SealMatchesLog
    BY <2>1, Zenon DEF SealMatchesLog
  <2>. QED BY <2>2, <2>3, <2>4, Zenon
<1>2. AdvanceInv /\ [ReceiptsNext]_receiptVars
        => AdvanceChain' /\ AdvancesBacked' /\ OneRegistryPerEpoch' /\ SealMatchesLog'
  <2>. SUFFICES ASSUME AdvanceInv, [ReceiptsNext]_receiptVars
                PROVE  /\ \A g \in Registries, e \in Epochs :
                            LogOK(g, e)' /\ BackedOK(g, e)' /\ SealOK(g, e)'
                       /\ OneRegistryPerEpoch'
    BY ZenonT(60) DEF AdvanceChain, AdvancesBacked, SealMatchesLog, LogOK, BackedOK, SealOK
  <2>1. CASE UNCHANGED receiptVars
    <3>1. UNCHANGED <<advances, transitionCount, liveRoot, sealed, header, context,
                      epoch, epochCommit, totalCredits, registry>>
      BY <2>1, Zenon DEF receiptVars, registryVars, creditVars, adminVars
    <3>2. ASSUME NEW g \in Registries, NEW e \in Epochs
          PROVE  LogOK(g, e)' /\ BackedOK(g, e)' /\ SealOK(g, e)'
      <4>1. LogOK(g, e) /\ BackedOK(g, e) /\ SealOK(g, e)
        BY Unfold, ZenonT(60) DEF AdvanceInv
      <4>2. BackedOK(g, e)'
        BY <3>1, <4>1, ZenonT(60) DEF BackedOK
      <4>. QED BY <3>1, <4>1, <4>2, <1>LogFrame, Zenon
    <3>3. OneRegistryPerEpoch'
      BY <3>1, Zenon DEF AdvanceInv, OneRegistryPerEpoch
    <3>. QED BY <3>2, <3>3, Zenon
  <2>. QED BY <2>1, <1>SubmitKeepsAdvanceInv, <1>OtherStepsKeepAdvanceInv, Zenon DEF ReceiptsNext
<1>. QED BY <1>1, <1>2, TypeCorrect, PTL DEF ReceiptsSpec, AdvanceInv

\* For any number of registries, epochs and advances: an epoch's advances form
\* one linked list from its context's parent root to the live root.
THEOREM AdvancesLinked == ReceiptsSpec => []AdvanceChain
BY AdvanceInvariant, PTL DEF AdvanceInv

\* For any sequence of registry switches, the advances of an epoch are never
\* split over two registries.
THEOREM AdvancesInOneRegistry == ReceiptsSpec => []OneRegistryPerEpoch
BY AdvanceInvariant, PTL DEF AdvanceInv

\* A sealed header always summarises the epoch's whole log.
THEOREM SealsMatchLog == ReceiptsSpec => []SealMatchesLog
BY AdvanceInvariant, PTL DEF AdvanceInv
-----------------------------------------------------------------------------
\* The step formula of SealIsFinal.
SealKept(g, e) ==
  sealed[g][e] /\ epochCommit[e] # NoSecret =>
    /\ sealed'[g][e] /\ header'[g][e] = header[g][e]
    /\ LiveStateRoot(g, e)' = LiveStateRoot(g, e)

\* Whatever the admins and the miners do, the live root and the header of a
\* committed epoch stay as they were sealed.
THEOREM SealsAreFinal == ReceiptsSpec => SealIsFinal
<1>SealStep. ASSUME AdvanceInv, ReceiptsNext, NEW g \in Registries, NEW e \in Epochs
             PROVE  SealKept(g, e)
  <2>. USE <1>SealStep
  <2>0. ReceiptsTypeOK
    BY Zenon DEF AdvanceInv
  <2>. SUFFICES ASSUME sealed[g][e], epochCommit[e] # NoSecret
                PROVE  /\ sealed'[g][e] /\ header'[g][e] = header[g][e]
                       /\ liveRoot'[g][e] = liveRoot[g][e] /\ context'[e] = context[e]
    BY Zenon DEF SealKept, LiveStateRoot
  <2>1. CASE ClockStep
    BY <2>1, Zenon DEF ClockStep, registryVars
  <2>2. CASE AdminStep
    BY <2>0, <2>2, AdminFrame, AdminRespectsCommit, Zenon DEF registryVars
  <2>3. CASE RegistryStep
    <3>1. UNCHANGED <<context, liveRoot>>
      BY <2>3, Zenon DEF RegistryStep, SealEpoch, SetBotcoinMiningV4, SetRegistryPaused
    <3>2. ASSUME NEW h \in Registries, NEW x \in Epochs, NEW f \in Roots, NEW p \in Pins,
                 SealEpoch(h, x, f, p)
          PROVE  sealed'[g][e] /\ header'[g][e] = header[g][e]
      <4>1. ~(h = g /\ x = e)
        BY <3>2, Zenon DEF SealEpoch
      <4>. QED BY <2>0, <3>2, <4>1, Zenon DEF SealEpoch, ReceiptsTypeOK, RegistryTypeOK
    <3>. QED BY <2>3, <3>1, <3>2, Zenon DEF RegistryStep, SetBotcoinMiningV4, SetRegistryPaused
  <2>4. ASSUME NEW m \in Miners, NEW tier \in TierCredits, SubmitStep(m, tier)
        PROVE  /\ sealed'[g][e] /\ header'[g][e] = header[g][e]
               /\ liveRoot'[g][e] = liveRoot[g][e] /\ context'[e] = context[e]
    <3>1. ASSUME NEW r, NEW earned, CreditEffect(m, r, earned), UNCHANGED registryVars
          PROVE  /\ sealed'[g][e] /\ header'[g][e] = header[g][e]
                 /\ liveRoot'[g][e] = liveRoot[g][e] /\ context'[e] = context[e]
      BY <3>1, Zenon DEF CreditEffect, registryVars
    <3>2. ASSUME NEW r \in Receipts, NEW earned, CreditEffect(m, r, earned), StateAdvance(m, r)
          PROVE  /\ sealed'[g][e] /\ header'[g][e] = header[g][e]
                 /\ liveRoot'[g][e] = liveRoot[g][e] /\ context'[e] = context[e]
      <4>1. r.epoch = epoch /\ context' = context
        BY <3>2, Zenon DEF CreditEffect
      <4>2. /\ ~sealed[registry][epoch] /\ UNCHANGED <<sealed, header>>
            /\ <<g, e>> # <<registry, epoch>> => liveRoot'[g][e] = liveRoot[g][e]
        BY <3>2, <4>1, AdvanceUpdates, ZenonT(60)
      <4>. QED BY <4>1, <4>2, Zenon
    <3>. QED BY <2>0, <2>4, <3>1, <3>2, SubmitCases, Zenon DEF ScreenerPass
  <2>. QED BY <2>1, <2>2, <2>3, <2>4, Zenon DEF ReceiptsNext
<1>1. AdvanceInv /\ [ReceiptsNext]_receiptVars
        => [\A r \in Registries, e \in Epochs :
              sealed[r][e] /\ epochCommit[e] # NoSecret =>
                /\ sealed'[r][e] /\ header'[r][e] = header[r][e]
                /\ LiveStateRoot(r, e)' = LiveStateRoot(r, e)]_receiptVars
  BY <1>SealStep, Zenon DEF SealKept
<1>. QED BY <1>1, AdvanceInvariant, PTL DEF ReceiptsSpec, SealIsFinal

-----------------------------------------------------------------------------
(***************************************************************************)
(* Replay: every CoreTex credit can be re-derived later from the chain as  *)
(* it stands, although the admins may still set contexts, schedule         *)
(* policies and switch registries.  What keeps a credit replayable is that *)
(* its epoch has begun, which freezes its policies, and is committed,      *)
(* which freezes its context; the advances of an epoch only grow.          *)
(***************************************************************************)

\* The policy chosen from a set of policies in force.
ChosenFrom(P) == CHOOSE p \in P : \A q \in P : q.effective <= p.effective

\* The roots epoch e has gone through.
Passed(e, root) ==
  \/ root = context[e].parent
  \/ \E g \in Registries : \E i \in DOMAIN advances[g][e] : root = advances[g][e][i].new

\* The receipt x is replayable, and stays so.
Replayable(x) ==
  /\ x.epoch \in Epochs /\ x.epoch <= epoch /\ epochCommit[x.epoch] # NoSecret
  /\ x.pins = context[x.epoch].pins
  /\ x.policy = ChosenFrom(InForce(x.epoch))
  /\ x.work = WorkUnitsBps(x.policy, x.outcome, x.difficulty)
  /\ Passed(x.epoch, x.parent)

\* The receipt x is in some miner's chain.
Chained(x) == \E m \in Miners : \E i \in 1..Len(lastReceiptHash[m]) :
                x = RcptOf(lastReceiptHash[m], i)

ReplayInv == \A x : Chained(x) /\ IsCoreTex(x) => Replayable(x)

-----------------------------------------------------------------------------
\* For any admin behaviour, registries, policies and receipts: the pins, the
\* policy, the work units and the parent root of every CoreTex credit can be
\* checked against the chain at any later time.
THEOREM CreditsStayReplayable == ReceiptsSpec => []CreditsReplayable
\* A log that is not empty has a last entry.
<1>LastIndex. ASSUME NEW S, NEW s \in Seq(S), s # << >>
              PROVE  Len(s) \in DOMAIN s
  BY <1>LastIndex
\* A committed epoch keeps its commit and its context, whoever steps.
<1>CommittedKept. ASSUME AdvanceInv, ReceiptsNext, NEW e \in Epochs, epochCommit[e] # NoSecret
                  PROVE  context'[e] = context[e] /\ epochCommit'[e] = epochCommit[e]
  <2>. USE <1>CommittedKept
  <2>0. ReceiptsTypeOK
    BY Zenon DEF AdvanceInv
  <2>1. CASE ClockStep \/ RegistryStep
    BY <2>1, Zenon DEF ClockStep, RegistryStep, adminVars
  <2>2. CASE AdminStep
    BY <2>0, <2>2, AdminRespectsCommit, Zenon
  <2>3. ASSUME NEW m \in Miners, NEW tier \in TierCredits, SubmitStep(m, tier)
        PROVE  context'[e] = context[e] /\ epochCommit'[e] = epochCommit[e]
    BY <2>0, <2>3, SubmitCases, Zenon DEF CreditEffect, adminVars
  <2>. QED BY <2>1, <2>2, <2>3, Zenon DEF ReceiptsNext
\* The log of an epoch only grows.
<1>LogGrows. ASSUME AdvanceInv, ReceiptsNext, NEW g \in Registries, NEW e \in Epochs,
                    NEW i \in DOMAIN advances[g][e]
             PROVE  i \in DOMAIN advances'[g][e] /\ advances'[g][e][i] = advances[g][e][i]
  <2>. USE <1>LogGrows
  <2>0. ReceiptsTypeOK
    BY Zenon DEF AdvanceInv
  <2>1. CASE advances'[g][e] = advances[g][e]
    BY <2>1, Zenon
  <2>2. CASE ClockStep \/ RegistryStep
    BY <2>1, <2>2, Zenon DEF ClockStep, RegistryStep, SealEpoch, SetBotcoinMiningV4,
                      SetRegistryPaused, registryVars
  <2>3. CASE AdminStep
    BY <2>1, <2>3, AdminFrame, Zenon DEF registryVars
  <2>4. ASSUME NEW m \in Miners, NEW r \in Receipts, r.epoch = epoch, StateAdvance(m, r)
        PROVE  i \in DOMAIN advances'[g][e] /\ advances'[g][e][i] = advances[g][e][i]
    <3>. DEFINE log == advances[registry][epoch]
                adv == [index |-> transitionCount[registry][epoch], miner |-> m,
                        parent |-> r.parent, new |-> r.new, patch |-> r.patch]
    <3>1. /\ registry \in Registries /\ epoch \in Epochs
          /\ adv \in Advances /\ advances'[registry][epoch] = Append(log, adv)
          /\ <<g, e>> # <<registry, epoch>> => advances'[g][e] = advances[g][e]
      BY <2>4, AdvanceUpdates, ZenonT(60)
    <3>2. log \in Seq(Advances)
      BY <2>0, <3>1, SMTT(60) DEF ReceiptsTypeOK, RegistryTypeOK
    <3>. HIDE DEF log, adv
    <3>3. \A k \in DOMAIN log : k \in DOMAIN Append(log, adv) /\ Append(log, adv)[k] = log[k]
      BY <3>1, <3>2, SMTT(60)
    <3>4. CASE g = registry /\ e = epoch
      BY <3>1, <3>3, <3>4, Zenon DEF log
    <3>. QED BY <2>1, <3>1, <3>4, ZenonT(60)
  <2>5. ASSUME NEW m \in Miners, NEW tier \in TierCredits, SubmitStep(m, tier)
        PROVE  i \in DOMAIN advances'[g][e] /\ advances'[g][e][i] = advances[g][e][i]
    BY <2>0, <2>1, <2>4, <2>5, SubmitCases, Zenon DEF CreditEffect, ScreenerPass, registryVars
  <2>. QED BY <2>2, <2>3, <2>5, Zenon DEF ReceiptsNext
\* The clock of epochs never goes back.
<1>EpochGrows. ASSUME ReceiptsTypeOK, ReceiptsNext
               PROVE  epoch \in Nat /\ epoch' \in Nat /\ epoch <= epoch'
  <2>. USE <1>EpochGrows
  <2>1. epoch \in Nat
    BY DEF ReceiptsTypeOK, Epochs
  <2>2. epoch' = epoch \/ epoch' = epoch + 1
    <3>1. CASE ClockStep \/ RegistryStep
      BY <3>1, Zenon DEF ClockStep, NextEpoch, Tick, RegistryStep
    <3>2. CASE AdminStep
      BY <3>2, AdminFrame, Zenon
    <3>3. ASSUME NEW m \in Miners, NEW tier \in TierCredits, SubmitStep(m, tier)
          PROVE  epoch' = epoch
      BY <3>3, SubmitCases, Zenon DEF CreditEffect
    <3>. QED BY <3>1, <3>2, <3>3, Zenon DEF ReceiptsNext
  <2>. QED BY <2>1, <2>2, SMTT(30)
\* No step undoes what makes a receipt replayable.
<1>ReplayableKept. ASSUME AdvanceInv, ReceiptsNext, NEW x, Replayable(x)
                   PROVE  Replayable(x)'
  <2>. USE <1>ReplayableKept
  <2>0. ReceiptsTypeOK
    BY Zenon DEF AdvanceInv
  <2>1. PICK e \in Epochs : e = x.epoch /\ e <= epoch /\ epochCommit[e] # NoSecret
    BY Zenon DEF Replayable
  <2>2. e \in 0..epoch /\ e <= epoch'
    BY <2>0, <2>1, <1>EpochGrows, SMTT(60) DEF Epochs
  <2>3. context'[e] = context[e] /\ epochCommit'[e] = epochCommit[e]
    BY <2>1, <1>CommittedKept, Zenon
  <2>4. InForce(e)' = InForce(e)
    BY <2>0, <2>2, PolicyStep, Zenon
  <2>5. Passed(e, x.parent)'
    <3>1. Passed(e, x.parent)
      BY <2>1, Zenon DEF Replayable
    <3>2. CASE x.parent = context[e].parent
      BY <2>3, <3>2, Zenon DEF Passed
    <3>3. ASSUME NEW g \in Registries, NEW i \in DOMAIN advances[g][e],
                 x.parent = advances[g][e][i].new
          PROVE  Passed(e, x.parent)'
      BY <3>3, <1>LogGrows, ZenonT(60) DEF Passed
    <3>. QED BY <3>1, <3>2, <3>3, Zenon DEF Passed
  <2>6. x.pins = context[e].pins /\ x.policy = ChosenFrom(InForce(e))
        /\ x.work = WorkUnitsBps(x.policy, x.outcome, x.difficulty)
    BY <2>1, Zenon DEF Replayable
  <2>7. x.policy = ChosenFrom(InForce(e)')
    BY <2>4, <2>6, Zenon
  <2>. QED BY <2>1, <2>2, <2>3, <2>5, <2>6, <2>7, Zenon DEF Replayable
\* A CoreTex receipt is replayable the moment it is credited: it was checked
\* against the context, the policy and the live root of its epoch.
<1>CreditedIsReplayable. ASSUME AdvanceInv, ReceiptsNext, NEW m \in Miners, NEW r \in Receipts, NEW earned,
                                CreditEffect(m, r, earned), CoreTexGuards(r), ScreenerPass(m, r) \/ StateAdvance(m, r)
                         PROVE  Replayable(r)'
  <2>. USE <1>CreditedIsReplayable
  <2>0. ReceiptsTypeOK /\ epoch \in Epochs
    BY Zenon DEF AdvanceInv, ReceiptsTypeOK
  <2>1. r.epoch = epoch /\ epochCommit[epoch] # NoSecret
    BY Zenon DEF CreditEffect
  <2>2. r.pins = context[epoch].pins /\ r.parent = LiveStateRoot(registry, epoch)
    BY <2>1, Zenon DEF ScreenerPass, StateAdvance, RegistryContextOK
  <2>3. r.policy = ChosenFrom(InForce(epoch))
        /\ r.work = WorkUnitsBps(r.policy, r.outcome, r.difficulty)
    BY <2>1, Zenon DEF CoreTexGuards, ActivePolicy, ChosenFrom
  <2>4. registry \in Registries /\ LogOK(registry, epoch)
    BY <2>0, Unfold, Zenon DEF AdvanceInv, ReceiptsTypeOK
  <2>5. Passed(epoch, r.parent)
    <3>1. CASE liveRoot[registry][epoch] = NoRoot
      BY <2>2, <3>1, Zenon DEF LiveStateRoot, Passed
    <3>2. CASE liveRoot[registry][epoch] # NoRoot
      <4>1. r.parent = liveRoot[registry][epoch]
        BY <2>2, <3>2, Zenon DEF LiveStateRoot
      <4>2. advances[registry][epoch] # << >>
        BY <2>4, <3>2, ZenonT(60) DEF LogOK
      <4>3. advances[registry][epoch] \in Seq(Advances)
        BY <2>0, <2>4, ZenonT(40) DEF ReceiptsTypeOK, RegistryTypeOK
      <4>4. Len(advances[registry][epoch]) \in DOMAIN advances[registry][epoch]
        BY <4>2, <4>3, <1>LastIndex, Zenon
      <4>5. r.parent = advances[registry][epoch][Len(advances[registry][epoch])].new
        BY <2>4, <4>1, <4>2, Zenon DEF LogOK
      <4>. QED BY <2>4, <4>4, <4>5, Zenon DEF Passed
    <3>. QED BY <3>1, <3>2, Zenon
  <2>6. epoch <= epoch
    BY <2>0 DEF Epochs
  <2>7. Replayable(r)
    BY <2>0, <2>1, <2>2, <2>3, <2>5, <2>6, Zenon DEF Replayable
  <2>. QED BY <2>7, <1>ReplayableKept, Zenon
<1>ReplayStep. ASSUME AdvanceInv, ReplayInv, ReceiptsNext
               PROVE  ReplayInv'
  <2>. USE <1>ReplayStep
  <2>0. ReceiptsTypeOK
    BY Zenon DEF AdvanceInv
  <2>1. ASSUME UNCHANGED lastReceiptHash
        PROVE  ReplayInv'
    <3>1. \A x : Chained(x)' => Chained(x)
      BY <2>1, Zenon DEF Chained
    <3>. QED BY <3>1, <1>ReplayableKept, Zenon DEF ReplayInv
  <2>2. CASE ClockStep \/ RegistryStep
    BY <2>1, <2>2, Zenon DEF ClockStep, RegistryStep, creditVars
  <2>3. CASE AdminStep
    BY <2>1, <2>3, AdminFrame, Zenon DEF creditVars
  <2>4. ASSUME NEW m \in Miners, NEW r \in AnyReceipt, NEW earned, CreditEffect(m, r, earned),
               IsCoreTex(r) => Replayable(r)'
        PROVE  ReplayInv'
    <3>1. ASSUME NEW n \in Miners, NEW i \in 1..Len(lastReceiptHash'[n])
          PROVE  Chained(RcptOf(lastReceiptHash'[n], i)) \/ RcptOf(lastReceiptHash'[n], i) = r
      <4>1. CASE n # m
        BY <2>0, <2>4, <3>1, <4>1, Appended, Zenon DEF Chained
      <4>2. CASE n = m
        <5>1. i \in 1..Len(lastReceiptHash[m]) \/ i = Len(lastReceiptHash[m]) + 1
          BY <2>0, <2>4, <4>2, Appended, SMTT(60)
        <5>. QED BY <2>0, <2>4, <4>2, <5>1, Appended, ZenonT(60) DEF RcptOf, Chained
      <4>. QED BY <4>1, <4>2, Zenon
    <3>2. \A x : Chained(x)' => Chained(x) \/ x = r
      BY <3>1, Zenon DEF Chained
    <3>. QED BY <2>4, <3>2, <1>ReplayableKept, Zenon DEF ReplayInv
  <2>5. ASSUME NEW m \in Miners, NEW tier \in TierCredits, SubmitStep(m, tier)
        PROVE  ReplayInv'
    <3>1. ASSUME NEW r \in StandardReceipt, CreditEffect(m, r, tier)
          PROVE  ReplayInv'
      BY <2>4, <3>1, StandardIsNotCoreTex, Zenon DEF AnyReceipt
    <3>2. ASSUME NEW r \in Receipts, NEW earned \in Nat \ {0}, CreditEffect(m, r, earned),
                 CoreTexGuards(r), ScreenerPass(m, r) \/ StateAdvance(m, r)
          PROVE  ReplayInv'
      <4>1. r \in AnyReceipt
        BY ReceiptAssumption, Zenon DEF AnyReceipt
      <4>. QED BY <2>4, <3>2, <4>1, <1>CreditedIsReplayable, Zenon
    <3>. QED BY <2>0, <2>5, <3>1, <3>2, SubmitCases, Zenon
  <2>. QED BY <2>2, <2>3, <2>5, Zenon DEF ReceiptsNext
<1>1. ReceiptsInit => ReplayInv
  BY DEF ReceiptsInit, ReplayInv, Chained
<1>2. AdvanceInv /\ ReplayInv /\ [ReceiptsNext]_receiptVars => ReplayInv'
  <2>. SUFFICES ASSUME AdvanceInv, ReplayInv, [ReceiptsNext]_receiptVars
                PROVE  ReplayInv'
    BY Zenon 
  <2>1. CASE UNCHANGED receiptVars
    <3>1. UNCHANGED <<lastReceiptHash, epoch, context, epochCommit, policies, advances>>
      BY <2>1, Zenon DEF receiptVars, registryVars, creditVars, adminVars
    <3>2. \A x : Replayable(x) => Replayable(x)'
      BY <3>1, Zenon DEF Replayable, Passed, InForce
    <3>3. \A x : Chained(x)' => Chained(x)
      BY <3>1, Zenon DEF Chained
    <3>. QED BY <3>2, <3>3, Zenon DEF ReplayInv
  <2>. QED BY <2>1, <1>ReplayStep, Zenon
<1>3. AdvanceInv /\ ReplayInv => CreditsReplayable
  <2>. SUFFICES ASSUME AdvanceInv, ReplayInv, NEW p \in CoreTexPositions
                PROVE  LET x == ReceiptAt(p) IN
                       /\ x.pins = context[x.epoch].pins
                       /\ x.policy = ActivePolicy(x.epoch)
                       /\ x.work = WorkUnitsBps(x.policy, x.outcome, x.difficulty)
                       /\ \/ x.parent = context[x.epoch].parent
                          \/ \E r \in Registries : \E i \in DOMAIN advances[r][x.epoch] :
                               x.parent = advances[r][x.epoch][i].new
    BY Zenon DEF CreditsReplayable
  <2>1. Replayable(ReceiptAt(p))
    BY PositionIsPlace, Zenon DEF AdvanceInv, ReplayInv, Chained
  <2>. QED BY <2>1, Zenon DEF Replayable, Passed, ActivePolicy, ChosenFrom
<1>. QED BY <1>1, <1>2, <1>3, AdvanceInvariant, PTL DEF ReceiptsSpec

-----------------------------------------------------------------------------
(***************************************************************************)
(* Every advance is paid and every paid advance is logged.  The external   *)
(* call and the credit are one transaction, so each step adds one element  *)
(* to both sides or none to either.                                        *)
(***************************************************************************)
IsAdvance(x) == IsCoreTex(x) /\ x.outcome = "StateAdvance"

\* The receipt at p pays for the log entry at l.
Pays(p, l) ==
  /\ p[1] = advances[l[1]][l[2]][l[3]].miner
  /\ ReceiptAt(p).epoch = l[2]
  /\ ReceiptAt(p).parent = advances[l[1]][l[2]][l[3]].parent
  /\ ReceiptAt(p).new = advances[l[1]][l[2]][l[3]].new
  /\ ReceiptAt(p).patch = advances[l[1]][l[2]][l[3]].patch

CreditedInv ==
  /\ IsFiniteSet(Logged) /\ IsFiniteSet(Paid)
  /\ Cardinality(Logged) = Cardinality(Paid)
  /\ \A l \in Logged : \E p \in Paid : Pays(p, l)

\* Membership of the two sides, by place, before and after a step.
LoggedIn(f) ==
  UNION {UNION {{<<r, e, i>> : i \in DOMAIN f[r][e]} : e \in Epochs} : r \in Registries}

LEMMA InLoggedIn ==
  ASSUME NEW f, NEW l
  PROVE  l \in LoggedIn(f) <=> \E g \in Registries, e \in Epochs :
                                 \E i \in DOMAIN f[g][e] : l = <<g, e, i>>
<1>. DEFINE Row(g, e) == {<<g, e, i>> : i \in DOMAIN f[g][e]}
            Rows(g) == UNION {Row(g, e) : e \in Epochs}
<1>1. \A g, e : l \in Row(g, e) <=> \E i \in DOMAIN f[g][e] : l = <<g, e, i>>
  BY Zenon
<1>2. l \in LoggedIn(f) <=> l \in UNION {Rows(g) : g \in Registries}
  BY Zenon DEF LoggedIn
<1>3. \A g : l \in Rows(g) <=> \E e \in Epochs : l \in Row(g, e)
  <2>. HIDE DEF Row
  <2>. QED BY Zenon
<1>4. l \in UNION {Rows(g) : g \in Registries} <=> \E g \in Registries : l \in Rows(g)
  <2>. HIDE DEF Rows
  <2>. QED BY Zenon
<1>. HIDE DEF Row, Rows
<1>. QED BY <1>1, <1>2, <1>3, <1>4, Zenon

LEMMA InLogged ==
  ASSUME NEW l
  PROVE  /\ l \in Logged <=> \E g \in Registries, e \in Epochs :
                               \E i \in DOMAIN advances[g][e] : l = <<g, e, i>>
         /\ l \in Logged' <=> \E g \in Registries, e \in Epochs :
                                \E i \in DOMAIN advances'[g][e] : l = <<g, e, i>>
<1>1. Logged = LoggedIn(advances) /\ Logged' = LoggedIn(advances')
  BY Zenon DEF Logged, LoggedIn
<1>2. l \in LoggedIn(advances) <=> \E g \in Registries, e \in Epochs :
                                     \E i \in DOMAIN advances[g][e] : l = <<g, e, i>>
  BY InLoggedIn, SMTT(30)
<1>3. l \in LoggedIn(advances') <=> \E g \in Registries, e \in Epochs :
                                      \E i \in DOMAIN advances'[g][e] : l = <<g, e, i>>
  BY InLoggedIn
<1>. QED BY <1>1, <1>2, <1>3, Zenon

LEMMA InPaid ==
  ASSUME ReceiptsTypeOK, NEW p
  PROVE  p \in Paid <=> \E m \in Miners : \E i \in 1..Len(lastReceiptHash[m]) :
                          p = <<m, i>> /\ IsAdvance(RcptOf(lastReceiptHash[m], i))
<1>1. \A m \in Miners : DOMAIN lastReceiptHash[m] = 1..Len(lastReceiptHash[m])
  <2>1. \A m \in Miners : lastReceiptHash[m] \in Seq([miner : Miners, receipt : AnyReceipt])
    BY Zenon DEF ReceiptsTypeOK, ReceiptHash
  <2>. QED BY <2>1, SMTT(60)
<1>2. p \in Positions <=> \E m \in Miners : \E i \in 1..Len(lastReceiptHash[m]) : p = <<m, i>>
  BY <1>1, SMTT(60) DEF Positions
<1>3. \A m, i : ReceiptAt(<<m, i>>) = RcptOf(lastReceiptHash[m], i)
  BY Zenon DEF ReceiptAt, RcptOf
<1>. QED BY <1>2, <1>3, ZenonT(60) DEF Paid, CoreTexPositions, IsAdvance

\* The two sides are functions of the logs and of the chains.
PaidIn(h) ==
  {p \in {q \in UNION {{<<m, i>> : i \in DOMAIN h[m]} : m \in Miners} :
            IsCoreTex(h[q[1]][q[2]].receipt)} :
     h[p[1]][p[2]].receipt.outcome = "StateAdvance"}

LEMMA SidesKept ==
  ASSUME UNCHANGED <<advances, lastReceiptHash>>
  PROVE  /\ Logged' = Logged /\ Paid' = Paid
         /\ \A p : ReceiptAt(p)' = ReceiptAt(p)
         /\ \A p, l : Pays(p, l)' <=> Pays(p, l)
<1>1. Logged = LoggedIn(advances) /\ Logged' = LoggedIn(advances')
  BY Zenon DEF Logged, LoggedIn
<1>2. Paid = PaidIn(lastReceiptHash) /\ Paid' = PaidIn(lastReceiptHash')
  BY Zenon DEF Paid, PaidIn, CoreTexPositions, Positions, ReceiptAt, IsCoreTex
<1>3. \A p : ReceiptAt(p)' = ReceiptAt(p)
  BY Zenon DEF ReceiptAt
<1>4. \A p, l : Pays(p, l)' <=> Pays(p, l)
  BY <1>3, ZenonT(60) DEF Pays
<1>. QED BY <1>1, <1>2, <1>3, <1>4, Zenon

\* A credit adds its own place to the paid side when it is an advance, and
\* nothing otherwise.
LEMMA PaidGrows ==
  ASSUME ReceiptsTypeOK, ReceiptsTypeOK', NEW m \in Miners, NEW r \in AnyReceipt, NEW earned,
         CreditEffect(m, r, earned), NEW last, last = Len(lastReceiptHash[m]) + 1
  PROVE  /\ <<m, last>> \notin Paid
         /\ IsAdvance(r) => Paid' = Paid \cup {<<m, last>>}
         /\ ~IsAdvance(r) => Paid' = Paid
         /\ \A p \in Paid : ReceiptAt(p)' = ReceiptAt(p)
         /\ ReceiptAt(<<m, last>>)' = r
<1>2. /\ \A n \in Miners : n # m => lastReceiptHash'[n] = lastReceiptHash[n]
      /\ Len(lastReceiptHash[m]) \in Nat
      /\ Len(lastReceiptHash'[m]) = last
      /\ \A i \in 1..Len(lastReceiptHash[m]) : lastReceiptHash'[m][i] = lastReceiptHash[m][i]
      /\ RcptOf(lastReceiptHash'[m], last) = r
  BY Appended, ZenonT(60)
<1>3. last \notin 1..Len(lastReceiptHash[m])
      /\ \A i : i \in 1..last <=> i \in 1..Len(lastReceiptHash[m]) \/ i = last
  BY <1>2, SMTT(60)
<1>4. <<m, last>> \notin Paid
  <2>1. \A n, i : <<m, last>> = <<n, i>> => n = m /\ i = last
    BY Zenon
  <2>. QED BY <1>3, <2>1, InPaid, Zenon
<1>5. \A p : p \in Paid' <=> \E n \in Miners : \E i \in 1..Len(lastReceiptHash'[n]) :
                               p = <<n, i>> /\ IsAdvance(RcptOf(lastReceiptHash'[n], i))
  <2>1. \A n \in Miners : lastReceiptHash'[n] \in Seq([miner : Miners, receipt : AnyReceipt])
    BY ZenonT(60) DEF ReceiptsTypeOK, ReceiptHash
  <2>2. \A n \in Miners : DOMAIN lastReceiptHash'[n] = 1..Len(lastReceiptHash'[n])
    BY <2>1, SMTT(60)
  <2>3. \A p : p \in Positions' <=>
          \E n \in Miners : \E i \in 1..Len(lastReceiptHash'[n]) : p = <<n, i>>
    BY <2>2, SMTT(60) DEF Positions
  <2>4. \A p : p \in Paid' <=> p \in Positions' /\ IsAdvance(ReceiptAt(p)')
    BY Zenon DEF Paid, CoreTexPositions, IsAdvance, IsCoreTex
  <2>. QED BY <2>3, <2>4, SMTT(60) DEF ReceiptAt, RcptOf
<1>6. \A p : p \in Paid' <=> p \in Paid \/ (IsAdvance(r) /\ p = <<m, last>>)
  <2>1. ASSUME NEW p, p \in Paid PROVE p \in Paid'
    <3>1. PICK n \in Miners : \E i \in 1..Len(lastReceiptHash[n]) :
             p = <<n, i>> /\ IsAdvance(RcptOf(lastReceiptHash[n], i))
      BY <2>1, InPaid, Zenon
    <3>2. CASE n # m
      BY <1>2, <1>5, <3>1, <3>2, Zenon
    <3>3. CASE n = m
      BY <1>2, <1>3, <1>5, <3>1, <3>3, Zenon DEF RcptOf
    <3>. QED BY <3>2, <3>3, Zenon
  <2>2. ASSUME IsAdvance(r) PROVE <<m, last>> \in Paid'
    BY <1>2, <1>3, <1>5, <2>2, Zenon
  <2>3. ASSUME NEW p, p \in Paid' PROVE p \in Paid \/ (IsAdvance(r) /\ p = <<m, last>>)
    <3>1. PICK n \in Miners : \E i \in 1..Len(lastReceiptHash'[n]) :
             p = <<n, i>> /\ IsAdvance(RcptOf(lastReceiptHash'[n], i))
      BY <1>5, <2>3, Zenon
    <3>2. CASE n # m
      BY <1>2, <3>1, <3>2, InPaid, Zenon
    <3>3. CASE n = m
      <4>1. PICK i \in 1..last : p = <<m, i>> /\ IsAdvance(RcptOf(lastReceiptHash'[m], i))
        BY <1>2, <3>1, <3>3, Zenon
      <4>2. CASE i = last
        BY <1>2, <4>1, <4>2, Zenon
      <4>3. CASE i \in 1..Len(lastReceiptHash[m])
        BY <1>2, <4>1, <4>3, InPaid, ZenonT(60) DEF RcptOf
      <4>. QED BY <1>3, <4>1, <4>2, <4>3, Zenon
    <3>. QED BY <3>2, <3>3, Zenon
  <2>. QED BY <2>1, <2>2, <2>3, Zenon
<1>7. \A p \in Paid : ReceiptAt(p)' = ReceiptAt(p)
  <2>. SUFFICES ASSUME NEW p \in Paid PROVE ReceiptAt(p)' = ReceiptAt(p)
    BY Zenon 
  <2>1. PICK n \in Miners : \E i \in 1..Len(lastReceiptHash[n]) : p = <<n, i>>
    BY InPaid, Zenon
  <2>2. PICK i \in 1..Len(lastReceiptHash[n]) : p = <<n, i>>
    BY <2>1, Zenon
  <2>3. lastReceiptHash'[n][i] = lastReceiptHash[n][i]
    BY <1>2, <2>2, ZenonT(60)
  <2>. QED BY <2>2, <2>3, ZenonT(60) DEF ReceiptAt
<1>8. ReceiptAt(<<m, last>>)' = r
  BY <1>2, Zenon DEF ReceiptAt, RcptOf
<1>9. IsAdvance(r) => Paid' = Paid \cup {<<m, last>>}
  BY <1>6, Zenon
<1>10. ~IsAdvance(r) => Paid' = Paid
  BY <1>6, Zenon
<1>. QED BY <1>4, <1>7, <1>8, <1>9, <1>10, ZenonT(60)

\* An advance adds its own place l to the log, and the places before keep theirs.
LogTakes(m, r, l) ==
  /\ l \notin Logged /\ Logged' = Logged \cup {l}
  /\ \A k \in Logged : advances'[k[1]][k[2]][k[3]] = advances[k[1]][k[2]][k[3]]
  /\ advances'[l[1]][l[2]][l[3]].miner = m
  /\ advances'[l[1]][l[2]][l[3]].parent = r.parent
  /\ advances'[l[1]][l[2]][l[3]].new = r.new
  /\ advances'[l[1]][l[2]][l[3]].patch = r.patch
  /\ l[2] = r.epoch

LEMMA LoggedGrows ==
  ASSUME AdvanceInv, NEW m \in Miners, NEW r \in Receipts, r.epoch = epoch, StateAdvance(m, r),
         NEW l, l = <<registry, epoch, Len(advances[registry][epoch]) + 1>>
  PROVE  LogTakes(m, r, l)
<1>. DEFINE A == [index |-> transitionCount[registry][epoch], miner |-> m,
                  parent |-> r.parent, new |-> r.new, patch |-> r.patch]
<1>1. PICK adv : adv = A
  BY ZenonT(60)
<1>2. /\ adv.miner = m /\ adv.parent = r.parent /\ adv.new = r.new /\ adv.patch = r.patch
  BY <1>1, Zenon
<1>3. /\ registry \in Registries /\ epoch \in Epochs /\ A \in Advances
      /\ advances'[registry][epoch] = Append(advances[registry][epoch], A)
      /\ \A g \in Registries, e \in Epochs :
           <<g, e>> # <<registry, epoch>> => advances'[g][e] = advances[g][e]
  BY AdvanceUpdates, ZenonT(60)
<1>. HIDE DEF A
<1>4. PICK G \in Registries, E \in Epochs : G = registry /\ E = epoch
  BY <1>3, ZenonT(60)
<1>5. PICK log \in Seq(Advances) : log = advances[G][E]
  BY <1>4, ZenonT(40) DEF AdvanceInv, ReceiptsTypeOK, RegistryTypeOK
<1>6. PICK n \in Nat : n = Len(log) + 1
  BY <1>5, SMTT(60)
<1>7. l = <<G, E, n>>
  BY <1>4, <1>5, <1>6, ZenonT(60)
<1>8. /\ advances'[G][E] = Append(log, adv) /\ adv \in Advances
      /\ \A g \in Registries, e \in Epochs :
           g # G \/ e # E => advances'[g][e] = advances[g][e]
  BY <1>1, <1>3, <1>4, <1>5, ZenonT(60)
<1>9. /\ n \notin DOMAIN log
      /\ \A i : i \in DOMAIN Append(log, adv) <=> i \in DOMAIN log \/ i = n
      /\ \A i \in DOMAIN log : Append(log, adv)[i] = log[i]
      /\ Append(log, adv)[n] = adv
  <2>1. adv \in Advances
    BY <1>8, Zenon
  <2>. QED BY <1>5, <1>6, <2>1, SMTT(60)
<1>10. \A g, e, i : <<g, e, i>> = <<G, E, n>> => g = G /\ e = E /\ i = n
  BY Zenon 
<1>11. l \notin Logged
  BY <1>5, <1>7, <1>9, <1>10, InLogged, Zenon
<1>12. \A k : k \in Logged' <=> \E g \in Registries, e \in Epochs :
                                  \E i \in DOMAIN advances'[g][e] : k = <<g, e, i>>
  BY InLogged, Zenon
<1>13. \A k : k \in Logged' <=> k \in Logged \/ k = l
  <2>1. ASSUME NEW k, k \in Logged PROVE k \in Logged'
    <3>1. PICK g \in Registries, e \in Epochs : \E i \in DOMAIN advances[g][e] : k = <<g, e, i>>
      BY <2>1, InLogged, Zenon
    <3>2. CASE g = G /\ e = E
      BY <1>5, <1>8, <1>9, <1>12, <3>1, <3>2, Zenon
    <3>3. CASE g # G \/ e # E
      BY <1>8, <1>12, <3>1, <3>3, Zenon
    <3>. QED BY <3>2, <3>3, Zenon
  <2>2. l \in Logged'
    BY <1>4, <1>7, <1>8, <1>9, <1>12, Zenon
  <2>3. ASSUME NEW k, k \in Logged' PROVE k \in Logged \/ k = l
    <3>1. PICK g \in Registries, e \in Epochs : \E i \in DOMAIN advances'[g][e] : k = <<g, e, i>>
      BY <2>3, <1>12, Zenon
    <3>2. CASE g = G /\ e = E
      BY <1>5, <1>7, <1>8, <1>9, <3>1, <3>2, InLogged, Zenon
    <3>3. CASE g # G \/ e # E
      BY <1>8, <3>1, <3>3, InLogged, Zenon
    <3>. QED BY <3>2, <3>3, Zenon
  <2>. QED BY <2>1, <2>2, <2>3, Zenon
<1>14. \A k \in Logged : advances'[k[1]][k[2]][k[3]] = advances[k[1]][k[2]][k[3]]
  <2>. SUFFICES ASSUME NEW k \in Logged
                PROVE  advances'[k[1]][k[2]][k[3]] = advances[k[1]][k[2]][k[3]]
    BY Zenon
  <2>1. PICK g \in Registries, e \in Epochs : \E i \in DOMAIN advances[g][e] : k = <<g, e, i>>
    BY InLogged, ZenonT(60)
  <2>2. PICK i \in DOMAIN advances[g][e] : k = <<g, e, i>>
    BY <2>1, Zenon
  <2>3. advances'[g][e][i] = advances[g][e][i]
    BY <1>5, <1>8, <1>9, ZenonT(60)
  <2>4. k[1] = g /\ k[2] = e /\ k[3] = i
    BY <2>2, Zenon
  <2>. QED BY <2>3, <2>4, ZenonT(60)
<1>15. advances'[l[1]][l[2]][l[3]] = adv /\ l[2] = r.epoch
  <2>1. l[1] = G /\ l[2] = E /\ l[3] = n
    BY <1>7
  <2>. QED BY <1>4, <1>8, <1>9, <2>1, ZenonT(60)
<1>. QED BY <1>2, <1>11, <1>13, <1>14, <1>15, ZenonT(60) DEF LogTakes

INSTANCE FiniteSetTheorems

LEMMA CreditedStep ==
  ASSUME AdvanceInv, ReceiptsTypeOK', CreditedInv, ReceiptsNext
  PROVE  CreditedInv'
<1>0. ReceiptsTypeOK
  BY Zenon DEF AdvanceInv
<1>1. ASSUME Logged' = Logged, Paid' = Paid,
             \A l \in Logged : advances'[l[1]][l[2]][l[3]] = advances[l[1]][l[2]][l[3]],
             \A p \in Paid : ReceiptAt(p)' = ReceiptAt(p)
      PROVE  CreditedInv'
  <2>1. IsFiniteSet(Logged') /\ IsFiniteSet(Paid') /\ Cardinality(Logged') = Cardinality(Paid')
    BY <1>1, Zenon DEF CreditedInv
  <2>2. \A l \in Logged, p \in Paid : Pays(p, l) => Pays(p, l)'
    BY <1>1, Zenon DEF Pays
  <2>3. \A l \in Logged' : \E p \in Paid' : Pays(p, l)'
    BY <1>1, <2>2, Zenon DEF CreditedInv
  <2>. QED BY <2>1, <2>3, Zenon DEF CreditedInv
<1>2. ASSUME UNCHANGED <<advances, lastReceiptHash>>
      PROVE  CreditedInv'
  <2>1. \A l \in Logged : advances'[l[1]][l[2]][l[3]] = advances[l[1]][l[2]][l[3]]
    BY <1>2, Zenon
  <2>. QED BY <1>1, <1>2, <2>1, SidesKept, Zenon
<1>3. CASE ClockStep \/ RegistryStep
  BY <1>2, <1>3, Zenon DEF ClockStep, RegistryStep, SealEpoch, SetBotcoinMiningV4,
                    SetRegistryPaused, registryVars, creditVars
<1>4. CASE AdminStep
  BY <1>2, <1>4, AdminFrame, Zenon DEF registryVars, creditVars
<1>5. ASSUME NEW m \in Miners, NEW r \in AnyReceipt, NEW earned, CreditEffect(m, r, earned),
             ~IsAdvance(r), UNCHANGED registryVars
      PROVE  CreditedInv'
  <2>1. PICK last : last = Len(lastReceiptHash[m]) + 1
    BY Zenon 
  <2>2. Paid' = Paid /\ \A p \in Paid : ReceiptAt(p)' = ReceiptAt(p)
    BY <1>0, <1>5, <2>1, PaidGrows, Zenon
  <2>3. advances' = advances
    BY <1>5, Zenon DEF registryVars
  <2>4. Logged' = Logged
    <3>1. Logged = LoggedIn(advances) /\ Logged' = LoggedIn(advances')
      BY Zenon DEF Logged, LoggedIn
    <3>. QED BY <2>3, <3>1, Zenon
  <2>. QED BY <1>1, <2>2, <2>3, <2>4, Zenon
<1>6. ASSUME NEW m \in Miners, NEW r \in Receipts, NEW earned, CreditEffect(m, r, earned),
             StateAdvance(m, r)
      PROVE  CreditedInv'
  <2>0. r \in AnyReceipt /\ IsCoreTex(r) /\ r.epoch = epoch
    BY <1>6, ReceiptAssumption, Zenon DEF AnyReceipt, IsCoreTex, CoreTexReceipt, CreditEffect
  <2>1. IsAdvance(r)
    BY <1>6, <2>0, Zenon DEF IsAdvance, StateAdvance
  <2>2. PICK p : p = <<m, Len(lastReceiptHash[m]) + 1>>
    BY Zenon
  <2>3. PICK l : l = <<registry, epoch, Len(advances[registry][epoch]) + 1>>
    BY ZenonT(60)
  <2>4. /\ p \notin Paid /\ Paid' = Paid \cup {p}
        /\ \A q \in Paid : ReceiptAt(q)' = ReceiptAt(q)
        /\ ReceiptAt(p)' = r
    BY <1>0, <1>6, <2>0, <2>1, <2>2, PaidGrows, ZenonT(40)
  <2>5. LogTakes(m, r, l)
    <3>1. r.epoch = epoch /\ StateAdvance(m, r)
      BY <1>6, <2>0, Zenon
    <3>. QED BY <2>3, <3>1, LoggedGrows, Zenon
  <2>6. /\ IsFiniteSet(Logged') /\ Cardinality(Logged') = Cardinality(Logged) + 1
        /\ IsFiniteSet(Paid') /\ Cardinality(Paid') = Cardinality(Paid) + 1
    BY <2>4, <2>5, FS_AddElement, Zenon DEF CreditedInv, LogTakes
  <2>7. Cardinality(Logged') = Cardinality(Paid')
    BY <2>6, Zenon DEF CreditedInv
  <2>8. p[1] = m
    BY <2>2, Zenon
  <2>9. Pays(p, l)'
    BY <2>4, <2>5, <2>8, Zenon DEF Pays, LogTakes
  <2>10. \A k \in Logged, q \in Paid : Pays(q, k) => Pays(q, k)'
    BY <2>4, <2>5, Zenon DEF Pays, LogTakes
  <2>11. \A k \in Logged' : \E q \in Paid' : Pays(q, k)'
    BY <2>4, <2>5, <2>9, <2>10, Zenon DEF CreditedInv, LogTakes
  <2>. QED BY <2>6, <2>7, <2>11, ZenonT(60) DEF CreditedInv
<1>7. ASSUME NEW m \in Miners, NEW tier \in TierCredits, SubmitStep(m, tier)
      PROVE  CreditedInv'
  <2>1. ASSUME NEW r \in StandardReceipt, CreditEffect(m, r, tier), UNCHANGED registryVars
        PROVE  CreditedInv'
    BY <1>5, <2>1, StandardIsNotCoreTex, Zenon DEF AnyReceipt, IsAdvance
  <2>2. ASSUME NEW r \in Receipts, NEW earned, CreditEffect(m, r, earned), ScreenerPass(m, r)
        PROVE  CreditedInv'
    <3>1. r.outcome # "StateAdvance" /\ UNCHANGED registryVars
      BY <2>2, Zenon DEF ScreenerPass
    <3>. QED BY <1>5, <2>2, <3>1, ReceiptAssumption, ZenonT(60) DEF AnyReceipt, IsAdvance
  <2>. QED BY <1>0, <1>6, <1>7, <2>1, <2>2, SubmitCases, Zenon
<1>. QED BY <1>3, <1>4, <1>7, Zenon DEF ReceiptsNext

\* For any miners, registries, receipts and admin behaviour: the log entries of
\* all registries and the credited state-advance receipts are equally many, and
\* each entry has a credited receipt of its miner with its epoch, roots and patch.
THEOREM AdvancesPaid == ReceiptsSpec => []AdvancesAreCredited
<1>1. ReceiptsInit => CreditedInv
  <2>. SUFFICES ASSUME ReceiptsInit PROVE CreditedInv
    BY Zenon
  <2>1. \A g \in Registries, e \in Epochs : DOMAIN advances[g][e] = {}
    BY SMTT(60) DEF ReceiptsInit, RegistryInit
  <2>2. Logged = {}
    BY <2>1, InLogged, ZenonT(60)
  <2>3. \A m \in Miners : DOMAIN lastReceiptHash[m] = {}
    BY SMTT(60) DEF ReceiptsInit
  <2>4. Positions = {}
    BY <2>3, Zenon DEF Positions
  <2>5. Paid = {}
    BY <2>4, Zenon DEF Paid, CoreTexPositions
  <2>. QED BY <2>2, <2>5, FS_EmptySet, Zenon DEF CreditedInv
<1>2. AdvanceInv /\ ReceiptsTypeOK' /\ CreditedInv /\ [ReceiptsNext]_receiptVars => CreditedInv'
  <2>1. ASSUME CreditedInv, UNCHANGED receiptVars PROVE CreditedInv'
    <3>1. UNCHANGED <<advances, lastReceiptHash>>
      BY <2>1, Zenon DEF receiptVars, registryVars, creditVars
    <3>2. Logged' = Logged /\ Paid' = Paid /\ \A p, l : Pays(p, l)' <=> Pays(p, l)
      BY <3>1, SidesKept, Zenon
    <3>. QED BY <2>1, <3>2, Zenon DEF CreditedInv
  <2>. QED BY <2>1, CreditedStep, Zenon
<1>3. CreditedInv => AdvancesAreCredited
  <2>1. ASSUME NEW p, NEW l, Pays(p, l)
        PROVE  LET a == advances[l[1]][l[2]][l[3]] x == ReceiptAt(p)
               IN  /\ p[1] = a.miner
                   /\ <<x.epoch, x.parent, x.new, x.patch>> = <<l[2], a.parent, a.new, a.patch>>
    BY <2>1, Zenon DEF Pays
  <2>. QED BY <2>1, Zenon DEF CreditedInv, AdvancesAreCredited
<1>. QED BY <1>1, <1>2, <1>3, AdvanceInvariant, TypeCorrect, PTL DEF ReceiptsSpec
=============================================================================
