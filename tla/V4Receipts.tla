------------------------------ MODULE V4Receipts ------------------------------
(***************************************************************************)
(* How BotcoinMiningV4 turns receipts signed by the coordinator into       *)
(* credits (contracts/src/BotcoinMiningV4.sol): the per-miner receipt      *)
(* chain shared by both lanes, the CoreTex screener and state-advance      *)
(* outcomes, the epoch commit and context, the scheduled work policies,    *)
(* and the registry that serialises the advances.                          *)
(*                                                                         *)
(* A receipt hash commits to the hash before it, so a hash is modelled by  *)
(* what it commits to: the sequence of all receipts up to it, << >> for    *)
(* the zero hash a chain starts from.  A patch hash is modelled by the     *)
(* compact patch it is the hash of.  What tierCreditsOfAt answers is a     *)
(* parameter here; module BotcoinMiningV4 supplies the staking behind it.  *)
(***************************************************************************)
EXTENDS CoreTexRegistry, FiniteSetsExt

CONSTANTS
  Receipts,       \* CoreTex receipts the coordinator may sign, their chain link aside
  Challenges,     \* standard-lane challenges
  Signers, Secrets, NoSecret,
  ContextInputs,  \* the epoch contexts an admin may set
  InitialPolicy,  \* the policy the constructor stores
  PolicyInputs,   \* the policies an admin may schedule
  MaxPolicies,    \* MAX_SCHEDULED_CORETEX_POLICIES
  MaxWorkBps,     \* MAX_CORETEX_WORK_BPS
  MaxScorePpm,    \* MAX_SCORE_PPM
  MaxReceiptTtl,  \* MAX_WORK_RECEIPT_TTL
  MaxPatchWords,  \* COMPACT_PATCH_MAX_WORDS
  InitialCap, Caps,
  PauseInputs,    \* what an owner may set the two pause switches to
  TierCredits,    \* what tierCreditsOfAt may answer
  NoBytes,        \* empty compactPatchBytes
  MaxIndex        \* bound: receipts per miner

VARIABLES
  nextIndex, lastReceiptHash, receiptUsed,
  credits, totalCredits,
  screenerCount,     \* qualifiedScreenerPassesSinceLastStateAdvance
  patchCredited,     \* coreTexPatchCredited, as a set of keys
  passesByMiner,     \* coreTexScreenerPassesByMiner
  epochCommit, epochSecret,
  policies,          \* _coreTexPolicies over _scheduledCoreTexRulesVersions
  screenerCap,       \* coreTexScreenerCapPerMinerPerEpoch
  v4Paused, coordinatorSigner,
  registry           \* coreTexRegistry

creditVars == <<nextIndex, lastReceiptHash, receiptUsed, credits, totalCredits>>
coreTexVars == <<screenerCount, patchCredited, passesByMiner>>
adminVars == <<epochCommit, epochSecret, policies, screenerCap, v4Paused,
               coordinatorSigner, registry>>
receiptVars == <<epoch, now, context, registryVars, creditVars, coreTexVars, adminVars>>

Outcomes == {"ScreenerPass", "StateAdvance"}
Policy == [rules : Nat \ {0}, effective : Nat, screenerBps : Nat,
           thresholds : Seq(Nat), bps : Seq(Nat)]

\* A compact patch as _validateCompactPatch reads it; `ok' stands for its type,
\* word range, duplicate and length checks.
CompactPatch == [id : STRING, parent : Roots, delta : Nat, words : Nat, ok : BOOLEAN]

CoreTexReceipt ==
  [epoch : Epochs, outcome : Outcomes, parent : Roots, new : Roots, pins : Pins,
   patch : Patches, bytes : Patches \cup {NoBytes}, before : Nat, after : Nat,
   words : Nat, difficulty : Nat, work : Nat, policy : Policy,
   issuedAt : Nat, expiresAt : Nat, signer : Signers]
StandardReceipt == [epoch : Epochs, challenge : Challenges, signer : Signers]

ASSUME ReceiptAssumption == Receipts \subseteq CoreTexReceipt
ASSUME InputAssumption == /\ TierCredits \subseteq Nat
                          /\ ContextInputs \subseteq Contexts
                          /\ PauseInputs \subseteq BOOLEAN
                          /\ InitialCap \in Nat /\ Caps \subseteq Nat
ASSUME SecretAssumption == NoSecret \notin Secrets
ASSUME PatchAssumption == Patches \subseteq CompactPatch

AnyReceipt == CoreTexReceipt \cup StandardReceipt
ReceiptHash == Seq([miner : Miners, receipt : AnyReceipt])
\* The chain link a receipt was signed for.
Links == [solveIndex : Nat, prev : ReceiptHash]

-----------------------------------------------------------------------------
\* activeCoreTexRulesVersion: the newest policy already in force at epoch e.
InForce(e) == {p \in policies : p.effective <= e}
ActivePolicy(e) == CHOOSE p \in InForce(e) : \A q \in InForce(e) : q.effective <= p.effective

\* computeCoreTexWorkUnitsBps
WorkUnitsBps(p, outcome, count) ==
  IF outcome = "ScreenerPass" THEN p.screenerBps
  ELSE LET reached == {i \in DOMAIN p.thresholds : count >= p.thresholds[i]}
       IN  IF reached = {} THEN p.bps[1] ELSE p.bps[Max(reached)]

\* _validateCoreTexPolicy (MAX_CORETEX_POLICY_TIERS = 10)
ValidPolicy(p) ==
  /\ p \in Policy
  /\ p.screenerBps \in 1..MaxWorkBps
  /\ Len(p.thresholds) \in 1..10 /\ Len(p.bps) = Len(p.thresholds)
  /\ p.thresholds[1] = 0
  /\ \A i \in DOMAIN p.bps : p.bps[i] \in p.screenerBps..MaxWorkBps
  /\ \A i \in 2..Len(p.bps) :
       p.thresholds[i-1] < p.thresholds[i] /\ p.bps[i-1] <= p.bps[i]

ASSUME PolicyAssumption == ValidPolicy(InitialPolicy) /\ PolicyInputs \subseteq Policy

\* Every storage slot of the receipt side holds a value of its type; counters
\* never underflow.
ReceiptsTypeOK ==
  /\ epoch \in Epochs /\ now \in Nat
  /\ RegistryTypeOK
  /\ nextIndex \in [Miners -> Nat]
  /\ lastReceiptHash \in [Miners -> ReceiptHash]
  /\ receiptUsed \in SUBSET ReceiptHash
  /\ credits \in [Epochs -> [Miners -> Nat]]
  /\ totalCredits \in [Epochs -> Nat]
  /\ screenerCount \in [Epochs -> Nat]
  /\ patchCredited \in SUBSET (Epochs \X Roots \X Patches)
  /\ passesByMiner \in [Epochs -> [Miners -> Nat]]
  /\ epochCommit \in [Epochs -> Secrets \cup {NoSecret}]
  /\ epochSecret \in [Epochs -> Secrets \cup {NoSecret}]
  /\ policies \in SUBSET Policy
  /\ screenerCap \in Nat
  /\ v4Paused \in BOOLEAN
  /\ coordinatorSigner \in Signers
  /\ registry \in Registries

ReceiptsInit ==
  /\ epoch = 0 /\ now = 1
  /\ RegistryInit
  /\ context = [e \in Epochs |-> NoContext]
  /\ nextIndex = [m \in Miners |-> 0]
  /\ lastReceiptHash = [m \in Miners |-> << >>]
  /\ receiptUsed = {}
  /\ credits = [e \in Epochs |-> [m \in Miners |-> 0]]
  /\ totalCredits = [e \in Epochs |-> 0]
  /\ screenerCount = [e \in Epochs |-> 0]
  /\ patchCredited = {}
  /\ passesByMiner = [e \in Epochs |-> [m \in Miners |-> 0]]
  /\ epochCommit = [e \in Epochs |-> NoSecret]
  /\ epochSecret = [e \in Epochs |-> NoSecret]
  /\ policies = {InitialPolicy}
  /\ screenerCap = InitialCap
  /\ v4Paused = FALSE
  /\ coordinatorSigner \in Signers
  /\ registry \in Registries

-----------------------------------------------------------------------------
\* _validateCommonReceipt
CommonReceiptOK(m, link, e) ==
  /\ e = epoch
  /\ epochCommit[e] # NoSecret
  /\ link.solveIndex = nextIndex[m]
  /\ link.prev = lastReceiptHash[m]

\* _acceptCredit
AcceptCredit(m, link, r, earned) ==
  LET hash == Append(link.prev, [miner |-> m, receipt |-> r]) IN
  /\ hash \notin receiptUsed
  /\ receiptUsed' = receiptUsed \cup {hash}
  /\ credits' = [credits EXCEPT ![r.epoch][m] = @ + earned]
  /\ totalCredits' = [totalCredits EXCEPT ![r.epoch] = @ + earned]
  /\ lastReceiptHash' = [lastReceiptHash EXCEPT ![m] = hash]
  /\ nextIndex' = [nextIndex EXCEPT ![m] = link.solveIndex + 1]

\* submitReceipt: the standard lane.
SubmitReceipt(m, link, r, tier) ==
  /\ ~v4Paused
  /\ link.solveIndex < MaxIndex
  /\ CommonReceiptOK(m, link, r.epoch)
  /\ tier # 0
  /\ r.signer = coordinatorSigner
  /\ AcceptCredit(m, link, r, tier)
  /\ UNCHANGED <<epoch, now, context, registryVars, coreTexVars, adminVars>>

\* _validateReceiptWindow
ReceiptWindowOK(r) ==
  /\ r.issuedAt <= now
  /\ r.issuedAt < r.expiresAt
  /\ r.expiresAt - r.issuedAt <= MaxReceiptTtl
  /\ now <= r.expiresAt

\* Mutant: the parent root of a receipt is not compared with the live root.
RegistryContextAnyRoot(r) ==
  /\ HasContext(registry, r.epoch)
  /\ ~regPaused[registry]
  /\ ~sealed[registry][r.epoch]
  /\ context[r.epoch].pins = r.pins

\* _validateRegistryContext
RegistryContextOK(r) ==
  /\ HasContext(registry, r.epoch)
  /\ ~regPaused[registry]
  /\ ~sealed[registry][r.epoch]
  /\ LiveStateRoot(registry, r.epoch) = r.parent
  /\ context[r.epoch].pins = r.pins

\* _validateScreenerReceipt, the per-miner cap and the counters.
ScreenerPass(m, r) ==
  /\ r.outcome = "ScreenerPass"
  /\ RegistryContextOK(r)
  /\ r.new = r.parent
  /\ r.before = 0 /\ r.after = 0 /\ r.words = 0
  /\ r.bytes \in {NoBytes, r.patch}
  /\ passesByMiner[r.epoch][m] < screenerCap
  /\ passesByMiner' = [passesByMiner EXCEPT ![r.epoch][m] = @ + 1]
  /\ screenerCount' = [screenerCount EXCEPT ![r.epoch] = @ + 1]
  /\ UNCHANGED registryVars

\* _validatedScoreDelta and _validateCompactPatch
AdvancePatchOK(r) ==
  /\ r.before <= MaxScorePpm /\ r.after <= MaxScorePpm /\ r.before < r.after
  /\ r.bytes = r.patch
  /\ r.patch.ok /\ r.patch.words \in 1..MaxPatchWords
  /\ r.patch.delta = r.after - r.before
  /\ r.patch.parent = r.parent
  /\ r.words = r.patch.words

\* Mutant: a failing registry call is swallowed and the advance credited anyway.
StateAdvanceSwallowed(m, r) ==
  /\ r.outcome = "StateAdvance"
  /\ RegistryContextOK(r) /\ AdvancePatchOK(r)
  /\ screenerCount' = [screenerCount EXCEPT ![r.epoch] = 0]
  /\ UNCHANGED <<registryVars, passesByMiner>>

\* _validateStateAdvanceReceipt, the call into the registry and the reset.
StateAdvance(m, r) ==
  /\ r.outcome = "StateAdvance"
  /\ RegistryContextOK(r)
  /\ AdvancePatchOK(r)
  /\ SubmitStateAdvance(registry, r.epoch, m, r.parent, r.new, r.pins, r.patch)
  /\ screenerCount' = [screenerCount EXCEPT ![r.epoch] = 0]
  /\ UNCHANGED passesByMiner

\* Mutant: only screener receipts are deduplicated.
PatchCreditedScreenerOnly(r) ==
  r.outcome = "ScreenerPass" /\ <<r.epoch, r.parent, r.patch>> \in patchCredited

PatchCredited(r) == <<r.epoch, r.parent, r.patch>> \in patchCredited

\* creditsEarned (WORK_BPS_DIVISOR = 10000)
CreditsEarned(tier, r) == (tier * r.work) \div 10000

\* Mutant: a difficulty the counter has moved past is still accepted.
DifficultyPassed(r) == r.difficulty <= screenerCount[r.epoch]

\* difficultyCountSnapshot is the live count.
DifficultyLive(r) == r.difficulty = screenerCount[r.epoch]

\* submitCoreTexReceipt
SubmitCoreTexReceipt(m, link, r, tier) ==
  /\ ~v4Paused
  /\ link.solveIndex < MaxIndex
  /\ CommonReceiptOK(m, link, r.epoch)
  /\ ReceiptWindowOK(r)
  /\ InForce(r.epoch) # {}
  /\ r.policy = ActivePolicy(r.epoch)
  /\ DifficultyLive(r)
  /\ r.work = WorkUnitsBps(ActivePolicy(r.epoch), r.outcome, screenerCount[r.epoch])
  /\ r.work <= MaxWorkBps /\ r.policy.screenerBps # 0
  /\ tier # 0 /\ CreditsEarned(tier, r) # 0
  /\ r.signer = coordinatorSigner
  /\ ~PatchCredited(r)
  /\ ScreenerPass(m, r) \/ StateAdvance(m, r)
  /\ patchCredited' = patchCredited \cup {<<r.epoch, r.parent, r.patch>>}
  /\ AcceptCredit(m, link, r, CreditsEarned(tier, r))
  /\ UNCHANGED <<epoch, now, context, adminVars>>

-----------------------------------------------------------------------------
\* setEpochCommit
SetEpochCommit(e, c) ==
  /\ epochCommit[e] = NoSecret
  /\ epochCommit' = [epochCommit EXCEPT ![e] = c]
  /\ UNCHANGED <<epoch, now, context, registryVars, creditVars, coreTexVars, epochSecret,
                 policies, screenerCap, v4Paused, coordinatorSigner, registry>>

\* revealEpochSecret: a commit is the hash of one secret, and named after it.
RevealEpochSecret(e, s) ==
  /\ epochCommit[e] # NoSecret
  /\ epochSecret[e] = NoSecret
  /\ s = epochCommit[e]
  /\ epochSecret' = [epochSecret EXCEPT ![e] = s]
  /\ UNCHANGED <<epoch, now, context, registryVars, creditVars, coreTexVars, epochCommit,
                 policies, screenerCap, v4Paused, coordinatorSigner, registry>>

\* _coreTexEpochLocked
CoreTexEpochLocked(e) ==
  totalCredits[e] # 0 \/ screenerCount[e] # 0 \/ transitionCount[registry][e] # 0

\* setCoreTexEpochContext
SetCoreTexEpochContext(e, ctx) ==
  /\ epochCommit[e] = NoSecret
  /\ ~(context[e] # NoContext /\ CoreTexEpochLocked(e))
  /\ context' = [context EXCEPT ![e] = ctx]
  /\ UNCHANGED <<epoch, now, registryVars, creditVars, coreTexVars, adminVars>>

\* setCoreTexRegistry
SetCoreTexRegistry(r) ==
  /\ totalCredits[epoch] = 0 /\ screenerCount[epoch] = 0
  /\ registry' = r
  /\ UNCHANGED <<epoch, now, context, registryVars, creditVars, coreTexVars, epochCommit,
                 epochSecret, policies, screenerCap, v4Paused, coordinatorSigner>>

\* scheduleCoreTexPolicy and _storeCoreTexPolicy
ScheduleCoreTexPolicy(p) ==
  /\ p.effective > epoch
  /\ ValidPolicy(p)
  /\ \A q \in policies : q.rules # p.rules /\ q.effective # p.effective
  /\ Cardinality(policies) < MaxPolicies
  /\ policies' = policies \cup {p}
  /\ UNCHANGED <<epoch, now, context, registryVars, creditVars, coreTexVars, epochCommit,
                 epochSecret, screenerCap, v4Paused, coordinatorSigner, registry>>

\* setCoreTexScreenerCapPerMinerPerEpoch
SetScreenerCap(n) ==
  /\ n # 0
  /\ screenerCap' = n
  /\ UNCHANGED <<epoch, now, context, registryVars, creditVars, coreTexVars, epochCommit,
                 epochSecret, policies, v4Paused, coordinatorSigner, registry>>

SetCoordinatorSigner(s) ==
  /\ coordinatorSigner' = s
  /\ UNCHANGED <<epoch, now, context, registryVars, creditVars, coreTexVars, epochCommit,
                 epochSecret, policies, screenerCap, v4Paused, registry>>

\* pause() / unpause()
SetV4Paused(p) ==
  /\ v4Paused # p
  /\ v4Paused' = p
  /\ UNCHANGED <<epoch, now, context, registryVars, creditVars, coreTexVars, epochCommit,
                 epochSecret, policies, screenerCap, coordinatorSigner, registry>>

-----------------------------------------------------------------------------
\* A receipt may have been signed for any link some miner's chain has had.
CandidateLinks ==
  {[solveIndex |-> Len(h), prev |-> h] : h \in receiptUsed \cup {<< >>}}

ClockStep ==
  /\ NextEpoch \/ Tick
  /\ UNCHANGED <<context, registryVars, creditVars, coreTexVars, adminVars>>

\* Every way to change the receipt state but the two submissions.
AdminStep ==
  \/ \E e \in Epochs, c \in Secrets : SetEpochCommit(e, c)
  \/ \E e \in Epochs, s \in Secrets : RevealEpochSecret(e, s)
  \/ \E e \in Epochs, ctx \in ContextInputs : SetCoreTexEpochContext(e, ctx)
  \/ \E r \in Registries : SetCoreTexRegistry(r)
  \/ \E p \in PolicyInputs : ScheduleCoreTexPolicy(p)
  \/ \E n \in Caps : SetScreenerCap(n)
  \/ \E s \in Signers : SetCoordinatorSigner(s)
  \/ \E p \in PauseInputs : SetV4Paused(p)

RegistryStep ==
  /\ \/ \E r \in Registries, e \in Epochs, f \in Roots, p \in Pins : SealEpoch(r, e, f, p)
     \/ \E r \in Registries : SetBotcoinMiningV4(r)
     \/ \E r \in Registries, p \in PauseInputs : SetRegistryPaused(r, p)
  /\ UNCHANGED <<epoch, now, context, creditVars, coreTexVars, adminVars>>

SubmitStep(m, tier) ==
  \E link \in CandidateLinks :
    \/ \E r \in StandardReceipt : SubmitReceipt(m, link, r, tier)
    \/ \E r \in Receipts : SubmitCoreTexReceipt(m, link, r, tier)

ReceiptsNext ==
  \/ ClockStep
  \/ AdminStep
  \/ RegistryStep
  \/ \E m \in Miners, tier \in TierCredits : SubmitStep(m, tier)

ReceiptsSpec == ReceiptsInit /\ [][ReceiptsNext]_receiptVars

-----------------------------------------------------------------------------
(***************************************************************************)
(* Properties.                                                             *)
(***************************************************************************)
Positions == UNION {{<<m, i>> : i \in DOMAIN lastReceiptHash[m]} : m \in Miners}
ReceiptAt(p) == lastReceiptHash[p[1]][p[2]].receipt
IsCoreTex(r) == "outcome" \in DOMAIN r
CoreTexPositions == {p \in Positions : IsCoreTex(ReceiptAt(p))}

\* A miner's receipts, both lanes together, form one gapless chain: nextIndex
\* counts it, every receipt in it was signed for that miner, and the hashes
\* ever used are exactly the prefixes of the miners' chains, so that no
\* receipt is accepted twice or on a fork (_validateCommonReceipt, _acceptCredit).
ReceiptChain ==
  /\ \A m \in Miners :
       /\ nextIndex[m] = Len(lastReceiptHash[m])
       /\ \A i \in 1..nextIndex[m] : /\ lastReceiptHash[m][i].miner = m
                                     /\ SubSeq(lastReceiptHash[m], 1, i) \in receiptUsed
  /\ \A h \in receiptUsed :
       \E m \in Miners : Len(h) \in 1..nextIndex[m] /\ h = SubSeq(lastReceiptHash[m], 1, Len(h))

\* One patch on one parent root is credited once per epoch, whoever submits it
\* and with either outcome (coreTexPatchCredited).
OnePatchOneCredit ==
  \A p, q \in CoreTexPositions :
    LET a == ReceiptAt(p) b == ReceiptAt(q)
    IN  a.epoch = b.epoch /\ a.parent = b.parent /\ a.patch = b.patch => p = q

\* The advances of an epoch are one linked list from the context's parent root
\* to the live root, and transitionCount is its length (submitStateAdvance).
AdvanceChain ==
  \A r \in Registries, e \in Epochs :
    LET log == advances[r][e] IN
    /\ transitionCount[r][e] = Len(log)
    /\ liveRoot[r][e] = IF log = << >> THEN NoRoot ELSE log[Len(log)].new
    /\ log # << >> => context[e] # NoContext /\ log[1].parent = context[e].parent
    /\ \A i \in DOMAIN log : /\ log[i].index = i - 1
                             /\ i > 1 => log[i].parent = log[i-1].new

\* The places of the registries' logs, and the state-advance receipts paid for.
Logged == UNION {UNION {{<<r, e, i>> : i \in DOMAIN advances[r][e]} : e \in Epochs}
                   : r \in Registries}
Paid == {p \in CoreTexPositions : ReceiptAt(p).outcome = "StateAdvance"}

\* An advance in the registry and the credit for it happen together: the log
\* entries and the credited state-advance receipts are in one-to-one
\* correspondence (the external call inside submitCoreTexReceipt).
AdvancesAreCredited ==
  /\ Cardinality(Logged) = Cardinality(Paid)
  /\ \A l \in Logged : \E p \in Paid :
       LET a == advances[l[1]][l[2]][l[3]] x == ReceiptAt(p)
       IN  /\ p[1] = a.miner
           /\ <<x.epoch, x.parent, x.new, x.patch>> = <<l[2], a.parent, a.new, a.patch>>

\* An epoch's advances all live in one registry, although the owner may point
\* V4 at another one (setCoreTexRegistry refuses once the epoch has credits).
OneRegistryPerEpoch ==
  \A e \in Epochs : \A r, s \in Registries :
    advances[r][e] # << >> /\ advances[s][e] # << >> => r = s

\* An epoch with advances is committed, has credits, has begun, and while it is
\* the current one its advances are in the registry V4 points at.
AdvancesBacked ==
  \A r \in Registries, e \in Epochs : advances[r][e] # << >> =>
    /\ epochCommit[e] # NoSecret /\ totalCredits[e] # 0
    /\ e <= epoch /\ (e = epoch => r = registry)

\* No difficulty is used twice between two changes of the counter, and none is
\* skipped: a credit at difficulty 0 follows the start of the epoch or an
\* advance, a credit at d + 1 follows a screener pass credited at d, and only
\* the value the counter has now is still unused.  So of several receipts
\* signed with the same snapshot at most one is credited, and the rest cannot
\* be priced late (difficultyCountSnapshot against the live count).
DifficultyUsedOnce ==
  \A e \in Epochs :
    LET credited == {p \in CoreTexPositions : ReceiptAt(p).epoch = e}
        At(d) == {p \in credited : ReceiptAt(p).difficulty = d}
        PassesAt(d) == {p \in At(d) : ReceiptAt(p).outcome = "ScreenerPass"}
        paid == {p \in credited : ReceiptAt(p).outcome = "StateAdvance"}
        Unused(d) == IF screenerCount[e] = d THEN 1 ELSE 0
    IN /\ Cardinality(At(0)) + Unused(0) = Cardinality(paid) + 1
       /\ \A d \in 0..Cardinality(credited) :
            Cardinality(At(d + 1)) + Unused(d + 1) = Cardinality(PassesAt(d))

\* Every CoreTex credit can be re-derived later from the chain as it stands:
\* the pins it was validated against are still the epoch's context, the policy
\* that priced it is still the epoch's active policy, and its parent is a root
\* the epoch went through (setCoreTexEpochContext, _storeCoreTexPolicy).
CreditsReplayable ==
  \A p \in CoreTexPositions :
    LET x == ReceiptAt(p) IN
    /\ x.pins = context[x.epoch].pins
    /\ x.policy = ActivePolicy(x.epoch)
    /\ x.work = WorkUnitsBps(x.policy, x.outcome, x.difficulty)
    /\ \/ x.parent = context[x.epoch].parent
       \/ \E r \in Registries : \E i \in DOMAIN advances[r][x.epoch] :
            x.parent = advances[r][x.epoch][i].new

\* A sealed epoch's header tells the whole story of its advances: from the
\* context's parent root to the last new root (CoreTexRegistry.finalizeEpoch).
SealMatchesLog ==
  \A r \in Registries, e \in Epochs :
    sealed[r][e] /\ advances[r][e] # << >> =>
      header[r][e] = [parent |-> advances[r][e][1].parent,
                      final  |-> advances[r][e][Len(advances[r][e])].new,
                      pins   |-> context[e].pins]

\* Once an epoch is committed and sealed, neither its live root nor its header
\* ever changes again, whatever the admins of V4 and of the registry do while
\* the registry stays wired to this V4 (finalizeEpoch, setCoreTexEpochContext).
SealIsFinal ==
  [][\A r \in Registries, e \in Epochs :
       sealed[r][e] /\ epochCommit[e] # NoSecret =>
         /\ sealed'[r][e] /\ header'[r][e] = header[r][e]
         /\ LiveStateRoot(r, e)' = LiveStateRoot(r, e)]_receiptVars

\* When the epoch rolls over its accounts are closed: no later step changes the
\* credits, the totals, the counters or the advances of an ended epoch.
EndedEpochClosed ==
  [][\A e \in Epochs : e < epoch =>
       /\ credits'[e] = credits[e] /\ totalCredits'[e] = totalCredits[e]
       /\ screenerCount'[e] = screenerCount[e]
       /\ \A r \in Registries : advances'[r][e] = advances[r][e]]_receiptVars

\* Pricing is predictable: no step changes the policy of an epoch that has begun.
PolicyOfBegunEpochFixed ==
  [][\A e \in 0..epoch : InForce(e)' = InForce(e)]_receiptVars
=============================================================================
