------------------------ MODULE BotcoinMiningV4_proofs ------------------------
(***************************************************************************)
(* The rewards and the stakes of BotcoinMiningV4, for any tiers, amounts,  *)
(* policies and receipts.  These are about several actors: what a claim is *)
(* worth is fixed although receipts, fundings and epochs go on, a stake    *)
(* that earned stays locked although its owner may unstake, cancel and     *)
(* stake again, the owner of the contract may change the cooldown, and the *)
(* stake mode may switch; and the pool covers the claims that are left     *)
(* whatever was claimed before.                                            *)
(***************************************************************************)
EXTENDS BotcoinMiningV4, TLAPS

-----------------------------------------------------------------------------
\* The kinds of steps, for case splits.
RewardStep ==
  \/ \E e \in Epochs, a \in Amounts : FundEpoch(e, a)
  \/ \E e \in Epochs : FinalizeEpoch(e)
  \/ \E m \in Miners, es \in SUBSET Epochs \ {{}} : Claim(m, es)
  \/ SweepDust
  \/ \E a \in Amounts : Donate(a)
OtherReceiptStep ==
  /\ ClockStep \/ AdminStep \/ RegistryStep
  /\ UNCHANGED <<stakeVars, balance, rewardVars, nativeCreditAt>>
LockStep == StakeStep /\ UNCHANGED <<receiptVars, rewardVars, nativeCreditAt>>

LEMMA StepKinds ==
  ASSUME Next
  PROVE  (\E m \in Miners : Submit(m)) \/ OtherReceiptStep \/ LockStep \/ RewardStep
BY Zenon DEF Next, RewardStep, OtherReceiptStep, LockStep

\* A submission, of either lane, credits a miner with a tier in the running
\* epoch and moves neither clock (_validateCommonReceipt, _acceptCredit).
LEMMA SubmitEffect ==
  ASSUME NEW m \in Miners, Submit(m)
  PROVE  /\ TierCreditsOfAt(m, epoch) # 0
         /\ epoch' = epoch /\ now' = now
         /\ UNCHANGED <<stakeVars, balance, rewardVars>>
         /\ \E x : /\ credits' = [credits EXCEPT ![epoch][m] = credits[epoch][m] + x]
                   /\ totalCredits' = [totalCredits EXCEPT ![epoch] = totalCredits[epoch] + x]
<1>1. PICK link \in CandidateLinks :
        \/ \E r \in StandardReceipt : SubmitReceipt(m, link, r, TierCreditsOfAt(m, epoch))
        \/ \E r \in Receipts : SubmitCoreTexReceipt(m, link, r, TierCreditsOfAt(m, epoch))
  BY Zenon DEF Submit, SubmitStep
<1>2. PICK r, x : /\ TierCreditsOfAt(m, epoch) # 0
                  /\ CommonReceiptOK(m, link, r.epoch) /\ AcceptCredit(m, link, r, x)
                  /\ epoch' = epoch /\ now' = now
  BY <1>1, Zenon DEF SubmitReceipt, SubmitCoreTexReceipt
<1>3. /\ credits' = [credits EXCEPT ![epoch][m] = credits[epoch][m] + x]
      /\ totalCredits' = [totalCredits EXCEPT ![epoch] = totalCredits[epoch] + x]
  BY <1>2, Zenon DEF CommonReceiptOK, AcceptCredit
<1>4. UNCHANGED <<stakeVars, balance, rewardVars>>
  BY Zenon DEF Submit
<1>. QED BY <1>2, <1>3, <1>4, Zenon

\* The clock only goes forward; no other receipt step touches an account.
LEMMA OtherReceiptEffect ==
  ASSUME OtherReceiptStep, epoch \in Nat, now \in Nat
  PROVE  /\ epoch' \in Nat /\ epoch' >= epoch /\ now' \in Nat /\ now' >= now
         /\ UNCHANGED <<credits, totalCredits, stakeVars, balance, rewardVars, nativeCreditAt>>
<1>1. UNCHANGED <<stakeVars, balance, rewardVars, nativeCreditAt>>
  BY Zenon DEF OtherReceiptStep
<1>2. CASE ClockStep
  BY <1>1, <1>2 DEF ClockStep, NextEpoch, Tick, creditVars
<1>3. CASE AdminStep
  <2>1. epoch' = epoch /\ now' = now /\ UNCHANGED <<credits, totalCredits>>
    BY <1>3, ZenonT(60) DEF AdminStep, SetEpochCommit, RevealEpochSecret, SetCoreTexEpochContext,
         SetCoreTexRegistry, ScheduleCoreTexPolicy, SetScreenerCap, SetCoordinatorSigner,
         SetV4Paused, creditVars
  <2>. QED BY <1>1, <2>1
<1>4. CASE RegistryStep
  <2>1. epoch' = epoch /\ now' = now /\ UNCHANGED <<credits, totalCredits>>
    BY <1>4, ZenonT(60) DEF RegistryStep, creditVars
  <2>. QED BY <1>1, <2>1
<1>. QED BY <1>2, <1>3, <1>4, Zenon DEF OtherReceiptStep

-----------------------------------------------------------------------------
\* Only an ended epoch has a reward, so only an ended epoch is finalised.
PayoutInv ==
  /\ epoch \in Nat /\ now \in Nat
  /\ DOMAIN credits = Epochs /\ DOMAIN totalCredits = Epochs
  /\ DOMAIN epochReward = Epochs /\ DOMAIN epochFinalized = Epochs
  /\ \A e \in Epochs : epochReward[e] # 0 \/ epochFinalized[e] => e < epoch

\* The step formula of PayoutSettled.
Settled == \A e \in Epochs, m \in Miners :
             epochFinalized[e] => epochFinalized'[e] /\ Payout(e, m)' = Payout(e, m)

LEMMA PayoutStep ==
  ASSUME PayoutInv, Next
  PROVE  PayoutInv' /\ Settled
\* What an epoch pays depends on its reward and its credits only.
<1>SamePayout. ASSUME \A e \in Epochs : epochFinalized[e] =>
                        /\ epochFinalized'[e] /\ epochReward'[e] = epochReward[e]
                        /\ credits'[e] = credits[e] /\ totalCredits'[e] = totalCredits[e]
               PROVE  Settled
  BY <1>SamePayout, Zenon DEF Settled, Payout
<1>1. ASSUME NEW m \in Miners, Submit(m)
      PROVE  PayoutInv' /\ Settled
  <2>1. PICK x : /\ credits' = [credits EXCEPT ![epoch][m] = credits[epoch][m] + x]
                 /\ totalCredits' = [totalCredits EXCEPT ![epoch] = totalCredits[epoch] + x]
    BY <1>1, SubmitEffect, Zenon
  <2>2. epoch' = epoch /\ now' = now /\ UNCHANGED rewardVars
    BY <1>1, SubmitEffect, Zenon
  <2>3. DOMAIN credits' = Epochs /\ DOMAIN totalCredits' = Epochs
    BY <2>1, Zenon DEF PayoutInv
  <2>4. PayoutInv'
    BY <2>2, <2>3, Zenon DEF PayoutInv, rewardVars
  <2>5. ASSUME NEW e \in Epochs, epochFinalized[e]
        PROVE  credits'[e] = credits[e] /\ totalCredits'[e] = totalCredits[e]
    <3>1. e # epoch
      BY <2>5 DEF PayoutInv
    <3>. QED BY <2>1, <3>1, Zenon DEF PayoutInv
  <2>. QED BY <2>2, <2>4, <2>5, <1>SamePayout, Zenon DEF rewardVars
<1>2. CASE OtherReceiptStep
  <2>1. UNCHANGED <<credits, totalCredits, rewardVars>> /\ epoch' \in Nat /\ now' \in Nat
    BY <1>2, OtherReceiptEffect, Zenon DEF PayoutInv
  <2>2. epoch' >= epoch
    BY <1>2, OtherReceiptEffect, Zenon DEF PayoutInv
  <2>3. \A e \in Epochs : e < epoch => e < epoch'
    BY <2>1, <2>2 DEF PayoutInv, Epochs
  <2>4. PayoutInv'
    BY <2>1, <2>3, Zenon DEF PayoutInv, rewardVars
  <2>. QED BY <2>1, <2>4, <1>SamePayout, Zenon DEF rewardVars
<1>3. CASE LockStep \/ SweepDust \/ \E a \in Amounts : Donate(a)
  <2>1. UNCHANGED <<credits, totalCredits, epoch, now, rewardVars>>
    BY <1>3, Zenon DEF LockStep, SweepDust, Donate, receiptVars, creditVars
  <2>2. PayoutInv'
    BY <2>1, Zenon DEF PayoutInv, rewardVars
  <2>. QED BY <2>1, <2>2, <1>SamePayout, Zenon DEF rewardVars
<1>4. ASSUME NEW e \in Epochs, NEW a \in Amounts, FundEpoch(e, a)
      PROVE  PayoutInv' /\ Settled
  <2>1. UNCHANGED <<credits, totalCredits, epoch, now, epochFinalized>>
    BY <1>4, Zenon DEF FundEpoch, receiptVars, creditVars
  <2>2. /\ e < epoch /\ ~epochFinalized[e]
        /\ epochReward' = [epochReward EXCEPT ![e] = epochReward[e] + a]
    BY <1>4, Zenon DEF FundEpoch
  <2>3. \A d \in Epochs : d # e => epochReward'[d] = epochReward[d]
    BY <2>2, Zenon DEF PayoutInv
  <2>4. DOMAIN epochReward' = Epochs
    BY <2>2, Zenon DEF PayoutInv
  <2>5. \A d \in Epochs : epochReward'[d] # 0 \/ epochFinalized'[d] => d < epoch'
    BY <2>1, <2>2, <2>3, Zenon DEF PayoutInv
  <2>6. PayoutInv'
    BY <2>1, <2>4, <2>5, Zenon DEF PayoutInv
  <2>. QED BY <2>1, <2>2, <2>3, <2>6, <1>SamePayout, Zenon
<1>5. ASSUME NEW e \in Epochs, FinalizeEpoch(e)
      PROVE  PayoutInv' /\ Settled
  <2>1. UNCHANGED <<credits, totalCredits, epoch, now, epochReward>>
    BY <1>5, Zenon DEF FinalizeEpoch, receiptVars, creditVars
  <2>2. epochReward[e] # 0 /\ epochFinalized' = [epochFinalized EXCEPT ![e] = TRUE]
    BY <1>5, Zenon DEF FinalizeEpoch
  <2>3. /\ \A d \in Epochs : epochFinalized[d] => epochFinalized'[d]
        /\ \A d \in Epochs : d # e => epochFinalized'[d] = epochFinalized[d]
        /\ DOMAIN epochFinalized' = Epochs
    BY <2>2, Zenon DEF PayoutInv
  <2>4. \A d \in Epochs : epochReward'[d] # 0 \/ epochFinalized'[d] => d < epoch'
    BY <2>1, <2>2, <2>3, Zenon DEF PayoutInv
  <2>5. PayoutInv'
    BY <2>1, <2>3, <2>4, Zenon DEF PayoutInv
  <2>. QED BY <2>1, <2>3, <2>5, <1>SamePayout, Zenon
<1>6. ASSUME NEW m \in Miners, NEW es \in SUBSET Epochs, Claim(m, es)
      PROVE  PayoutInv' /\ Settled
  <2>1. UNCHANGED <<credits, totalCredits, epoch, now, epochReward, epochFinalized>>
    BY <1>6, Zenon DEF Claim, receiptVars, creditVars
  <2>2. PayoutInv'
    BY <2>1, Zenon DEF PayoutInv
  <2>. QED BY <2>1, <2>2, <1>SamePayout, Zenon
<1>. QED BY <1>1, <1>2, <1>3, <1>4, <1>5, <1>6, StepKinds, Zenon DEF RewardStep

\* For any tiers, amounts, policies and receipts, what a claim on a finalised
\* epoch is worth never changes again.
THEOREM PayoutsAreSettled == Spec => PayoutSettled
<1>1. Init => PayoutInv
  BY DEF Init, ReceiptsInit, PayoutInv
<1>2. PayoutInv /\ [Next]_vars => PayoutInv'
  <2>1. CASE UNCHANGED vars
    BY <2>1, Zenon DEF vars, receiptVars, creditVars, rewardVars, PayoutInv
  <2>. QED BY <2>1, PayoutStep, Zenon
<1>3. PayoutInv /\ [Next]_vars
        => [\A e \in Epochs, m \in Miners :
              epochFinalized[e] => epochFinalized'[e] /\ Payout(e, m)' = Payout(e, m)]_vars
  BY PayoutStep, Zenon DEF Settled
<1>. QED BY <1>1, <1>2, <1>3, PTL DEF Spec, PayoutSettled
-----------------------------------------------------------------------------
\* A pending withdrawal is due at the earliest MinCooldown after the last
\* credit of the stake: a stake being withdrawn earns nothing, and unstaking
\* sets the date with the cooldown of the day.
LockInv ==
  /\ now \in Nat /\ epoch \in Nat
  /\ nativeUnstakeCooldown \in Nat /\ nativeUnstakeCooldown >= MinCooldown
  /\ nativeStakedAmount \in [Miners -> Nat]
  /\ nativeWithdrawableAt \in [Miners -> Nat]
  /\ nativeCreditAt \in [Miners -> Nat]
  /\ \A m \in Miners :
       /\ nativeCreditAt[m] <= now
       /\ nativeWithdrawableAt[m] # 0 /\ nativeCreditAt[m] # 0
            => nativeWithdrawableAt[m] >= nativeCreditAt[m] + MinCooldown

\* The step formula of StakeBackedCredit.
Backed == \A m \in Miners : nativeStakedAmount'[m] < nativeStakedAmount[m] =>
            nativeCreditAt[m] = 0 \/ now >= nativeCreditAt[m] + MinCooldown

LEMMA LockedStep ==
  ASSUME LockInv, Next
  PROVE  LockInv' /\ Backed
\* A step that moves no stake and no credit keeps both.
<1>LockFrame. ASSUME LockInv, now' \in Nat, now' >= now, epoch' \in Nat, nativeCreditAt' = nativeCreditAt,
                     nativeUnstakeCooldown' \in Nat, nativeUnstakeCooldown' >= MinCooldown,
                     nativeStakedAmount' = nativeStakedAmount,
                     nativeWithdrawableAt' = nativeWithdrawableAt
              PROVE  LockInv' /\ Backed
  BY <1>LockFrame, SMTT(60) DEF LockInv, Backed
<1>. MinCooldown \in Nat /\ MaxCooldown \in Nat /\ Amounts \subseteq Nat
  BY StakeInputAssumption, Zenon
<1>1. ASSUME NEW m \in Miners, Submit(m)
      PROVE  LockInv' /\ Backed
  <2>1. /\ epoch' = epoch /\ now' = now /\ UNCHANGED stakeVars
        /\ TierCreditsOfAt(m, epoch) # 0
    BY <1>1, SubmitEffect, Zenon
  <2>2. /\ nativeUnstakeCooldown' = nativeUnstakeCooldown
        /\ nativeStakedAmount' = nativeStakedAmount
        /\ nativeWithdrawableAt' = nativeWithdrawableAt
    BY <2>1, Zenon DEF stakeVars
  <2>3. CASE nativeCreditAt' = nativeCreditAt
    <3>1. now' \in Nat /\ now' >= now /\ epoch' \in Nat /\ nativeUnstakeCooldown' \in Nat
          /\ nativeUnstakeCooldown' >= MinCooldown
      BY <2>1, <2>2, SMTT(30) DEF LockInv
    <3>. QED BY <2>2, <2>3, <3>1, <1>LockFrame, Zenon
  <2>4. CASE /\ EffectiveStakeMode(epoch) = "NativeV4"
             /\ nativeCreditAt' = [nativeCreditAt EXCEPT ![m] = now]
    <3>1. nativeWithdrawableAt[m] = 0
      BY <2>1, <2>4, Zenon DEF TierCreditsOfAt
    <3>. QED BY <2>1, <2>2, <2>4, <3>1, SMTT(60) DEF LockInv, Backed
  <2>. QED BY <1>1, <2>3, <2>4, Zenon DEF Submit
<1>2. CASE OtherReceiptStep
  <2>1. /\ epoch' \in Nat /\ now' \in Nat /\ now' >= now
        /\ UNCHANGED <<stakeVars, nativeCreditAt>>
    BY <1>2, OtherReceiptEffect, Zenon DEF LockInv
  <2>2. /\ nativeUnstakeCooldown' = nativeUnstakeCooldown
        /\ nativeStakedAmount' = nativeStakedAmount
        /\ nativeWithdrawableAt' = nativeWithdrawableAt
    BY <2>1, Zenon DEF stakeVars
  <2>3. nativeUnstakeCooldown' \in Nat /\ nativeUnstakeCooldown' >= MinCooldown
    BY <2>2, Zenon DEF LockInv
  <2>. QED BY <2>1, <2>2, <2>3, <1>LockFrame, Zenon
<1>3. CASE RewardStep
  <2>1. UNCHANGED <<epoch, now, nativeCreditAt, nativeUnstakeCooldown, nativeStakedAmount,
                    nativeWithdrawableAt>>
    BY <1>3, Zenon DEF RewardStep, FundEpoch, FinalizeEpoch, Claim, SweepDust, Donate,
         receiptVars, stakeVars
  <2>2. /\ now' \in Nat /\ now' >= now /\ epoch' \in Nat
        /\ nativeUnstakeCooldown' \in Nat /\ nativeUnstakeCooldown' >= MinCooldown
    BY <2>1 DEF LockInv
  <2>. QED BY <2>1, <2>2, <1>LockFrame, Zenon
<1>4. CASE LockStep
  <2>1. now' = now /\ epoch' = epoch /\ nativeCreditAt' = nativeCreditAt
    BY <1>4, Zenon DEF LockStep, receiptVars
  <2>2. now' \in Nat /\ now' >= now /\ epoch' \in Nat
    BY <2>1, SMTT(30) DEF LockInv
  <2>3. ASSUME NEW m \in Miners, NEW a \in Amounts, Stake(m, a)
        PROVE  LockInv' /\ Backed
    BY <2>1, <2>3, SMTT(60) DEF Stake, LockInv, Backed
  <2>4. ASSUME NEW m \in Miners, Unstake(m)
        PROVE  LockInv' /\ Backed
    BY <2>1, <2>4, SMTT(60) DEF Unstake, LockInv, Backed
  <2>5. ASSUME NEW m \in Miners, CancelUnstake(m)
        PROVE  LockInv' /\ Backed
    BY <2>1, <2>5, SMTT(60) DEF CancelUnstake, LockInv, Backed
  <2>6. ASSUME NEW m \in Miners, Withdraw(m)
        PROVE  LockInv' /\ Backed
    BY <2>1, <2>6, SMTT(60) DEF Withdraw, LockInv, Backed
  <2>7. ASSUME NEW c \in MinCooldown..MaxCooldown, SetNativeUnstakeCooldown(c)
        PROVE  LockInv' /\ Backed
    <3>1. /\ nativeUnstakeCooldown' \in Nat /\ nativeUnstakeCooldown' >= MinCooldown
          /\ nativeStakedAmount' = nativeStakedAmount
          /\ nativeWithdrawableAt' = nativeWithdrawableAt
      BY <2>7 DEF SetNativeUnstakeCooldown
    <3>. QED BY <2>1, <2>2, <3>1, <1>LockFrame, Zenon
  <2>8. ASSUME UNCHANGED <<nativeUnstakeCooldown, nativeStakedAmount, nativeWithdrawableAt>>
        PROVE  LockInv' /\ Backed
    <3>1. nativeUnstakeCooldown' \in Nat /\ nativeUnstakeCooldown' >= MinCooldown
      BY <2>8, Zenon DEF LockInv
    <3>. QED BY <2>1, <2>2, <2>8, <3>1, <1>LockFrame, Zenon
  <2>. QED BY <1>4, <2>3, <2>4, <2>5, <2>6, <2>7, <2>8, Zenon
       DEF LockStep, StakeStep, ExternalStakeChange, SetExternalStakeSource, SetNativeTiers,
           ScheduleStakeModeSwitch, FinalizeStakeModeSwitch
<1>. QED BY <1>1, <1>2, <1>3, <1>4, StepKinds, Zenon

\* For any tier tables, amounts, cooldowns and switches of the stake mode, a
\* stake leaves the contract at the earliest MinCooldown after its last credit.
THEOREM CreditsAreStakeBacked == Spec => StakeBackedCredit
<1>1. Init => LockInv
  BY StakeInputAssumption DEF Init, ReceiptsInit, StakingInit, LockInv
<1>2. LockInv /\ [Next]_vars => LockInv'
  <2>1. CASE UNCHANGED vars
    BY <2>1, Zenon DEF vars, receiptVars, stakeVars, LockInv
  <2>. QED BY <2>1, LockedStep, Zenon
<1>3. LockInv /\ [Next]_vars
        => [\A m \in Miners : nativeStakedAmount'[m] < nativeStakedAmount[m] =>
              nativeCreditAt[m] = 0 \/ now >= nativeCreditAt[m] + MinCooldown]_vars
  BY LockedStep, Zenon DEF Backed
<1>. QED BY <1>1, <1>2, <1>3, PTL DEF Spec, StakeBackedCredit
-----------------------------------------------------------------------------
\* The two debts and the tokens held move together: a claim takes the same
\* amount from the pool and from the balance, a withdrawal from the stakes and
\* from the balance, and a sweep stops at the sum of the two debts.
SolventInv ==
  /\ balance \in Int /\ rewardBalance \in Int /\ nativeTotalStaked \in Int
  /\ Solvent

\* For any amounts, tiers, payouts and sequence of calls the contract holds
\* what it owes to stakers and claimants together.
THEOREM ContractIsSolvent == Spec => []Solvent
<1>SolventStep. LockInv /\ SolventInv /\ [Next]_vars => SolventInv'
  <2> SUFFICES ASSUME LockInv, SolventInv, [Next]_vars PROVE SolventInv'
    BY Zenon 
  <2>0. Amounts \subseteq Nat /\ nativeStakedAmount \in [Miners -> Nat]
    BY StakeInputAssumption, Zenon DEF LockInv
  <2>1. CASE UNCHANGED <<balance, rewardBalance, nativeTotalStaked>>
    BY <2>1, Zenon DEF SolventInv, Solvent
  <2>2. CASE (\E m \in Miners : Submit(m)) \/ OtherReceiptStep
    <3>1. UNCHANGED <<balance, rewardVars, stakeVars>>
      BY <2>2, Zenon DEF Submit, OtherReceiptStep
    <3>. QED BY <2>1, <3>1, Zenon DEF rewardVars, stakeVars
  <2>3. ASSUME NEW m \in Miners, NEW a \in Amounts, Stake(m, a), UNCHANGED rewardVars PROVE SolventInv'
    <3>1. balance' = balance + a /\ nativeTotalStaked' = nativeTotalStaked + a /\ UNCHANGED rewardBalance
      BY <2>3, Zenon DEF Stake, rewardVars
    <3>. QED BY <2>0, <3>1, SMTT(30) DEF SolventInv, Solvent
  <2>4. ASSUME NEW m \in Miners, Withdraw(m), UNCHANGED rewardVars PROVE SolventInv'
    <3>1. PICK a : a = nativeStakedAmount[m]
      BY Zenon
    <3>2. balance' = balance - a /\ nativeTotalStaked' = nativeTotalStaked - a /\ UNCHANGED rewardBalance /\ a \in Nat
      BY <2>0, <2>4, <3>1, Zenon DEF Withdraw, rewardVars
    <3>. QED BY <3>2 DEF SolventInv, Solvent
  <2>5. CASE LockStep
    <3>1. StakeStep /\ UNCHANGED rewardVars
      BY <2>5, Zenon DEF LockStep
    <3>2. UNCHANGED rewardVars => UNCHANGED rewardBalance
      BY Zenon DEF rewardVars
    <3>. QED BY <2>1, <2>3, <2>4, <3>1, <3>2, Zenon
         DEF StakeStep, Unstake, CancelUnstake, ExternalStakeChange, SetExternalStakeSource, SetNativeTiers,
             SetNativeUnstakeCooldown, ScheduleStakeModeSwitch, FinalizeStakeModeSwitch
  <2>6. ASSUME NEW e \in Epochs, NEW a \in Amounts, FundEpoch(e, a) PROVE SolventInv'
    <3>1. balance' = balance + a /\ rewardBalance' = rewardBalance + a /\ UNCHANGED nativeTotalStaked
      BY <2>6, Zenon DEF FundEpoch, stakeVars
    <3>. QED BY <2>0, <3>1, SMTT(30) DEF SolventInv, Solvent
  <2>7. ASSUME NEW m \in Miners, NEW es, Claim(m, es) PROVE SolventInv'
    <3>1. PICK total : total = SumFunction([e \in es |-> Payout(e, m)])
      BY Zenon
    <3>2. /\ total \in 0..rewardBalance
          /\ rewardBalance' = rewardBalance - total /\ balance' = balance - total /\ UNCHANGED stakeVars
      BY <2>7, <3>1, Zenon DEF Claim
    <3>3. UNCHANGED nativeTotalStaked
      BY <3>2, Zenon DEF stakeVars
    <3>. QED BY <3>2, <3>3 DEF SolventInv, Solvent
  <2>8. CASE SweepDust
    <3>1. balance' = rewardBalance + nativeTotalStaked /\ UNCHANGED <<rewardBalance, nativeTotalStaked>>
      BY <2>8, Zenon DEF SweepDust, Obligated, rewardVars, stakeVars
    <3>. QED BY <3>1, SMTT(30) DEF SolventInv, Solvent
  <2>9. ASSUME NEW a \in Amounts, Donate(a) PROVE SolventInv'
    <3>1. balance' = balance + a /\ UNCHANGED <<rewardBalance, nativeTotalStaked>>
      BY <2>9, Zenon DEF Donate, rewardVars, stakeVars
    <3>. QED BY <2>0, <3>1, SMTT(30) DEF SolventInv, Solvent
  <2>10. ASSUME NEW e \in Epochs, FinalizeEpoch(e) PROVE SolventInv'
    BY <2>1, <2>10, Zenon DEF FinalizeEpoch, stakeVars
  <2>11. CASE UNCHANGED vars
    BY <2>1, <2>11, Zenon DEF vars, rewardVars, stakeVars
  <2>. QED BY <2>2, <2>5, <2>6, <2>7, <2>8, <2>9, <2>10, <2>11, StepKinds, ZenonT(60) DEF RewardStep
<1>1. Init => LockInv /\ SolventInv
  BY StakeInputAssumption DEF Init, ReceiptsInit, StakingInit, LockInv, SolventInv, Solvent
<1>2. LockInv /\ [Next]_vars => LockInv'
  <2>1. CASE UNCHANGED vars
    BY <2>1, Zenon DEF vars, receiptVars, stakeVars, LockInv
  <2>. QED BY <2>1, LockedStep, Zenon
<1>3. SolventInv => Solvent
  BY Zenon DEF SolventInv
<1>. QED BY <1>1, <1>2, <1>3, <1>SolventStep, PTL DEF Spec

-----------------------------------------------------------------------------
INSTANCE Sums_proofs

(***************************************************************************)
(* The reward pool covers every claim that can still be made.              *)
(***************************************************************************)
TierTable == Seq([threshold : Nat, credits : Nat])

\* The highest of some positions of a table is one of them.
LEMMA HighestIn ==
  ASSUME NEW n \in Nat, NEW T \in SUBSET (1..n), T # {}
  PROVE  Max(T) \in T
<1>. DEFINE D == {n - i : i \in T}
<1>0. \A i \in T : i \in Nat /\ n - i \in Nat
  OBVIOUS
<1>1. D \in SUBSET Nat /\ D # {}
  BY <1>0, Zenon
<1>2. PICK d \in D : \A x \in D : d <= x
  BY <1>1, LeastElement, ZenonT(60)
<1>3. PICK i \in T : d = n - i
  BY Zenon 
<1>4. \A j \in T : i >= j
  <2>. SUFFICES ASSUME NEW j \in T PROVE i >= j
    BY Zenon
  <2>1. d <= n - j
    BY <1>2, Zenon
  <2>. QED BY <1>0, <1>3, <2>1, SMTT(30)
<1>. QED BY <1>4, ZenonT(60) DEF Max

\* A tier pays a natural number of credits (_tierCreditsAt).
LEMMA CreditsFromTiersNat ==
  ASSUME NEW ts \in TierTable, NEW bal
  PROVE  CreditsFromTiers(ts, bal) \in Nat
<1>. DEFINE reached == {i \in DOMAIN ts : bal >= ts[i].threshold}
<1>. DEFINE Row == [threshold : Nat, credits : Nat]
<1>0. \A row \in Row : row.credits \in Nat
  BY Zenon
<1>1. Len(ts) \in Nat /\ DOMAIN ts = 1..Len(ts) /\ \A i \in 1..Len(ts) : ts[i].credits \in Nat
  <2>1. ts \in Seq(Row)
    BY Zenon DEF TierTable
  <2>. HIDE DEF Row
  <2>. QED BY <1>0, <2>1
<1>2. CASE reached = {}
  BY <1>2, Zenon DEF CreditsFromTiers
<1>3. CASE reached # {}
  <2>1. reached \in SUBSET (1..Len(ts))
    BY <1>1, Zenon
  <2>. HIDE DEF reached
  <2>2. Max(reached) \in 1..Len(ts)
    BY <1>1, <1>3, <2>1, HighestIn, Zenon
  <2>3. CreditsFromTiers(ts, bal) = ts[Max(reached)].credits
    BY <1>3, Zenon DEF CreditsFromTiers, reached
  <2>. QED BY <1>1, <2>2, <2>3, Zenon
<1>. QED BY <1>2, <1>3, Zenon

LEMMA TierCreditsNat ==
  ASSUME externalTiers \in TierTable, nativeTiers \in TierTable, NEW m, NEW e
  PROVE  TierCreditsOfAt(m, e) \in Nat
BY CreditsFromTiersNat, Zenon DEF TierCreditsOfAt

\* What a submission adds to an account is a natural number, in a modelled epoch.
LEMMA SubmitCredits ==
  ASSUME NEW m \in Miners, Submit(m), TierCreditsOfAt(m, epoch) \in Nat
  PROVE  /\ epoch \in Epochs
         /\ \E x \in Nat : /\ credits' = [credits EXCEPT ![epoch][m] = credits[epoch][m] + x]
                           /\ totalCredits' = [totalCredits EXCEPT ![epoch] = totalCredits[epoch] + x]
<1>. DEFINE tier == TierCreditsOfAt(m, epoch)
<1>1. PICK link \in CandidateLinks :
        \/ \E r \in StandardReceipt : SubmitReceipt(m, link, r, tier)
        \/ \E r \in Receipts : SubmitCoreTexReceipt(m, link, r, tier)
  BY Zenon DEF Submit, SubmitStep
<1>2. ASSUME NEW r, NEW x \in Nat, r.epoch \in Epochs,
             CommonReceiptOK(m, link, r.epoch), AcceptCredit(m, link, r, x)
      PROVE  /\ epoch \in Epochs
             /\ \E y \in Nat : /\ credits' = [credits EXCEPT ![epoch][m] = credits[epoch][m] + y]
                               /\ totalCredits' = [totalCredits EXCEPT ![epoch] = totalCredits[epoch] + y]
  <2>1. r.epoch = epoch
    BY <1>2, Zenon DEF CommonReceiptOK
  <2>2. /\ credits' = [credits EXCEPT ![epoch][m] = credits[epoch][m] + x]
        /\ totalCredits' = [totalCredits EXCEPT ![epoch] = totalCredits[epoch] + x]
    BY <1>2, <2>1, Zenon DEF AcceptCredit
  <2>. QED BY <1>2, <2>1, <2>2, Zenon
<1>3. ASSUME NEW r \in StandardReceipt, SubmitReceipt(m, link, r, tier)
      PROVE  r.epoch \in Epochs /\ CommonReceiptOK(m, link, r.epoch) /\ AcceptCredit(m, link, r, tier)
  <2>1. r.epoch \in Epochs
    BY DEF StandardReceipt
  <2>. QED BY <1>3, <2>1, Zenon DEF SubmitReceipt
<1>4. ASSUME NEW r \in Receipts, SubmitCoreTexReceipt(m, link, r, tier)
      PROVE  /\ r.epoch \in Epochs /\ CommonReceiptOK(m, link, r.epoch)
             /\ CreditsEarned(tier, r) \in Nat /\ AcceptCredit(m, link, r, CreditsEarned(tier, r))
  <2>1. r.epoch \in Epochs /\ r.work \in Nat
    BY ReceiptAssumption, Zenon DEF CoreTexReceipt
  <2>2. CreditsEarned(tier, r) \in Nat
    <3>1. PICK w \in Nat : w = r.work
      BY <2>1
    <3>2. PICK n \in Nat : n = tier * w
      OBVIOUS
    <3>3. n \div 10000 \in Nat
      OBVIOUS
    <3>4. CreditsEarned(tier, r) = n \div 10000
      BY <3>1, <3>2, SMTT(30) DEF CreditsEarned
    <3>. QED BY <3>3, <3>4, SMTT(30)
  <2>. QED BY <1>4, <2>1, <2>2, ZenonT(60) DEF SubmitCoreTexReceipt
<1>. QED BY <1>1, <1>2, <1>3, <1>4, Zenon

\* The books of the credits: every account holds a natural number, and the
\* total of an epoch is the sum of its accounts.
AccountInv ==
  /\ externalTiers \in TierTable /\ nativeTiers \in TierTable
  /\ credits \in [Epochs -> [Miners -> Nat]]
  /\ totalCredits \in [Epochs -> Nat]
  /\ \A e \in Epochs : totalCredits[e] = SumFunctionOnSet(credits[e], Miners)

LEMMA ValidTiersType == ASSUME NEW ts, ValidTiers(ts) PROVE ts \in TierTable
<1>. DEFINE Row == [threshold : Nat, credits : Nat]
<1>1. Tiers \subseteq Row
  BY Zenon DEF Tiers
<1>2. ts \in Seq(Tiers)
  BY Zenon DEF ValidTiers
<1>3. ts \in Seq(Row)
  <2>. HIDE DEF Row
  <2>. QED BY <1>1, <1>2, SMTT(30)
<1>. QED BY <1>3, Zenon DEF TierTable

LEMMA AccountFrame ==
  ASSUME AccountInv, UNCHANGED <<credits, totalCredits>>,
         externalTiers' \in TierTable, nativeTiers' \in TierTable
  PROVE  AccountInv' /\ \A e \in Epochs : totalCredits'[e] >= totalCredits[e]
<1>1. AccountInv'
  BY Zenon DEF AccountInv
<1>2. totalCredits \in [Epochs -> Nat] /\ totalCredits' = totalCredits
  BY Zenon DEF AccountInv
<1>. QED BY <1>1, <1>2, SMTT(30)

LEMMA AccountStep ==
  ASSUME AccountInv, PayoutInv, Next
  PROVE  AccountInv' /\ \A e \in Epochs : totalCredits'[e] >= totalCredits[e]
<1>0. externalTiers \in TierTable /\ nativeTiers \in TierTable
  BY Zenon DEF AccountInv
<1>1. ASSUME NEW m \in Miners, Submit(m)
      PROVE  AccountInv' /\ \A e \in Epochs : totalCredits'[e] >= totalCredits[e]
  <2>1. epoch \in Epochs /\ UNCHANGED <<externalTiers, nativeTiers>>
    <3>1. UNCHANGED stakeVars
      BY <1>1, SubmitEffect, Zenon
    <3>2. epoch \in Epochs
      BY <1>0, <1>1, TierCreditsNat, SubmitCredits, Zenon
    <3>. QED BY <3>1, <3>2, Zenon DEF stakeVars
  <2>2. PICK x \in Nat : /\ credits' = [credits EXCEPT ![epoch][m] = credits[epoch][m] + x]
                         /\ totalCredits' = [totalCredits EXCEPT ![epoch] = totalCredits[epoch] + x]
    BY <1>0, <1>1, TierCreditsNat, SubmitCredits, Zenon
  <2>3. PICK c, t : c = credits /\ t = totalCredits /\ c \in [Epochs -> [Miners -> Nat]] /\ t \in [Epochs -> Nat]
    BY ZenonT(60) DEF AccountInv
  <2>4. /\ credits' \in [Epochs -> [Miners -> Nat]]
        /\ credits'[epoch][m] = c[epoch][m] + x
        /\ \A y \in Miners : y # m => credits'[epoch][y] = c[epoch][y]
        /\ \A e \in Epochs : e # epoch => credits'[e] = c[e]
    <3>1. c[epoch][m] + x \in Nat
      BY <2>1, <2>3, SMTT(30)
    <3>. DEFINE row == [c[epoch] EXCEPT ![m] = c[epoch][m] + x]
    <3>2. row \in [Miners -> Nat] /\ row[m] = c[epoch][m] + x /\ \A y \in Miners : y # m => row[y] = c[epoch][y]
      BY <2>1, <2>3, <3>1, Zenon
    <3>3. credits' = [c EXCEPT ![epoch] = row]
      BY <2>2, <2>3, Zenon
    <3>. HIDE DEF row
    <3>. QED BY <2>1, <2>3, <3>2, <3>3, ZenonT(40)
  <2>5. /\ totalCredits' \in [Epochs -> Nat] /\ totalCredits'[epoch] = t[epoch] + x
        /\ \A e \in Epochs : e # epoch => totalCredits'[e] = t[e]
    BY <2>1, <2>2, <2>3, SMTT(30)
  <2>6. ASSUME NEW e \in Epochs
        PROVE  totalCredits'[e] = SumFunctionOnSet(credits'[e], Miners) /\ totalCredits'[e] >= t[e]
    <3>1. t[e] = SumFunctionOnSet(c[e], Miners) /\ t[e] \in Nat
      BY <2>3, ZenonT(60) DEF AccountInv
    <3>2. CASE e # epoch
      BY <2>4, <2>5, <3>1, <3>2, SMTT(30)
    <3>3. CASE e = epoch
      <4>1. PICK f, g : f = c[epoch] /\ g = credits'[epoch]
        BY Zenon
      <4>2. f \in [Miners -> Nat] /\ g \in [Miners -> Nat] /\ g[m] = f[m] + x /\ \A y \in Miners \ {m} : g[y] = f[y]
        BY <2>1, <2>3, <2>4, <4>1, ZenonT(40)
      <4>3. \A y \in Miners : f[y] \in Int /\ g[y] \in Int
        BY <4>2, SMTT(30)
      <4>4. SumFunctionOnSet(g, Miners) = SumFunctionOnSet(f, Miners) - f[m] + g[m]
        BY <4>2, <4>3, MinersAssumption, SumChangeOne, SMTT(30)
      <4>5. SumFunctionOnSet(g, Miners) = t[epoch] + x
        <5>1. SumFunctionOnSet(f, Miners) = t[epoch]
          BY <3>1, <3>3, <4>1, ZenonT(60)
        <5>. QED BY <2>1, <2>3, <4>2, <4>4, <5>1, SMTT(30)
      <4>. QED BY <2>5, <3>1, <3>3, <4>1, <4>5, SMTT(60)
    <3>. QED BY <3>2, <3>3, ZenonT(60)
  <2>. QED BY <1>0, <2>1, <2>3, <2>4, <2>5, <2>6, Zenon DEF AccountInv
<1>2. CASE OtherReceiptStep
  <2>1. UNCHANGED <<credits, totalCredits, stakeVars>>
    BY <1>2, OtherReceiptEffect, Zenon DEF PayoutInv
  <2>2. UNCHANGED <<externalTiers, nativeTiers>>
    BY <2>1, Zenon DEF stakeVars
  <2>. QED BY <1>0, <2>1, <2>2, AccountFrame, Zenon
<1>3. CASE RewardStep
  <2>1. UNCHANGED <<credits, totalCredits, externalTiers, nativeTiers>>
    BY <1>3, Zenon DEF RewardStep, FundEpoch, FinalizeEpoch, Claim, SweepDust, Donate,
         receiptVars, creditVars, stakeVars
  <2>. QED BY <1>0, <2>1, AccountFrame, Zenon
<1>4. CASE LockStep
  <2>1. UNCHANGED <<credits, totalCredits>>
    BY <1>4, Zenon DEF LockStep, receiptVars, creditVars
  <2>2. ASSUME NEW ts \in ExternalTables, NEW x, SetExternalStakeSource(ts, x)
        PROVE  externalTiers' \in TierTable /\ nativeTiers' = nativeTiers
    BY <2>2, StakeInputAssumption, Zenon DEF SetExternalStakeSource, TierTable
  <2>3. ASSUME NEW ts, SetNativeTiers(ts)
        PROVE  nativeTiers' \in TierTable /\ externalTiers' = externalTiers
    BY <2>3, ValidTiersType, Zenon DEF SetNativeTiers
  <2>4. externalTiers' \in TierTable /\ nativeTiers' \in TierTable
    BY <1>0, <1>4, <2>2, <2>3, Zenon DEF LockStep, StakeStep, Stake, Unstake, CancelUnstake, Withdraw,
         ExternalStakeChange, SetNativeUnstakeCooldown, ScheduleStakeModeSwitch, FinalizeStakeModeSwitch
  <2>. QED BY <2>1, <2>4, AccountFrame, Zenon
<1>. QED BY <1>1, <1>2, <1>3, <1>4, StepKinds, Zenon

\* Only a funded epoch is finalised and only an epoch with credits is funded, so
\* a payout never divides by zero; and the pool covers what is owed.
CoverInv ==
  /\ epochReward \in [Epochs -> Nat] /\ epochFinalized \in [Epochs -> BOOLEAN]
  /\ \A e \in Epochs : epochReward[e] # 0 => totalCredits[e] # 0
  /\ \A e \in Epochs : epochFinalized[e] => epochReward[e] # 0
  /\ rewardBalance \in Int
  /\ ClaimsCovered

LEMMA EpochsFinite == IsFiniteSet(Epochs)
BY BoundsAssumption, FS_Interval, SMTT(30) DEF Epochs

LEMMA UnclaimedFinite == ASSUME NEW e PROVE IsFiniteSet(Unclaimed(e))
BY MinersAssumption, FS_Subset, ZenonT(60) DEF Unclaimed

LEMMA PayoutNat ==
  ASSUME AccountInv, CoverInv, NEW e \in Epochs, epochFinalized[e], NEW m \in Miners
  PROVE  Payout(e, m) \in Nat
<1>1. epochReward[e] \in Nat /\ credits[e][m] \in Nat /\ totalCredits[e] \in Nat \ {0}
  BY Zenon DEF AccountInv, CoverInv
<1>. QED BY <1>1, ShareNat, Zenon DEF Payout

\* What a finalised epoch owes, as a sum of any table that holds its payouts.
OwedIsSum ==
  \A e, p : epochFinalized[e] /\ (\A m \in Unclaimed(e) : p[m] = Payout(e, m))
             => Owed(e) = SumFunctionOnSet(p, Unclaimed(e))

LEMMA OwedFinalized == OwedIsSum
<1>. SUFFICES ASSUME NEW e, epochFinalized[e], NEW p, \A m \in Unclaimed(e) : p[m] = Payout(e, m)
              PROVE  Owed(e) = SumFunctionOnSet(p, Unclaimed(e))
  BY Zenon DEF OwedIsSum
<1>. DEFINE f == [m \in Unclaimed(e) |-> Payout(e, m)]
<1>1. Owed(e) = SumFunctionOnSet(f, Unclaimed(e))
  <2>1. Owed(e) = SumFunction(f)
    BY Zenon DEF Owed
  <2>2. DOMAIN f = Unclaimed(e)
    BY Zenon 
  <2>. HIDE DEF f
  <2>. QED BY <2>1, <2>2, ZenonT(60) DEF SumFunction
<1>2. \A m \in Unclaimed(e) : p[m] = f[m]
  BY Zenon 
<1>. HIDE DEF f
<1>. QED BY <1>1, <1>2, UnclaimedFinite, SumCongruent, ZenonT(60)

\* The pool against any table that holds what each epoch owes.
CoveredIsSum ==
  \A o : (\A e \in Epochs : o[e] = Owed(e))
           => (ClaimsCovered <=> rewardBalance >= SumFunctionOnSet(o, Epochs))

LEMMA CoveredBy == CoveredIsSum
<1>. SUFFICES ASSUME NEW o, \A e \in Epochs : o[e] = Owed(e)
              PROVE  ClaimsCovered <=> rewardBalance >= SumFunctionOnSet(o, Epochs)
  BY Zenon DEF CoveredIsSum
<1>. DEFINE f == [e \in Epochs |-> Owed(e)]
<1>1. SumFunction(f) = SumFunctionOnSet(f, Epochs)
  <2>1. DOMAIN f = Epochs
    BY Zenon 
  <2>. HIDE DEF f
  <2>. QED BY <2>1, Zenon DEF SumFunction
<1>2. \A e \in Epochs : o[e] = f[e]
  BY Zenon 
<1>3. SumFunctionOnSet(o, Epochs) = SumFunctionOnSet(f, Epochs)
  <2>. HIDE DEF f
  <2>. QED BY <1>2, EpochsFinite, SumCongruent, Zenon
<1>. QED BY <1>1, <1>3, Zenon DEF ClaimsCovered

\* Both hold in the next state as well.
LEMMA OwedLater == OwedIsSum' /\ CoveredIsSum'
BY OwedFinalized, CoveredBy, PTL

\* A settled epoch owes the same payouts before and after a step, to those who
\* have not claimed.
LEMMA OwedSettled ==
  ASSUME Settled, NEW e \in Epochs, epochFinalized[e], epochFinalized'[e],
         NEW p, \A m \in Miners : p[m] = Payout(e, m)
  PROVE  /\ Owed(e) = SumFunctionOnSet(p, Unclaimed(e))
         /\ Owed(e)' = SumFunctionOnSet(p, Unclaimed(e)')
<1>1. Owed(e) = SumFunctionOnSet(p, Unclaimed(e))
  <2>1. \A m \in Unclaimed(e) : p[m] = Payout(e, m)
    BY Zenon DEF Unclaimed
  <2>. QED BY <2>1, OwedFinalized, Zenon DEF OwedIsSum
<1>2. epochFinalized'[e] /\ \A m \in Unclaimed(e)' : p[m] = Payout(e, m)'
  <2>1. \A m \in Miners : Payout(e, m)' = Payout(e, m)
    BY Zenon DEF Settled
  <2>3. \A m \in Miners : p[m] = Payout(e, m)'
    BY <2>1, Zenon
  <2>2. Unclaimed(e)' \subseteq Miners
    BY Zenon DEF Unclaimed
  <2>. QED BY <2>1, <2>2, <2>3, ZenonT(60)
<1>3. Owed(e)' = SumFunctionOnSet(p, Unclaimed(e)')
  BY <1>2, OwedLater, Zenon DEF OwedIsSum
<1>. QED BY <1>1, <1>3, Zenon

LEMMA OwedInt ==
  ASSUME AccountInv, CoverInv, NEW e \in Epochs
  PROVE  Owed(e) \in Int
<1>1. CASE ~epochFinalized[e]
  BY <1>1 DEF Owed, CoverInv
<1>2. CASE epochFinalized[e]
  <2>1. PICK p : p = [m \in Miners |-> Payout(e, m)]
    BY ZenonT(60)
  <2>2. \A m \in Unclaimed(e) : p[m] = Payout(e, m) /\ p[m] \in Int
    BY <1>2, <2>1, PayoutNat DEF Unclaimed
  <2>3. Owed(e) = SumFunctionOnSet(p, Unclaimed(e))
    BY <1>2, <2>2, OwedFinalized, Zenon DEF OwedIsSum
  <2>. QED BY <2>2, <2>3, UnclaimedFinite, SumInt, Zenon
<1>. QED BY <1>1, <1>2, Zenon

\* A step that leaves the rewards of an epoch alone and settled payouts settled.
LEMMA OwedFrame ==
  ASSUME Settled, NEW e \in Epochs, Unclaimed(e)' = Unclaimed(e),
         epochReward'[e] = epochReward[e], epochFinalized'[e] = epochFinalized[e]
  PROVE  Owed(e)' = Owed(e)
<1>1. CASE ~epochFinalized[e]
  BY <1>1, Zenon DEF Owed
<1>2. CASE epochFinalized[e]
  <2>1. PICK p : p = [m \in Miners |-> Payout(e, m)]
    BY ZenonT(60)
  <2>2. \A m \in Miners : p[m] = Payout(e, m)
    BY <2>1, Zenon
  <2>3. epochFinalized'[e]
    BY <1>2, ZenonT(60)
  <2>. QED BY <1>2, <2>2, <2>3, OwedSettled, ZenonT(60)
<1>. QED BY <1>1, <1>2, Zenon

\* What is owed before and after a step, in two tables.
LEMMA CoverFrom ==
  ASSUME AccountInv, CoverInv,
         NEW d, \A e \in Epochs : Owed(e)' \in Int /\ d[e] \in Int /\ Owed(e)' <= Owed(e) + d[e],
         rewardBalance' = rewardBalance + SumFunctionOnSet(d, Epochs)
  PROVE  rewardBalance' \in Int /\ ClaimsCovered'
<1>1. PICK o, n : o = [e \in Epochs |-> Owed(e)] /\ n = [e \in Epochs |-> Owed(e)']
  BY ZenonT(60)
<1>2. \A e \in Epochs : o[e] = Owed(e) /\ n[e] = Owed(e)'
  BY <1>1, Zenon
<1>3. \A e \in Epochs : o[e] \in Int /\ n[e] \in Int /\ d[e] \in Int /\ n[e] <= o[e] + d[e]
  BY <1>2, OwedInt, Zenon
<1>4. rewardBalance \in Int /\ rewardBalance >= SumFunctionOnSet(o, Epochs)
  BY <1>2, CoveredBy, ZenonT(60) DEF CoveredIsSum, CoverInv
<1>5. rewardBalance' \in Int /\ SumFunctionOnSet(n, Epochs) <= rewardBalance'
  <2>1. PICK pool : pool = rewardBalance
    BY Zenon
  <2>2. pool \in Int /\ SumFunctionOnSet(o, Epochs) <= pool
    BY <1>4, <2>1, Zenon
  <2>. QED BY <1>3, <2>1, <2>2, EpochsFinite, PoolCovers, ZenonT(60)
<1>6. ClaimsCovered'
  BY <1>2, <1>5, OwedLater, Zenon DEF CoveredIsSum
<1>. QED BY <1>5, <1>6, Zenon

\* A step that neither pays nor raises what is owed.
LEMMA CoverKept ==
  ASSUME AccountInv, CoverInv, \A e \in Epochs : Owed(e)' \in Int /\ Owed(e)' <= Owed(e),
         rewardBalance' = rewardBalance
  PROVE  rewardBalance' \in Int /\ ClaimsCovered'
<1>1. PICK d : d = [e \in Epochs |-> 0]
  BY Zenon
<1>2. \A e \in Epochs : d[e] = 0
  BY <1>1, Zenon
<1>3. SumFunctionOnSet(d, Epochs) = 0
  BY <1>2, EpochsFinite, SumZero, ZenonT(40)
<1>4. \A e \in Epochs : Owed(e)' \in Int /\ d[e] \in Int /\ Owed(e)' <= Owed(e) + d[e]
  BY <1>2, OwedInt, SMTT(30)
<1>5. rewardBalance' = rewardBalance + SumFunctionOnSet(d, Epochs)
  BY <1>3 DEF CoverInv
<1>. QED BY <1>4, <1>5, CoverFrom, Zenon

\* The flags and the rewards stay typed and linked when credits only grow.
Linked ==
  /\ epochReward \in [Epochs -> Nat] /\ epochFinalized \in [Epochs -> BOOLEAN]
  /\ \A e \in Epochs : epochReward[e] # 0 => totalCredits[e] # 0
  /\ \A e \in Epochs : epochFinalized[e] => epochReward[e] # 0

LEMMA LinkedKept ==
  ASSUME AccountInv, Linked, UNCHANGED <<epochReward, epochFinalized>>,
         \A e \in Epochs : totalCredits'[e] >= totalCredits[e], totalCredits' \in [Epochs -> Nat]
  PROVE  Linked'
<1>1. \A e \in Epochs : totalCredits[e] # 0 => totalCredits'[e] # 0
  <2>. SUFFICES ASSUME NEW e \in Epochs, totalCredits[e] # 0 PROVE totalCredits'[e] # 0
    BY Zenon
  <2>1. totalCredits[e] \in Nat /\ totalCredits'[e] \in Nat /\ totalCredits'[e] >= totalCredits[e]
    BY Zenon DEF AccountInv
  <2>. QED BY <2>1, SMTT(30)
<1>. QED BY <1>1, Zenon DEF Linked

\* Funding adds one amount to one debt and to the pool.
LEMMA FundCovers ==
  ASSUME AccountInv, AccountInv', CoverInv, Settled, NEW e \in Epochs, NEW a \in Nat, FundEpoch(e, a)
  PROVE  CoverInv'
<1>1. /\ ~epochFinalized[e] /\ totalCredits[e] # 0 /\ rewardBalance' = rewardBalance + a
      /\ epochReward' = [epochReward EXCEPT ![e] = epochReward[e] + a]
      /\ UNCHANGED <<totalCredits, claimed, epochFinalized>>
  BY Zenon DEF FundEpoch, receiptVars, creditVars
<1>2. epochReward \in [Epochs -> Nat] /\ epochFinalized \in [Epochs -> BOOLEAN]
  BY Zenon DEF CoverInv
<1>3. /\ epochReward' \in [Epochs -> Nat] /\ epochReward'[e] = epochReward[e] + a
      /\ \A x \in Epochs : x # e => epochReward'[x] = epochReward[x]
  BY <1>1, <1>2, SMTT(30)
<1>4. Linked'
  <2>1. \A x \in Epochs : epochReward'[x] # 0 => totalCredits'[x] # 0
    BY <1>1, <1>3, Zenon DEF CoverInv
  <2>2. \A x \in Epochs : epochFinalized'[x] => epochReward'[x] # 0
    BY <1>1, <1>3, Zenon DEF CoverInv
  <2>. QED BY <1>1, <1>2, <1>3, <2>1, <2>2, Zenon DEF Linked
<1>5. PICK d : d = [x \in Epochs |-> IF x = e THEN a ELSE 0]
  BY ZenonT(60)
<1>6. d[e] = a /\ \A x \in Epochs : x # e => d[x] = 0
  BY <1>5, Zenon
<1>7. SumFunctionOnSet(d, Epochs) = a
  <2>1. d[e] \in Int /\ \A x \in Epochs \ {e} : d[x] = 0
    BY <1>6, SMTT(30)
  <2>. QED BY <1>6, <2>1, EpochsFinite, SumSingle, ZenonT(40)
<1>8. ASSUME NEW x \in Epochs
      PROVE  Owed(x)' \in Int /\ d[x] \in Int /\ Owed(x)' <= Owed(x) + d[x]
  <2>1. Owed(x) \in Int
    BY OwedInt, Zenon
  <2>2. CASE x = e
    <3>1. Owed(x) = epochReward[e] /\ Owed(x)' = epochReward'[e]
      BY <1>1, <2>2, ZenonT(60) DEF Owed
    <3>. QED BY <1>2, <1>3, <1>6, <2>2, <3>1, SMTT(30)
  <2>3. CASE x # e
    <3>1. Owed(x)' = Owed(x)
      <4>1. Unclaimed(x)' = Unclaimed(x)
        BY <1>1, Zenon DEF Unclaimed
      <4>. QED BY <1>1, <1>3, <2>3, <4>1, OwedFrame, Zenon
    <3>. QED BY <1>6, <2>1, <2>3, <3>1, SMTT(30)
  <2>. QED BY <2>2, <2>3, Zenon
<1>9. rewardBalance' \in Int /\ ClaimsCovered'
  <2>1. rewardBalance' = rewardBalance + SumFunctionOnSet(d, Epochs)
    BY <1>1, <1>7, ZenonT(60)
  <2>. QED BY <1>8, <2>1, CoverFrom, ZenonT(60)
<1>. QED BY <1>4, <1>9, Zenon DEF CoverInv, Linked

\* Finalising turns a reward into payouts that sum to no more: the divisions
\* round down and the weights are the accounts of the epoch.
LEMMA FinalizeCovers ==
  ASSUME AccountInv, AccountInv', CoverInv, Settled, NEW e \in Epochs, FinalizeEpoch(e)
  PROVE  CoverInv'
<1>1. /\ ~epochFinalized[e] /\ epochReward[e] # 0 /\ rewardBalance' = rewardBalance
      /\ epochFinalized' = [epochFinalized EXCEPT ![e] = TRUE]
      /\ UNCHANGED <<credits, totalCredits, claimed, epochReward>>
  BY Zenon DEF FinalizeEpoch, receiptVars, creditVars
<1>2. epochReward \in [Epochs -> Nat] /\ epochFinalized \in [Epochs -> BOOLEAN]
  BY Zenon DEF CoverInv
<1>3. /\ epochFinalized' \in [Epochs -> BOOLEAN] /\ epochFinalized'[e]
      /\ \A x \in Epochs : x # e => epochFinalized'[x] = epochFinalized[x]
  BY <1>1, <1>2, ZenonT(40)
<1>4. Linked'
  <2>1. \A x \in Epochs : epochFinalized'[x] => epochReward'[x] # 0
    BY <1>1, <1>3, ZenonT(60) DEF CoverInv
  <2>. QED BY <1>1, <1>2, <1>3, <2>1, Zenon DEF Linked, CoverInv
<1>5. Owed(e)' \in Int /\ Owed(e)' <= Owed(e)
  <2>1. PICK r, w, c : r = epochReward[e] /\ w = totalCredits[e] /\ c = credits[e]
    BY ZenonT(60)
  <2>2. /\ r \in Nat /\ w \in Nat \ {0} /\ c \in [Miners -> Nat] /\ w = SumFunctionOnSet(c, Miners)
    BY <1>1, <2>1, Zenon DEF AccountInv, CoverInv
  <2>3. PICK p : p = [m \in Miners |-> (r * c[m]) \div w]
    BY ZenonT(60)
  <2>4. \A m \in Miners : c[m] \in Nat /\ p[m] = (r * c[m]) \div w /\ p[m] \in Int
    <3>1. ASSUME NEW m \in Miners PROVE c[m] \in Nat /\ p[m] = (r * c[m]) \div w
      BY <2>2, <2>3, ZenonT(40)
    <3>2. ASSUME NEW m \in Miners PROVE (r * c[m]) \div w \in Nat
      BY <2>2, <3>1, ShareNat, Zenon
    <3>3. Nat \subseteq Int
      BY SMTT(30)
    <3>. QED BY <3>1, <3>2, <3>3, Zenon
  <2>5. \A m \in Unclaimed(e)' : m \in Miners /\ p[m] = Payout(e, m)'
    <3>1. \A m \in Miners : Payout(e, m)' = (r * c[m]) \div w
      BY <1>1, <2>1, Zenon DEF Payout
    <3>2. Unclaimed(e)' \subseteq Miners
      BY Zenon DEF Unclaimed
    <3>. QED BY <2>4, <3>1, <3>2, ZenonT(60)
  <2>6. Owed(e)' = SumFunctionOnSet(p, Unclaimed(e)')
    BY <1>3, <2>5, OwedLater, Zenon DEF OwedIsSum
  <2>7. PICK U \in SUBSET Miners : U = Unclaimed(e)'
    BY ZenonT(60) DEF Unclaimed
  <2>8. SumFunctionOnSet(p, U) \in Int /\ SumFunctionOnSet(p, U) <= r
    <3>1. SharesOut(p, r, c, w, U) /\ \A m \in Miners : c[m] \in Nat
      BY <2>4, Zenon DEF SharesOut
    <3>. QED BY <2>2, <3>1, MinersAssumption, PartSharesWithin, ZenonT(60)
  <2>9. Owed(e) = r
    BY <1>1, <2>1, ZenonT(40) DEF Owed
  <2>. QED BY <2>6, <2>7, <2>8, <2>9, ZenonT(40)
<1>6. ASSUME NEW x \in Epochs
      PROVE  Owed(x)' \in Int /\ Owed(x)' <= Owed(x)
  <2>1. CASE x # e
    <3>1. Unclaimed(x)' = Unclaimed(x)
      BY <1>1, Zenon DEF Unclaimed
    <3>2. Owed(x)' = Owed(x)
      BY <1>1, <1>3, <2>1, <3>1, OwedFrame, Zenon
    <3>. QED BY <3>2, OwedInt
  <2>. QED BY <1>5, <2>1, ZenonT(40)
<1>7. rewardBalance' \in Int /\ ClaimsCovered'
  BY <1>1, <1>6, CoverKept, Zenon
<1>. QED BY <1>4, <1>7, Zenon DEF CoverInv, Linked

\* A claim takes from the pool what it takes off the debts of its epochs.
LEMMA ClaimCovers ==
  ASSUME AccountInv, AccountInv', CoverInv, Settled, NEW m \in Miners, NEW es \in SUBSET Epochs, Claim(m, es)
  PROVE  CoverInv'
<1>0. PICK total : total = SumFunction([e \in es |-> Payout(e, m)])
  BY Zenon 
<1>1. /\ \A e \in es : epochFinalized[e] /\ <<e, m>> \notin claimed
      /\ rewardBalance' = rewardBalance - total
      /\ claimed' = claimed \cup (es \X {m})
      /\ UNCHANGED <<credits, totalCredits, epochReward, epochFinalized>>
  BY <1>0, Zenon DEF Claim, receiptVars, creditVars
<1>2. Linked'
  BY <1>1, Zenon DEF Linked, CoverInv
<1>3. PICK f : f = [e \in es |-> Payout(e, m)]
  BY Zenon
<1>4. \A e \in es : f[e] = Payout(e, m) /\ f[e] \in Nat
  BY <1>1, <1>3, PayoutNat, Zenon
<1>5. PICK d : d = [e \in Epochs |-> IF e \in es THEN 0 - f[e] ELSE 0]
  BY ZenonT(60)
<1>6. /\ \A e \in es : d[e] = 0 - f[e] /\ f[e] \in Int
      /\ \A e \in Epochs \ es : d[e] = 0
  BY <1>4, <1>5, SMTT(30)
<1>7. \A e \in Epochs : d[e] \in Int
  BY <1>6, SMTT(60)
<1>8. total = SumFunctionOnSet(f, es)
  <2>1. total = SumFunction(f)
    BY <1>0, <1>3, Zenon
  <2>2. DOMAIN f = es
    BY <1>3, Zenon
  <2>. QED BY <2>1, <2>2, Zenon DEF SumFunction
<1>9. SumFunctionOnSet(d, Epochs) = 0 - total
  BY <1>6, <1>8, EpochsFinite, SumNegated, SMTT(60)
<1>10. rewardBalance' = rewardBalance + SumFunctionOnSet(d, Epochs)
  <2>1. total \in Int
    <3>1. IsFiniteSet(es)
      BY EpochsFinite, FS_Subset, ZenonT(40)
    <3>. QED BY <1>6, <1>8, <3>1, SumInt, ZenonT(60)
  <2>2. rewardBalance \in Int
    BY Zenon DEF CoverInv
  <2>. QED BY <1>1, <1>9, <2>1, <2>2, SMTT(30)
<1>11. ASSUME NEW e \in Epochs
       PROVE  Owed(e)' \in Int /\ Owed(e)' <= Owed(e) + d[e]
  <2>0. Owed(e) \in Int
    BY OwedInt, Zenon
  <2>1. CASE e \notin es
    <3>1. Unclaimed(e)' = Unclaimed(e)
      <4>1. \A x \in Miners : <<e, x>> \in claimed' <=> <<e, x>> \in claimed
        BY <1>1, <2>1, ZenonT(40)
      <4>. QED BY <4>1, Zenon DEF Unclaimed
    <3>2. Owed(e)' = Owed(e)
      BY <1>1, <3>1, OwedFrame, ZenonT(60)
    <3>. QED BY <1>6, <2>0, <2>1, <3>2, SMTT(60)
  <2>2. CASE e \in es
    <3>1. PICK p : p = [x \in Miners |-> Payout(e, x)]
      BY ZenonT(60)
    <3>2. epochFinalized[e] /\ epochFinalized'[e] /\ <<e, m>> \notin claimed
      BY <1>1, <2>2, Zenon
    <3>3. \A x \in Miners : p[x] = Payout(e, x) /\ p[x] \in Int
      BY <3>1, <3>2, PayoutNat, SMTT(60)
    <3>4. /\ Owed(e) = SumFunctionOnSet(p, Unclaimed(e))
          /\ Owed(e)' = SumFunctionOnSet(p, Unclaimed(e)')
      BY <3>2, <3>3, OwedSettled, Zenon
    <3>5. Unclaimed(e)' = Unclaimed(e) \ {m}
      <4>1. \A x \in Miners : <<e, x>> \in claimed' <=> <<e, x>> \in claimed \/ x = m
        BY <1>1, <2>2, Zenon
      <4>2. Unclaimed(e)' = {x \in Miners : <<e, x>> \notin claimed'}
        BY Zenon DEF Unclaimed
      <4>. QED BY <4>1, <4>2, ZenonT(40) DEF Unclaimed
    <3>6. m \in Unclaimed(e) /\ Unclaimed(e) \subseteq Miners
      BY <3>2, Zenon DEF Unclaimed
    <3>7. SumFunctionOnSet(p, Unclaimed(e)) = p[m] + SumFunctionOnSet(p, Unclaimed(e) \ {m})
      BY <3>3, <3>6, UnclaimedFinite, SumRemove, ZenonT(40)
    <3>8. SumFunctionOnSet(p, Unclaimed(e) \ {m}) \in Int
      <4>1. IsFiniteSet(Unclaimed(e) \ {m})
        BY UnclaimedFinite, FS_RemoveElement, Zenon
      <4>. QED BY <3>3, <3>6, <4>1, SumInt, ZenonT(40)
    <3>9. p[m] = f[e]
      BY <1>4, <2>2, <3>3, ZenonT(40)
    <3>. QED BY <1>6, <2>2, <3>3, <3>4, <3>5, <3>7, <3>8, <3>9, SMTT(60)
  <2>. QED BY <2>1, <2>2, Zenon
<1>12. rewardBalance' \in Int /\ ClaimsCovered'
  <2>1. \A e \in Epochs : Owed(e)' \in Int /\ d[e] \in Int /\ Owed(e)' <= Owed(e) + d[e]
    BY <1>7, <1>11, Zenon
  <2>. QED BY <1>10, <2>1, CoverFrom, ZenonT(60)
<1>. QED BY <1>2, <1>12, Zenon DEF CoverInv, Linked

LEMMA CoverStep ==
  ASSUME AccountInv, CoverInv, PayoutInv, Next
  PROVE  CoverInv'
<1>0. /\ Settled /\ AccountInv' /\ \A e \in Epochs : totalCredits'[e] >= totalCredits[e]
  BY PayoutStep, AccountStep, ZenonT(60)
<1>1. ASSUME NEW e \in Epochs, NEW a \in Amounts, FundEpoch(e, a) PROVE CoverInv'
  BY <1>0, <1>1, FundCovers, StakeInputAssumption, ZenonT(40)
<1>2. ASSUME NEW e \in Epochs, FinalizeEpoch(e) PROVE CoverInv'
  BY <1>0, <1>2, FinalizeCovers, Zenon
<1>3. ASSUME NEW m \in Miners, NEW es \in SUBSET Epochs, Claim(m, es) PROVE CoverInv'
  BY <1>0, <1>3, ClaimCovers, Zenon
<1>4. ASSUME UNCHANGED rewardVars PROVE CoverInv'
  <2>1. UNCHANGED <<epochReward, claimed, rewardBalance, epochFinalized>>
    BY <1>4, Zenon DEF rewardVars
  <2>2. Linked'
    <3>1. Linked /\ totalCredits' \in [Epochs -> Nat]
      BY <1>0, Zenon DEF AccountInv, CoverInv, Linked
    <3>. QED BY <1>0, <2>1, <3>1, LinkedKept, Zenon
  <2>3. ASSUME NEW e \in Epochs PROVE Owed(e)' \in Int /\ Owed(e)' <= Owed(e)
    <3>1. Unclaimed(e)' = Unclaimed(e)
      BY <2>1, Zenon DEF Unclaimed
    <3>2. Owed(e)' = Owed(e)
      BY <1>0, <2>1, <3>1, OwedFrame, Zenon
    <3>. QED BY <3>2, OwedInt
  <2>4. rewardBalance' \in Int /\ ClaimsCovered'
    BY <2>1, <2>3, CoverKept, Zenon
  <2>. QED BY <2>2, <2>4, Zenon DEF CoverInv, Linked
<1>5. CASE (\E m \in Miners : Submit(m)) \/ OtherReceiptStep \/ LockStep \/ SweepDust
           \/ \E a \in Amounts : Donate(a)
  <2>1. UNCHANGED rewardVars
    BY <1>5, Zenon DEF Submit, OtherReceiptStep, LockStep, SweepDust, Donate
  <2>. QED BY <1>4, <2>1, ZenonT(40)
<1>. QED BY <1>1, <1>2, <1>3, <1>5, StepKinds, Zenon DEF RewardStep

\* For any miners, epochs, tiers, amounts and order of fundings, finalisations
\* and claims, the reward pool covers every claim that can still be made.
THEOREM ClaimsAreCovered == Spec => []ClaimsCovered
<1>1. Init => AccountInv /\ CoverInv /\ PayoutInv
  <2>. SUFFICES ASSUME Init PROVE AccountInv /\ CoverInv /\ PayoutInv
    BY Zenon
  <2>1. PayoutInv
    BY Zenon DEF Init, ReceiptsInit, PayoutInv
  <2>2. /\ credits = [e \in Epochs |-> [m \in Miners |-> 0]] /\ totalCredits = [e \in Epochs |-> 0]
        /\ externalTiers \in TierTable /\ nativeTiers \in TierTable
    BY ValidTiersType, ZenonT(60) DEF Init, ReceiptsInit, StakingInit
  <2>3. ASSUME NEW e \in Epochs PROVE totalCredits[e] = SumFunctionOnSet(credits[e], Miners)
    <3>1. PICK c : c = credits[e]
      BY Zenon 
    <3>2. totalCredits[e] = 0 /\ \A m \in Miners : c[m] = 0
      BY <2>2, <3>1, Zenon
    <3>. QED BY <3>1, <3>2, MinersAssumption, SumZero, ZenonT(40)
  <2>4. AccountInv
    BY <2>2, <2>3, Zenon DEF AccountInv
  <2>5. /\ epochReward = [e \in Epochs |-> 0] /\ epochFinalized = [e \in Epochs |-> FALSE]
        /\ rewardBalance = 0
    BY Zenon DEF Init
  <2>6. Linked
    BY <2>5, Zenon DEF Linked
  <2>7. ClaimsCovered
    <3>1. PICK o : o = [e \in Epochs |-> Owed(e)]
      BY ZenonT(60)
    <3>2. \A e \in Epochs : o[e] = Owed(e) /\ o[e] = 0
      BY <2>5, <3>1, Zenon DEF Owed
    <3>3. SumFunctionOnSet(o, Epochs) = 0
      BY <3>2, EpochsFinite, SumZero, ZenonT(60)
    <3>4. rewardBalance >= SumFunctionOnSet(o, Epochs)
      BY <2>5, <3>3, SMTT(30)
    <3>. QED BY <3>2, <3>4, CoveredBy, Zenon DEF CoveredIsSum
  <2>. QED BY <2>1, <2>4, <2>5, <2>6, <2>7, SMTT(30) DEF CoverInv, Linked
<1>2. AccountInv /\ CoverInv /\ PayoutInv /\ [Next]_vars => AccountInv' /\ CoverInv' /\ PayoutInv'
  <2>. SUFFICES ASSUME AccountInv, CoverInv, PayoutInv, [Next]_vars
                PROVE  AccountInv' /\ CoverInv' /\ PayoutInv'
    BY Zenon 
  <2>1. CASE UNCHANGED vars
    <3>1. UNCHANGED <<epoch, now, credits, totalCredits, externalTiers, nativeTiers, epochReward, claimed,
                      rewardBalance, epochFinalized>>
      BY <2>1, Zenon DEF vars, receiptVars, creditVars, stakeVars, rewardVars
    <3>2. AccountInv' /\ PayoutInv'
      BY <3>1, Zenon DEF AccountInv, PayoutInv
    <3>3. CoverInv'
      BY <3>1, Zenon DEF CoverInv, ClaimsCovered, Owed, Unclaimed, Payout
    <3>. QED BY <3>2, <3>3, Zenon
  <2>. QED BY <2>1, AccountStep, CoverStep, PayoutStep, Zenon
<1>3. CoverInv => ClaimsCovered
  BY Zenon DEF CoverInv
<1>. QED BY <1>1, <1>2, <1>3, PTL DEF Spec
=============================================================================
