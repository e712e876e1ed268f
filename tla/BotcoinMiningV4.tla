--------------------------- MODULE BotcoinMiningV4 ---------------------------
(***************************************************************************)
(* The whole mining contract (contracts/src/BotcoinMiningV4.sol): receipts *)
(* (V4Receipts) priced by the stake of the miner (V4Staking), and the      *)
(* rewards an epoch's credits are paid out of.                             *)
(***************************************************************************)
EXTENDS V4Receipts, V4Staking

CONSTANTS MaxFunding,      \* bound: tokens funded in total
          MaxClaimEpochs,  \* MAX_CLAIM_EPOCHS
          MaxBalance       \* bound: tokens in the contract before a donation

VARIABLES epochReward, claimed, rewardBalance,
          epochFinalized,  \* V4's own flag; the registry's is `sealed'
          nativeCreditAt   \* history: when a miner last earned on native stake

rewardVars == <<epochReward, claimed, rewardBalance, epochFinalized>>
vars == <<receiptVars, stakeVars, balance, rewardVars, nativeCreditAt>>

\* Every storage slot of the contract holds a value of its type: neither the
\* pool nor the token balance goes below zero.
TypeOK ==
  /\ ReceiptsTypeOK /\ StakingTypeOK
  /\ epochReward \in [Epochs -> Nat]
  /\ claimed \in SUBSET (Epochs \X Miners)
  /\ epochFinalized \in [Epochs -> BOOLEAN]
  /\ rewardBalance \in Nat
  /\ nativeCreditAt \in [Miners -> Nat]

Init ==
  /\ ReceiptsInit /\ StakingInit
  /\ epochReward = [e \in Epochs |-> 0]
  /\ claimed = {}
  /\ epochFinalized = [e \in Epochs |-> FALSE]
  /\ rewardBalance = 0
  /\ nativeCreditAt = [m \in Miners |-> 0]

-----------------------------------------------------------------------------
\* Mutant: an epoch can be funded after it was finalised.
FundEpochFinalized(e, amount) ==
  /\ e < epoch /\ totalCredits[e] # 0
  /\ amount # 0 /\ rewardBalance + amount <= MaxFunding
  /\ epochReward' = [epochReward EXCEPT ![e] = @ + amount]
  /\ rewardBalance' = rewardBalance + amount
  /\ balance' = balance + amount
  /\ UNCHANGED <<receiptVars, stakeVars, claimed, epochFinalized, nativeCreditAt>>

\* fundEpoch by the owner or a funder.
FundEpoch(e, amount) ==
  /\ e < epoch
  /\ amount # 0 /\ rewardBalance + amount <= MaxFunding
  /\ totalCredits[e] # 0
  /\ ~epochFinalized[e]
  /\ epochReward' = [epochReward EXCEPT ![e] = @ + amount]
  /\ rewardBalance' = rewardBalance + amount
  /\ balance' = balance + amount
  /\ UNCHANGED <<receiptVars, stakeVars, claimed, epochFinalized, nativeCreditAt>>

\* finalizeEpoch by the owner or a funder.
FinalizeEpoch(e) ==
  /\ epochReward[e] # 0
  /\ ~epochFinalized[e]
  /\ epochFinalized' = [epochFinalized EXCEPT ![e] = TRUE]
  /\ UNCHANGED <<receiptVars, stakeVars, balance, epochReward, claimed, rewardBalance, nativeCreditAt>>

Payout(e, m) == (epochReward[e] * credits[e][m]) \div totalCredits[e]

\* Mutant: an epoch can be claimed again.
ClaimRepeated(m, es) ==
  LET total == SumFunction([e \in es |-> Payout(e, m)]) IN
  /\ \A e \in es : epochFinalized[e] /\ credits[e][m] # 0
  /\ total <= rewardBalance /\ total <= balance
  /\ claimed' = claimed \cup (es \X {m})
  /\ rewardBalance' = rewardBalance - total
  /\ balance' = balance - total
  /\ UNCHANGED <<receiptVars, stakeVars, epochReward, epochFinalized, nativeCreditAt>>

\* claim(epochIds): a repeated epoch reverts, so the list is a set.  The two
\* subtractions revert when they would go below zero.
Claim(m, es) ==
  LET total == SumFunction([e \in es |-> Payout(e, m)]) IN
  /\ Cardinality(es) <= MaxClaimEpochs
  /\ \A e \in es : epochFinalized[e] /\ <<e, m>> \notin claimed /\ credits[e][m] # 0
  /\ total \in 0..rewardBalance /\ total <= balance
  /\ claimed' = claimed \cup (es \X {m})
  /\ rewardBalance' = rewardBalance - total
  /\ balance' = balance - total
  /\ UNCHANGED <<receiptVars, stakeVars, epochReward, epochFinalized, nativeCreditAt>>

\* Mutant: only the stakes are owed.
ObligatedStakes == nativeTotalStaked

Obligated == rewardBalance + nativeTotalStaked

\* sweepDust
SweepDust ==
  /\ balance > Obligated
  /\ balance' = Obligated
  /\ UNCHANGED <<receiptVars, stakeVars, rewardVars, nativeCreditAt>>

\* External: anyone sends tokens to the contract.
Donate(amount) ==
  /\ balance + amount <= MaxBalance
  /\ balance' = balance + amount
  /\ UNCHANGED <<receiptVars, stakeVars, rewardVars, nativeCreditAt>>

\* submitReceipt and submitCoreTexReceipt at the miner's present tier.
Submit(m) ==
  /\ SubmitStep(m, TierCreditsOfAt(m, epoch))
  /\ nativeCreditAt' = IF EffectiveStakeMode(epoch) = "NativeV4"
                       THEN [nativeCreditAt EXCEPT ![m] = now] ELSE nativeCreditAt
  /\ UNCHANGED <<stakeVars, balance, rewardVars>>

Next ==
  \/ \E m \in Miners : Submit(m)
  \/ (ClockStep \/ AdminStep \/ RegistryStep)
       /\ UNCHANGED <<stakeVars, balance, rewardVars, nativeCreditAt>>
  \/ StakeStep /\ UNCHANGED <<receiptVars, rewardVars, nativeCreditAt>>
  \/ \E e \in Epochs, a \in Amounts : FundEpoch(e, a)
  \/ \E e \in Epochs : FinalizeEpoch(e)
  \/ \E m \in Miners, es \in SUBSET Epochs \ {{}} : Claim(m, es)
  \/ SweepDust
  \/ \E a \in Amounts : Donate(a)

Spec == Init /\ [][Next]_vars

-----------------------------------------------------------------------------
\* The contract holds what it owes to stakers and claimants, whatever is
\* staked, withdrawn, funded, claimed or swept (sweepDust, withdraw, claim).
Solvent == balance >= rewardBalance + nativeTotalStaked

Unclaimed(e) == {m \in Miners : <<e, m>> \notin claimed}

\* What an epoch may still pay: the unclaimed payouts once it is finalised, the
\* whole reward before.
Owed(e) ==
  IF epochFinalized[e] THEN SumFunction([m \in Unclaimed(e) |-> Payout(e, m)]) ELSE epochReward[e]

\* The reward pool covers every claim that can still be made, so that no claim
\* reverts on an underflow and no miner depends on claiming first.
ClaimsCovered == rewardBalance >= SumFunction([e \in Epochs |-> Owed(e)])

\* A payout is settled when the epoch is finalised: no later receipt, funding
\* or admin call changes what any miner's claim is worth.
PayoutSettled ==
  [][\A e \in Epochs, m \in Miners :
       epochFinalized[e] => epochFinalized'[e] /\ Payout(e, m)' = Payout(e, m)]_vars

\* Credits earned on native stake were earned by tokens still locked: a stake
\* leaves the contract at the earliest MinCooldown after its last credit.
StakeBackedCredit ==
  [][\A m \in Miners : nativeStakedAmount'[m] < nativeStakedAmount[m] =>
       nativeCreditAt[m] = 0 \/ now >= nativeCreditAt[m] + MinCooldown]_vars
=============================================================================
