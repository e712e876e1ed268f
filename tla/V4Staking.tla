------------------------------ MODULE V4Staking ------------------------------
(***************************************************************************)
(* Who may earn credits in BotcoinMiningV4, and how much per receipt: the  *)
(* stake mode (the external V3 contract or V4's own staking), the mode     *)
(* switch, native stakes with their unstake cooldown, and the tier table.  *)
(***************************************************************************)
EXTENDS V4Base, Functions, FiniteSetsExt

CONSTANTS Amounts,        \* token amounts a single call may move
          TierTables,     \* tier tables an admin may install
          ExternalTables, \* tier tables a V3 contract may have
          ExternalAnswers,            \* stakedAmount and isEligible of a miner
          MinCooldown, MaxCooldown,   \* MIN_/MAX_UNSTAKE_COOLDOWN
          SwitchModes,    \* stake modes an admin may schedule
          NoSwitch,       \* stakeModeSwitchScheduled is false
          MaxStaked       \* bound: tokens staked in total

VARIABLES external,       \* what the external stake source answers for each miner
          externalTiers,  \* its tier table
          stakeMode, scheduled,
          nativeTiers, nativeUnstakeCooldown,
          nativeStakedAmount, nativeWithdrawableAt, nativeTotalStaked,
          balance         \* botcoinToken.balanceOf(V4)

stakeVars == <<external, externalTiers, stakeMode, scheduled, nativeTiers, nativeUnstakeCooldown,
               nativeStakedAmount, nativeWithdrawableAt, nativeTotalStaked>>

Modes == {"ExternalV3", "NativeV4"}

ASSUME StakeInputAssumption ==
  /\ Amounts \subseteq Nat /\ SwitchModes \subseteq Modes
  /\ MinCooldown \in Nat /\ MaxCooldown \in Nat
  /\ ExternalAnswers \subseteq [staked : Nat, eligible : BOOLEAN]
  /\ ExternalTables \subseteq Seq([threshold : Nat, credits : Nat])

Tiers == [threshold : Nat \ {0}, credits : Nat \ {0}]

\* What _setNativeTiers accepts (MAX_TIERS = 10).
ValidTiers(ts) ==
  /\ ts \in Seq(Tiers) /\ Len(ts) \in 1..10
  /\ \A i \in 2..Len(ts) : ts[i-1].threshold < ts[i].threshold

StakingTypeOK ==
  /\ external \in [Miners -> ExternalAnswers]
  /\ externalTiers \in ExternalTables
  /\ stakeMode \in Modes
  /\ scheduled = NoSwitch \/ scheduled \in [mode : Modes, at : Nat]
  /\ ValidTiers(nativeTiers)
  /\ nativeUnstakeCooldown \in MinCooldown..MaxCooldown
  /\ nativeStakedAmount \in [Miners -> Nat]
  /\ nativeWithdrawableAt \in [Miners -> Nat]
  /\ nativeTotalStaked \in Nat
  /\ balance \in Nat

StakingInit ==
  /\ external \in [Miners -> ExternalAnswers]
  /\ stakeMode = "ExternalV3" /\ scheduled = NoSwitch
  /\ externalTiers \in ExternalTables /\ ValidTiers(externalTiers)
  /\ nativeTiers = externalTiers
  /\ nativeUnstakeCooldown = MinCooldown
  /\ nativeStakedAmount = [m \in Miners |-> 0]
  /\ nativeWithdrawableAt = [m \in Miners |-> 0]
  /\ nativeTotalStaked = 0
  /\ balance = 0

-----------------------------------------------------------------------------
EffectiveStakeMode(e) ==
  IF scheduled # NoSwitch /\ e >= scheduled.at THEN scheduled.mode ELSE stakeMode

\* _creditsFromExternalTiers and _creditsFromNativeTiers: the highest tier
\* whose threshold the balance reaches.
CreditsFromTiers(ts, bal) ==
  LET reached == {i \in DOMAIN ts : bal >= ts[i].threshold}
  IN  IF reached = {} THEN 0 ELSE ts[Max(reached)].credits

\* Mutant: a stake that is being withdrawn still earns.
TierCreditsWhileUnstaking(m, e) ==
  IF EffectiveStakeMode(e) = "ExternalV3"
  THEN IF external[m].eligible THEN CreditsFromTiers(externalTiers, external[m].staked) ELSE 0
  ELSE CreditsFromTiers(nativeTiers, nativeStakedAmount[m])

TierCreditsOfAt(m, e) ==
  IF EffectiveStakeMode(e) = "ExternalV3"
  THEN IF external[m].eligible THEN CreditsFromTiers(externalTiers, external[m].staked) ELSE 0
  ELSE IF nativeWithdrawableAt[m] # 0 THEN 0
       ELSE CreditsFromTiers(nativeTiers, nativeStakedAmount[m])

-----------------------------------------------------------------------------
\* stake(amount): also cancels a pending unstake, and must reach a tier.
Stake(m, amount) ==
  /\ EffectiveStakeMode(epoch) = "NativeV4"
  /\ amount # 0 /\ nativeTotalStaked + amount <= MaxStaked
  /\ CreditsFromTiers(nativeTiers, nativeStakedAmount[m] + amount) # 0
  /\ balance' = balance + amount
  /\ nativeStakedAmount' = [nativeStakedAmount EXCEPT ![m] = @ + amount]
  /\ nativeTotalStaked' = nativeTotalStaked + amount
  /\ nativeWithdrawableAt' = [nativeWithdrawableAt EXCEPT ![m] = 0]
  /\ UNCHANGED <<external, externalTiers, stakeMode, scheduled, nativeTiers, nativeUnstakeCooldown>>

Unstake(m) ==
  /\ nativeStakedAmount[m] # 0
  /\ nativeWithdrawableAt[m] = 0
  /\ nativeWithdrawableAt' = [nativeWithdrawableAt EXCEPT ![m] = now + nativeUnstakeCooldown]
  /\ UNCHANGED <<external, externalTiers, stakeMode, scheduled, nativeTiers, nativeUnstakeCooldown,
                 nativeStakedAmount, nativeTotalStaked, balance>>

CancelUnstake(m) ==
  /\ nativeWithdrawableAt[m] # 0
  /\ nativeWithdrawableAt' = [nativeWithdrawableAt EXCEPT ![m] = 0]
  /\ UNCHANGED <<external, externalTiers, stakeMode, scheduled, nativeTiers, nativeUnstakeCooldown,
                 nativeStakedAmount, nativeTotalStaked, balance>>

Withdraw(m) ==
  /\ nativeWithdrawableAt[m] # 0
  /\ now >= nativeWithdrawableAt[m]
  /\ balance' = balance - nativeStakedAmount[m]
  /\ nativeTotalStaked' = nativeTotalStaked - nativeStakedAmount[m]
  /\ nativeStakedAmount' = [nativeStakedAmount EXCEPT ![m] = 0]
  /\ nativeWithdrawableAt' = [nativeWithdrawableAt EXCEPT ![m] = 0]
  /\ UNCHANGED <<external, externalTiers, stakeMode, scheduled, nativeTiers, nativeUnstakeCooldown>>

\* External: a miner stakes, unstakes or loses eligibility in the V3 contract.
ExternalStakeChange(m, x) ==
  /\ external' = [external EXCEPT ![m] = x]
  /\ UNCHANGED <<externalTiers, stakeMode, scheduled, nativeTiers, nativeUnstakeCooldown,
                 nativeStakedAmount, nativeWithdrawableAt, nativeTotalStaked, balance>>

\* setExternalStakeSource: another contract, with its own table and answers.
SetExternalStakeSource(ts, answers) ==
  /\ ts # << >>
  /\ externalTiers' = ts /\ external' = answers
  /\ UNCHANGED <<stakeMode, scheduled, nativeTiers, nativeUnstakeCooldown,
                 nativeStakedAmount, nativeWithdrawableAt, nativeTotalStaked, balance>>

SetNativeTiers(ts) ==
  /\ ValidTiers(ts)
  /\ nativeTiers' = ts
  /\ UNCHANGED <<external, externalTiers, stakeMode, scheduled, nativeUnstakeCooldown,
                 nativeStakedAmount, nativeWithdrawableAt, nativeTotalStaked, balance>>

SetNativeUnstakeCooldown(c) ==
  /\ c \in MinCooldown..MaxCooldown
  /\ nativeUnstakeCooldown' = c
  /\ UNCHANGED <<external, externalTiers, stakeMode, scheduled, nativeTiers,
                 nativeStakedAmount, nativeWithdrawableAt, nativeTotalStaked, balance>>

\* Overwrites whatever switch was scheduled before.
ScheduleStakeModeSwitch(mode, at) ==
  /\ at > epoch
  /\ mode = "NativeV4" => nativeTiers # << >>
  /\ scheduled' = [mode |-> mode, at |-> at]
  /\ UNCHANGED <<external, externalTiers, stakeMode, nativeTiers, nativeUnstakeCooldown,
                 nativeStakedAmount, nativeWithdrawableAt, nativeTotalStaked, balance>>

FinalizeStakeModeSwitch ==
  /\ scheduled # NoSwitch
  /\ epoch >= scheduled.at
  /\ stakeMode' = scheduled.mode
  /\ scheduled' = NoSwitch
  /\ UNCHANGED <<external, externalTiers, nativeTiers, nativeUnstakeCooldown,
                 nativeStakedAmount, nativeWithdrawableAt, nativeTotalStaked, balance>>

StakeStep ==
  \/ \E m \in Miners, a \in Amounts : Stake(m, a)
  \/ \E m \in Miners : Unstake(m)
  \/ \E m \in Miners : CancelUnstake(m)
  \/ \E m \in Miners : Withdraw(m)
  \/ \E m \in Miners, x \in ExternalAnswers : ExternalStakeChange(m, x)
  \/ \E ts \in ExternalTables, x \in [Miners -> ExternalAnswers] : SetExternalStakeSource(ts, x)
  \/ \E ts \in TierTables : SetNativeTiers(ts)
  \/ \E c \in MinCooldown..MaxCooldown : SetNativeUnstakeCooldown(c)
  \/ \E mode \in SwitchModes, at \in 1..MaxEpoch : ScheduleStakeModeSwitch(mode, at)
  \/ FinalizeStakeModeSwitch

-----------------------------------------------------------------------------
=============================================================================
