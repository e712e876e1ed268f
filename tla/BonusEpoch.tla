----------------------------- MODULE BonusEpoch -----------------------------
(***************************************************************************)
(* contracts/src/BonusEpoch.sol: an epoch is drawn as a bonus epoch from   *)
(* its revealed secret and the hash of a block fixed beforehand; the owner *)
(* funds it in tranches, opens claims, and every miner of the epoch claims *)
(* a share.  The credits of an ended epoch are those of the mining         *)
(* contract and no longer change (EndedEpochClosed of V4Receipts).         *)
(***************************************************************************)
EXTENDS Integers, FiniteSets, Functions

CONSTANTS
  BonusEpochs, BonusMiners,
  BonusCredits,     \* [BonusEpochs -> [BonusMiners -> Nat]], of the mining contract
  Lucky,            \* the block hashes that draw a bonus
  Hashes,           \* the hashes a block can have
  HashWindow,       \* blocks for which blockhash() answers (256)
  BotcoinReserve,   \* whether the reserve is kept in BOTCOIN or in another token
  LastBlock, MaxPool, MaxReserve,   \* bounds on the model
  NoHash

ASSUME BonusAssumption == Lucky \subseteq Hashes /\ NoHash \notin Hashes /\ LastBlock \in Nat
ASSUME CreditAssumption ==
  /\ IsFiniteSet(BonusEpochs) /\ IsFiniteSet(BonusMiners)
  /\ BonusCredits \in [BonusEpochs -> [BonusMiners -> Nat]]

VARIABLES
  height, chainHash,  \* block.number, and the hash of every block
  bonusBlock, bonusHash,            \* epochBonusBlock, epochBonusHash
  bonusReward, bonusClaimsOpen, bonusClaimed,
  rewardBalance, reserve,           \* what the contract owes: the pools, the reserve
  held, paid                        \* its BOTCOIN; what each claim paid

drawVars == <<height, chainHash, bonusBlock, bonusHash>>
poolVars == <<bonusReward, bonusClaimsOpen, bonusClaimed, rewardBalance, reserve, held, paid>>
bonusVars == <<drawVars, poolVars>>

Blocks == 1..LastBlock

EpochCredits(e) == SumFunction(BonusCredits[e])

BonusInit ==
  /\ height = 1
  /\ chainHash \in [Blocks -> Hashes]
  /\ bonusBlock = [e \in BonusEpochs |-> 0]
  /\ bonusHash = [e \in BonusEpochs |-> NoHash]
  /\ bonusReward = [e \in BonusEpochs |-> 0]
  /\ bonusClaimsOpen = [e \in BonusEpochs |-> FALSE]
  /\ bonusClaimed = [e \in BonusEpochs |-> {}]
  /\ rewardBalance = 0 /\ reserve = 0 /\ held = 0
  /\ paid = [e \in BonusEpochs |-> [m \in BonusMiners |-> 0]]

Mine == /\ height < LastBlock /\ height' = height + 1
        /\ UNCHANGED <<chainHash, bonusBlock, bonusHash, poolVars>>

IsBonusEpoch(e) == bonusHash[e] \in Lucky

SetEpochBonusBlock(e, b) ==
  /\ bonusBlock[e] = 0 /\ b > height
  /\ bonusBlock' = [bonusBlock EXCEPT ![e] = b]
  /\ UNCHANGED <<height, chainHash, bonusHash, poolVars>>

\* Anyone, while blockhash() still answers for the target block.
CaptureBonusHash(e) ==
  /\ bonusHash[e] = NoHash /\ bonusBlock[e] # 0
  /\ height > bonusBlock[e] /\ height <= bonusBlock[e] + HashWindow
  /\ bonusHash' = [bonusHash EXCEPT ![e] = chainHash[bonusBlock[e]]]
  /\ UNCHANGED <<height, chainHash, bonusBlock, poolVars>>

\* The operator, once it no longer does: the contract cannot check the hash.
SubmitBonusHash(e, hash) ==
  /\ bonusHash[e] = NoHash /\ bonusBlock[e] # 0
  /\ height > bonusBlock[e] + HashWindow
  /\ bonusHash' = [bonusHash EXCEPT ![e] = hash]
  /\ UNCHANGED <<height, chainHash, bonusBlock, poolVars>>

FundBonusEpoch(e, amount) ==
  /\ IsBonusEpoch(e) /\ ~bonusClaimsOpen[e] /\ rewardBalance + amount <= MaxPool
  /\ bonusReward' = [bonusReward EXCEPT ![e] = @ + amount]
  /\ rewardBalance' = rewardBalance + amount /\ held' = held + amount
  /\ UNCHANGED <<drawVars, bonusClaimsOpen, bonusClaimed, reserve, paid>>

OpenBonusClaims(e) ==
  /\ IsBonusEpoch(e) /\ bonusReward[e] # 0 /\ ~bonusClaimsOpen[e]
  /\ bonusClaimsOpen' = [bonusClaimsOpen EXCEPT ![e] = TRUE]
  /\ UNCHANGED <<drawVars, bonusReward, bonusClaimed, rewardBalance, reserve, held, paid>>

\* Mutant: shares are rounded up.
ShareRoundedUp(e, m) ==
  (bonusReward[e] * BonusCredits[e][m] + EpochCredits(e) - 1) \div EpochCredits(e)

Share(e, m) == (bonusReward[e] * BonusCredits[e][m]) \div EpochCredits(e)

\* One call claims a set of epochs: a single payment at the end, and nothing at
\* all when one of them cannot be claimed.
ClaimBonus(m, epochs) ==
  /\ \A e \in epochs : bonusClaimsOpen[e] /\ m \notin bonusClaimed[e] /\ BonusCredits[e][m] # 0
  /\ LET payout == SumFunction([e \in epochs |-> Share(e, m)])
     IN /\ payout <= rewardBalance /\ payout <= held
        /\ rewardBalance' = rewardBalance - payout
        /\ held' = held - payout
  /\ bonusClaimed' = [e \in BonusEpochs |-> bonusClaimed[e] \cup (IF e \in epochs THEN {m} ELSE {})]
  /\ paid' = [e \in BonusEpochs |->
                IF e \in epochs THEN [paid[e] EXCEPT ![m] = Share(e, m)] ELSE paid[e]]
  /\ UNCHANGED <<drawVars, bonusReward, bonusClaimsOpen, reserve>>

\* depositReserve and withdrawReserve name any token, BOTCOIN among them.
InBotcoin(amount) == IF BotcoinReserve THEN amount ELSE 0

DepositReserve(amount) ==
  /\ reserve + amount <= MaxReserve
  /\ reserve' = reserve + amount /\ held' = held + InBotcoin(amount)
  /\ UNCHANGED <<drawVars, bonusReward, bonusClaimsOpen, bonusClaimed, rewardBalance, paid>>

WithdrawReserve(amount) ==
  /\ amount <= reserve /\ InBotcoin(amount) <= held
  /\ reserve' = reserve - amount /\ held' = held - InBotcoin(amount)
  /\ UNCHANGED <<drawVars, bonusReward, bonusClaimsOpen, bonusClaimed, rewardBalance, paid>>

\* BOTCOIN sent to the contract directly.
Transfer ==
  /\ held = rewardBalance + InBotcoin(reserve) /\ held' = held + 1
  /\ UNCHANGED <<drawVars, bonusReward, bonusClaimsOpen, bonusClaimed, rewardBalance, reserve, paid>>

\* Everything above rewardBalance, a reserve of BOTCOIN included.
SweepDust ==
  /\ held > rewardBalance
  /\ held' = rewardBalance
  /\ UNCHANGED <<drawVars, bonusReward, bonusClaimsOpen, bonusClaimed, rewardBalance, reserve, paid>>

BonusNext ==
  \/ Mine
  \/ \E e \in BonusEpochs :
       \/ \E b \in Blocks : SetEpochBonusBlock(e, b)
       \/ CaptureBonusHash(e)
       \/ \E hash \in Hashes : SubmitBonusHash(e, hash)
       \/ \E amount \in 1..MaxPool : FundBonusEpoch(e, amount)
       \/ OpenBonusClaims(e)
  \/ \E m \in BonusMiners, epochs \in SUBSET BonusEpochs \ {{}} : ClaimBonus(m, epochs)
  \/ \E amount \in 1..MaxReserve : DepositReserve(amount) \/ WithdrawReserve(amount)
  \/ Transfer
  \/ SweepDust

BonusSpec == BonusInit /\ [][BonusNext]_bonusVars

-----------------------------------------------------------------------------

\* Type invariant; no balance is below zero.
BonusTypeOK ==
  /\ height \in Blocks /\ chainHash \in [Blocks -> Hashes]
  /\ bonusBlock \in [BonusEpochs -> 0..LastBlock]
  /\ bonusHash \in [BonusEpochs -> Hashes \cup {NoHash}]
  /\ bonusReward \in [BonusEpochs -> 0..MaxPool * Cardinality(BonusEpochs)]
  /\ bonusClaimsOpen \in [BonusEpochs -> BOOLEAN]
  /\ bonusClaimed \in [BonusEpochs -> SUBSET BonusMiners]
  /\ rewardBalance \in 0..MaxPool /\ reserve \in 0..MaxReserve /\ held \in Nat
  /\ paid \in [BonusEpochs -> [BonusMiners -> Nat]]

\* What an epoch still owes: its pool until claims open, then the shares of the
\* miners who have not claimed.
Unpaid(e) == {m \in BonusMiners : m \notin bonusClaimed[e] /\ BonusCredits[e][m] # 0}
Owed(e) ==
  IF bonusClaimsOpen[e] THEN SumFunction([m \in Unpaid(e) |-> Share(e, m)]) ELSE bonusReward[e]

\* What a claim was paid is the share of the pool that every other claim of the
\* epoch divides: neither a late tranche nor a second claim changes it
\* (claimBonus, fundBonusEpoch).
PaidIsShare ==
  \A e \in BonusEpochs : \A m \in bonusClaimed[e] : paid[e][m] = Share(e, m)

\* The pools of all epochs share one balance: whatever was funded, claimed,
\* withdrawn from the reserve or swept as dust, every share still to be
\* claimed, in every epoch, is covered by rewardBalance and by tokens held; and
\* what was paid is its share.
BonusCovered ==
  /\ SumFunction([e \in BonusEpochs |-> Owed(e)]) <= rewardBalance
  /\ rewardBalance <= held
  /\ PaidIsShare

\* An epoch that anyone captured in time was drawn by the hash of a block that
\* had not been produced when it was chosen, and never loses that hash.
DrawIsFixed ==
  [][\A e \in BonusEpochs :
       /\ bonusBlock[e] # 0 => bonusBlock'[e] = bonusBlock[e]
       /\ bonusHash[e] # NoHash => bonusHash'[e] = bonusHash[e]
       /\ bonusBlock[e] = 0 /\ bonusBlock'[e] # 0 => height < bonusBlock'[e]
       /\ bonusClaimsOpen'[e] => bonusHash[e] \in Lucky]_bonusVars
=============================================================================
