------------------------------- MODULE MCMining -------------------------------
(***************************************************************************)
(* Two small instances of the whole contract in one: rewards over three    *)
(* epochs without stakes or CoreTex receipts, and stakes over one epoch    *)
(* change and a whole cooldown, with a token of reward and spare tokens    *)
(* beside them.  A behaviour is of one.                                    *)
(***************************************************************************)
EXTENDS BotcoinMiningV4, MCStaking, TLC

VARIABLE part

MCSymmetry == Permutations(Miners)

MCRoots == {"A", "B"}
MCPatches == {[id |-> "p", parent |-> "A", delta |-> 1, words |-> 1, ok |-> TRUE]}
MCPolicy == [rules |-> 1, effective |-> 0, screenerBps |-> 5000,
             thresholds |-> <<0>>, bps |-> <<20000>>]
MCNoPolicies == {}
MCContexts == [parent : {"A"}, pins : Pins]

\* One state advance from A to B, signed for every epoch.
MCReceiptSet ==
  {[epoch |-> e, outcome |-> "StateAdvance", parent |-> "A", new |-> "B", pins |-> pins,
    patch |-> x, bytes |-> x, before |-> 0, after |-> 1, words |-> 1, difficulty |-> 0,
    work |-> 20000, policy |-> MCPolicy, issuedAt |-> 1, expiresAt |-> 2, signer |-> s] :
      e \in Epochs, pins \in Pins, x \in MCPatches, s \in Signers}

\* The bounds of each instance on the next state.
RewardsBound ==
  /\ now' <= 1 /\ scheduled' = NoSwitch /\ nativeTiers' = nativeTiers
  /\ context' = context
StakingBound ==
  /\ epoch' <= 1 /\ epochSecret' = epochSecret /\ sealed' = sealed
  /\ scheduled' # NoSwitch => scheduled'.at <= 1
  /\ \A e \in 2..MaxEpoch : context'[e] = context[e] /\ epochCommit'[e] = epochCommit[e]
  /\ \A m \in Miners : nextIndex'[m] <= 1
  /\ rewardBalance' <= 1 /\ balance' <= 3

MCMiningInit == Init /\ part \in {"rewards", "staking"}
MCMiningNext ==
  /\ Next /\ UNCHANGED part
  /\ part = "rewards" => RewardsBound
  /\ part = "staking" => StakingBound

MCMiningSpec == MCMiningInit /\ [][MCMiningNext]_<<vars, part>>
=============================================================================
