------------------------------ MODULE MCStaking ------------------------------
(* Tier tables for the small instances of V4Staking and BotcoinMiningV4. *)
EXTENDS V4Staking

MCTier(t, c) == [threshold |-> t, credits |-> c]
MCTable1 == << MCTier(1, 1), MCTier(2, 3) >>
MCTable2 == << MCTier(2, 1) >>
MCTables == {MCTable1, MCTable2}
MCOneTable == {MCTable1}
MCNoTables == {}
MCAnswers == {[staked |-> 1, eligible |-> TRUE], [staked |-> 2, eligible |-> TRUE]}
MCOneAnswer == {[staked |-> 2, eligible |-> TRUE]}

=============================================================================
