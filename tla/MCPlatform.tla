----------------------------- MODULE MCPlatform -----------------------------
(***************************************************************************)
(* Nine parts around the coordinator that share no state with each other:  *)
(* the substrate lane, its live half and its reduction (StateLane), the    *)
(* bonus contract (BonusEpoch), the merge bonus (MergeBonus), the          *)
(* handler's routes (Handler), the reranker's child process                *)
(* (RerankerStream) and the hidden query pack (HiddenPack); and of the     *)
(* epoch boundary the evolve command's files (EpochEvolve), the hidden     *)
(* rows and the frontier it computes (CorpusFrontier) and the thresholds   *)
(* (Difficulty).  A behaviour runs one of them and leaves the others as    *)
(* they start.                                                             *)
(***************************************************************************)
EXTENDS StateLane, BonusEpoch, MergeBonus, Handler, RerankerStream, HiddenPack,
        EpochEvolve, CorpusFrontier, Difficulty

VARIABLE part

epochVars == <<evolveVars, frontierVars, difficultyVars>>
MCPlatformVars ==
  <<part, laneVars, bonusVars, mergeVars, handlerVars, rerankVars, packVars, epochVars>>

\* Patches in every region, of both kinds of refusal and of every tie.
PatchOf(id, type, writes, dup, delta, needs) ==
  [id |-> id, type |-> type, writes |-> writes, dup |-> dup, delta |-> delta, needs |-> needs]
MCPatches ==
  { PatchOf(1, "memory", [w \in {1} |-> "one"], FALSE, 3, 99),
    PatchOf(2, "mixed", [w \in {1, 3} |-> "one"], FALSE, 3, 99),
    PatchOf(3, "policy", [w \in {3} |-> "two"], FALSE, 3, 1),
    PatchOf(4, "policy", [w \in {4} |-> "bad"], FALSE, 4, 99),
    PatchOf(5, "mixed", [w \in {2, 5} |-> "one"], FALSE, 4, 99),
    PatchOf(6, "memory", [w \in {1, 2} |-> "two"], FALSE, 2, 99),
    PatchOf(7, "memory", [w \in {1} |-> "zero"], FALSE, 3, 99),
    PatchOf(8, "mixed", [w \in {0, 2} |-> "one"], FALSE, 4, 99),
    PatchOf(9, "memory", [w \in {2} |-> "two"], TRUE, 4, 99),
    PatchOf(10, "key", [w \in {4} |-> "one"], FALSE, 4, 99),
    PatchOf(11, "memory", [w \in {2} |-> "one"], FALSE, 1, 99) }

\* Equal shares in one epoch, and a miner without any in the other.
MCCredits == [e \in BonusEpochs |->
  IF e = 1 THEN [m \in BonusMiners |-> 1]
  ELSE [m \in BonusMiners |-> IF m = "m1" THEN 2 ELSE IF m = "m2" THEN 1 ELSE 0]]

\* Six miners, one of them with two patches and one with nothing to claim.
MCPasses == {<<1, 1>>, <<1, 2>>} \cup {<<m, 1>> : m \in 2..6}
MCClaimBase == <<7, 0, 9, 7, 8, 6>>

\* Pairs shared between calls and within one.
MCLists == {<<1>>, <<1, 2>>, <<2, 3, 2>>}

\* Rows of two quotas, of another split, of a disabled family, and live rows
\* of one epoch and family that ask the same question.
Hidden(id, family, strata, epoch, intent) ==
  [id |-> id, split |-> "eval_hidden", family |-> family, strata |-> strata,
   epoch |-> epoch, intent |-> intent]
MCRows == <<
  Hidden(1, "near", {"near", "deep"}, 0, "a"), Hidden(2, "near", {"near"}, 0, "b"),
  Hidden(3, "hop", {"hop", "deep"}, 0, "c"), Hidden(4, "hop", {"hop"}, 0, "d"),
  Hidden(5, "off", {"off"}, 0, "e"),
  [Hidden(6, "near", {"near"}, 0, "f") EXCEPT !.split = "train_visible"],
  Hidden(7, "near", {"near"}, 1, "x"), Hidden(8, "near", {"near"}, 1, "x"),
  Hidden(9, "near", {"near"}, 2, "x"), Hidden(10, "near", {"near"}, 1, "none"),
  Hidden(11, "hop", {"hop"}, 1, "x"), Hidden(12, "off", {"off"}, 1, "z")>>
MCQuotas == <<[stratum |-> "deep", minCount |-> 1], [stratum |-> "hop", minCount |-> 1]>>
MCFamilies == <<"hop", "near", "off">>

MCPlatformInit ==
  /\ part \in {"live", "batch", "bonus", "merge", "handler", "reranker", "pack",
              "evolve", "frontier", "difficulty"}
  /\ LaneInit /\ BonusInit /\ MergeInit /\ HandlerInit /\ RerankInit /\ PackInit
  /\ EvolveInit /\ FrontierInit /\ DifficultyInit
  /\ part # "bonus" => chainHash = CHOOSE h \in [Blocks -> Hashes] : TRUE
  /\ part # "frontier" => mode = CHOOSE m \in FrontierModes : TRUE
  /\ part # "difficulty" => /\ baseline = CHOOSE b \in Baselines : TRUE
                            /\ variance = CHOOSE v \in Variances : TRUE
                            /\ noise = CHOOSE n \in Noises : TRUE

MCPlatformNext ==
  /\ UNCHANGED part
  /\ \/ /\ \/ part = "live" /\ \E p \in Patches, parent \in {RootOf(lane), RootOf(Zeroed)} : Arrive(p, parent)
           \/ part = "batch" /\ \E p \in Patches : Collect(p)
        /\ UNCHANGED <<bonusVars, mergeVars, handlerVars, rerankVars, packVars, epochVars>>
     \/ /\ part = "bonus" /\ BonusNext
        /\ UNCHANGED <<laneVars, mergeVars, handlerVars, rerankVars, packVars, epochVars>>
     \/ /\ part = "merge" /\ MergeNext
        /\ UNCHANGED <<laneVars, bonusVars, handlerVars, rerankVars, packVars, epochVars>>
     \/ /\ part = "handler" /\ HandlerNext
        /\ UNCHANGED <<laneVars, bonusVars, mergeVars, rerankVars, packVars, epochVars>>
     \/ /\ part = "reranker" /\ RerankNext
        /\ UNCHANGED <<laneVars, bonusVars, mergeVars, handlerVars, packVars, epochVars>>
     \/ /\ part = "pack" /\ PackNext
        /\ UNCHANGED <<laneVars, bonusVars, mergeVars, handlerVars, rerankVars, epochVars>>
     \/ /\ \/ part = "evolve" /\ EvolveNext /\ UNCHANGED <<frontierVars, difficultyVars>>
           \/ part = "frontier" /\ FrontierNext /\ UNCHANGED <<evolveVars, difficultyVars>>
           \/ part = "difficulty" /\ DifficultyNext /\ UNCHANGED <<evolveVars, frontierVars>>
        /\ UNCHANGED <<laneVars, bonusVars, mergeVars, handlerVars, rerankVars, packVars>>

MCPlatformSpec ==
  /\ MCPlatformInit /\ [][MCPlatformNext]_MCPlatformVars
  /\ WF_difficultyVars(part = "difficulty" /\ RotateIdle)
=============================================================================
