----------------------------- MODULE MCValidator -----------------------------
(***************************************************************************)
(* The validator's own machine, one part at a time: the sync of its state  *)
(* directory ("sync"), the corpora its score replay walks to ("publish"    *)
(* for every kind of change of a corpus, "drain" for the walks) and the    *)
(* setup it starts from ("setup").                                         *)
(***************************************************************************)
EXTENDS MCSync, MCWalk, ValidatorSetup

VARIABLE part

MCValidatorVars == <<part, vars, walkVars, setupVars>>

\* Two launches over one corpus, so that the second can copy the first's.
MCPayloads == <<"corpus", "bundle">>
MCContentOf == [l1 |-> [corpus |-> "c1", bundle |-> "b1"], l2 |-> [corpus |-> "c1", bundle |-> "b2"]]

\* One fault on a long chain, or several on a short one.
SyncBound == reorgs' + crashes' + wipes' <= 1 \/ Len(chain') < MaxBlocks

MCValidatorInit ==
  /\ part \in {"sync", "publish", "drain", "setup"}
  /\ Init /\ WalkInit /\ SetupInit
  /\ part # "publish" => LaunchCorpus.cache = NoCache

MCValidatorNext ==
  /\ UNCHANGED part
  /\ \/ part = "sync" /\ Next /\ SyncBound /\ UNCHANGED <<walkVars, setupVars>>
     \/ /\ \/ part = "publish" /\ \E change \in Changes : Publish(change, "none")
           \/ part = "drain" /\ DrainNext
        /\ UNCHANGED <<vars, setupVars>>
     \/ part = "setup" /\ SetupNext /\ UNCHANGED <<vars, walkVars>>

MCValidatorSpec == MCValidatorInit /\ [][MCValidatorNext]_MCValidatorVars
==============================================================================
