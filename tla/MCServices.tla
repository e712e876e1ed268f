----------------------------- MODULE MCServices -----------------------------
(* The request services, one at a time: a behaviour runs the component that
   `part' names and leaves the other in its initial state.  The scorer runs
   with every job under a fixed live context ("queue"), and with one job
   fewer under one that moves ("verify"). *)
EXTENDS ScorerServer, WorkerPool

VARIABLE part

servicesVars == <<scorerVars, poolVars, part>>

Spare == CHOOSE j \in Jobs : TRUE

ServicesInit == /\ part \in {"queue", "verify", "pool"}
                /\ ScorerInit
                /\ PoolInit

ServicesNext == \/ /\ part \in {"queue", "verify"}
                   /\ ScorerNext
                   /\ part = "queue" => live' = live
                   /\ part = "verify" => phase'[Spare] = "new"
                   /\ UNCHANGED <<poolVars, part>>
                \/ /\ part = "pool"
                   /\ PoolNext
                   /\ UNCHANGED <<scorerVars, part>>

ServicesSpec == ServicesInit /\ [][ServicesNext]_servicesVars /\ ScorerFairness
=============================================================================
