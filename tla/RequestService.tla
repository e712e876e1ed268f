--------------------------- MODULE RequestService ---------------------------
(***************************************************************************)
(* What a bounded request queue promises its callers.  At most Servers     *)
(* requests run at a time, at most Room wait, requests wait in the order   *)
(* they came, and every request that is refused or answered stays so: it   *)
(* is never run again.  ScorerServer and WorkerPool implement it.          *)
(***************************************************************************)
EXTENDS Integers, Sequences, FiniteSets

CONSTANTS Requests, Servers, Room

VARIABLES waiting,  \* the requests in the queue, oldest first
          running,  \* the requests being served
          settled   \* the requests whose caller has an answer

serviceVars == <<waiting, running, settled>>

\* The requests the service has seen.
Known == {waiting[i] : i \in DOMAIN waiting} \cup running \cup settled

ServiceInit == /\ waiting = <<>>
               /\ running = {}
               /\ settled = {}

\* A request is turned away without being run.
Refuse(r) == /\ r \notin Known
             /\ settled' = settled \cup {r}
             /\ UNCHANGED <<waiting, running>>

\* A request is served at once.
Begin(r) == /\ r \notin Known
            /\ Cardinality(running) < Servers
            /\ running' = running \cup {r}
            /\ UNCHANGED <<waiting, settled>>

\* A request queues up.
Join(r) == /\ r \notin Known
           /\ Len(waiting) < Room
           /\ waiting' = Append(waiting, r)
           /\ UNCHANGED <<running, settled>>

\* A request is answered and its server stays free.
Settle(r) == /\ r \in running
             /\ running' = running \ {r}
             /\ settled' = settled \cup {r}
             /\ UNCHANGED waiting

\* A request is answered and its server takes the oldest waiting request.
SettleAndTakeNext(r) == /\ r \in running
                        /\ waiting # <<>>
                        /\ running' = (running \ {r}) \cup {Head(waiting)}
                        /\ settled' = settled \cup {r}
                        /\ waiting' = Tail(waiting)

ServiceNext == \E r \in Requests : \/ Refuse(r) \/ Begin(r) \/ Join(r)
                                   \/ Settle(r) \/ SettleAndTakeNext(r)

ServiceSpec == ServiceInit /\ [][ServiceNext]_serviceVars
=============================================================================
