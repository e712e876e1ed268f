------------------------------- MODULE Handler -------------------------------
(***************************************************************************)
(* packages/coretex-handler: the /internal routes that the mining          *)
(* coordinator mounts.  A sign route reads the miner's receipt cursor,     *)
(* refuses a request that does not continue it, and then awaits the        *)
(* signer; the outstanding-challenge routes keep one row per miner, with   *)
(* an expiry, in a store that outlives the process.  The route shim that   *)
(* calls them is external: its clear for a challenge may arrive late.      *)
(***************************************************************************)
EXTENDS Naturals

CONSTANTS
  HandlerMiners, Requests, Challenges,
  LastSecond, MaxLinks,      \* bounds on the model
  NoChallenge

ASSUME HandlerAssumption == LastSecond \in Nat /\ MaxLinks \in Nat /\ HandlerMiners # {}

VARIABLES
  clock,        \* seconds
  row,          \* outstanding_challenges: [challenge, expires] of each miner
  issued,       \* the challenges set so far
  clears,       \* the clears the shim has sent: <<miner, challenge submitted>>
  submitted,    \* the challenges submitted
  cursor,       \* solveIndex of each miner on the chain
  signing       \* the requests the sign routes have let through: [miner, index, state]

handlerVars == <<clock, row, issued, clears, submitted, cursor, signing>>

Row == [challenge : Challenges \cup {NoChallenge}, expires : 0..LastSecond]
EmptyRow == [challenge |-> NoChallenge, expires |-> 0]
Idle == [miner |-> CHOOSE m \in HandlerMiners : TRUE, index |-> 0, state |-> "idle"]

HandlerInit ==
  /\ clock = 0
  /\ row = [m \in HandlerMiners |-> EmptyRow]
  /\ issued = {} /\ clears = {} /\ submitted = {}
  /\ cursor = [m \in HandlerMiners |-> 0]
  /\ signing = [r \in Requests |-> Idle]

HandlerTick == /\ clock < LastSecond /\ clock' = clock + 1
               /\ UNCHANGED <<row, issued, clears, submitted, cursor, signing>>

\* clearExpired deletes the rows of every miner that expired before this second.
ClearExpired == [m \in HandlerMiners |-> IF row[m].expires < clock THEN EmptyRow ELSE row[m]]

\* POST /internal/outstanding-challenge/set: 409 while the miner has a row.
SetOutstanding(m, challenge, expires) ==
  /\ expires > clock /\ challenge \notin issued
  /\ ClearExpired[m] = EmptyRow
  /\ row' = [ClearExpired EXCEPT ![m] = [challenge |-> challenge, expires |-> expires]]
  /\ issued' = issued \cup {challenge}
  /\ UNCHANGED <<clock, clears, submitted, cursor, signing>>

\* A set that is refused, or GET /internal/outstanding-challenge: what expired goes.
GetOutstanding ==
  /\ row' = ClearExpired
  /\ UNCHANGED <<clock, issued, clears, submitted, cursor, signing>>

\* The miner submits; the shim sends the clear.
Submitted(m) ==
  /\ row[m].challenge \notin submitted \cup {NoChallenge}
  /\ submitted' = submitted \cup {row[m].challenge}
  /\ clears' = clears \cup {<<m, row[m].challenge>>}
  /\ UNCHANGED <<clock, row, issued, cursor, signing>>

\* POST /internal/outstanding-challenge/clear names the miner only: whatever
\* row the miner has by now is deleted.
ClearOutstanding(m, challenge) ==
  /\ <<m, challenge>> \in clears
  /\ clears' = clears \ {<<m, challenge>>}
  /\ row' = [row EXCEPT ![m] = EmptyRow]
  /\ UNCHANGED <<clock, issued, submitted, cursor, signing>>

\* Mutant: any index is let through to the signer.
LetThroughAny(r, m, index) ==
  /\ signing[r].state = "idle"
  /\ signing' = [signing EXCEPT ![r] = [miner |-> m, index |-> index, state |-> "signing"]]
  /\ UNCHANGED <<clock, row, issued, clears, submitted, cursor>>

\* POST /internal/sign-cortex-receipt and sign-coretex-work-receipt, up to the
\* await of the signer: 409 unless the request continues the miner's cursor.
LetThrough(r, m, index) ==
  /\ signing[r].state = "idle"
  /\ index = cursor[m]
  /\ signing' = [signing EXCEPT ![r] = [miner |-> m, index |-> index, state |-> "signing"]]
  /\ UNCHANGED <<clock, row, issued, clears, submitted, cursor>>

\* The signer answers, or throws: 500.
SignerReturns(r, state) ==
  /\ signing[r].state = "signing"
  /\ signing' = [signing EXCEPT ![r].state = state]
  /\ UNCHANGED <<clock, row, issued, clears, submitted, cursor>>

\* A signed receipt is mined if it continues the chain.
Land(r) ==
  /\ signing[r].state = "signed" /\ cursor[signing[r].miner] = signing[r].index
  /\ cursor[signing[r].miner] < MaxLinks
  /\ cursor' = [cursor EXCEPT ![signing[r].miner] = @ + 1]
  /\ signing' = [signing EXCEPT ![r].state = "landed"]
  /\ UNCHANGED <<clock, row, issued, clears, submitted>>

HandlerNext ==
  \/ HandlerTick
  \/ GetOutstanding
  \/ \E m \in HandlerMiners :
       \/ \E challenge \in Challenges :
            \/ \E expires \in 0..LastSecond : SetOutstanding(m, challenge, expires)
            \/ ClearOutstanding(m, challenge)
       \/ Submitted(m)
       \/ \E r \in Requests, index \in 0..MaxLinks : LetThrough(r, m, index)
  \/ \E r \in Requests :
       \/ SignerReturns(r, "signed") \/ SignerReturns(r, "failed")
       \/ Land(r)

HandlerSpec == HandlerInit /\ [][HandlerNext]_handlerVars

-----------------------------------------------------------------------------
\* Type invariant; an expiry is a time the caller asked for.
HandlerTypeOK ==
  /\ clock \in 0..LastSecond /\ row \in [HandlerMiners -> Row]
  /\ issued \subseteq Challenges /\ submitted \subseteq issued
  /\ clears \subseteq HandlerMiners \X submitted
  /\ cursor \in [HandlerMiners -> 0..MaxLinks]
  /\ signing \in [Requests -> [miner : HandlerMiners, index : 0..MaxLinks,
                              state : {"idle", "signing", "signed", "failed", "landed"}]]

\* A challenge that has not expired stays the miner's outstanding one until a
\* clear for that miner arrives: no set replaces it, no read or expiry of
\* another miner's row removes it.
KeptUntilCleared ==
  [][\A m \in HandlerMiners :
       row[m] # EmptyRow /\ row[m].expires >= clock /\ row'[m] # row[m]
         => row'[m] = EmptyRow /\ \E c \in clears \ clears' : c[1] = m]_handlerVars

\* Whatever requests of a miner interleave around the awaits of the sign
\* routes, none carries an index the chain has not reached, and the receipts
\* that land are one per index.
SignedBehindCursor ==
  \A r \in Requests :
    /\ signing[r].state \in {"signing", "signed"} => signing[r].index <= cursor[signing[r].miner]
    /\ signing[r].state = "landed" =>
         /\ signing[r].index < cursor[signing[r].miner]
         /\ \A q \in Requests \ {r} :
              signing[q].state = "landed" /\ signing[q].miner = signing[r].miner
                => signing[q].index # signing[r].index
=============================================================================
