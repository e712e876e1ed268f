------------------------------ MODULE MCReceipts ------------------------------
(***************************************************************************)
(* Small instances of V4Receipts.  Patch p moves root A to B and q moves B *)
(* back to A, so that a root recurs within an epoch; p2 competes with p.   *)
(* The receipts are those a coordinator could have signed in some state of *)
(* the chain: any of them may be stale when it is submitted.               *)
(*                                                                         *)
(* Two instances in one: both lanes, pauses and caps within one epoch and  *)
(* one registry, and a rollover with two registries and a new policy under *)
(* rival patches.  A behaviour is of one.                                  *)
(***************************************************************************)
EXTENDS V4Receipts, TLC

VARIABLE part

CONSTANTS MaxDifficulty,   \* bound: the largest difficulty snapshot signed
          Windows          \* the <<issuedAt, expiresAt>> pairs signed

MCSymmetry == Permutations(Miners) \cup Permutations(Registries)

MCRoots == {"A", "B"}
MCPatch(name, parent) == [id |-> name, parent |-> parent, delta |-> 1, words |-> 1, ok |-> TRUE]
MCThreePatches == {MCPatch("p", "A"), MCPatch("q", "B"), MCPatch("p2", "A")}

MCPolicy1 == [rules |-> 1, effective |-> 0, screenerBps |-> 10000,
              thresholds |-> <<0, 1>>, bps |-> <<20000, 30000>>]
MCPolicy2 == [MCPolicy1 EXCEPT !.rules = 2, !.effective = 1, !.bps = <<10000, 10000>>]
MCNewPolicies == {MCPolicy2}

MCContexts == [parent : MCRoots, pins : Pins]
MCWindow == {<<1, 2>>}

MCReceipt(o, e, pins, x, d, pol, w, s) ==
  LET adv == o = "StateAdvance" IN
  [epoch |-> e, outcome |-> o, parent |-> x.parent,
   new |-> IF adv /\ x.parent = "A" THEN "B" ELSE IF adv THEN "A" ELSE x.parent,
   pins |-> pins, patch |-> x, bytes |-> IF adv THEN x ELSE NoBytes,
   before |-> 0, after |-> IF adv THEN 1 ELSE 0, words |-> IF adv THEN 1 ELSE 0,
   difficulty |-> d, work |-> WorkUnitsBps(pol, o, d), policy |-> pol,
   issuedAt |-> w[1], expiresAt |-> w[2], signer |-> s]

\* No epoch is priced by a policy that takes effect later.
MCReceiptSet ==
  {r \in {MCReceipt(o, e, pins, x, d, pol, w, s) :
           o \in Outcomes, e \in Epochs, pins \in Pins, x \in Patches, d \in 0..MaxDifficulty,
           pol \in {InitialPolicy} \cup PolicyInputs, w \in Windows, s \in Signers} :
     r.policy.effective <= r.epoch}

\* The bounds of each instance on the next state.
OneEpochBound ==
  /\ epoch' = 0 /\ registry' = registry /\ policies' = policies
  /\ \A e \in Epochs \ {0} : context'[e] = context[e] /\ epochCommit'[e] = epochCommit[e]
  /\ \A r \in Registries \ {registry} : pinnedToV4'[r] = pinnedToV4[r] /\ regPaused'[r] = regPaused[r]
  /\ \A r \in Registries, e \in Epochs : <<r, e>> # <<registry, 0>> => sealed'[r][e] = sealed[r][e]
RolloverBound ==
  /\ now' <= 1 /\ epochSecret' = epochSecret /\ v4Paused' = v4Paused /\ regPaused' = regPaused /\ screenerCap' = screenerCap
  /\ \A e \in Epochs : context'[e] # NoContext => context'[e].parent = "A"
  /\ nextIndex' # nextIndex => totalCredits' # totalCredits
  /\ \A m \in Miners : \A i \in DOMAIN lastReceiptHash'[m] :
       LET x == lastReceiptHash'[m][i].receipt IN
       IsCoreTex(x) /\ x.patch.id # "q" /\ x.difficulty <= 1

MCReceiptsInit == ReceiptsInit /\ part \in {"epoch", "rollover"}
MCReceiptsNext ==
  /\ ReceiptsNext /\ UNCHANGED part
  /\ part = "epoch" => OneEpochBound
  /\ part = "rollover" => RolloverBound
MCReceiptsSpec == MCReceiptsInit /\ [][MCReceiptsNext]_<<receiptVars, part>>
=============================================================================
