----------------------------- MODULE HiddenPack -----------------------------
(***************************************************************************)
(* The hidden query pack of an evaluation (eval/hidden-query-pack.ts): the *)
(* quotas are reserved first, the rest is filled by free sampling, and the *)
(* newest active live rows are then laid over the pack.                    *)
(*                                                                         *)
(* The index a draw takes from keccak(seed, epoch, label, j) is any index. *)
(* A row has an id, its split, the logical family, the strata it is in,    *)
(* the epoch of its id (0 for a row that is not live) and the public       *)
(* question it asks, or "none".                                            *)
(***************************************************************************)
EXTENDS Naturals, Sequences, FiniteSets, SequencesExt

CONSTANTS
  CorpusRows,      \* the rows, in the order of their ids
  DisabledFamilies,
  FamilyOrder,     \* the families by priority, then by name
  Quotas,          \* a sequence of [stratum, minCount]
  PackSize, LiveLimit,
  MaxDraws         \* draws per loop (8 * sorted.length in the code)

VARIABLES
  phase,        \* what the derivation is at
  quota,        \* the quota being reserved
  draws,        \* the draws of the running loop
  pack,
  base,         \* the pack before the overlay
  activeRows,   \* the active frontier the overlay is given
  liveRows      \* the live rows it is offered, in order

packVars == <<phase, quota, draws, pack, base, activeRows, liveRows>>

AllRows == ToSet(CorpusRows)
Phases == {"quotas", "fill", "overlay", "done", "failed"}

PackInit ==
  /\ phase = "quotas" /\ quota = 1 /\ draws = 0 /\ pack = <<>> /\ base = <<>>
  /\ activeRows = {} /\ liveRows = <<>>
-----------------------------------------------------------------------------
(***************************************************************************)
(* deriveQueryPack.                                                        *)
(***************************************************************************)
HiddenPackEventEligible(e) == e.split = "eval_hidden" /\ e.family \notin DisabledFamilies
Satisfying(events, stratum) == Len(SelectSeq(events, LAMBDA e : stratum \in e.strata))
QuotasSatisfied(events) ==
  \A q \in ToSet(Quotas) : Satisfying(events, q.stratum) >= q.minCount

\* The loop that reserves quota q goes on.
Short(q) == Satisfying(pack, Quotas[q].stratum) < Quotas[q].minCount

\* Mutant: every draw for a quota counts, whether or not it is in the stratum.
ReserveAny(e) ==
  /\ phase = "quotas" /\ quota <= Len(Quotas) /\ Short(quota) /\ draws < MaxDraws
  /\ HiddenPackEventEligible(e)
  /\ ~(Len(pack) >= PackSize)
  /\ pack' = Append(pack, e)
  /\ draws' = draws + 1
  /\ UNCHANGED <<phase, quota, base, activeRows, liveRows>>

\* A draw for a quota: a row twice, or outside of the stratum, is passed over.
Reserve(e) ==
  /\ phase = "quotas" /\ quota <= Len(Quotas) /\ Short(quota) /\ draws < MaxDraws
  /\ HiddenPackEventEligible(e)
  /\ LET fits == e \notin ToSet(pack) /\ Quotas[quota].stratum \in e.strata IN
     /\ ~(fits /\ Len(pack) >= PackSize)
     /\ pack' = IF fits THEN Append(pack, e) ELSE pack
  /\ draws' = draws + 1
  /\ UNCHANGED <<phase, quota, base, activeRows, liveRows>>

\* The loop ends: the quota is met, or the draws or the slots ran out.
Reserved ==
  /\ phase = "quotas" /\ quota <= Len(Quotas)
  /\ ~Short(quota) \/ draws = MaxDraws \/ Len(pack) >= PackSize
  /\ IF Short(quota) THEN phase' = "failed" /\ UNCHANGED quota ELSE quota' = quota + 1 /\ UNCHANGED phase
  /\ draws' = 0
  /\ UNCHANGED <<pack, base, activeRows, liveRows>>

AllReserved ==
  /\ phase = "quotas" /\ quota > Len(Quotas)
  /\ phase' = "fill"
  /\ UNCHANGED <<quota, draws, pack, base, activeRows, liveRows>>

Fill(e) ==
  /\ phase = "fill" /\ Len(pack) < PackSize /\ draws < MaxDraws
  /\ HiddenPackEventEligible(e)
  /\ pack' = IF e \in ToSet(pack) THEN pack ELSE Append(pack, e)
  /\ draws' = draws + 1
  /\ UNCHANGED <<phase, quota, base, activeRows, liveRows>>

Derived ==
  /\ phase = "fill" /\ (Len(pack) = PackSize \/ draws = MaxDraws)
  /\ phase' = IF Len(pack) = PackSize THEN "overlay" ELSE "failed"
  /\ draws' = 0 /\ base' = pack
  /\ UNCHANGED <<quota, pack, activeRows, liveRows>>
-----------------------------------------------------------------------------
(***************************************************************************)
(* admitActiveLiveEvalEvents.                                              *)
(***************************************************************************)
IsActiveLiveEval(e, active) == e \in active /\ e.epoch > 0 /\ HiddenPackEventEligible(e)

\* The rows a family offers, the newest epoch first.
Offered(f, active) ==
  LET fresh == SelectSeq(CorpusRows, LAMBDA e :
        /\ IsActiveLiveEval(e, active) /\ e.family = f /\ e \notin ToSet(pack)) IN
  SortSeq(fresh, LAMBDA a, b : a.epoch > b.epoch)

\* stablePublicIntentKey, which holds the family and the epoch too.
IntentKey(e) == <<e.family, e.epoch, e.intent>>
Keys(e) == IF e.intent = "none" THEN {} ELSE {IntentKey(e)}

\* takeUnique: the first row of a new public intent; the ones before it wait.
TakeUnique(s, f) ==
  LET usable == {i \in DOMAIN s.rows[f] : Keys(s.rows[f][i]) \cap s.used = {}}
      first == IF usable = {} THEN Len(s.rows[f]) + 1 ELSE CHOOSE i \in usable : \A j \in usable : i <= j
      left == [s EXCEPT !.rows[f] = SubSeq(@, first + 1, Len(@)),
                        !.deferred[f] = @ \o SubSeq(s.rows[f], 1, first - 1)] IN
  IF usable = {} THEN left
  ELSE [left EXCEPT !.live = Append(@, s.rows[f][first]), !.used = @ \cup Keys(s.rows[f][first])]

TakeDeferred(s, f) ==
  IF s.deferred[f] # <<>> THEN [s EXCEPT !.live = Append(@, Head(s.deferred[f])), !.deferred[f] = Tail(@)]
  ELSE IF s.rows[f] # <<>> THEN [s EXCEPT !.live = Append(@, Head(s.rows[f])), !.rows[f] = Tail(@)]
  ELSE s

\* The families take turns while the limit and somebody's rows allow it.
RECURSIVE TakeTurns(_, _)
TakeTurns(s, deferred) ==
  LET turn(acc, f) == IF Len(acc.live) >= LiveLimit THEN acc
                      ELSE IF deferred THEN TakeDeferred(acc, f) ELSE TakeUnique(acc, f)
      after == FoldLeft(turn, s, FamilyOrder) IN
  IF Len(after.live) = Len(s.live) THEN after ELSE TakeTurns(after, deferred)

Live(active) ==
  LET start == [rows |-> [f \in ToSet(FamilyOrder) |-> Offered(f, active)],
                deferred |-> [f \in ToSet(FamilyOrder) |-> <<>>], used |-> {}, live |-> <<>>] IN
  TakeTurns(TakeTurns(start, FALSE), TRUE).live

\* quotaSafeLiveOverlay, one candidate: it replaces the last row that is not
\* live and that the quotas can spare.
PutOver(active, events, e) ==
  LET without(i) == <<e>> \o SubSeq(events, 1, i - 1) \o SubSeq(events, i + 1, Len(events))
      spare == {i \in DOMAIN events : ~IsActiveLiveEval(events[i], active) /\ QuotasSatisfied(without(i))} IN
  IF spare = {} THEN events ELSE without(CHOOSE i \in spare : \A j \in spare : j <= i)

Overlay(active, live) ==
  IF Quotas = <<>> THEN SubSeq(live \o pack, 1, PackSize)
  ELSE FoldLeft(LAMBDA events, e : PutOver(active, events, e), pack, live)

AdmitActiveLiveEvalEvents(active) ==
  /\ phase = "overlay"
  /\ activeRows' = active
  /\ liveRows' = Live(active)
  /\ pack' = Overlay(active, Live(active))
  /\ phase' = "done"
  /\ UNCHANGED <<quota, draws, base>>

PackNext ==
  \/ \E e \in AllRows : Reserve(e) \/ Fill(e)
  \/ Reserved \/ AllReserved \/ Derived
  \/ \E active \in SUBSET {e \in AllRows : e.epoch > 0} : AdmitActiveLiveEvalEvents(active)

PackSpec == PackInit /\ [][PackNext]_packVars
-----------------------------------------------------------------------------
(***************************************************************************)
(* Properties.                                                             *)
(***************************************************************************)
\* A pack that is scored has exactly packSize different rows, all of the
\* hidden split and of enabled families, and meets every quota: neither a row
\* that counts for two quotas nor the overlay leaves one short.  The overlay
\* only gives up rows that are not live: an active live row the sampling had
\* drawn stays, and what it admits is live.
PackExact ==
  phase \in {"overlay", "done"} =>
    /\ Len(pack) = PackSize /\ IsInjective(pack)
    /\ \A e \in ToSet(pack) : HiddenPackEventEligible(e)
    /\ QuotasSatisfied(pack)
    /\ phase = "done" => \A e \in ToSet(base) : IsActiveLiveEval(e, activeRows) => e \in ToSet(pack)
    /\ phase = "done" => \A e \in ToSet(pack) \ ToSet(base) : e \in ToSet(liveRows)
=============================================================================
