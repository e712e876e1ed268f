--------------------------- MODULE CorpusFrontier ---------------------------
(***************************************************************************)
(* The hidden evaluation rows across epochs: the pool the corpus holds     *)
(* (scripts/lib/evolve-corpus.mjs) and the rotating frontier over it       *)
(* (coordinator/epoch-frontier.ts, persisted by coretex-epoch-evolve.mjs). *)
(* One Evolve is one evolve command that reaches its frontier write: a     *)
(* gate that fails before it persists nothing.  Rows are numbered as they  *)
(* are minted; rows of one mint are alike until the frontier orders them,  *)
(* so the seeded order of a mint is taken to be that numbering.            *)
(***************************************************************************)
EXTENDS Naturals, Sequences, FiniteSets, SequencesExt

CONSTANTS
  LaunchAt,        \* the epoch --launch-genesis runs for
  LastRotation,    \* bound: the last epoch evolved
  LaunchRows,      \* hidden rows of the launch corpus
  MinFresh,        \* minFreshEvalHiddenPerEpoch
  MaxFresh,        \* bound: hidden rows one epoch mints
  RetireHorizon,   \* evalHiddenRetireHorizonEpochs
  ActiveWindow, ChurnRate, MinChurn, MaxChurn, MaxAge,  \* profile.epochFrontier
  MaxRootDelta,    \* maxRootDeltaPerEpoch
  FrontierModes    \* the modes of epochFrontier a profile may pin

VARIABLES
  mode,       \* profile.epochFrontier.mode
  rotated,    \* the last epoch evolved; LaunchAt - 1 before the launch
  mint,       \* the epoch each row was minted in (0: a launch row)
  pool,       \* the hidden rows of the corpus
  withdrawn,  \* the rows whose positive document has been retracted
  frontier    \* the persisted frontier state

frontierVars == <<mode, rotated, mint, pool, withdrawn, frontier>>

Rows == 1..(LaunchRows + MaxFresh * (1 + LastRotation - LaunchAt))

Launched == rotated >= LaunchAt

\* Positions of a frontier's order that activateNext may still use.
Unused(f) == {i \in (f.reservePtr + 1)..Len(f.order) :
                f.order[i] \notin DOMAIN f.active \cup f.retired}

\* activateNext(n, epoch): the next n unused rows from the pointer on.
ActivateNext(f, n, e) ==
  LET taken == {i \in Unused(f) : Cardinality({j \in Unused(f) : j <= i}) <= n}
      rows == {f.order[i] : i \in taken}
  IN [f EXCEPT !.active = [r \in DOMAIN @ \cup rows |-> IF r \in rows THEN e ELSE @[r]],
               !.reservePtr = CASE n = 0                   -> @
                                [] Cardinality(taken) = n -> Max(taken)
                                [] OTHER                   -> Len(f.order)]

Retire(f, rows) ==
  [f EXCEPT !.active = Restrict(@, DOMAIN @ \ rows), !.retired = @ \cup rows]

OrderIdx(f, r) == CHOOSE i \in 1..Len(f.order) : f.order[i] = r

\* The n rows retireOldest takes: by activation epoch, then by order.
Oldest(f, n) ==
  {r \in DOMAIN f.active :
     Cardinality({s \in DOMAIN f.active :
        \/ f.active[s] < f.active[r]
        \/ f.active[s] = f.active[r] /\ OrderIdx(f, s) < OrderIdx(f, r)}) < n}

Aged(f, e) == {r \in DOMAIN f.active : e >= f.active[r] + MaxAge}

Smaller(a, b) == IF a < b THEN a ELSE b

Larger(a, b) == IF a < b THEN b ELSE a

Clamped(n) == Smaller(MaxChurn, Larger(MinChurn, n))

\* The churn rates a step may ask for: the mode's rule over whatever accepts
\* and quality attempts the completed epoch reported.
Rates(f) ==
  CASE mode = "C1" -> {ChurnRate}
    [] mode = "C2" -> {ChurnRate, 2 * ChurnRate}
    [] mode = "C4" -> {MinChurn}
    [] mode = "C3" -> IF f.injected = 0 THEN {0} \cup MinChurn..MaxChurn
                      ELSE {Larger(r, Clamped(f.injected)) : r \in {0} \cup MinChurn..MaxChurn}
    [] OTHER       -> {0}

Capped(f, rate) == Smaller(Smaller(rate, MaxRootDelta), Len(f.order) - f.reservePtr)

\* stepEpoch after the first: rows past maxAge and the oldest `rate` retire, and
\* as many are activated.  C0 churns by age alone.
StepEpoch(f, e, rate) ==
  LET aged == Aged(f, e)
      young == Retire(f, aged)
      old == IF mode = "C0" THEN {} ELSE Oldest(young, Capped(young, rate))
  IN [ActivateNext(Retire(young, old), Cardinality(aged \cup old), e) EXCEPT !.injected = 0]

InOrderOfMint(rows) == SetToSortSeq(rows, <)

\* addReserveIds: unseen rows are spliced in at the pointer.
AddReserveIds(f, ids) ==
  LET unseen == ids \ (DOMAIN f.active \cup f.retired \cup Range(f.order))
  IN [f EXCEPT !.order = SubSeq(@, 1, f.reservePtr) \o InOrderOfMint(unseen)
                           \o SubSeq(@, f.reservePtr + 1, Len(@)),
               !.injected = @ + Cardinality(unseen)]

\* Mutant: the reserve keeps the rows the corpus no longer holds.
PruneUsedOnly(f, known) ==
  LET kept == SelectSeq(SubSeq(f.order, 1, f.reservePtr), LAMBDA r : r \in known)
  IN [f EXCEPT !.order = kept \o SubSeq(@, f.reservePtr + 1, Len(@)),
               !.reservePtr = Len(kept),
               !.active = Restrict(@, DOMAIN @ \cap known),
               !.retired = @ \cap known]

\* pruneEpochFrontierState: drops the rows the corpus no longer holds.
PruneFrontier(f, known) ==
  [f EXCEPT !.order = SelectSeq(@, LAMBDA r : r \in known),
            !.reservePtr = @ - Cardinality({i \in 1..@ : f.order[i] \notin known}),
            !.active = Restrict(@, DOMAIN @ \cap known),
            !.retired = @ \cap known]

\* makeLaunchFrontier and stepEpoch(0): the window is filled from the rows of
\* the corpus the launch evolves FROM.
LaunchFrontier(rows) ==
  LET empty == [order |-> InOrderOfMint(rows), reservePtr |-> 0, active |-> <<>>,
                retired |-> {}, injected |-> 0]
  IN ActivateNext(empty, Smaller(ActiveWindow, Cardinality(rows)), 0)

\* excludeRetireIds: the active rows of the persisted frontier state.
Exempt == IF Launched THEN DOMAIN frontier.active ELSE {}

\* The rows evolveCorpusDelta may retire for age at epoch e, given the rows
\* that lost their document: oldest first within what the cap leaves.
Retirable(e, broken) ==
  LET due == {r \in pool \ (broken \cup Exempt) : e >= mint[r] + RetireHorizon}
      left == IF Cardinality(broken) < MaxRootDelta
              THEN MaxRootDelta - Cardinality(broken) ELSE 0
  IN {old \in SUBSET due :
        /\ Cardinality(old) = Smaller(left, Cardinality(due))
        /\ \A r \in old, s \in due \ old : mint[r] <= mint[s]}

\* The cap on how far one epoch may move the active set.  Rows the corpus
\* dropped and rows retired count together; filling the launch window is exempt.
DeltaAllowed(before, after) ==
  Launched => /\ Cardinality(DOMAIN after.active \ DOMAIN before.active) <= MaxRootDelta
              /\ Cardinality(DOMAIN before.active \ DOMAIN after.active) <= MaxRootDelta

FrontierInit ==
  /\ mode \in FrontierModes
  /\ rotated = LaunchAt - 1
  /\ mint = [r \in 1..LaunchRows |-> 0]
  /\ pool = 1..LaunchRows
  /\ withdrawn = {}
  /\ frontier = [order |-> <<>>, reservePtr |-> 0, active |-> <<>>, retired |-> {},
                 injected |-> 0]

\* One epoch: `n` fresh rows, the rows whose document is retracted, the rows
\* retired for age, then the frontier pruned, fed and stepped.
Evolve(n, broken, old, rate) ==
  LET epoch == rotated + 1
      removed == broken \cup old
      fresh == (Cardinality(DOMAIN mint) + 1)..(Cardinality(DOMAIN mint) + n)
      next == (pool \ removed) \cup fresh
      base == IF Launched THEN PruneFrontier(frontier, next) ELSE LaunchFrontier(pool)
      fed == AddReserveIds(base, fresh)
      after == StepEpoch(fed, epoch, rate)
  IN /\ epoch <= LastRotation
     /\ Cardinality(removed) <= MaxRootDelta
     /\ rate \in Rates(fed)
     /\ DeltaAllowed(frontier, after)
     /\ rotated' = epoch
     /\ mint' = [r \in DOMAIN mint \cup fresh |-> IF r \in fresh THEN epoch ELSE mint[r]]
     /\ pool' = next
     /\ withdrawn' = withdrawn \cup broken
     /\ frontier' = after
     /\ UNCHANGED mode

FrontierNext ==
  \E n \in MinFresh..MaxFresh, broken \in SUBSET pool,
     rate \in {0, ChurnRate, 2 * ChurnRate} \cup MinChurn..MaxChurn :
    \E old \in Retirable(rotated + 1, broken) : Evolve(n, broken, old, rate)

FrontierSpec == FrontierInit /\ [][FrontierNext]_frontierVars

-----------------------------------------------------------------------------
\* The frontier is a partition of the hidden rows of the corpus.  The pointer
\* splits the order: every row before it is active or retired and not both, and
\* no row after it is either; pruning, splicing fresh rows in at the pointer and
\* activating past it all have to agree on this, or a row is skipped for good
\* (epoch-frontier.ts:124-131, 221; epoch-rotation.ts:181-185).  The rows are
\* exactly those of the corpus, except that the launch may also hold rows its
\* own delta removed (coretex-epoch-evolve.mjs:255-257).
FrontierIsPool ==
  LET used == {frontier.order[i] : i \in 1..frontier.reservePtr}
      reserve == {frontier.order[i] : i \in (frontier.reservePtr + 1)..Len(frontier.order)}
  IN /\ used = DOMAIN frontier.active \cup frontier.retired
     /\ DOMAIN frontier.active \cap frontier.retired = {}
     /\ used \cap reserve = {}
     /\ Cardinality(used \cup reserve) = Len(frontier.order)
     /\ rotated = LaunchAt => pool \subseteq used \cup reserve
     /\ rotated > LaunchAt => pool = used \cup reserve
=============================================================================
