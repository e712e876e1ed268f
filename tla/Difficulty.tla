----------------------------- MODULE Difficulty -----------------------------
(***************************************************************************)
(* The thresholds a patch has to clear, from epoch to epoch and within one *)
(* (rewards/difficulty.ts, rewards/work-units.ts, the threshold step of    *)
(* coretex-epoch-evolve.mjs and the coordinator's live thresholds).  All   *)
(* amounts are parts per million; ratios are exact fractions and a rounded *)
(* product may go either way at a tie, as the floating-point product may.  *)
(***************************************************************************)
EXTENDS Integers

CONSTANTS
  StartPpm,    \* minImprovementPpm of the first epoch
  Target,      \* targetAdvances
  Tolerance,   \* replayTolerancePpm
  Advances, Attempts,             \* what an epoch may report
  Baselines, Variances, Noises,   \* what a baseline evaluation may report
  Probes,                         \* recentProbePassRatePpm values
  MaxBusy      \* bound: epochs before activity stops for good

ASSUME DifficultyAssumption ==
  /\ StartPpm \in Nat /\ Target \in Nat /\ Tolerance \in Nat /\ MaxBusy \in Nat
  /\ Advances \subseteq Nat /\ Attempts \subseteq Nat /\ Baselines \subseteq Nat
  /\ Variances \subseteq Nat /\ Noises \subseteq Nat /\ Probes \subseteq Nat

VARIABLES
  minImprovement,  \* minImprovementPpm of the epoch
  floorPpm,        \* the epoch's published screenerThresholdPpm
  baseline,        \* score of the live root; the coordinator's effective baseline
  variance,        \* currentBaselineVariancePpm
  noise,           \* recentNoiseFloorPpm
  busy             \* epochs of activity still to come

difficultyVars == <<minImprovement, floorPpm, baseline, variance, noise, busy>>

MinPpm == 500

MaxPpm == 150000

Bps == 10000

Scale == 1000000

Least(a, b) == IF a < b THEN a ELSE b

Most(a, b) == IF a < b THEN b ELSE a

CeilDiv(n, d) == (n + d - 1) \div d

ClampPpm(v) == Least(Most(v, MinPpm), MaxPpm)

\* Math.round(n / d), for n >= 0 and d > 0.
Nearest(n, d) == {k \in {n \div d, (n \div d) + 1} :
                    /\ 2 * n - d <= 2 * k * d
                    /\ 2 * k * d <= 2 * n + d}

\* Mutant: an idle epoch leaves the threshold where it is.
RatioNoDrift(advances, attempts) ==
  CASE Target = 0                                    -> <<1, 1>>
    [] advances > Target                             -> IF 2 * advances > 3 * Target
                                                        THEN <<3, 2>> ELSE <<advances, Target>>
    [] advances = 0 /\ attempts >= 4 * Target        -> <<85, 100>>
    [] advances < Target /\ attempts > 0             -> <<95, 100>>
    [] OTHER                                         -> <<1, 1>>

\* The ratio nextMinImprovementPpm applies: ramp up, decay, drift down,
\* under-target recovery or no change, in that order.
Ratio(advances, attempts) ==
  CASE Target = 0                                    -> <<1, 1>>
    [] advances > Target                             -> IF 2 * advances > 3 * Target
                                                        THEN <<3, 2>> ELSE <<advances, Target>>
    [] advances = 0 /\ attempts >= 4 * Target        -> <<85, 100>>
    [] advances = 0 /\ attempts = 0                  -> <<95, 100>>
    [] advances < Target /\ attempts > 0             -> <<95, 100>>
    [] OTHER                                         -> <<1, 1>>

\* nextMinImprovementPpm; a major corpus delta freezes the threshold.
NextMin(advances, attempts, grace) ==
  IF grace THEN {ClampPpm(minImprovement)}
  ELSE LET r == Ratio(advances, attempts)
       IN {ClampPpm(k) : k \in Nearest(minImprovement * r[1], r[2])}

\* computeCoreTexScreenerThresholdPpm under the default policy.  No caller
\* passes plateau evidence, so the headroom is never eased; the probe penalty
\* is two basis points per hundred ppm of probe passes.
ScreenerThreshold(b, n, probe, advance) ==
  LET raw == Most(Most(50, CeilDiv(advance * 5000, Bps)),
                  Most(((Scale - Least(b, Scale)) * 5) \div Bps, (n * 20000) \div Bps))
      penalty == Least(50000, Least(probe, Scale) \div 50)
  IN Least((raw * (Bps + penalty)) \div Bps, Least(MaxPpm, advance))

AdvanceThreshold == minImprovement + Tolerance + variance

LiveScreener == Most(floorPpm, ScreenerThreshold(baseline, noise, 0, AdvanceThreshold))

\* The delta a submission needs at the signer boundary.
Required(outcome) ==
  IF outcome = "state_advance" THEN Most(AdvanceThreshold, LiveScreener) ELSE LiveScreener

DifficultyInit ==
  /\ minImprovement = StartPpm
  /\ baseline \in Baselines /\ variance \in Variances /\ noise \in Noises
  /\ floorPpm = ScreenerThreshold(baseline, noise, 0, AdvanceThreshold)
  /\ busy = MaxBusy

\* The next epoch: its thresholds from what this one observed.
Rotate(advances, attempts, grace, b, v, n) ==
  /\ \E next \in NextMin(advances, attempts, grace) :
       /\ minImprovement' = next
       /\ floorPpm' = ScreenerThreshold(b, n, 0, next + Tolerance + v)
  /\ baseline' = b /\ variance' = v /\ noise' = n

RotateBusy ==
  /\ busy > 0
  /\ busy' = busy - 1
  /\ \E advances \in Advances, attempts \in Attempts, grace \in BOOLEAN, b \in Baselines,
        v \in Variances, n \in Noises :
       Rotate(advances, attempts, grace, b, v, n)

\* An epoch in which nobody submits: no advance, no attempt, no major delta.
RotateIdle ==
  /\ busy = 0
  /\ UNCHANGED busy
  /\ Rotate(0, 0, FALSE, baseline, variance, noise)

\* setRecomputedBaseline and a confirmed advance: the baseline moves with the
\* live root, and the variance with it when the recompute reports one.
Recompute ==
  /\ baseline' \in Baselines /\ variance' \in Variances
  /\ UNCHANGED <<minImprovement, floorPpm, noise, busy>>

DifficultyNext == RotateBusy \/ RotateIdle \/ Recompute

DifficultySpec == DifficultyInit /\ [][DifficultyNext]_difficultyVars

\* Epochs are rotated by the operator's schedule.
DifficultyFairness == WF_difficultyVars(RotateIdle)

-----------------------------------------------------------------------------
\* Type invariant; an epoch's threshold stays within the controller's limits.
DifficultyTypeOK ==
  /\ minImprovement = StartPpm \/ minImprovement \in MinPpm..MaxPpm
  /\ floorPpm \in 0..MaxPpm
  /\ baseline \in Baselines /\ variance \in Variances /\ noise \in Noises
  /\ busy \in 0..MaxBusy

\* Whatever the baseline, the noise and the probe penalty, the screener's
\* threshold stays at or below the state-advance threshold it is computed from,
\* and at or above half of it up to the policy's maximum ("keeps screeners
\* easier than advances while preventing them from becoming cheap credit",
\* work-units.ts:50-51).
ScreenerBetween ==
  \A probe \in Probes :
    LET s == ScreenerThreshold(baseline, noise, probe, AdvanceThreshold)
    IN /\ s <= AdvanceThreshold
       /\ 2 * s >= Least(AdvanceThreshold, 2 * MaxPpm)

\* A delta signed as a state advance would also have been signed as a screener
\* pass, whichever way the live baseline and variance moved since the epoch's
\* thresholds were published (coretex-coordinator-core.ts:1286-1296).
AdvanceClearsScreener == Required("screener_pass") <= Required("state_advance")

\* Once activity stops for good the threshold drifts to its floor: rounding
\* never leaves it stuck above (difficulty.ts:163-166, 181).
QuietReachesFloor == (busy = 0) ~> (minImprovement = MinPpm)

=============================================================================
