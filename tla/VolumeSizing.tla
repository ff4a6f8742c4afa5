---------------------------- MODULE VolumeSizing ----------------------------
(***************************************************************************)
(* The size arithmetic of the autoscaler, as pure operators.  Sizes are    *)
(* natural numbers of a unit that divides ScalingResolutionBytes (1Gi);    *)
(* percentages are natural numbers.  The float64 expressions of the code   *)
(* are written as the exact rational computations they stand for.          *)
(***************************************************************************)
EXTENDS Integers

CONSTANT ScalingResolution   \* common.ScalingResolutionBytes, in units

\* common.go:46-49: the resolution is positive and "guaranteed to be an even number".
ASSUME ResolutionAssumption ==
    /\ ScalingResolution \in Nat \ {0}
    /\ ScalingResolution % 2 = 0

Larger(m, n) == IF m >= n THEN m ELSE n

CeilDiv(n, d) == (n + d - 1) \div d

RoundUp(n, unit) == CeilDiv(n, unit) * unit

(***************************************************************************)
(* recommendResize                                                         *)
(***************************************************************************)
\* The request after one step: the larger of the relative and the absolute
\* step, rounded up to the resolution.
SteppedSize(spec, step, minStep) ==
    CeilDiv(100 * spec + Larger(spec * step, 100 * minStep), 100 * ScalingResolution)
        * ScalingResolution

\* No whole resolution step is left below the maximum.
AtMaxCapacity(spec, max) == max - spec < ScalingResolution

\* No target size: the claim is not to be resized.
NoSize == 0

\* Mutant of RecommendedSize: the step is not clamped to the maximum.
UnclampedSize(spec, step, minStep, max) ==
    LET stepped == SteppedSize(spec, step, minStep)
    IN  IF stepped <= spec \/ AtMaxCapacity(spec, max) THEN NoSize ELSE stepped

\* The target for a claim above its threshold: NoSize when the step does not
\* grow the request or the maximum leaves no headroom, else the step clamped to
\* the maximum.
RecommendedSize(spec, step, minStep, max) ==
    LET stepped == SteppedSize(spec, step, minStep)
    IN  IF stepped <= spec THEN NoSize
        ELSE IF stepped <= max THEN stepped
        ELSE IF AtMaxCapacity(spec, max) THEN NoSize
        ELSE max

(***************************************************************************)
(* Recoverer.Recover                                                       *)
(***************************************************************************)
\* Half of the failed step above the capacity, and at least one resolution step.
RecoverySize(spec, capacity) ==
    RoundUp(capacity + Larger(ScalingResolution, (spec - capacity) \div 2), ScalingResolution)

(***************************************************************************)
(* updateVolumeRecommendationForPVC                                        *)
(***************************************************************************)
Distance(m, n) == IF m >= n THEN m - n ELSE n - m

\* MaxCapacityDeviationRatio is 4%; the tolerance is never below half a resolution.
IsStale(capacity, reported) ==
    LET delta == Distance(capacity, reported)
    IN  100 * delta > 4 * capacity /\ 2 * delta > ScalingResolution

=============================================================================
