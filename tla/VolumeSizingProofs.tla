------------------------- MODULE VolumeSizingProofs -------------------------
(***************************************************************************)
(* What the size arithmetic guarantees for every resolution and every size.*)
(***************************************************************************)
EXTENDS VolumeSizing, TLAPS

\* Rounding up never goes below the number, nor a whole unit above it.
LEMMA RoundUpBounds ==
    ASSUME NEW n \in Nat, NEW unit \in Nat \ {0}
    PROVE  /\ RoundUp(n, unit) \in Nat
           /\ n <= RoundUp(n, unit)
           /\ RoundUp(n, unit) < n + unit
<1> DEFINE q == (n + unit - 1) \div unit
           r == (n + unit - 1) % unit
<1>1. n + unit - 1 \in Nat
  OBVIOUS
<1>2. q \in Nat /\ r \in 0 .. unit - 1 /\ n + unit - 1 = unit * q + r
  BY <1>1, SMT
<1>3. q * unit = n + unit - 1 - r
  BY <1>2
<1>4. RoundUp(n, unit) = q * unit
  BY DEF RoundUp, CeilDiv
<1> QED
  BY <1>2, <1>3, <1>4

\* A storage system that allocates in single units grants what is asked for.
LEMMA RoundUpToOne ==
    ASSUME NEW n \in Nat
    PROVE  RoundUp(n, 1) = n
BY DEF RoundUp, CeilDiv

\* The target Recover computes lies a resolution step or more above the capacity.
LEMMA RecoverySizeAboveCapacity ==
    ASSUME NEW spec \in Nat, NEW capacity \in Nat
    PROVE  /\ RecoverySize(spec, capacity) \in Nat
           /\ capacity < RecoverySize(spec, capacity)
           /\ capacity + ScalingResolution <= RecoverySize(spec, capacity)
<1> DEFINE inc == Larger(ScalingResolution, (spec - capacity) \div 2)
<1>1. inc \in Nat /\ inc >= ScalingResolution /\ inc > 0
  BY ResolutionAssumption DEF Larger
<1>2. capacity + inc \in Nat
  BY <1>1
<1>3. RecoverySize(spec, capacity) = RoundUp(capacity + inc, ScalingResolution)
  BY DEF RecoverySize
<1> HIDE DEF inc
<1>4. RecoverySize(spec, capacity) \in Nat /\ capacity + inc <= RecoverySize(spec, capacity)
  BY <1>2, <1>3, RoundUpBounds, ResolutionAssumption
<1> QED
  BY <1>1, <1>4, ResolutionAssumption

\* A target recommendResize returns lies above the request, so that resizePVC
\* grows the claim, and not above the maximum.
LEMMA RecommendedSizeBounds ==
    ASSUME NEW spec \in Nat, NEW step \in Nat, NEW minStep \in Nat, NEW max \in Nat,
           RecommendedSize(spec, step, minStep, max) # NoSize
    PROVE  /\ RecommendedSize(spec, step, minStep, max) \in Nat
           /\ spec < RecommendedSize(spec, step, minStep, max)
           /\ RecommendedSize(spec, step, minStep, max) <= max
<1> DEFINE stepped == SteppedSize(spec, step, minStep)
           n == 100 * spec + Larger(spec * step, 100 * minStep)
           d == 100 * ScalingResolution
<1>1. n \in Nat /\ d \in Nat \ {0}
  <2>1. spec * step \in Nat
    OBVIOUS
  <2> QED
    BY <2>1, ResolutionAssumption DEF Larger
<1>2. (n + d - 1) \div d \in Nat
  BY <1>1
<1>3. stepped \in Nat
  <2>1. stepped = ((n + d - 1) \div d) * ScalingResolution
    BY DEF SteppedSize, CeilDiv
  <2> HIDE DEF n, d, stepped
  <2> QED
    BY <2>1, <1>2, ResolutionAssumption
<1> HIDE DEF stepped
<1>4. RecommendedSize(spec, step, minStep, max) =
        IF stepped <= spec THEN NoSize
        ELSE IF stepped <= max THEN stepped
        ELSE IF AtMaxCapacity(spec, max) THEN NoSize
        ELSE max
  BY DEF RecommendedSize, stepped
<1> QED
  BY <1>3, <1>4, ResolutionAssumption DEF AtMaxCapacity, NoSize

\* One step is at least the absolute step and at least the relative step.
LEMMA SteppedSizeBounds ==
    ASSUME NEW spec \in Nat, NEW step \in Nat, NEW minStep \in Nat
    PROVE  /\ SteppedSize(spec, step, minStep) \in Nat
           /\ SteppedSize(spec, step, minStep) >= spec + minStep
           /\ 100 * SteppedSize(spec, step, minStep) >= 100 * spec + spec * step
<1> DEFINE rel == spec * step
           n == 100 * spec + Larger(rel, 100 * minStep)
           d == 100 * ScalingResolution
           stepped == SteppedSize(spec, step, minStep)
           q == (n + d - 1) \div d
<1>1. rel \in Nat /\ d \in Nat \ {0}
  BY ResolutionAssumption
<1> HIDE DEF rel
<1>2. n \in Nat /\ n >= 100 * spec + rel /\ n >= 100 * spec + 100 * minStep
  BY <1>1 DEF Larger
<1>3. stepped = q * ScalingResolution
  BY DEF SteppedSize, CeilDiv, rel
<1> HIDE DEF n
<1>4. q \in Nat /\ q * d >= n
  <2>1. q * d = RoundUp(n, d)
    BY DEF RoundUp, CeilDiv
  <2>2. n + d - 1 \in Nat
    BY <1>1, <1>2
  <2> HIDE DEF d
  <2>3. q \in Nat
    BY <1>1, <2>2
  <2>4. n <= RoundUp(n, d) /\ RoundUp(n, d) \in Nat
    BY <1>1, <1>2, RoundUpBounds
  <2> HIDE DEF q
  <2> QED
    BY <1>2, <2>1, <2>3, <2>4
<1> HIDE DEF q, stepped
<1>5. stepped \in Nat /\ 100 * stepped >= n
  <2>1. q * d = 100 * stepped
    BY <1>3, <1>4, ResolutionAssumption
  <2> QED
    BY <1>3, <1>4, <2>1, ResolutionAssumption
<1> QED
  BY <1>1, <1>2, <1>5 DEF rel, stepped

\* Why MaxCapacityDeviationRatio is 4% while the API admits no stepPercent below
\* 5: after a completed full step, a reading that still shows the old capacity
\* is always recognised as stale.
THEOREM FullStepOutrunsTolerance ==
    ASSUME NEW spec \in Nat \ {0}, NEW step \in Nat, NEW minStep \in Nat,
           step >= 5, minStep >= ScalingResolution
    PROVE  IsStale(SteppedSize(spec, step, minStep), spec)
<1> DEFINE stepped == SteppedSize(spec, step, minStep)
<1>1. /\ stepped \in Nat
      /\ stepped >= spec + minStep
      /\ 100 * stepped >= 100 * spec + spec * step
  BY SteppedSizeBounds, Zenon
<1>2. spec * step >= 5 * spec /\ spec * step \in Nat
  OBVIOUS
<1> HIDE DEF stepped
<1>3. Distance(stepped, spec) = stepped - spec
  BY <1>1, ResolutionAssumption DEF Distance
<1>4. 100 * (stepped - spec) > 4 * stepped
  BY <1>1, <1>2
<1>5. 2 * (stepped - spec) > ScalingResolution
  BY <1>1, ResolutionAssumption
<1> QED
  BY <1>3, <1>4, <1>5 DEF IsStale, stepped

=============================================================================
