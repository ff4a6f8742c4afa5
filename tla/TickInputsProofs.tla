-------------------------- MODULE TickInputsProofs --------------------------
(***************************************************************************)
(* What a tick may rely on in its inputs, for every set of claims, Pods    *)
(* and workloads, every order of queries, scrapes and changes of Pods, and *)
(* every number of failing calls.                                          *)
(***************************************************************************)
EXTENDS TickInputs, VolumeSizingProofs

-----------------------------------------------------------------------------
(***************************************************************************)
(* Types                                                                   *)
(***************************************************************************)
\* The two capacities of a volume, and what is stored on it.
LEMMA SizesOrdered ==
    /\ InitSize \in Nat \ {0} /\ GrownSize \in Nat \ {0} /\ InitSize < GrownSize
    /\ \A c \in Claims : Usage[c].bytes \in 0..InitSize /\ Usage[c].inodes \in 0..InitSize
BY InputsAssumption

\* What a query returns for a volume that has a sample is not negative, and never
\* more than the volume can hold.
LEMMA SampledType ==
    ASSUME TypeOK, NEW c \in Claims, sample[c] # 0, NEW q \in Queries
    PROVE  /\ Sampled(c, q) \in 0..GrownSize
           /\ q = "capacityBytes" => Sampled(c, q) = sample[c]
           /\ q = "availableBytes" => Sampled(c, q) = sample[c] - Usage[c].bytes
<1>1. sample[c] \in Nat /\ InitSize <= sample[c] /\ sample[c] <= GrownSize
  BY SizesOrdered DEF TypeOK, Sizes
<1>2. Usage[c].bytes \in 0..InitSize /\ Usage[c].inodes \in 0..InitSize
  BY SizesOrdered
<1> QED
  BY <1>1, <1>2, SizesOrdered DEF Sampled, Queries

\* The claims of the target and of Pods are claims.
LEMMA MountedType ==
    ASSUME NEW ks \in SUBSET Pods
    PROVE  Mounted(ks) \subseteq Claims
BY InputsAssumption DEF Mounted

LEMMA TargetClaimsType ==
    ASSUME TypeOK, NEW ks \in SUBSET Pods
    PROVE  TargetClaims(ks) \subseteq Claims
<1>1. CASE targetRef \in Workloads
  BY <1>1, MountedType, Zenon DEF TargetClaims
<1>2. CASE targetRef \notin Workloads
  BY <1>2, InputsAssumption DEF TypeOK, TargetClaims
<1> QED
  BY <1>1, <1>2

\* A quotient is largest for the largest dividend and the smallest divisor.
LEMMA QuotientBound ==
    ASSUME NEW a \in Nat, NEW b \in Nat \ {0}, NEW n \in Nat, NEW d \in Nat \ {0}, a <= n, d <= b
    PROVE  a \div b \in Nat /\ a \div b <= n \div d
<1> DEFINE q == a \div b
           m == n \div d
<1>1. q \in Nat /\ b * q <= a
  OBVIOUS
<1>2. m \in Nat /\ n < d * (m + 1)
  OBVIOUS
<1> HIDE DEF q, m
<1>3. ASSUME q >= m + 1 PROVE FALSE
  <2>1. d * (m + 1) <= d * q
    BY <1>1, <1>2, <1>3
  <2>2. d * q <= b * q
    BY <1>1
  <2>3. d * (m + 1) \in Nat /\ d * q \in Nat /\ b * q \in Nat
    BY <1>1, <1>2
  <2> QED
    BY <1>1, <1>2, <2>1, <2>2, <2>3
<1>4. q <= m
  BY <1>1, <1>2, <1>3
<1> QED
  BY <1>1, <1>4 DEF q, m

\* A percentage computed from what queries return is in range, whichever scrapes they see.
LEMMA UsedPercentageType ==
    ASSUME NEW available \in 0..GrownSize, NEW capacity \in Sizes
    PROVE  UsedPercentage(available, capacity) \in Percentages
<1> DEFINE q == (100 * available) \div capacity
           m == (100 * GrownSize) \div InitSize
<1>1. /\ InitSize \in Nat \ {0} /\ GrownSize \in Nat \ {0} /\ available \in Nat
      /\ capacity \in Nat \ {0} /\ InitSize <= capacity /\ available <= GrownSize
  BY SizesOrdered DEF Sizes
<1>2. 100 * available \in Nat /\ 100 * GrownSize \in Nat /\ 100 * available <= 100 * GrownSize
  BY <1>1
<1>3. q \in Nat /\ q <= m
  BY <1>1, <1>2, QuotientBound, Zenon
<1>4. m \in Int
  BY <1>1, <1>2
<1>5. UsedPercentage(available, capacity) = 100 - q /\ Percentages = (100 - m)..100
  BY DEF UsedPercentage, Percentages
<1> HIDE DEF q, m
<1> QED
  BY <1>3, <1>4, <1>5

\* So is the reading of a claim for which there is an error.
LEMMA NoReadingType == NoReading \in Readings
<1>1. UsedPercentage(GrownSize, GrownSize) \in Percentages
  BY UsedPercentageType, SizesOrdered DEF Sizes
<1>2. (100 * GrownSize) \div GrownSize = 100
  BY SizesOrdered
<1>3. 0 \in Percentages
  BY <1>1, <1>2 DEF UsedPercentage
<1> QED
  BY <1>3 DEF NoReading, Readings

\* A claim has a reading or an error, both in range.
LEMMA EvaluatedType ==
    ASSUME TypeOK, NEW c \in Claims
    PROVE  Evaluated(c) \in Readings
<1> DEFINE vi == info[c]
<1>1. /\ vi["availableBytes"] \in 0..GrownSize /\ vi["availableInodes"] \in 0..GrownSize
      /\ vi["capacityBytes"] \in Sizes \cup {0} /\ vi["capacityInodes"] \in Sizes \cup {0}
  BY DEF TypeOK, Queries
<1>2. CASE HasCapacities(vi)
  <2>1. /\ UsedPercentage(vi["availableBytes"], vi["capacityBytes"]) \in Percentages
        /\ UsedPercentage(vi["availableInodes"], vi["capacityInodes"]) \in Percentages
    BY <1>1, <1>2, UsedPercentageType, Zenon DEF HasCapacities
  <2>2. Used(vi) \in Readings
    BY <2>1 DEF Used, Readings
  <2> QED
    BY <2>2, NoReadingType, Zenon DEF Evaluated
<1>3. CASE ~HasCapacities(vi)
  BY <1>3, NoReadingType, Zenon DEF Evaluated
<1> QED
  BY <1>2, <1>3

\* Ending a tick forgets what has been read.
LEMMA EndTickType ==
    ASSUME TypeOK, EndTick,
           reading' \in [Claims -> Readings],
           left' \in 0..MaxDisturbances, UNCHANGED <<targetRef, volumeVars, workloadVars>>
    PROVE  TypeOK'
BY InputsAssumption DEF TypeOK, EndTick, volumeVars, workloadVars, Sizes, NoInfo, Queries

\* Whatever the queries see, a VolumeInfo holds sizes between zero and the largest
\* capacity, no volume reads as more than full or as emptier than the ratio of the two
\* capacities allows, and the disturbances stay within their bound.
THEOREM TickTypeCorrect == Spec => []TypeOK
<1> USE InputsAssumption
<1>1. Init => TypeOK
  BY NoReadingType DEF Init, TypeOK, Sizes, NoInfo, Queries
<1>2. ASSUME TypeOK, [Next]_vars
      PROVE  TypeOK'
  <2> USE <1>2
  <2>1. CASE StartTick
    BY <2>1, NoReadingType DEF TypeOK, StartTick, volumeVars, workloadVars, historyVars, Sizes
  <2>2. ASSUME NEW q \in Queries, GetMetric(q)
        PROVE  TypeOK'
    <3>1. info' \in [Claims -> [Queries -> 0..GrownSize]]
      BY <2>2, SampledType DEF TypeOK, GetMetric
    <3>2. TargetClaims(pods) \subseteq Claims
      BY TargetClaimsType DEF TypeOK
    <3>3. targetRef \notin Workloads => targetRef \in Claims
      BY DEF TypeOK
    <3>4. \A c \in Claims :
             {info'[c]["capacityBytes"], info'[c]["capacityInodes"]} \subseteq Sizes \cup {0}
      BY <2>2 DEF TypeOK, GetMetric, Sampled, Queries
    <3> QED
      BY <2>2, <3>1, <3>2, <3>3, <3>4
         DEF TypeOK, GetMetric, Queried, volumeVars, workloadVars, historyVars, Sizes
  <2>3. CASE GetMetricFails
    BY <2>3, EndTickType DEF TypeOK, GetMetricFails, Disturbed
  <2>4. CASE FetchSelector
    BY <2>4 DEF TypeOK, FetchSelector, volumeVars, workloadVars, historyVars, Sizes
  <2>5. CASE ListPods
    <3>1. Selected \in SUBSET Pods
      BY DEF TypeOK, Selected
    <3>2. Mounted(Selected) \subseteq Claims
      BY <3>1, MountedType
    <3> QED
      BY <2>5, <3>2 DEF TypeOK, ListPods, volumeVars, workloadVars, historyVars, Sizes
  <2>6. CASE NothingFound
    BY <2>6, EndTickType DEF TypeOK, NothingFound, FetchFails
  <2>7. CASE CallFails
    BY <2>7, EndTickType DEF TypeOK, CallFails, FetchFails, Disturbed
  <2>8. ASSUME NEW c \in Claims, GetPVC(c)
        PROVE  TypeOK'
    BY <2>8 DEF TypeOK, GetPVC, Passed, volumeVars, workloadVars, historyVars, Sizes
  <2>9. ASSUME NEW c \in Claims, GetPVCFails(c)
        PROVE  TypeOK'
    BY <2>9, EndTickType DEF TypeOK, GetPVCFails, FetchFails
  <2>10. ASSUME NEW c \in Claims, Judge(c)
         PROVE  TypeOK'
    <3>1. reading' \in [Claims -> Readings]
      BY <2>10, EvaluatedType DEF TypeOK, Judge
    <3>2. CASE fetched = {c}
      BY <2>10, <3>1, <3>2, EndTickType DEF TypeOK, Judge
    <3>3. CASE fetched # {c}
      BY <2>10, <3>1, <3>3 DEF TypeOK, Judge, volumeVars, workloadVars, historyVars, Sizes
    <3> QED
      BY <3>2, <3>3
  <2>11. ASSUME NEW c \in Claims, VolumeGrows(c) \/ CapacityReported(c) \/ ClaimCreated(c)
         PROVE  TypeOK'
    BY <2>11, Zenon DEF TypeOK, VolumeGrows, CapacityReported, ClaimCreated, volumeVars, workloadVars,
                        tickVars, historyVars, Sizes
  <2>12. CASE Scrape
    BY <2>12 DEF TypeOK, Scrape, workloadVars, tickVars, historyVars, Sizes
  <2>13. ASSUME NEW k \in Pods, PodDeleted(k) \/ PodCreated(k)
         PROVE  TypeOK'
    <3>1. pods' \in SUBSET Pods /\ left' \in 0..MaxDisturbances
      BY <2>13 DEF TypeOK, PodDeleted, PodCreated, Disturbed
    <3>2. PodsChange
      BY <2>13 DEF PodDeleted, PodCreated
    <3>3. TargetClaims(pods') \subseteq Claims
      BY <3>1, TargetClaimsType
    <3> QED
      BY <3>1, <3>2, <3>3 DEF TypeOK, PodsChange, volumeVars, tickVars, historyVars, Sizes
  <2>14. CASE UNCHANGED vars
    BY <2>14 DEF TypeOK, vars, volumeVars, workloadVars, tickVars, historyVars, Sizes
  <2> QED
    BY <2>1, <2>2, <2>3, <2>4, <2>5, <2>6, <2>7, <2>8, <2>9, <2>10, <2>11, <2>12, <2>13, <2>14
       DEF Next, RunnerWorks
<1> QED
  BY <1>1, <1>2, PTL DEF Spec

-----------------------------------------------------------------------------
(***************************************************************************)
(* The metrics                                                             *)
(***************************************************************************)
\* The truncation of the free part never makes the used part smaller.
LEMMA UsedPercentageBound ==
    ASSUME NEW available \in Nat, NEW capacity \in Nat \ {0}
    PROVE  UsedPercentage(available, capacity) * capacity >= 100 * (capacity - available)
<1> DEFINE q == (100 * available) \div capacity
           r == (100 * available) % capacity
<1>1. q \in Nat /\ r \in 0 .. capacity - 1 /\ 100 * available = capacity * q + r
  <2>1. 100 * available \in Nat
    OBVIOUS
  <2> QED
    BY <2>1, SMT
<1>2. UsedPercentage(available, capacity) = 100 - q
  BY DEF UsedPercentage
<1> HIDE DEF q, r
<1>3. (100 - q) * capacity = 100 * capacity - capacity * q
  BY <1>1
<1>4. capacity * q \in Nat
  BY <1>1
<1> QED
  BY <1>1, <1>2, <1>3, <1>4

\* Steps that run no query and end no tick keep SampleInv as long as a volume that
\* has a sample only grows.
LEMMA SampleKept ==
    ASSUME TypeOK, TypeOK', SampleInv,
           \A c \in Claims : size'[c] \in {size[c], GrownSize},
           \A c \in Claims : sample'[c] \in {0, sample[c], size'[c]},
           info' \in {info, [c \in Claims |-> NoInfo]}
    PROVE  SampleInv'
<1> SUFFICES ASSUME NEW c \in Claims
             PROVE  /\ sample'[c] \in {0, InitSize, size'[c]}
                    /\ info'[c]["capacityBytes"] \in {0, InitSize, size'[c]}
                    /\ info'[c]["availableBytes"] <= size'[c] - Usage[c].bytes
  BY DEF SampleInv
<1>1. /\ size[c] \in {InitSize, GrownSize} /\ size'[c] \in {size[c], GrownSize}
      /\ Usage[c].bytes \in 0..InitSize
      /\ InitSize \in Nat \ {0} /\ GrownSize \in Nat \ {0} /\ InitSize < GrownSize
  BY SizesOrdered DEF TypeOK, Sizes
<1>2. /\ info[c]["capacityBytes"] \in Nat /\ info[c]["availableBytes"] \in Nat
  BY SizesOrdered DEF TypeOK, Queries
<1>3. /\ sample[c] \in {0, InitSize, size[c]}
      /\ info[c]["capacityBytes"] \in {0, InitSize, size[c]}
      /\ info[c]["availableBytes"] <= size[c] - Usage[c].bytes
  BY DEF SampleInv
<1>4. \/ info'[c] = info[c]
      \/ info'[c]["capacityBytes"] = 0 /\ info'[c]["availableBytes"] = 0
  BY DEF NoInfo, Queries
<1> QED
  BY <1>1, <1>2, <1>3, <1>4

\* No query has seen a capacity that the volume never had, or more free space than it
\* has now: volumes do not shrink, and what is stored on them stays.
LEMMA SamplesSound == Spec => []SampleInv
<1>1. Init => SampleInv
  BY SizesOrdered DEF Init, SampleInv, NoInfo, Queries
<1>2. ASSUME TypeOK, TypeOK', SampleInv, [Next]_vars
      PROVE  SampleInv'
  <2> USE <1>2
  <2>1. ASSUME NEW q \in Queries, GetMetric(q)
        PROVE  SampleInv'
    <3>1. UNCHANGED <<size, sample>>
      BY <2>1 DEF GetMetric, Queried, volumeVars
    <3> SUFFICES ASSUME NEW c \in Claims
                 PROVE  /\ info'[c]["capacityBytes"] \in {0, InitSize, size[c]}
                        /\ info'[c]["availableBytes"] <= size[c] - Usage[c].bytes
      BY <3>1 DEF SampleInv
    <3>2. CASE sample[c] = 0
      BY <2>1, <3>2 DEF GetMetric, SampleInv
    <3>3. CASE sample[c] # 0
      <4>1. info'[c] = [info[c] EXCEPT ![q] = Sampled(c, q)]
        BY <2>1, <3>3 DEF GetMetric
      <4>2. \A x \in Queries : info'[c][x] = IF x = q THEN Sampled(c, q) ELSE info[c][x]
        BY <4>1 DEF TypeOK
      <4>3. sample[c] \in {InitSize, size[c]} /\ sample[c] <= size[c]
        BY <3>3, SizesOrdered DEF SampleInv, TypeOK, Sizes
      <4>4. CASE q = "capacityBytes"
        BY <3>3, <4>2, <4>3, <4>4, SampledType DEF SampleInv, Queries
      <4>5. CASE q = "availableBytes"
        <5>1. info'[c]["capacityBytes"] = info[c]["capacityBytes"]
          BY <4>2, <4>5 DEF Queries
        <5>2. info'[c]["availableBytes"] = sample[c] - Usage[c].bytes
          BY <3>3, <4>2, <4>5, SampledType
        <5>3. sample[c] \in Nat /\ size[c] \in Nat /\ Usage[c].bytes \in Nat
          BY <4>3, SizesOrdered DEF TypeOK, Sizes
        <5> QED
          BY <4>3, <5>1, <5>2, <5>3 DEF SampleInv
      <4>6. CASE q \notin {"capacityBytes", "availableBytes"}
        BY <4>2, <4>6 DEF SampleInv, Queries
      <4> QED
        BY <4>4, <4>5, <4>6
    <3> QED
      BY <3>2, <3>3
  <2>2. ASSUME NEW c \in Claims, VolumeGrows(c)
        PROVE  SampleInv'
    BY <2>2, SampleKept DEF TypeOK, VolumeGrows, tickVars
  <2>3. CASE Scrape
    BY <2>3, SampleKept, Zenon DEF TypeOK, Scrape, tickVars
  <2>4. CASE UNCHANGED volumeVars /\ info' \in {info, [c \in Claims |-> NoInfo]}
    BY <2>4, SampleKept, Zenon DEF volumeVars
  <2>5. CASE StartTick \/ FetchSelector \/ ListPods \/ NothingFound \/ CallFails \/ GetMetricFails
    BY <2>4, <2>5, Zenon DEF StartTick, FetchSelector, ListPods, NothingFound, CallFails, GetMetricFails,
                      FetchFails, EndTick
  <2>6. ASSUME NEW c \in Claims, GetPVC(c) \/ GetPVCFails(c) \/ Judge(c)
        PROVE  SampleInv'
    BY <2>4, <2>6, Zenon DEF GetPVC, Passed, GetPVCFails, FetchFails, Judge, EndTick
  <2>7. ASSUME NEW c \in Claims, CapacityReported(c) \/ ClaimCreated(c)
        PROVE  SampleInv'
    BY <2>7 DEF SampleInv, CapacityReported, ClaimCreated, volumeVars, tickVars
  <2>8. ASSUME NEW k \in Pods, PodDeleted(k) \/ PodCreated(k)
        PROVE  SampleInv'
    BY <2>8 DEF SampleInv, PodDeleted, PodCreated, PodsChange, volumeVars, tickVars
  <2>9. CASE UNCHANGED vars
    BY <2>9 DEF SampleInv, vars, volumeVars, tickVars
  <2> QED
    BY <2>1, <2>2, <2>3, <2>5, <2>6, <2>7, <2>8, <2>9 DEF Next, RunnerWorks
<1> QED
  BY <1>1, <1>2, TickTypeCorrect, PTL DEF Spec

\* If a growth exceeds the staleness tolerance, a reading that is accepted for a claim
\* whose status is up to date never understates the space used.
THEOREM ReadingsNotUnderstated ==
    ASSUME IsStale(GrownSize, InitSize)
    PROVE  Spec => NoUnderstatement
<1>1. ASSUME TypeOK, SampleInv, NEW c \in Claims, Evaluated(c).ok, status[c] = size[c]
      PROVE  Evaluated(c).space * size[c] >= 100 * Usage[c].bytes
  <2> DEFINE available == info[c]["availableBytes"]
             capacity == info[c]["capacityBytes"]
  <2>1. HasCapacities(info[c]) /\ ~IsStale(status[c], capacity)
    BY <1>1 DEF Evaluated, NoReading
  <2>2. capacity = size[c]
    <3>1. capacity \in {InitSize, size[c]}
      BY <1>1, <2>1 DEF HasCapacities, SampleInv
    <3>2. size[c] \in {InitSize, GrownSize}
      BY <1>1 DEF TypeOK, Sizes
    <3> HIDE DEF capacity
    <3> QED
      BY <1>1, <2>1, <3>1, <3>2
  <2>3. Evaluated(c).space = UsedPercentage(available, capacity)
    BY <2>1 DEF Evaluated, Used
  <2>4. available \in Nat /\ available <= size[c] - Usage[c].bytes
    BY <1>1, SizesOrdered DEF TypeOK, SampleInv, Queries
  <2>5. size[c] \in Nat \ {0} /\ Usage[c].bytes \in Nat
    BY <1>1, SizesOrdered DEF TypeOK, Sizes
  <2> HIDE DEF available, capacity
  <2>6. UsedPercentage(available, size[c]) * size[c] >= 100 * (size[c] - available)
    BY <2>4, <2>5, UsedPercentageBound
  <2>7. UsedPercentage(available, size[c]) \in Int
    BY <2>4, <2>5 DEF UsedPercentage
  <2>8. UsedPercentage(available, size[c]) * size[c] \in Int
    BY <2>5, <2>7
  <2> HIDE DEF UsedPercentage
  <2> QED
    BY <2>2, <2>3, <2>4, <2>5, <2>6, <2>8
<1>2. TypeOK /\ SampleInv /\ [Next]_vars =>
        [\A c \in Claims : Judge(c) /\ Evaluated(c).ok /\ status[c] = size[c] =>
            Evaluated(c).space * size[c] >= 100 * Usage[c].bytes]_vars
  BY <1>1
<1> QED
  BY <1>2, TickTypeCorrect, SamplesSound, PTL DEF Spec, NoUnderstatement

\* So it is with volumes that grow by the full steps of the runner, whatever the
\* policy: the API admits no stepPercent below 5 and no minStepAbsolute below 1Gi.
THEOREM FullStepsNotUnderstated ==
    ASSUME NEW step \in Nat, NEW minStep \in Nat, step >= 5, minStep >= ScalingResolution,
           GrownSize = SteppedSize(InitSize, step, minStep)
    PROVE  Spec => NoUnderstatement
<1>1. IsStale(GrownSize, InitSize)
  BY SizesOrdered, FullStepOutrunsTolerance
<1> QED
  BY <1>1, ReadingsNotUnderstated

-----------------------------------------------------------------------------
(***************************************************************************)
(* The claims                                                              *)
(***************************************************************************)
\* The end of a tick keeps FetchInv.
LEMMA EndTickFetch ==
    ASSUME EndTick
    PROVE  FetchInv'
BY DEF EndTick, FetchInv

\* While the target is a workload whose selector is known, the list of its Pods holds
\* all claims it has had throughout and none it never had; no claim is lost between
\* the list and the last read.
LEMMA FetchSound ==
    ASSUME SelectorReported
    PROVE  Spec => []FetchInv
<1>1. Init => FetchInv
  BY DEF Init, FetchInv
<1>2. ASSUME TypeOK, FetchInv, [Next]_vars
      PROVE  FetchInv'
  <2> USE <1>2
  <2>1. CASE StartTick
    BY <2>1 DEF FetchInv, StartTick
  <2>2. ASSUME NEW q \in Queries, GetMetric(q)
        PROVE  FetchInv'
    <3>1. Queried(q)
      BY <2>2 DEF GetMetric
    <3>2. TargetClaims(pods)' = TargetClaims(pods)
      BY <3>1 DEF Queried, TargetClaims, workloadVars
    <3>3. CASE queries # {q}
      BY <3>1, <3>3 DEF FetchInv, Queried
    <3>4. CASE queries = {q} /\ targetRef \in Workloads
      BY <3>1, <3>2, <3>4 DEF FetchInv, Queried
    <3>5. CASE queries = {q} /\ targetRef \notin Workloads
      <4>1. TargetClaims(pods) = {targetRef}
        BY <3>5 DEF TargetClaims
      <4> QED
        BY <3>1, <3>5, <4>1 DEF FetchInv, Queried
    <3> QED
      BY <3>3, <3>4, <3>5
  <2>3. CASE FetchSelector
    <3>1. TargetClaims(pods)' = TargetClaims(pods)
      BY <2>3 DEF FetchSelector, TargetClaims, workloadVars
    <3> QED
      BY <2>3, <3>1 DEF FetchInv, FetchSelector, historyVars
  <2>4. CASE ListPods
    <3>1. Mounted(Selected) = TargetClaims(pods)
      BY <2>4, Zenon DEF ListPods, FetchInv, Selected, TargetClaims
    <3> QED
      BY <2>4, <3>1 DEF FetchInv, ListPods, historyVars
  <2>5. ASSUME NEW c \in Claims, GetPVC(c)
        PROVE  FetchInv'
    BY <2>5 DEF FetchInv, GetPVC, Passed, historyVars
  <2>6. ASSUME NEW c \in Claims, Judge(c)
        PROVE  FetchInv'
    <3>1. CASE fetched = {c}
      BY <2>6, <3>1, EndTickFetch DEF Judge
    <3>2. CASE fetched # {c}
      BY <2>6, <3>2 DEF FetchInv, Judge
    <3> QED
      BY <3>1, <3>2
  <2>7. ASSUME NothingFound \/ CallFails \/ GetMetricFails \/ \E c \in Claims : GetPVCFails(c)
        PROVE  FetchInv'
    BY <2>7, EndTickFetch DEF NothingFound, CallFails, GetMetricFails, GetPVCFails, FetchFails
  <2>8. CASE PodsChange
    BY <2>8 DEF FetchInv, PodsChange, TargetClaims, tickVars, historyVars
  <2>9. ASSUME NEW k \in Pods, PodDeleted(k) \/ PodCreated(k)
        PROVE  FetchInv'
    BY <2>8, <2>9 DEF PodDeleted, PodCreated
  <2>10. CASE UNCHANGED <<targetRef, pods, tickVars, historyVars>>
    <3>1. TargetClaims(pods)' = TargetClaims(pods)
      BY <2>10 DEF TargetClaims
    <3> QED
      BY <2>10, <3>1 DEF FetchInv, tickVars, historyVars
  <2>11. ASSUME Scrape \/ (UNCHANGED vars)
                \/ \E c \in Claims : VolumeGrows(c) \/ CapacityReported(c) \/ ClaimCreated(c)
         PROVE  FetchInv'
    BY <2>10, <2>11 DEF Scrape, VolumeGrows, CapacityReported, ClaimCreated, vars, workloadVars
  <2> QED
    BY <2>1, <2>2, <2>3, <2>4, <2>5, <2>6, <2>7, <2>9, <2>11 DEF Next, RunnerWorks
<1> QED
  BY <1>1, <1>2, TickTypeCorrect, PTL DEF Spec

\* If scale subresources report their selector, a tick evaluates all claims that the
\* Pods of the target mount throughout the Fetch and none that they never mount, or
\* it evaluates none.
THEOREM FetchesAllOrNothing ==
    ASSUME SelectorReported
    PROVE  Spec => FetchAllOrNothing
<1>1. ASSUME FetchInv, [Next]_vars, phase # "judge", phase' = "judge"
      PROVE  always \subseteq fetched' /\ fetched' \subseteq ever
  <2>1. RunnerWorks
    BY <1>1 DEF Next, GetMetricFails, CallFails, FetchFails, EndTick, Scrape, VolumeGrows,
                CapacityReported, ClaimCreated, PodDeleted, PodCreated, PodsChange, vars, tickVars
  <2>2. PICK c \in Claims : GetPVC(c)
    BY <1>1, <2>1 DEF RunnerWorks, StartTick, FetchSelector, ListPods, NothingFound, GetMetric,
                      Queried, GetPVCFails, Judge, FetchFails, EndTick
  <2> QED
    BY <1>1, <2>2 DEF FetchInv, GetPVC, Passed
<1>2. FetchInv /\ [Next]_vars =>
        [phase # "judge" /\ phase' = "judge" => always \subseteq fetched' /\ fetched' \subseteq ever]_vars
  BY <1>1
<1> QED
  BY <1>2, FetchSound, PTL DEF Spec, FetchAllOrNothing

=============================================================================
