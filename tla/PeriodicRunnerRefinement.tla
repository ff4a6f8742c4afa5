---------------------- MODULE PeriodicRunnerRefinement ----------------------
(***************************************************************************)
(* The periodic runner where the storage system grants exactly what is     *)
(* requested and nobody else changes requests: resizes do not overlap,     *)
(* scale-ups rest on current readings, and the runner implements           *)
(* ClaimLife.                                                              *)
(***************************************************************************)
EXTENDS PeriodicRunnerStatus

-----------------------------------------------------------------------------
(***************************************************************************)
(* Exact storage, no other writer of requests                              *)
(***************************************************************************)
ExactWorld == Granule = 1 /\ UserSizes = {}

\* New claims satisfy the invariant of requests.
LEMMA RequestInvInit == Init => RequestInv
BY InitTypeOK DEF Init, RequestInv, ClaimInv, Expanding, NoAnnotation, TypeOK, PVCTypeOK

\* A claim that a scale-up is planned for is bound, satisfied and idle.
LEMMA ResizeNeedsSatisfied ==
    ASSUME TypeOK, RequestInv, NEW p \in PVCs, PlanResize(p)
    PROVE  cap[p] # 0 /\ spec[p] = cap[p]
<1>1. Verdict(p) = "resize"
  BY DEF PlanResize
<1>2. cap[p] # 0 /\ ~IsResizeInProgress(p)
  BY <1>1, ResizeVerdict DEF ValidPVC
<1>3. ClaimInv(p) /\ cap[p] \in Nat /\ spec[p] \in Nat
  BY DEF RequestInv, TypeOK, PVCTypeOK
<1> QED
  BY <1>2, <1>3 DEF ClaimInv, IsResizeInProgress, NoAnnotation

\* The storage system keeps the invariant of the claim it works on, and changes
\* neither request nor capacity of a satisfied claim.
LEMMA ClaimWriteInv ==
    ASSUME ExactWorld, TypeOK, NEW p \in PVCs, ClaimInv(p), ClaimWrite(p)
    PROVE  /\ ClaimInv(p)'
           /\ cap[p] # 0 /\ spec[p] = cap[p] => spec'[p] = spec[p] /\ cap'[p] = cap[p]
<1> USE DEF ClaimInv, Expanding, NoAnnotation, Unparsable
<1>0. /\ spec[p] \in Nat \ {0} /\ cap[p] \in Nat /\ alloc[p] \in Nat
      /\ prev[p] \in Nat \cup {Unparsable}
      /\ p \in DOMAIN spec /\ p \in DOMAIN cap /\ p \in DOMAIN prev
      /\ p \in DOMAIN alloc /\ p \in DOMAIN failed
  BY DEF TypeOK, PVCTypeOK
<1>1. CASE Bind(p)
  <2>1. RoundUp(spec[p], Granule) = spec[p]
    BY <1>0, RoundUpToOne, SMTT(30) DEF ExactWorld
  <2> QED
    BY <1>0, <1>1, <2>1, SMTT(30) DEF Bind
<1>2. CASE ExpansionStarts(p)
  BY <1>0, <1>2, SMTT(30) DEF ExpansionStarts
<1>3. CASE FileSystemPending(p)
  BY <1>0, <1>3 DEF FileSystemPending
<1>4. CASE ExpansionDone(p)
  <2>1. RoundUp(alloc[p], Granule) = alloc[p]
    BY <1>0, RoundUpToOne, SMTT(30) DEF ExactWorld
  <2> QED
    BY <1>0, <1>4, <2>1, SMTT(30) DEF ExpansionDone
<1>5. ASSUME NEW kind \in AllFailKinds, ExpansionFails(p, kind)
      PROVE  ClaimInv(p)' /\ spec' = spec /\ cap' = cap
  BY <1>0, <1>5, SMTT(30) DEF ExpansionFails, AllFailKinds
<1>6. CASE ModifyVolume(p)
  BY <1>0, <1>6, SMTT(30) DEF ModifyVolume
<1>7. CASE UserResizes(p)
  BY <1>7, SMTT(30) DEF UserResizes, ExactWorld
<1>8. CASE UserGarblesAnnotation(p)
  BY <1>0, <1>8, SMTT(30) DEF UserGarblesAnnotation
<1> QED
  BY <1>1, <1>2, <1>3, <1>4, <1>5, <1>6, <1>7, <1>8, Zenon DEF ClaimWrite, StorageWorks

\* In an exact world every step keeps the invariant of requests.
LEMMA RequestInvStep ==
    ASSUME ExactWorld, TypeOK, TypeOK', PatchInv, RequestInv, [Next]_vars
    PROVE  RequestInv'
<1>1. ASSUME NEW p \in PVCs, PlanResize(p) PROVE RequestInv'
  <2>1. UNCHANGED pvcVars
    BY <1>1 DEF PlanResize
  <2>2. \A q \in PVCs : ClaimInv(q)'
    BY <2>1, SMTT(30) DEF RequestInv, ClaimInv, Expanding, pvcVars
  <2> QED
    BY <1>1, <2>1, <2>2, PlannedResize, ResizeNeedsSatisfied DEF RequestInv, pvcVars
<1>2. ASSUME NEW p \in PVCs, PlanRecovery(p) PROVE RequestInv'
  BY <1>2, PlannedRecovery DEF RequestInv, ClaimInv, Expanding, pvcVars
<1>3. CASE PatchStep
  <2>1. /\ patch.pvc \in PVCs /\ patch.target \in Nat \ {0} /\ patch.spec \in Nat
        /\ phase \in {"resize", "recover"} /\ phase' = "claim"
        /\ UNCHANGED <<cap, conds, alloc, failed>>
    BY <1>3, PatchEffect
  <2>2. ASSUME NEW q \in PVCs PROVE ClaimInv(q)'
    <3>0. ClaimInv(q) /\ spec[q] \in Nat \ {0} /\ cap[q] \in Nat
      BY DEF RequestInv, TypeOK, PVCTypeOK
    <3>1. CASE spec'[q] = spec[q] /\ prev'[q] = prev[q]
      BY <2>1, <3>0, <3>1 DEF ClaimInv, Expanding
    <3>2. CASE ~(spec'[q] = spec[q] /\ prev'[q] = prev[q])
      <4>1. q = patch.pvc /\ spec'[q] = patch.target
        BY <1>3, <3>2, PatchEffect DEF TypeOK, PVCTypeOK
      <4>2. CASE phase = "resize"
        <5>1. prev'[q] = patch.spec
          BY <1>3, <3>2, <4>1, <4>2, PatchEffect DEF TypeOK, PVCTypeOK
        <5>2. cap[q] # 0 /\ spec[q] = cap[q] /\ spec[q] = patch.spec /\ patch.spec < patch.target
          BY <4>1, <4>2, SMTT(30) DEF RequestInv, PatchInv
        <5> QED
          BY <2>1, <3>0, <4>1, <5>1, <5>2, SMTT(30) DEF ClaimInv, Expanding
      <4>3. CASE phase = "recover"
        <5>1. prev'[q] = prev[q] /\ ~patch.touched
          BY <1>3, <3>2, <4>1, <4>3, PatchEffect DEF TypeOK, PVCTypeOK
        <5>2. cap[q] < patch.target /\ patch.target < spec[q] /\ failed[q] # "no"
          BY <4>1, <4>3, <5>1, SMTT(30) DEF PatchInv
        <5> QED
          BY <2>1, <3>0, <4>1, <5>1, <5>2, SMTT(30) DEF ClaimInv, Expanding
      <4> QED
        BY <2>1, <4>2, <4>3
    <3> QED
      BY <3>1, <3>2
  <2> QED
    BY <2>1, <2>2, SMTT(30) DEF RequestInv
<1>4. ASSUME NEW p \in PVCs, ClaimWrite(p) PROVE RequestInv'
  <2>1. \A q \in PVCs : ClaimInv(q)'
    <3>1. ClaimInv(p)'
      BY <1>4, ClaimWriteInv DEF RequestInv
    <3>2. ASSUME NEW q \in PVCs, q # p PROVE ClaimInv(q)'
      BY <1>4, <3>2, ClaimWriteLocal DEF RequestInv, ClaimInv, Expanding
    <3> QED
      BY <3>1, <3>2
  <2>2. CASE phase = "resize"
    <3>1. phase' = phase /\ patch'.pvc = patch.pvc /\ patch'.spec = patch.spec /\ patch.pvc \in PVCs
      BY <1>4, <2>2, ClaimWriteFrame DEF Touch, TypeOK, RunnerTypeOK, Patches
    <3>2. cap[patch.pvc] # 0 /\ spec[patch.pvc] = cap[patch.pvc] /\ spec[patch.pvc] = patch.spec
      BY <2>2 DEF RequestInv
    <3>3. spec'[patch.pvc] = spec[patch.pvc] /\ cap'[patch.pvc] = cap[patch.pvc]
      BY <1>4, <3>1, <3>2, ClaimWriteInv, ClaimWriteLocal, Zenon DEF RequestInv
    <3> QED
      BY <2>1, <3>1, <3>2, <3>3, Zenon DEF RequestInv
  <2>3. CASE phase # "resize"
    BY <1>4, <2>1, <2>3, ClaimWriteFrame DEF RequestInv
  <2> QED
    BY <2>2, <2>3
<1>5. CASE PlainStep
  <2>1. \A q \in PVCs : ClaimInv(q)'
    BY <1>5 DEF PlainStep, RequestInv, ClaimInv, Expanding, pvcVars
  <2> QED
    BY <1>5, <2>1 DEF PlainStep, RequestInv, runVars, pvcVars
<1> QED
  BY <1>1, <1>2, <1>3, <1>4, <1>5, StepKinds

\* In an exact world an unsatisfied request is one resizePVC made, from the capacity the
\* prev-size annotation names, and a pending scale-up is for a satisfied claim.
THEOREM RequestsSound ==
    ASSUME ExactWorld
    PROVE  Spec => [](TypeOK /\ PatchInv /\ RequestInv)
<1>1. TypeOK /\ TypeOK' /\ PatchInv /\ RequestInv /\ [Next]_vars => RequestInv'
  BY RequestInvStep
<1> QED
  BY <1>1, RequestInvInit, PatchesSound, PTL DEF Spec

\* isResizeInProgress never waits for a resize that is already over, if the storage
\* system grants exactly what is requested and nobody else changes requests.
THEOREM NoPhantom ==
    ASSUME ExactWorld
    PROVE  Spec => []NoPhantomResize
<1>1. TypeOK /\ RequestInv => NoPhantomResize
  BY DEF RequestInv, ClaimInv, NoPhantomResize, TypeOK, PVCTypeOK
<1> QED
  BY <1>1, RequestsSound, PTL

\* Under the same assumptions resizePVC never grows a request that is not yet
\* satisfied, even when patches fail, answers get lost or the process dies.
THEOREM ResizesDoNotOverlap ==
    ASSUME ExactWorld
    PROVE  Spec => OneResizeAtATime
<1>1. ASSUME TypeOK, PatchInv, RequestInv, [Next]_vars, NEW p \in PVCs, ScaledUp(p)
      PROVE  spec[p] <= cap[p] /\ spec[p] < spec'[p]
  BY <1>1, PatchedClaim, SMTT(30) DEF ScaledUp, PatchInv, RequestInv, TypeOK, PVCTypeOK
<1>2. TypeOK /\ PatchInv /\ RequestInv /\ [Next]_vars =>
         [\A p \in PVCs : ScaledUp(p) => spec[p] <= cap[p] /\ spec[p] < spec'[p]]_vars
  BY <1>1
<1> QED
  BY <1>2, RequestsSound, PTL DEF Spec, OneResizeAtATime

-----------------------------------------------------------------------------
(***************************************************************************)
(* Current readings                                                        *)
(***************************************************************************)
\* A lagging metrics source reports sizes new claims have, or a step or more below.
LagInSteps == \A c \in LagSizes, size \in InitSizes : CurrentOrStepBehind(c, size)

\* Policies let volumes grow to 25 resolution steps (25Gi) at most: up to there the
\* tolerance of updateVolumeRecommendationForPVC stays below one step.
SmallVolumes ==
    \A list \in PolicyLists : \A i \in DOMAIN list : list[i].max <= 25 * ScalingResolution

\* The storage system grants the request or leaves the capacity.
LEMMA ExactGrant ==
    ASSUME ExactWorld, TypeOK, NEW p \in PVCs, ClaimInv(p), ClaimWrite(p)
    PROVE  spec'[p] = spec[p] /\ cap'[p] \in {cap[p], spec[p]}
<1>0. spec[p] \in Nat /\ alloc[p] \in Nat /\ p \in DOMAIN cap
  BY DEF TypeOK, PVCTypeOK
<1>1. CASE Bind(p)
  BY <1>0, <1>1, RoundUpToOne DEF Bind, ExactWorld
<1>2. CASE ExpansionDone(p)
  BY <1>0, <1>2, RoundUpToOne DEF ExpansionDone, ExactWorld, ClaimInv
<1>3. ~UserResizes(p)
  BY DEF UserResizes, ExactWorld
<1>4. CASE ExpansionStarts(p) \/ FileSystemPending(p) \/ ModifyVolume(p) \/ UserGarblesAnnotation(p)
  BY <1>4 DEF ExpansionStarts, FileSystemPending, ModifyVolume, UserGarblesAnnotation
<1>5. ASSUME NEW kind, ExpansionFails(p, kind) PROVE spec' = spec /\ cap' = cap
  BY <1>5 DEF ExpansionFails
<1> QED
  BY <1>1, <1>2, <1>3, <1>4, <1>5 DEF ClaimWrite, StorageWorks

\* What a step does to the request and the capacity of a claim: nothing, grant the
\* request, or ask for a step or more above the capacity.
LEMMA SizesStep ==
    ASSUME ExactWorld, TypeOK, PatchInv, RequestInv, StepInv, ReadingInv, [Next]_vars, NEW q \in PVCs
    PROVE  \/ spec'[q] = spec[q] /\ cap'[q] = cap[q]
           \/ spec'[q] = spec[q] /\ cap'[q] = spec[q]
           \/ cap'[q] = cap[q] /\ cap[q] # 0 /\ cap[q] + ScalingResolution <= spec'[q]
<1>1. ASSUME NEW p, PlanResize(p) \/ PlanRecovery(p) PROVE UNCHANGED pvcVars
  BY <1>1 DEF PlanResize, PlanRecovery
<1>2. CASE PatchStep
  <2>1. /\ cap' = cap /\ patch.pvc \in PVCs /\ patch.target \in Nat /\ patch.spec \in Nat
        /\ \/ spec' = spec
           \/ phase = "resize" /\ spec' = [spec EXCEPT ![patch.pvc] = patch.target]
           \/ phase = "recover" /\ ~patch.touched /\ spec' = [spec EXCEPT ![patch.pvc] = patch.target]
    BY <1>2, PatchEffect
  <2>2. spec'[q] = spec[q] \/ (q = patch.pvc /\ spec'[q] = patch.target)
    BY <2>1 DEF TypeOK, PVCTypeOK
  <2>3. CASE phase = "resize"
    <3>1. /\ cap[patch.pvc] # 0 /\ cap[patch.pvc] = patch.spec
          /\ patch.target - patch.spec >= ScalingResolution
      BY <2>3 DEF RequestInv, StepInv
    <3> QED
      BY <2>1, <2>2, <3>1, ResolutionAssumption
  <2>4. CASE phase = "recover" /\ ~patch.touched
    BY <2>1, <2>2, <2>4 DEF ReadingInv
  <2> QED
    BY <2>1, <2>3, <2>4
<1>3. ASSUME NEW p \in PVCs, ClaimWrite(p)
      PROVE  spec'[q] = spec[q] /\ cap'[q] \in {cap[q], spec[q]}
  BY <1>3, ClaimWriteLocal, ExactGrant DEF RequestInv
<1>4. ASSUME PlainStep PROVE UNCHANGED pvcVars
  BY <1>4 DEF PlainStep
<1> QED
  BY <1>1, <1>2, <1>3, <1>4, StepKinds DEF pvcVars

\* Readings are taken when a tick starts.
LEMMA MetricsStep ==
    ASSUME TypeOK, [Next]_vars
    PROVE  \/ phase' = "idle"
           \/ StartTick
           \/ phase # "idle" /\ tick'.metrics = tick.metrics
<1>0. tick \in Ticks
  BY DEF TypeOK, RunnerTypeOK
<1>1. ASSUME NEW a \in PVCAs, FetchPVCs(a) \/ StartPVCA(a)
      PROVE  phase # "idle" /\ tick'.metrics = tick.metrics
  BY <1>0, <1>1, Zenon DEF FetchPVCs, StartPVCA, Ticks
<1>2. ASSUME NEW a \in PVCAs, FetchFails(a)
      PROVE  phase' = "idle" \/ (phase # "idle" /\ tick'.metrics = tick.metrics)
  BY <1>0, <1>2 DEF FetchFails, EndTick, Ticks
<1>3. ASSUME NEW p \in PVCs, ClaimStep(p) PROVE phase # "idle" /\ tick' = tick
  BY <1>3, ClaimStepFrame
<1>4. ASSUME PatchStep PROVE phase # "idle" /\ tick' = tick
  BY <1>4, PatchFrame, PatchEffect
<1>5. ASSUME SetStatus \/ SetStatusFails \/ Crash
      PROVE  phase' = "idle" \/ (phase # "idle" /\ tick' = tick)
  BY <1>5 DEF SetStatus, SetStatusFails, Crash, NextPVCA, EndTick
<1>6. ASSUME QuietStep PROVE phase' = phase /\ tick' = tick
  BY <1>6, QuietFrame
<1> QED
  BY <1>1, <1>2, <1>3, <1>4, <1>5, <1>6, TickKinds

\* The check of updateVolumeRecommendationForPVC on a volume below 25 steps lets no
\* reading pass that is a step behind.
LEMMA StaleIsSeen ==
    ASSUME NEW capacity \in Nat, NEW reported \in Nat, capacity < 25 * ScalingResolution,
           CurrentOrStepBehind(reported, capacity), ~IsStale(capacity, reported)
    PROVE  reported = capacity
BY ResolutionAssumption DEF CurrentOrStepBehind, IsStale, Distance

\* A scale-up is planned on a current reading.
LEMMA PlannedOnCurrent ==
    ASSUME SmallVolumes, TypeOK, PoliciesInv, RequestInv, ReadingInv, NEW p \in PVCs, PlanResize(p)
    PROVE  tick.metrics[p].capacity = cap[p]
<1> DEFINE list == tick.policies[job.pvca]
<1>1. phase = "claim" /\ job.pvca \in PVCAs /\ Verdict(p) = "resize"
  BY DEF PlanResize, TypeOK, RunnerTypeOK
<1>2. cap[p] # 0 /\ spec[p] = cap[p]
  BY ResizeNeedsSatisfied
<1>3. HasPolicy(p, list) /\ UsableMetrics(p)
  BY <1>1, ResizeVerdict
<1>4. list \in Seq(Policy)
  BY <1>1 DEF TypeOK, RunnerTypeOK, Ticks
<1>5. PICK i \in DOMAIN list : CurrentPolicy(p) = list[i]
  BY <1>3, <1>4, PolicyFound DEF CurrentPolicy
<1>6. list \in PolicyLists
  BY <1>1, <1>5 DEF PoliciesInv, ValidLists
<1>7. CurrentPolicy(p).max <= 25 * ScalingResolution
  BY <1>5, <1>6 DEF SmallVolumes
<1>8. spec[p] < patch'.target /\ patch'.target <= CurrentPolicy(p).max
  BY PlannedResize
<1>9. /\ cap[p] \in Nat /\ tick.metrics[p].capacity \in Nat
      /\ CurrentPolicy(p).max \in Nat /\ patch'.target \in Nat
  <2>1. CurrentPolicy(p) \in Policy /\ Target(p, CurrentPolicy(p)) \in Nat
    BY <1>1, <1>3, CurrentPolicyType
  <2>2. patch'.target = Target(p, CurrentPolicy(p))
    BY DEF PlanResize
  <2> QED
    BY <2>1, <2>2 DEF TypeOK, PVCTypeOK, RunnerTypeOK, Ticks, Reading, Policy
<1>10. cap[p] < 25 * ScalingResolution
  BY <1>2, <1>7, <1>8, <1>9, ResolutionAssumption
<1>11. CurrentOrStepBehind(tick.metrics[p].capacity, cap[p]) /\ ~IsStale(cap[p], tick.metrics[p].capacity)
  BY <1>1, <1>3 DEF ReadingInv, UsableMetrics
<1> QED
  BY <1>9, <1>10, <1>11, StaleIsSeen

\* New claims are unbound, and no reading has been taken.
LEMMA ReadingInvInit ==
    ASSUME LagInSteps, Init
    PROVE  ReadingInv
BY DEF Init, ReadingInv, LagInSteps

\* Every step keeps sizes a step apart and pending scale-ups on current readings.
LEMMA ReadingInvStep ==
    ASSUME ExactWorld, SmallVolumes, TypeOK, TypeOK', PatchInv, RequestInv, StepInv, PoliciesInv,
           ReadingInv, [Next]_vars
    PROVE  ReadingInv'
<1> DEFINE Base(p) == IF cap[p] = 0 THEN spec[p] ELSE cap[p]
<1>0. /\ \A p \in PVCs : spec[p] \in Nat \ {0} /\ cap[p] \in Nat /\ spec'[p] \in Nat \ {0} /\ cap'[p] \in Nat
      /\ \A p \in PVCs : tick.metrics[p].capacity \in Nat
      /\ ScalingResolution \in Nat \ {0} /\ LagSizes \subseteq Nat
  BY ResolutionAssumption, SizeAssumption DEF TypeOK, PVCTypeOK, RunnerTypeOK, Ticks, Reading
<1>1. ASSUME NEW p \in PVCs, cap'[p] # 0 PROVE CurrentOrStepBehind(cap[p], spec[p])'
  BY <1>0, <1>1, SizesStep DEF ReadingInv, CurrentOrStepBehind
<1>2. ASSUME NEW p \in PVCs, NEW c \in LagSizes PROVE CurrentOrStepBehind(c, Base(p)')
  <2>1. CurrentOrStepBehind(c, Base(p))
    BY DEF ReadingInv
  <2>2. cap[p] # 0 => CurrentOrStepBehind(cap[p], spec[p])
    BY DEF ReadingInv
  <2> QED
    BY <1>0, <2>1, <2>2, SizesStep DEF CurrentOrStepBehind
<1>3. ASSUME phase' # "idle", NEW p \in PVCs
      PROVE  tick'.metrics[p].capacity = 0 \/ CurrentOrStepBehind(tick'.metrics[p].capacity, cap'[p])
  <2>1. CASE StartTick
    <3>1. cap' = cap
      BY <2>1, TickStarts, Zenon
    <3>2. tick'.metrics[p].capacity \in {cap[p]} \cup {c \in LagSizes : c < cap[p]}
      BY <2>1, TickStarts, Zenon
    <3>3. cap[p] # 0 => \A c \in LagSizes : CurrentOrStepBehind(c, cap[p])
      BY DEF ReadingInv
    <3>4. tick'.metrics[p].capacity = cap[p] \/ (tick'.metrics[p].capacity \in LagSizes /\ cap[p] # 0)
      <4>1. ASSUME NEW c \in LagSizes, c < cap[p] PROVE cap[p] # 0
        BY <1>0, <4>1
      <4> QED
        BY <3>2, <4>1
    <3> QED
      BY <3>1, <3>3, <3>4 DEF CurrentOrStepBehind
  <2>2. CASE phase # "idle" /\ tick'.metrics = tick.metrics
    <3>1. tick.metrics[p].capacity = 0 \/ CurrentOrStepBehind(tick.metrics[p].capacity, cap[p])
      BY <2>2 DEF ReadingInv
    <3>2. cap[p] # 0 => CurrentOrStepBehind(cap[p], spec[p])
      BY DEF ReadingInv
    <3> QED
      BY <1>0, <2>2, <3>1, <3>2, SizesStep DEF CurrentOrStepBehind
  <2> QED
    BY <1>3, <2>1, <2>2, MetricsStep
<1>4. ASSUME phase' = "resize" PROVE tick'.metrics[patch'.pvc].capacity = cap'[patch'.pvc]
  <2>1. ASSUME NEW p \in PVCs, PlanResize(p) PROVE tick'.metrics[patch'.pvc].capacity = cap'[patch'.pvc]
    <3>1. patch'.pvc = p /\ tick' = tick /\ cap' = cap
      BY <2>1 DEF PlanResize, pvcVars
    <3> QED
      BY <2>1, <3>1, PlannedOnCurrent
  <2>2. ASSUME NEW p \in PVCs, PlanRecovery(p) PROVE FALSE
    BY <1>4, <2>2 DEF PlanRecovery
  <2>3. ~PatchStep
    BY <1>4, PatchEffect
  <2>4. ASSUME NEW p \in PVCs, ClaimWrite(p) PROVE tick'.metrics[patch'.pvc].capacity = cap'[patch'.pvc]
    <3>1. phase = "resize" /\ tick' = tick /\ patch'.pvc = patch.pvc /\ patch.pvc \in PVCs
      BY <1>4, <2>4, ClaimWriteFrame DEF Touch, TypeOK, RunnerTypeOK, Patches
    <3>2. cap[patch.pvc] # 0 /\ spec[patch.pvc] = cap[patch.pvc] /\ ClaimInv(patch.pvc)
      BY <3>1 DEF RequestInv
    <3>3. cap'[patch.pvc] = cap[patch.pvc]
      BY <2>4, <3>1, <3>2, ClaimWriteInv, ClaimWriteLocal, Zenon
    <3> QED
      BY <3>1, <3>3 DEF ReadingInv
  <2>5. CASE PlainStep
    BY <1>4, <2>5 DEF PlainStep, runVars, pvcVars, ReadingInv
  <2> QED
    BY <2>1, <2>2, <2>3, <2>4, <2>5, StepKinds
<1>5. ASSUME phase' = "recover"
      PROVE  /\ cap'[patch'.pvc] # 0
             /\ ~patch'.touched => cap'[patch'.pvc] + ScalingResolution <= patch'.target
  <2>1. ASSUME NEW p \in PVCs, PlanResize(p) PROVE FALSE
    BY <1>5, <2>1 DEF PlanResize
  <2>2. ASSUME NEW p \in PVCs, PlanRecovery(p)
        PROVE  cap'[patch'.pvc] # 0 /\ cap'[patch'.pvc] + ScalingResolution <= patch'.target
    BY <2>2, PlannedRecovery DEF pvcVars
  <2>3. ~PatchStep
    BY <1>5, PatchEffect
  <2>4. ASSUME NEW p \in PVCs, ClaimWrite(p)
        PROVE  /\ cap'[patch'.pvc] # 0
               /\ ~patch'.touched => cap'[patch'.pvc] + ScalingResolution <= patch'.target
    <3>1. phase = "recover" /\ Touch(p) /\ patch \in Patches /\ patch.pvc \in PVCs
      BY <1>5, <2>4, ClaimWriteFrame DEF TypeOK, RunnerTypeOK
    <3>2. CASE patch.pvc = p
      <4>1. patch'.pvc = p /\ patch'.touched
        BY <3>1, <3>2 DEF Touch, Patches
      <4>2. cap[p] # 0 /\ cap'[p] \in {cap[p], spec[p]}
        BY <2>4, <3>1, <3>2, ExactGrant DEF ReadingInv, RequestInv
      <4> QED
        BY <1>0, <4>1, <4>2
    <3>3. CASE patch.pvc # p
      <4>1. patch' = patch /\ cap'[patch.pvc] = cap[patch.pvc]
        BY <2>4, <3>1, <3>3, ClaimWriteLocal DEF Touch
      <4> QED
        BY <3>1, <4>1 DEF ReadingInv
    <3> QED
      BY <3>2, <3>3
  <2>5. CASE PlainStep
    BY <1>5, <2>5 DEF PlainStep, runVars, pvcVars, ReadingInv
  <2> QED
    BY <2>1, <2>2, <2>3, <2>4, <2>5, StepKinds
<1> QED
  BY <1>1, <1>2, <1>3, <1>4, <1>5 DEF ReadingInv

\* A scale-up never rests on a reading taken before the capacity last changed, when the
\* storage system grants exactly what is requested and volumes stay within 25 resolution
\* steps: capacities move in whole steps, and the tolerance is less than one.
THEOREM ReadingsCurrent ==
    ASSUME ExactWorld, LagInSteps, SmallVolumes
    PROVE  Spec => NoStaleScaleUp
<1>1. Init => StepInv /\ PoliciesInv /\ ReadingInv
  <2> SUFFICES ASSUME Init PROVE StepInv /\ PoliciesInv /\ ReadingInv
    OBVIOUS
  <2>1. PoliciesInv
    BY EmptyTick, Zenon DEF Init, PoliciesInv
  <2> QED
    BY <2>1, StepInvInit, ReadingInvInit
<1>2. TypeOK /\ TypeOK' /\ PatchInv /\ RequestInv /\ StepInv /\ PoliciesInv /\ ReadingInv /\ [Next]_vars
         => StepInv' /\ PoliciesInv' /\ ReadingInv'
  BY StepInvStep, PoliciesInvStep, ReadingInvStep
<1>3. ASSUME TypeOK, ReadingInv, [Next]_vars, NEW p \in PVCs, ScaledUp(p)
      PROVE  tick.metrics[p].capacity = cap[p]
  BY <1>3, PatchedClaim DEF ScaledUp, ReadingInv
<1>4. TypeOK /\ ReadingInv /\ [Next]_vars =>
         [\A p \in PVCs : ScaledUp(p) => tick.metrics[p].capacity = cap[p]]_vars
  BY <1>3
<1> QED
  BY <1>1, <1>2, <1>4, RequestsSound, PTL DEF Spec, NoStaleScaleUp

-----------------------------------------------------------------------------
(***************************************************************************)
(* The life of a claim                                                     *)
(***************************************************************************)
\* New claims have not failed.
LEMMA FailureInvInit == Init => FailureInv
BY DEF Init, FailureInv

\* In an exact world a failure stays one of an unsatisfied request.
LEMMA FailureInvStep ==
    ASSUME ExactWorld, TypeOK, PatchInv, RequestInv, FailureInv, [Next]_vars
    PROVE  FailureInv'
<1> SUFFICES ASSUME NEW q \in PVCs PROVE (failed[q] # "no" => cap[q] # 0 /\ cap[q] < spec[q])'
  BY DEF FailureInv
<1>0. /\ failed[q] # "no" => cap[q] # 0 /\ cap[q] < spec[q]
      /\ ClaimInv(q) /\ spec[q] \in Nat /\ cap[q] \in Nat /\ alloc[q] \in Nat
      /\ q \in DOMAIN spec /\ q \in DOMAIN cap /\ q \in DOMAIN alloc /\ q \in DOMAIN failed
  BY DEF FailureInv, RequestInv, TypeOK, PVCTypeOK
<1>1. ASSUME UNCHANGED pvcVars PROVE (failed[q] # "no" => cap[q] # 0 /\ cap[q] < spec[q])'
  BY <1>0, <1>1 DEF pvcVars
<1>2. ASSUME NEW p, PlanResize(p) \/ PlanRecovery(p) PROVE UNCHANGED pvcVars
  BY <1>2 DEF PlanResize, PlanRecovery
<1>3. CASE PatchStep
  <2>1. cap' = cap /\ failed' = failed /\ patch.pvc \in PVCs /\ patch.target \in Nat
    BY <1>3, PatchEffect
  <2>2. spec'[q] = spec[q] \/ (q = patch.pvc /\ spec'[q] = patch.target /\ cap[q] < patch.target)
    BY <1>0, <1>3, <2>1, PatchEffect DEF PatchInv, RequestInv, TypeOK, PVCTypeOK
  <2> QED
    BY <1>0, <2>1, <2>2
<1>4. ASSUME NEW p \in PVCs, ClaimWrite(p) PROVE (failed[q] # "no" => cap[q] # 0 /\ cap[q] < spec[q])'
  <2>1. CASE p # q
    BY <1>0, <1>4, <2>1, ClaimWriteLocal, Zenon
  <2>2. CASE p = q
    <3>1. CASE Bind(q)
      BY <1>0, <3>1, Zenon DEF Bind
    <3>2. CASE ExpansionStarts(q)
      BY <1>0, <3>2 DEF ExpansionStarts
    <3>3. CASE FileSystemPending(q)
      BY <1>0, <3>3 DEF FileSystemPending
    <3>4. CASE ExpansionDone(q)
      BY <1>0, <3>4 DEF ExpansionDone, Expanding
    <3>5. ASSUME NEW kind \in AllFailKinds, ExpansionFails(q, kind)
          PROVE  (failed[q] # "no" => cap[q] # 0 /\ cap[q] < spec[q])'
      BY <1>0, <3>5 DEF ExpansionFails, ClaimInv
    <3>6. CASE ModifyVolume(q)
      BY <1>0, <3>6 DEF ModifyVolume
    <3>7. CASE UserResizes(q)
      BY <3>7 DEF UserResizes, ExactWorld
    <3>8. CASE UserGarblesAnnotation(q)
      BY <1>0, <3>8 DEF UserGarblesAnnotation
    <3> QED
      BY <1>4, <2>2, <3>1, <3>2, <3>3, <3>4, <3>5, <3>6, <3>7, <3>8, Zenon DEF ClaimWrite, StorageWorks
  <2> QED
    BY <2>1, <2>2
<1>5. ASSUME PlainStep PROVE UNCHANGED pvcVars
  BY <1>5 DEF PlainStep
<1> QED
  BY <1>1, <1>2, <1>3, <1>4, <1>5, StepKinds

\* In an exact world a failed expansion is one of an unsatisfied request, always.
LEMMA FailuresSound ==
    ASSUME ExactWorld
    PROVE  Spec => [](TypeOK /\ PatchInv /\ RequestInv /\ FailureInv)
<1>1. TypeOK /\ PatchInv /\ RequestInv /\ FailureInv /\ [Next]_vars => FailureInv'
  BY FailureInvStep
<1> QED
  BY <1>1, FailureInvInit, RequestsSound, PTL DEF Spec

\* What a step must do to the claims to be a step of ClaimLife on claim p alone.
OnlyClaim(p) ==
    \A q \in PVCs \ {p} : /\ spec'[q] = spec[q] /\ cap'[q] = cap[q]
                          /\ alloc'[q] = alloc[q] /\ failed'[q] = failed[q]

\* A step on one claim moves the stage of that claim.
LEMMA StageMoves ==
    ASSUME NEW p \in PVCs, OnlyClaim(p), NEW from, Stage(p) \in from, NEW to, Stage(p)' = to
    PROVE  Life!Moves(p, from, to)
<1>1. \A q \in PVCs \ {p} : Stage(q)' = Stage(q)
  BY DEF OnlyClaim, Stage
<1> QED
  BY <1>1, Zenon DEF Life!Moves

\* What the storage system does to a claim is a step of its life, or none.
LEMMA StorageLives ==
    ASSUME ExactWorld, TypeOK, RequestInv, FailureInv, NEW p \in PVCs, ClaimWrite(p)
    PROVE  Life!Next \/ UNCHANGED Life!vars
<1>0. /\ ClaimInv(p)
      /\ spec[p] \in Nat \ {0} /\ cap[p] \in Nat /\ alloc[p] \in Nat
      /\ spec \in [PVCs -> Nat] /\ cap \in [PVCs -> Nat]
      /\ p \in DOMAIN alloc /\ p \in DOMAIN failed
      /\ failed[p] # "no" => cap[p] # 0 /\ cap[p] < spec[p]
  BY DEF RequestInv, FailureInv, TypeOK, PVCTypeOK
<1>1. OnlyClaim(p)
  BY ClaimWriteLocal DEF OnlyClaim
<1>2. CASE Bind(p)
  <2>1. RoundUp(spec[p], Granule) = spec[p]
    BY <1>0, RoundUpToOne DEF ExactWorld
  <2>2. spec' = spec /\ cap' = [cap EXCEPT ![p] = spec[p]]
    BY <1>2, <2>1 DEF Bind
  <2>3. Stage(p) = "unbound" /\ Stage(p)' = "satisfied"
    BY <1>0, <1>2, <2>2 DEF Bind, Stage
  <2>4. Life!Provision(p)
    BY <1>1, <2>2, <2>3, StageMoves DEF Life!Provision, Life!Grant
  <2> QED
    BY <2>4 DEF Life!Next
<1>3. CASE ExpansionStarts(p)
  <2>1. spec' = spec /\ cap' = cap
    BY <1>3 DEF ExpansionStarts
  <2>2. Stage(p) \in {"requested", "failed"} /\ Stage(p)' = "expanding"
    BY <1>0, <1>3 DEF ExpansionStarts, Expanding, Stage
  <2>3. Life!Expand(p)
    BY <1>1, <2>1, <2>2, StageMoves DEF Life!Expand
  <2> QED
    BY <2>3 DEF Life!Next
<1>4. CASE ExpansionDone(p)
  <2>1. RoundUp(alloc[p], Granule) = alloc[p] /\ alloc[p] = spec[p]
    BY <1>0, <1>4, RoundUpToOne DEF ExactWorld, ExpansionDone, ClaimInv
  <2>2. spec' = spec /\ cap' = [cap EXCEPT ![p] = spec[p]]
    BY <1>4, <2>1 DEF ExpansionDone
  <2>3. Stage(p) = "expanding" /\ Stage(p)' = "satisfied"
    BY <1>0, <1>4, <2>2 DEF ExpansionDone, ClaimInv, Expanding, Stage
  <2>4. Life!Finish(p)
    BY <1>1, <2>2, <2>3, StageMoves DEF Life!Finish, Life!Grant
  <2> QED
    BY <2>4 DEF Life!Next
<1>5. ASSUME NEW kind \in AllFailKinds, ExpansionFails(p, kind) PROVE Life!Next
  <2>1. spec' = spec /\ cap' = cap /\ failed'[p] = kind /\ kind # "no"
    BY <1>0, <1>5 DEF ExpansionFails, AllFailKinds
  <2>2. Stage(p) = "expanding" /\ Stage(p)' = "failed"
    <3>1. failed[p] = "no" /\ alloc[p] # 0 /\ cap[p] # 0 /\ cap[p] < spec[p]
      BY <1>0, <1>5, Zenon DEF ExpansionFails, ClaimInv, Expanding
    <3> QED
      BY <1>0, <2>1, <3>1 DEF Stage
  <2>3. Life!Fail(p)
    BY <1>1, <2>1, <2>2, StageMoves DEF Life!Fail
  <2> QED
    BY <2>3 DEF Life!Next
<1>6. CASE FileSystemPending(p) \/ ModifyVolume(p) \/ UserGarblesAnnotation(p)
  <2>1. UNCHANGED <<spec, cap, alloc, failed>>
    BY <1>6 DEF FileSystemPending, ModifyVolume, UserGarblesAnnotation
  <2> QED
    BY <2>1 DEF Life!vars, Stage
<1>7. ~UserResizes(p)
  BY DEF UserResizes, ExactWorld
<1> QED
  BY <1>2, <1>3, <1>4, <1>5, <1>6, <1>7 DEF ClaimWrite, StorageWorks

\* A patch is a scale-up of a satisfied claim, a reduction of a failed one, or
\* leaves the claims alone.
LEMMA PatchLives ==
    ASSUME ExactWorld, TypeOK, PatchInv, RequestInv, FailureInv, PatchStep
    PROVE  Life!Next \/ UNCHANGED Life!vars
<1> PICK p \in PVCs : p = patch.pvc
  BY PatchEffect
<1>0. /\ patch.target \in Nat \ {0} /\ patch.spec \in Nat
      /\ UNCHANGED <<cap, alloc, failed>>
      /\ spec \in [PVCs -> Nat]
      /\ spec[p] \in Nat /\ cap[p] \in Nat /\ alloc[p] \in Nat
  BY PatchEffect DEF TypeOK, PVCTypeOK
<1>1. CASE spec' = spec
  BY <1>0, <1>1 DEF Life!vars, Stage
<1>2. CASE phase = "resize" /\ spec' = [spec EXCEPT ![p] = patch.target]
  <2>1. cap[p] # 0 /\ spec[p] = cap[p] /\ spec[p] < patch.target /\ failed[p] = "no"
    <3>1. cap[p] # 0 /\ spec[p] = cap[p] /\ spec[p] = patch.spec
      BY <1>2, Zenon DEF RequestInv
    <3>2. patch.spec < patch.target
      BY <1>2, Zenon DEF PatchInv
    <3>3. failed[p] # "no" => cap[p] < spec[p]
      BY Zenon DEF FailureInv
    <3>4. ~(cap[p] < spec[p]) /\ spec[p] < patch.target
      BY <1>0, <3>1, <3>2
    <3> QED
      BY <3>1, <3>3, <3>4, Zenon
  <2>2. alloc[p] = 0
    BY <1>0, <2>1 DEF RequestInv, ClaimInv, Expanding
  <2>3. OnlyClaim(p) /\ spec'[p] = patch.target
    BY <1>0, <1>2 DEF OnlyClaim
  <2>4. Stage(p) = "satisfied" /\ Stage(p)' = "requested"
    BY <1>0, <2>1, <2>2, <2>3 DEF Stage
  <2>5. Life!Moves(p, {"satisfied"}, "requested")
    BY <1>0, <2>3, <2>4, StageMoves
  <2>6. Life!ScaleUp(p)
    BY <1>0, <1>2, <2>1, <2>3, <2>5, Zenon DEF Life!ScaleUp, Life!Asks
  <2> QED
    BY <1>0, <2>6 DEF Life!Next
<1>3. CASE phase = "recover" /\ ~patch.touched /\ spec' = [spec EXCEPT ![p] = patch.target]
  <2>1. cap[p] < patch.target /\ patch.target < spec[p] /\ failed[p] # "no" /\ cap[p] # 0
    BY <1>0, <1>3 DEF PatchInv, FailureInv
  <2>2. OnlyClaim(p) /\ spec'[p] = patch.target
    BY <1>0, <1>3 DEF OnlyClaim
  <2>3. Stage(p) = "failed" /\ Stage(p)' = "failed"
    BY <1>0, <2>1, <2>2 DEF Stage
  <2>4. Life!Moves(p, {"failed"}, "failed")
    BY <1>0, <2>2, <2>3, StageMoves
  <2>5. Life!Reduce(p)
    BY <1>0, <1>3, <2>1, <2>2, <2>4, Zenon DEF Life!Reduce, Life!Asks
  <2> QED
    BY <1>0, <2>5, SMTT(30) DEF Life!Next
<1> QED
  BY <1>1, <1>2, <1>3, PatchEffect

\* The periodic runner, with the storage system, implements ClaimLife for every number
\* of claims, autoscalers and policies and whatever calls fail, as long as the storage
\* system grants exactly what is requested and nobody else changes requests.
THEOREM RunnerImplementsClaimLife ==
    ASSUME ExactWorld
    PROVE  Spec => ImplementsClaimLife
<1>1. Init => Life!Init
  <2> SUFFICES ASSUME Init PROVE Life!Init
    OBVIOUS
  <2>1. spec \in [PVCs -> Nat \ {0}] /\ cap = [p \in PVCs |-> 0]
    BY SizeAssumption, Zenon DEF Init
  <2>2. \A p \in PVCs : Stage(p) = "unbound"
    BY <2>1 DEF Stage
  <2> QED
    BY <2>1, <2>2 DEF Life!Init
<1>2. TypeOK /\ PatchInv /\ RequestInv /\ FailureInv /\ [Next]_vars => [Life!Next]_(Life!vars)
  <2> SUFFICES ASSUME TypeOK, PatchInv, RequestInv, FailureInv, [Next]_vars
               PROVE  Life!Next \/ UNCHANGED Life!vars
    OBVIOUS
  <2>1. ASSUME UNCHANGED pvcVars PROVE UNCHANGED Life!vars
    BY <2>1 DEF pvcVars, Life!vars, Stage
  <2>2. ASSUME NEW p, PlanResize(p) \/ PlanRecovery(p) PROVE UNCHANGED pvcVars
    BY <2>2 DEF PlanResize, PlanRecovery
  <2>3. ASSUME PlainStep PROVE UNCHANGED pvcVars
    BY <2>3 DEF PlainStep
  <2> QED
    BY <2>1, <2>2, <2>3, StorageLives, PatchLives, StepKinds
<1> QED
  BY <1>1, <1>2, FailuresSound, PTL DEF Spec, ImplementsClaimLife, Life!Spec

=============================================================================
