--------------------------- MODULE PeriodicRunner ---------------------------
(***************************************************************************)
(* The periodic runner (internal/periodic) with the expansion-failure      *)
(* recovery it calls (internal/expansionfailure), working on the claims    *)
(* and autoscaler objects of the API server.  The CSI resizer, the users   *)
(* and the workloads are the environment.                                  *)
(***************************************************************************)
EXTENDS VolumeSizing, Sequences, FiniteSets

CONSTANTS
    PVCs,            \* the claims of one namespace
    PVCAs,           \* the autoscaler objects of this autoscaler instance
    None,            \* no claim, no autoscaler object
    PolicyLists,     \* the values users try to give spec.volumePolicies
    TargetSets,      \* the sets of claims a target's Pods may mount
    Unsupported,     \* claims that are not expandable file-system volumes
    InitSizes,       \* storage requests of new claims
    UserSizes,       \* requests a user may set by hand ({}: nobody does)
    Percents,        \* utilization percentages the metrics source reports
    LagSizes,        \* capacities a lagging metrics source may still report
    Granule,         \* the storage system rounds capacities up to this unit
    StorageLimit,    \* the largest request the storage system can satisfy
    FailKinds,       \* the ways an expansion may be reported as failed
    Faults,          \* the calls that may fail and the events that may disturb a tick
    Kubernetes134,   \* whether the cluster runs Kubernetes 1.34 or newer
    MaxNow           \* bound on the clock

Strategies == {"InPlace", "PreferInPlace", "Off"}

\* A volume policy: the claims its match glob selects, and its scale-up rules.
\* cooldown = 0 stands for an absent cooldownDuration.
Policy == [match : SUBSET PVCs, max : Nat, step : Nat, minStep : Nat,
           threshold : Nat, cooldown : Int, strategy : Strategies]

AllFaults == {"fetch", "get", "patch", "lostReply", "status", "crash", "garble", "modify",
              "retry"}

AllFailKinds == {"infeasible", "limit", "nodeLimit", "error"}

ASSUME ClaimAssumption ==
    /\ None \notin PVCs \cup PVCAs
    /\ PVCAs # {}
    /\ IsFiniteSet(PVCAs)
    /\ TargetSets \subseteq SUBSET PVCs
    /\ Unsupported \subseteq PVCs

ASSUME PolicyAssumption == PolicyLists \subseteq Seq(Policy)

ASSUME SizeAssumption ==
    /\ InitSizes \subseteq Nat \ {0}
    /\ UserSizes \subseteq Nat \ {0}
    /\ LagSizes \subseteq Nat
    /\ Percents \subseteq Nat
    /\ Granule \in Nat \ {0}
    /\ StorageLimit \in Nat
    /\ MaxNow \in Nat

ASSUME SwitchAssumption ==
    /\ Faults \subseteq AllFaults
    /\ FailKinds \subseteq AllFailKinds
    /\ Kubernetes134 \in BOOLEAN

NoAnnotation == 0
Unparsable == -1     \* an annotation value that is not a quantity
Never == -1          \* no lastResizeTime

\* A volume recommendation.  The current sizes and percentages it also carries
\* are rewritten from the metrics in every tick before they are read.
Rec == [target : Nat, last : Nat \cup {Never}]
NoRec == [target |-> NoSize, last |-> Never]
NoRecs == [p \in PVCs |-> NoRec]

CondStatus == {"none", "True", "False", "Unknown"}

\* What the metrics source reports of a claim; capacity 0 stands both for a
\* claim it does not know and for one it reports with a zero capacity.
Reading == [capacity : Nat, space : Nat, inodes : Nat]
NoReading == [capacity |-> 0, space |-> 0, inodes |-> 0]

VARIABLES
    \* PersistentVolumeClaims
    spec,        \* spec.resources.requests.storage
    cap,         \* status.capacity.storage, 0 while unbound
    prev,        \* the prev-size annotation, NoAnnotation while absent
    conds,       \* true conditions among Resizing, FileSystemResizePending, ModifyingVolume
    alloc,       \* the request the storage system has taken up last, 0 for none
    failed,      \* how the last expansion failed: "no" or one of AllFailKinds
    \* PersistentVolumeClaimAutoscalers
    policies,    \* spec.volumePolicies
    targets,     \* the claims mounted by the Pods of spec.targetRef
    recs,        \* status.volumeRecommendations, per claim
    resizing,    \* status condition Resizing
    available,   \* status condition RecommendationAvailable
    \* the runner
    phase,       \* where reconcileAll is
    tick,        \* what reconcileAll has read in this tick
    job,         \* the locals of reconcilePVCA
    patch,       \* the claim copy and target of the patch about to be sent
    \* time
    now,
    lastScaled   \* history: when the last scale-up of a claim was applied

pvcVars == <<spec, cap, prev, conds, alloc, failed>>
pvcaVars == <<policies, targets, recs, resizing, available>>
runVars == <<phase, tick, job, patch>>
timeVars == <<now, lastScaled>>
vars == <<pvcVars, pvcaVars, runVars, timeVars>>

NoTick == [policies |-> [a \in PVCAs |-> <<>>],
           recs     |-> [a \in PVCAs |-> NoRecs],
           resizing |-> [a \in PVCAs |-> "none"],
           metrics  |-> [p \in PVCs |-> NoReading],
           toFetch  |-> {},
           fetched  |-> [a \in PVCAs |-> {}],
           left     |-> {}]

NoJob == [pvca |-> None, todo |-> {}, recs |-> NoRecs, conds |-> {}, failed |-> FALSE]

NoPatch == [pvc |-> None, spec |-> NoSize, target |-> NoSize, touched |-> FALSE]

Ticks == [policies : [PVCAs -> Seq(Policy)], recs : [PVCAs -> [PVCs -> Rec]],
          resizing : [PVCAs -> CondStatus], metrics : [PVCs -> Reading],
          toFetch : SUBSET PVCAs, fetched : [PVCAs -> SUBSET PVCs], left : SUBSET PVCAs]

Jobs == [pvca : PVCAs \cup {None}, todo : SUBSET PVCs, recs : [PVCs -> Rec],
         conds : SUBSET {"True", "False", "Unknown"}, failed : BOOLEAN]

Patches == [pvc : PVCs \cup {None}, spec : Nat, target : Nat, touched : BOOLEAN]

PVCTypeOK ==
    /\ spec \in [PVCs -> Nat \ {0}]
    /\ cap \in [PVCs -> Nat]
    /\ prev \in [PVCs -> Nat \cup {Unparsable}]
    /\ conds \in [PVCs -> SUBSET {"Resizing", "FileSystemResizePending", "ModifyingVolume"}]
    /\ alloc \in [PVCs -> Nat]
    /\ failed \in [PVCs -> AllFailKinds \cup {"no"}]

PVCATypeOK ==
    /\ policies \in [PVCAs -> Seq(Policy)]
    /\ targets \in [PVCAs -> SUBSET PVCs]
    /\ recs \in [PVCAs -> [PVCs -> Rec]]
    /\ resizing \in [PVCAs -> CondStatus]
    /\ available \in [PVCAs -> CondStatus]

\* While a PVCA is worked on the job names it; while a patch is pending the
\* patch names its claim and grows or reduces it to a positive size.
RunnerTypeOK ==
    /\ phase \in {"idle", "fetch", "pick", "claim", "resize", "recover"}
    /\ tick \in Ticks
    /\ job \in Jobs
    /\ patch \in Patches
    /\ phase \in {"claim", "resize", "recover"} => job.pvca \in PVCAs
    /\ phase \in {"resize", "recover"} => patch.pvc \in PVCs /\ patch.target # 0

TypeOK ==
    /\ PVCTypeOK
    /\ PVCATypeOK
    /\ RunnerTypeOK
    /\ now \in Nat
    /\ lastScaled \in [PVCs -> Nat \cup {Never}]

\* Mutant of validateVolumePolicies: minStepAbsolute is not checked.
validateCapacityAndCooldown(list) ==
    \A i \in DOMAIN list : list[i].max > 0 /\ list[i].cooldown >= 0

\* The validating webhook.  Globs stand for the claims they match and are well formed.
validateVolumePolicies(list) ==
    \A i \in DOMAIN list :
        /\ list[i].max > 0
        /\ list[i].minStep >= ScalingResolution
        /\ list[i].cooldown >= 0

ValidLists == {list \in PolicyLists : validateVolumePolicies(list)}

Init ==
    /\ spec \in [PVCs -> InitSizes]
    /\ cap = [p \in PVCs |-> 0]
    /\ prev = [p \in PVCs |-> NoAnnotation]
    /\ conds = [p \in PVCs |-> {}]
    /\ alloc = [p \in PVCs |-> 0]
    /\ failed = [p \in PVCs |-> "no"]
    /\ policies \in [PVCAs -> ValidLists]
    /\ targets \in [PVCAs -> TargetSets]
    /\ recs = [a \in PVCAs |-> NoRecs]
    /\ resizing = [a \in PVCAs |-> "none"]
    /\ available = [a \in PVCAs |-> "none"]
    /\ phase = "idle"
    /\ tick = NoTick
    /\ job = NoJob
    /\ patch = NoPatch
    /\ now = 0
    /\ lastScaled = [p \in PVCs |-> Never]

-----------------------------------------------------------------------------
(***************************************************************************)
(* The policy of a claim                                                   *)
(***************************************************************************)
HasPolicy(p, list) == \E i \in DOMAIN list : p \in list[i].match

\* The first policy in list order whose glob matches.
GetVolumePolicy(p, list) ==
    list[CHOOSE i \in DOMAIN list :
            /\ p \in list[i].match
            /\ \A j \in DOMAIN list : j < i => p \notin list[j].match]

CurrentPolicy(p) == GetVolumePolicy(p, tick.policies[job.pvca])

(***************************************************************************)
(* What reconcilePVCA decides about one claim                              *)
(***************************************************************************)
Owners(p) == {a \in PVCAs : p \in tick.fetched[a]}

ValidPVC(p, policy) ==
    /\ cap[p] # 0
    /\ cap[p] <= policy.max
    /\ p \notin Unsupported

\* Mutant of UsableMetrics: stale readings are used.
AnyMetrics(p) == tick.metrics[p].capacity # 0

UsableMetrics(p) ==
    /\ tick.metrics[p].capacity # 0
    /\ ~IsStale(cap[p], tick.metrics[p].capacity)

\* Mutant of ShouldRecover: limit errors are not recognised.
ShouldRecoverInfeasible(p) == failed[p] = "infeasible"

\* A NodeResizeError condition ("nodeLimit") is not looked at.
ShouldRecover(p) == failed[p] \in {"infeasible", "limit"}

OverThreshold(p, policy) ==
    \/ tick.metrics[p].space > policy.threshold
    \/ tick.metrics[p].inodes > policy.threshold

\* Mutants of IsResizeInProgress: the annotation is not looked at, or not compared
\* with the capacity.
ConditionSaysInProgress(p) == conds[p] # {}
AnnotationSaysInProgress(p) == conds[p] # {} \/ prev[p] # NoAnnotation

IsResizeInProgress(p) ==
    \/ conds[p] # {}
    \/ prev[p] = Unparsable
    \/ prev[p] # NoAnnotation /\ prev[p] = cap[p]

Target(p, policy) == RecommendedSize(spec[p], policy.step, policy.minStep, policy.max)

IsInCooldown(p, policy) ==
    /\ policy.cooldown # 0
    /\ job.recs[p].last # Never
    /\ now - job.recs[p].last < policy.cooldown

\* Mutant of Verdict: the maximum is not checked before the patch is planned.
VerdictBeyondMax(p) ==
    LET policy == CurrentPolicy(p)
    IN  IF Cardinality(Owners(p)) > 1 THEN "ambiguous"
        ELSE IF ~HasPolicy(p, tick.policies[job.pvca]) THEN "noPolicy"
        ELSE IF ~ValidPVC(p, policy) \/ ~UsableMetrics(p) THEN "invalid"
        ELSE IF IsResizeInProgress(p) THEN "inProgress"
        ELSE IF ~OverThreshold(p, policy) THEN "belowThreshold"
        ELSE "resize"

\* The early returns of the loop body, in the order of the code.
Verdict(p) ==
    LET policy == CurrentPolicy(p)
    IN  IF Cardinality(Owners(p)) > 1 THEN "ambiguous"
        ELSE IF ~HasPolicy(p, tick.policies[job.pvca]) THEN "noPolicy"
        ELSE IF ~ValidPVC(p, policy) THEN "invalid"
        ELSE IF ~UsableMetrics(p) THEN "noMetrics"
        ELSE IF ShouldRecover(p)
             THEN IF Kubernetes134 /\ RecoverySize(spec[p], cap[p]) < spec[p]
                  THEN "recover" ELSE "unrecoverable"
        ELSE IF IsResizeInProgress(p)
             THEN IF conds[p] = {} /\ prev[p] = Unparsable THEN "unparsable" ELSE "inProgress"
        ELSE IF ~OverThreshold(p, policy) THEN "belowThreshold"
        ELSE IF Target(p, policy) = NoSize THEN "atMax"
        ELSE IF policy.strategy = "Off" THEN "off"
        ELSE IF IsInCooldown(p, policy) THEN "cooldown"
        ELSE "resize"

Skipped == {"ambiguous", "noPolicy", "invalid", "noMetrics"}

Settled == {"unrecoverable", "inProgress", "unparsable", "belowThreshold", "atMax",
            "off", "cooldown"}

\* The Resizing status, if any, that a settled claim contributes.
ReportedStatus(p, verdict) ==
    CASE verdict = "inProgress" -> {"True"}
      [] verdict = "unparsable" -> {"Unknown"}
      [] verdict = "cooldown" -> {"False"}
      [] verdict = "atMax" /\ CurrentPolicy(p).strategy # "Off" -> {"False"}
      [] OTHER -> {}

\* The claim's recommendation, created with the request as target when missing.
UpdatedRec(p) ==
    IF job.recs[p] = NoRec THEN [target |-> spec[p], last |-> Never] ELSE job.recs[p]

-----------------------------------------------------------------------------
(***************************************************************************)
(* reconcileAll                                                            *)
(***************************************************************************)
\* Forget the tick: it is over, or the process is.
EndTick ==
    /\ phase' = "idle"
    /\ tick' = NoTick
    /\ job' = NoJob
    /\ patch' = NoPatch

\* List and metricsSource.Get succeed; when one of them fails the tick ends having
\* changed nothing, which is a stuttering step.  A reading carries the capacity the claim
\* has now or, from a lagging source, one it had before.
StartTick ==
    /\ phase = "idle"
    /\ \E metrics \in [PVCs -> [capacity : {cap[p] : p \in PVCs} \cup LagSizes,
                                space : Percents, inodes : Percents]] :
          /\ \A p \in PVCs : metrics[p].capacity \in {cap[p]} \cup {c \in LagSizes : c < cap[p]}
          /\ tick' = [policies |-> policies, recs |-> recs, resizing |-> resizing,
                      metrics |-> metrics, toFetch |-> PVCAs,
                      fetched |-> [a \in PVCAs |-> {}], left |-> {}]
    /\ phase' = "fetch"
    /\ UNCHANGED <<pvcVars, pvcaVars, job, patch, timeVars>>

\* Fetch returns the claims of a PVCA's target.
FetchPVCs(a) ==
    /\ phase = "fetch"
    /\ a \in tick.toFetch
    /\ targets[a] # {}
    /\ tick' = [tick EXCEPT !.toFetch = @ \ {a}, !.fetched[a] = targets[a], !.left = @ \cup {a}]
    /\ phase' = IF tick.toFetch = {a} THEN "pick" ELSE "fetch"
    /\ UNCHANGED <<pvcVars, pvcaVars, job, patch, timeVars>>

\* Fetch finds no Pods or no claims, or fails: the recommendations are cleared
\* and the PVCA takes no further part in this tick.
FetchFails(a) ==
    /\ phase = "fetch"
    /\ a \in tick.toFetch
    /\ targets[a] = {} \/ "fetch" \in Faults
    /\ \/ /\ recs' = [recs EXCEPT ![a] = NoRecs]
          /\ available' = [available EXCEPT ![a] = "False"]
          /\ resizing' = [resizing EXCEPT ![a] = IF tick.resizing[a] = "none" THEN "none" ELSE "Unknown"]
       \/ /\ "status" \in Faults
          /\ UNCHANGED <<recs, available, resizing>>
    /\ IF tick.toFetch = {a} /\ tick.left = {}
       THEN EndTick
       ELSE /\ tick' = [tick EXCEPT !.toFetch = @ \ {a}]
            /\ phase' = IF tick.toFetch = {a} THEN "pick" ELSE "fetch"
            /\ UNCHANGED <<job, patch>>
    /\ UNCHANGED <<pvcVars, policies, targets, timeVars>>

(***************************************************************************)
(* reconcilePVCA                                                           *)
(***************************************************************************)
\* Mutant of StartPVCA: recommendations of claims no longer fetched are kept.
StartPVCAUnpruned(a) ==
    /\ phase = "pick"
    /\ a \in tick.left
    /\ tick' = [tick EXCEPT !.left = @ \ {a}]
    /\ job' = [pvca |-> a, todo |-> tick.fetched[a], recs |-> tick.recs[a], conds |-> {}, failed |-> FALSE]
    /\ phase' = "claim"
    /\ UNCHANGED <<pvcVars, pvcaVars, patch, timeVars>>

\* The next PVCA, in the arbitrary order of a Go map.  Recommendations of claims
\* that are no longer fetched or match no policy are dropped.
StartPVCA(a) ==
    /\ phase = "pick"
    /\ a \in tick.left
    /\ tick' = [tick EXCEPT !.left = @ \ {a}]
    /\ job' = [pvca |-> a, todo |-> tick.fetched[a],
               recs |-> [p \in PVCs |-> IF p \in tick.fetched[a] /\ HasPolicy(p, tick.policies[a])
                                        THEN tick.recs[a][p] ELSE NoRec],
               conds |-> {}, failed |-> FALSE]
    /\ phase' = "claim"
    /\ UNCHANGED <<pvcVars, pvcaVars, patch, timeVars>>

\* A claim that is left out of this tick, its recommendation kept as it was:
\* claimed twice, without policy, invalid or without usable metrics.
SkipClaim(p) ==
    /\ phase = "claim"
    /\ p \in job.todo
    /\ Verdict(p) \in Skipped
    /\ job' = [job EXCEPT !.todo = @ \ {p}, !.failed = @ \/ Verdict(p) # "noPolicy"]
    /\ UNCHANGED <<pvcVars, pvcaVars, phase, tick, patch, timeVars>>

\* The claim, or its storage class, cannot be read.
GetFails(p) ==
    /\ phase = "claim"
    /\ p \in job.todo
    /\ Verdict(p) # "ambiguous"
    /\ "get" \in Faults
    /\ job' = [job EXCEPT !.todo = @ \ {p}, !.failed = TRUE]
    /\ UNCHANGED <<pvcVars, pvcaVars, phase, tick, patch, timeVars>>

\* A claim that is evaluated and not patched.
SettleClaim(p) ==
    /\ phase = "claim"
    /\ p \in job.todo
    /\ Verdict(p) \in Settled
    /\ job' = [job EXCEPT
                 !.todo = @ \ {p},
                 !.recs[p] = IF Verdict(p) = "off"
                             THEN [UpdatedRec(p) EXCEPT !.target = Target(p, CurrentPolicy(p))]
                             ELSE UpdatedRec(p),
                 !.conds = @ \cup ReportedStatus(p, Verdict(p))]
    /\ UNCHANGED <<pvcVars, pvcaVars, phase, tick, patch, timeVars>>

\* The claim copy has been read and a patch computed from it; the patch is sent
\* by a later step, and other writers may come in between.
PlanResize(p) ==
    /\ phase = "claim"
    /\ p \in job.todo
    /\ Verdict(p) = "resize"
    /\ phase' = "resize"
    /\ patch' = [pvc |-> p, spec |-> spec[p], target |-> Target(p, CurrentPolicy(p)), touched |-> FALSE]
    /\ job' = [job EXCEPT !.todo = @ \ {p}, !.recs[p] = UpdatedRec(p)]
    /\ UNCHANGED <<pvcVars, pvcaVars, tick, timeVars>>

PlanRecovery(p) ==
    /\ phase = "claim"
    /\ p \in job.todo
    /\ Verdict(p) = "recover"
    /\ phase' = "recover"
    /\ patch' = [pvc |-> p, spec |-> spec[p], target |-> RecoverySize(spec[p], cap[p]), touched |-> FALSE]
    /\ job' = [job EXCEPT !.todo = @ \ {p}, !.recs[p] = UpdatedRec(p)]
    /\ UNCHANGED <<pvcVars, pvcaVars, tick, timeVars>>

\* What the API server admits: growth, and since 1.34 a reduction of a request
\* that stays above the capacity.
Admits(p, size) == size >= spec[p] \/ (Kubernetes134 /\ size > cap[p])

\* The planned patch is over; the loop goes on.
PatchDone(status, rec) ==
    /\ phase' = "claim"
    /\ patch' = NoPatch
    /\ job' = [job EXCEPT !.recs[patch.pvc] = rec, !.conds = @ \cup status]

\* Mutant of ApplyResize: the annotation records the new size.
ApplyResizeAnnotatesTarget ==
    /\ prev' = [prev EXCEPT ![patch.pvc] = patch.target]
    /\ spec' = [spec EXCEPT ![patch.pvc] = patch.target]
    /\ lastScaled' = [lastScaled EXCEPT ![patch.pvc] = now]

\* resizePVC: a merge patch without optimistic lock.
ApplyResize ==
    /\ prev' = [prev EXCEPT ![patch.pvc] = patch.spec]
    /\ spec' = [spec EXCEPT ![patch.pvc] = patch.target]
    /\ lastScaled' = [lastScaled EXCEPT ![patch.pvc] = now]

\* Mutant of ResizePVC: lastResizeTime is not set.
ResizePVCUntimed ==
    /\ phase = "resize"
    /\ Admits(patch.pvc, patch.target)
    /\ ApplyResize
    /\ PatchDone({"True"}, [job.recs[patch.pvc] EXCEPT !.target = patch.target])
    /\ UNCHANGED <<cap, conds, alloc, failed, pvcaVars, tick, now>>

ResizePVC ==
    /\ phase = "resize"
    /\ Admits(patch.pvc, patch.target)
    /\ ApplyResize
    /\ PatchDone({"True"}, [target |-> patch.target, last |-> now])
    /\ UNCHANGED <<cap, conds, alloc, failed, pvcaVars, tick, now>>

\* The patch is rejected, fails, or is applied while its answer is lost.
ResizePVCFails ==
    /\ phase = "resize"
    /\ \/ /\ ~Admits(patch.pvc, patch.target) \/ "patch" \in Faults
          /\ UNCHANGED <<prev, spec, lastScaled>>
       \/ /\ Admits(patch.pvc, patch.target) /\ "lostReply" \in Faults
          /\ ApplyResize
    /\ PatchDone({"False"}, job.recs[patch.pvc])
    /\ UNCHANGED <<cap, conds, alloc, failed, pvcaVars, tick, now>>

\* Mutants of Recover: without the optimistic lock, and without updating the target.
RecoverUnlocked ==
    /\ phase = "recover"
    /\ Admits(patch.pvc, patch.target)
    /\ spec' = [spec EXCEPT ![patch.pvc] = patch.target]
    /\ PatchDone({"True"}, [job.recs[patch.pvc] EXCEPT !.target = patch.target])
    /\ UNCHANGED <<cap, prev, conds, alloc, failed, pvcaVars, tick, timeVars>>

RecoverKeepsTarget ==
    /\ phase = "recover"
    /\ ~patch.touched
    /\ Admits(patch.pvc, patch.target)
    /\ spec' = [spec EXCEPT ![patch.pvc] = patch.target]
    /\ PatchDone({"True"}, job.recs[patch.pvc])
    /\ UNCHANGED <<cap, prev, conds, alloc, failed, pvcaVars, tick, timeVars>>

\* Recover: a merge patch with optimistic lock.
Recover ==
    /\ phase = "recover"
    /\ ~patch.touched
    /\ Admits(patch.pvc, patch.target)
    /\ spec' = [spec EXCEPT ![patch.pvc] = patch.target]
    /\ PatchDone({"True"}, [job.recs[patch.pvc] EXCEPT !.target = patch.target])
    /\ UNCHANGED <<cap, prev, conds, alloc, failed, pvcaVars, tick, timeVars>>

\* The claim was written since it was read.
RecoverConflict ==
    /\ phase = "recover"
    /\ patch.touched
    /\ PatchDone({}, job.recs[patch.pvc])
    /\ UNCHANGED <<pvcVars, pvcaVars, tick, timeVars>>

RecoverFails ==
    /\ phase = "recover"
    /\ \/ /\ "patch" \in Faults
          /\ UNCHANGED spec
       \/ /\ "lostReply" \in Faults /\ ~patch.touched /\ Admits(patch.pvc, patch.target)
          /\ spec' = [spec EXCEPT ![patch.pvc] = patch.target]
    /\ PatchDone({"False"}, job.recs[patch.pvc])
    /\ UNCHANGED <<cap, prev, conds, alloc, failed, pvcaVars, tick, timeVars>>

(***************************************************************************)
(* setStatus, with the aggregated conditions                               *)
(***************************************************************************)
\* True outweighs False, False outweighs Unknown; nothing reported removes the
\* condition.
AggregatedResizing(statuses) ==
    IF statuses = {} THEN "none"
    ELSE IF "True" \in statuses THEN "True"
    ELSE IF "False" \in statuses THEN "False"
    ELSE "Unknown"

AggregatedRecommendation(anyFailed) == IF anyFailed THEN "False" ELSE "True"

\* Go on with the next PVCA, or end the tick.
NextPVCA ==
    IF tick.left = {}
    THEN EndTick
    ELSE /\ phase' = "pick"
         /\ job' = NoJob
         /\ UNCHANGED <<tick, patch>>

SetStatus ==
    /\ phase = "claim"
    /\ job.todo = {}
    /\ recs' = [recs EXCEPT ![job.pvca] = job.recs]
    /\ resizing' = [resizing EXCEPT ![job.pvca] = AggregatedResizing(job.conds)]
    /\ available' = [available EXCEPT ![job.pvca] = AggregatedRecommendation(job.failed)]
    /\ NextPVCA
    /\ UNCHANGED <<pvcVars, policies, targets, timeVars>>

\* The error is logged and nothing else.
SetStatusFails ==
    /\ phase = "claim"
    /\ job.todo = {}
    /\ "status" \in Faults
    /\ NextPVCA
    /\ UNCHANGED <<pvcVars, pvcaVars, timeVars>>

\* The process dies; its successor starts with the next tick.
Crash ==
    /\ "crash" \in Faults
    /\ phase # "idle"
    /\ EndTick
    /\ UNCHANGED <<pvcVars, pvcaVars, timeVars>>

-----------------------------------------------------------------------------
(***************************************************************************)
(* The environment.  A write to the claim whose patch is pending makes the *)
(* resourceVersion of the runner's copy out of date.                       *)
(***************************************************************************)
Touch(p) == patch' = IF patch.pvc = p THEN [patch EXCEPT !.touched = TRUE] ELSE patch

EnvUnchanged == UNCHANGED <<pvcaVars, phase, tick, job, timeVars>>

Bind(p) ==
    /\ cap[p] = 0
    /\ cap' = [cap EXCEPT ![p] = RoundUp(spec[p], Granule)]
    /\ Touch(p)
    /\ EnvUnchanged /\ UNCHANGED <<spec, prev, conds, alloc, failed>>

Expanding(p) == alloc[p] # 0 /\ failed[p] = "no"

\* The CSI resizer takes up a request above the capacity.  A transient failure is
\* retried; an infeasible request is not, unless "retry" is among the faults.
ExpansionStarts(p) ==
    /\ cap[p] # 0
    /\ spec[p] > cap[p]
    /\ ~Expanding(p)
    /\ alloc[p] # spec[p] \/ failed[p] = "error" \/ "retry" \in Faults
    /\ alloc' = [alloc EXCEPT ![p] = spec[p]]
    /\ failed' = [failed EXCEPT ![p] = "no"]
    /\ conds' = [conds EXCEPT ![p] = (@ \ {"FileSystemResizePending"}) \cup {"Resizing"}]
    /\ Touch(p)
    /\ EnvUnchanged /\ UNCHANGED <<spec, cap, prev>>

\* The volume has grown; the file system is left to the kubelet.
FileSystemPending(p) ==
    /\ Expanding(p)
    /\ alloc[p] <= StorageLimit
    /\ "FileSystemResizePending" \notin conds[p]
    /\ conds' = [conds EXCEPT ![p] = (@ \ {"Resizing"}) \cup {"FileSystemResizePending"}]
    /\ Touch(p)
    /\ EnvUnchanged /\ UNCHANGED <<spec, cap, prev, alloc, failed>>

ExpansionDone(p) ==
    /\ Expanding(p)
    /\ alloc[p] <= StorageLimit
    /\ cap' = [cap EXCEPT ![p] = RoundUp(alloc[p], Granule)]
    /\ alloc' = [alloc EXCEPT ![p] = 0]
    /\ conds' = [conds EXCEPT ![p] = @ \ {"Resizing", "FileSystemResizePending"}]
    /\ Touch(p)
    /\ EnvUnchanged /\ UNCHANGED <<spec, prev, failed>>

\* The expansion fails: for good above the limit, for the moment otherwise.
ExpansionFails(p, kind) ==
    /\ Expanding(p)
    /\ kind \in FailKinds
    /\ kind = "error" \/ alloc[p] > StorageLimit
    /\ failed' = [failed EXCEPT ![p] = kind]
    /\ conds' \in {conds, [conds EXCEPT ![p] = @ \ {"Resizing", "FileSystemResizePending"}]}
    /\ Touch(p)
    /\ EnvUnchanged /\ UNCHANGED <<spec, cap, prev, alloc>>

ModifyVolume(p) ==
    /\ "modify" \in Faults
    /\ conds' = [conds EXCEPT ![p] = IF "ModifyingVolume" \in @ THEN @ \ {"ModifyingVolume"}
                                     ELSE @ \cup {"ModifyingVolume"}]
    /\ Touch(p)
    /\ EnvUnchanged /\ UNCHANGED <<spec, cap, prev, alloc, failed>>

UserResizes(p) ==
    /\ cap[p] # 0
    /\ \E size \in UserSizes \ {spec[p]} :
          /\ Admits(p, size)
          /\ spec' = [spec EXCEPT ![p] = size]
    /\ Touch(p)
    /\ EnvUnchanged /\ UNCHANGED <<cap, prev, conds, alloc, failed>>

UserGarblesAnnotation(p) ==
    /\ "garble" \in Faults
    /\ prev' = [prev EXCEPT ![p] = Unparsable]
    /\ Touch(p)
    /\ EnvUnchanged /\ UNCHANGED <<spec, cap, conds, alloc, failed>>

UserEditsPolicies(a) ==
    /\ \E list \in ValidLists \ {policies[a]} : policies' = [policies EXCEPT ![a] = list]
    /\ UNCHANGED <<pvcVars, targets, recs, resizing, available, runVars, timeVars>>

\* Pods of the target come and go, or the target itself is changed.
TargetChanges(a) ==
    /\ \E claims \in TargetSets \ {targets[a]} : targets' = [targets EXCEPT ![a] = claims]
    /\ UNCHANGED <<pvcVars, policies, recs, resizing, available, runVars, timeVars>>

TimePasses ==
    /\ now < MaxNow
    /\ now' = now + 1
    /\ UNCHANGED <<pvcVars, pvcaVars, runVars, lastScaled>>

-----------------------------------------------------------------------------
RunnerWorks ==
    \/ StartTick
    \/ \E a \in PVCAs : FetchPVCs(a) \/ FetchFails(a) \/ StartPVCA(a)
    \/ \E p \in PVCs : SkipClaim(p) \/ GetFails(p) \/ SettleClaim(p) \/ PlanResize(p) \/ PlanRecovery(p)
    \/ ResizePVC \/ ResizePVCFails
    \/ Recover \/ RecoverConflict \/ RecoverFails
    \/ SetStatus \/ SetStatusFails

StorageWorks(p) ==
    \/ Bind(p) \/ ExpansionStarts(p) \/ FileSystemPending(p) \/ ExpansionDone(p)
    \/ \E kind \in AllFailKinds : ExpansionFails(p, kind)
    \/ ModifyVolume(p)

UsersAct ==
    \/ \E p \in PVCs : UserResizes(p) \/ UserGarblesAnnotation(p)
    \/ \E a \in PVCAs : UserEditsPolicies(a) \/ TargetChanges(a)

Next ==
    \/ RunnerWorks
    \/ Crash
    \/ \E p \in PVCs : StorageWorks(p)
    \/ UsersAct
    \/ TimePasses

Spec == Init /\ [][Next]_vars

(***************************************************************************)
(* The runner is a loop driven by a ticker, and each of its calls returns; *)
(* a patch sent again and again does not fail for ever.  The resizer takes *)
(* up every request and ends every expansion it began, for good or with an *)
(* error; an expansion within its means does not fail for ever.            *)
(***************************************************************************)
Fairness ==
    /\ WF_vars(RunnerWorks)
    /\ SF_vars(ResizePVC)
    /\ SF_vars(Recover)
    /\ \A p \in PVCs :
          /\ WF_vars(Bind(p))
          /\ WF_vars(ExpansionStarts(p))
          /\ SF_vars(ExpansionDone(p))
          /\ SF_vars(\E kind \in AllFailKinds \ {"error"} : ExpansionFails(p, kind))

FairSpec == Spec /\ Fairness

-----------------------------------------------------------------------------
(***************************************************************************)
(* Properties                                                              *)
(***************************************************************************)
\* A step in which the scale-up patch of resizePVC reaches claim p, and one in
\* which the patch of Recover does.
ScaledUp(p) == phase = "resize" /\ phase' = "claim" /\ spec'[p] # spec[p]
Recovered(p) == phase = "recover" /\ phase' = "claim" /\ spec'[p] # spec[p]

\* isResizeInProgress never waits for a resize that is already over: whenever
\* the prev-size annotation equals the capacity, the request is above it.
NoPhantomResize ==
    \A p \in PVCs : cap[p] # 0 /\ prev[p] = cap[p] => spec[p] > cap[p]

\* resizePVC never grows a request the storage system has not satisfied yet:
\* the annotation covers the time until the Resizing condition appears.
OneResizeAtATime ==
    [][\A p \in PVCs : ScaledUp(p) => spec[p] <= cap[p] /\ spec[p] < spec'[p]]_vars

\* A scale-up never asks for more than the maxCapacity of the policy it was
\* computed from.
ScaleUpWithinMax ==
    [][\A p \in PVCs : ScaledUp(p) => spec'[p] <= CurrentPolicy(p).max]_vars

\* A scale-up is at least one whole resolution step above the request it was
\* computed from, though rounding up and clamping may both shorten it and policies
\* are edited at any time.
ScaleUpIsAStep ==
    [][\A p \in PVCs : ScaledUp(p) => spec'[p] - patch.spec >= ScalingResolution]_vars

\* A recovery reduces the request and keeps it above the capacity, whoever else
\* writes the claim between the read and the patch.
RecoveryAboveCapacity ==
    [][\A p \in PVCs : Recovered(p) => cap[p] < spec'[p] /\ spec'[p] < spec[p]]_vars

\* Two scale-ups of a claim are at least the cooldown of the policy apart.
CooldownRespected ==
    [][\A p \in PVCs : ScaledUp(p) /\ lastScaled[p] # Never =>
          now - lastScaled[p] >= CurrentPolicy(p).cooldown]_vars

\* A claim is listed in the recommendations of at most one PVCA.
SingleOwner ==
    \A p \in PVCs : \A a, b \in PVCAs : recs[a][p] # NoRec /\ recs[b][p] # NoRec => a = b

\* Between ticks, the recommended target of a claim is its request.
StatusTellsRequest ==
    phase = "idle" =>
        \A a \in PVCAs, p \in PVCs : recs[a][p] # NoRec => recs[a][p].target = spec[p]

\* A claim that stays above its threshold grows until no headroom is left below
\* the maximum of its policy or the limit of the storage system.
GrowsToLimit ==
    \A p \in PVCs : <>[](\A a \in PVCAs :
        \/ AtMaxCapacity(cap[p], GetVolumePolicy(p, policies[a]).max)
        \/ AtMaxCapacity(cap[p], StorageLimit))

\* A failure the code means to recover from, reported by the controller or by the
\* node, does not persist while a smaller request is left to try.
FailureRecovered ==
    \A p \in PVCs :
        (failed[p] \in {"infeasible", "limit", "nodeLimit"} /\ RecoverySize(spec[p], cap[p]) < spec[p])
            ~> (failed[p] = "no" \/ RecoverySize(spec[p], cap[p]) >= spec[p])

\* A scale-up never rests on a reading taken before the capacity last changed.
NoStaleScaleUp ==
    [][\A p \in PVCs : ScaledUp(p) => tick.metrics[p].capacity = cap[p]]_vars

\* Once no target changes any more and no two of them share a claim, every claim
\* ends up in the recommendations of one PVCA only.
DisjointTargets == \A a, b \in PVCAs : a # b => targets[a] \cap targets[b] = {}

OwnershipSettles == <>[]DisjointTargets /\ <>[][UNCHANGED targets]_vars => <>[]SingleOwner

\* Where a claim is in its life, as ClaimLife tells it.
Stage(p) ==
    IF cap[p] = 0 THEN "unbound"
    ELSE IF spec[p] = cap[p] THEN "satisfied"
    ELSE IF failed[p] # "no" THEN "failed"
    ELSE IF alloc[p] # 0 THEN "expanding" ELSE "requested"

Life == INSTANCE ClaimLife WITH
            Claims <- PVCs, request <- spec, capacity <- cap, stage <- [p \in PVCs |-> Stage(p)]

\* Through ticks, lost answers, crashes and recoveries, every claim lives the life
\* ClaimLife allows: resizePVC is seen only on satisfied claims, Recover only on
\* failed ones.
ImplementsClaimLife == Life!Spec

-----------------------------------------------------------------------------
(***************************************************************************)
(* The invariants behind the proofs                                        *)
(***************************************************************************)
\* What is known of a patch between its computation and its application.  A
\* claim nobody has touched is as it was read; only then does the optimistic
\* lock of Recover let the patch through.
PatchInv ==
    /\ phase = "resize" =>
          /\ patch.target <= CurrentPolicy(patch.pvc).max
          /\ patch.spec < patch.target
          /\ CurrentPolicy(patch.pvc).strategy # "Off"
    /\ phase = "recover" /\ ~patch.touched =>
          /\ cap[patch.pvc] < patch.target
          /\ patch.target < spec[patch.pvc]
          /\ failed[patch.pvc] # "no"

\* A claim's request, capacity and annotation, when the storage system grants
\* exactly what is requested and nobody else changes requests: an unsatisfied
\* request is one the autoscaler made, from the capacity the annotation names.
ClaimInv(p) ==
    /\ cap[p] <= spec[p]
    /\ cap[p] = 0 => prev[p] \in {NoAnnotation, Unparsable}
    /\ cap[p] # 0 /\ cap[p] < spec[p] => prev[p] \in {cap[p], Unparsable}
    /\ cap[p] # 0 /\ prev[p] = cap[p] => cap[p] < spec[p]
    /\ Expanding(p) => cap[p] # 0 /\ cap[p] < spec[p] /\ alloc[p] = spec[p]

\* A failure is one of an unsatisfied request.
FailureInv == \A p \in PVCs : failed[p] # "no" => cap[p] # 0 /\ cap[p] < spec[p]

\* The policies in force, and those the tick works with, have passed the webhook;
\* a pending scale-up computed from them is a whole step.
StepInv ==
    /\ \A a \in PVCAs : validateVolumePolicies(policies[a]) /\ validateVolumePolicies(tick.policies[a])
    /\ phase = "resize" => patch.target - patch.spec >= ScalingResolution

RequestInv ==
    /\ \A p \in PVCs : ClaimInv(p)
    /\ phase = "resize" =>
          /\ cap[patch.pvc] # 0
          /\ spec[patch.pvc] = cap[patch.pvc]
          /\ spec[patch.pvc] = patch.spec

\* How far the tick is: which PVCAs it has still to fetch and to reconcile, and that
\* a claim is patched only if no other PVCA of the tick has fetched it.
TickInv ==
    /\ phase = "idle" => tick.left = {}
    /\ phase # "fetch" => tick.toFetch = {}
    /\ phase \in {"claim", "resize", "recover"} =>
          job.pvca \notin tick.left /\ job.todo \subseteq tick.fetched[job.pvca]
    /\ phase \in {"resize", "recover"} =>
          /\ patch.pvc \in tick.fetched[job.pvca]
          /\ \A b \in PVCAs \ {job.pvca} : patch.pvc \notin tick.fetched[b]

\* Whether the recommendations of a set are for claims that may be targets.
OfTargets(rs) == \A p \in PVCs : rs[p] # NoRec => p \in UNION TargetSets

\* Only claims that some target has had are fetched and recommended for.
TargetedInv ==
    /\ \A a \in PVCAs :
          /\ targets[a] \in TargetSets
          /\ tick.fetched[a] \subseteq UNION TargetSets
          /\ OfTargets(recs[a]) /\ OfTargets(tick.recs[a])
    /\ OfTargets(job.recs)

\* The PVCAs whose status the tick has still to write.
Unwritten ==
    tick.toFetch \cup tick.left
        \cup (IF phase \in {"claim", "resize", "recover"} THEN {job.pvca} ELSE {})

\* Whether the targets of a set of recommendations are the requests of their claims.
TargetsCurrent(rs) == \A p \in PVCs : rs[p] # NoRec => rs[p].target = spec[p]

\* The recommendations that are in force, those the tick has read and those being
\* worked on name the requests, except for claims the tick is about to drop.
StatusInv ==
    /\ \A a \in PVCAs \ Unwritten :
          /\ TargetsCurrent(recs[a])
          /\ phase # "idle" => \A p \in PVCs : recs[a][p] # NoRec => p \in tick.fetched[a]
    /\ phase = "fetch" => \A a \in tick.toFetch \cup tick.left : TargetsCurrent(tick.recs[a])
    /\ \A a \in tick.left : \A p \in tick.fetched[a] :
          tick.recs[a][p] # NoRec => tick.recs[a][p].target = spec[p]
    /\ phase \in {"claim", "resize", "recover"} =>
          /\ TargetsCurrent(job.recs)
          /\ \A p \in PVCs : job.recs[p] # NoRec => p \in tick.fetched[job.pvca]

\* The policies in force and those of the tick are among the lists users write.
PoliciesInv ==
    \A a \in PVCAs : policies[a] \in ValidLists /\ tick.policies[a] \in ValidLists \cup {<<>>}

\* The claims that are the target of one PVCA and of no other.
SoleTarget(a, p) == p \in targets[a] /\ \A b \in PVCAs \ {a} : p \notin targets[b]

\* The recommendation of a claim remembers its last scale-up, wherever the tick has
\* it: in the status, among what it has read, in the job.
MemoryInv(a, p) ==
    /\ a \notin Unwritten => recs[a][p].last = lastScaled[p]
    /\ a \in tick.toFetch \cup tick.left => tick.recs[a][p].last = lastScaled[p]
    /\ phase \in {"claim", "resize", "recover"} /\ a = job.pvca => job.recs[p].last = lastScaled[p]
    /\ lastScaled[p] # Never => HasPolicy(p, policies[a])
    /\ lastScaled[p] # Never /\ a \in tick.toFetch \cup tick.left => HasPolicy(p, tick.policies[a])
    /\ phase # "idle" /\ HasPolicy(p, tick.policies[a]) => HasPolicy(p, policies[a])

CooldownInv ==
    /\ \A p \in PVCs : lastScaled[p] # Never => lastScaled[p] <= now
    /\ phase # "idle" => \A a \in PVCAs \ tick.toFetch : tick.fetched[a] = targets[a]
    /\ \A a \in PVCAs, p \in PVCs : SoleTarget(a, p) => MemoryInv(a, p)
    /\ phase = "resize" =>
          /\ HasPolicy(patch.pvc, tick.policies[job.pvca])
          /\ lastScaled[patch.pvc] # Never =>
                now - lastScaled[patch.pvc] >= CurrentPolicy(patch.pvc).cooldown

\* A capacity that is current or behind by a resolution step or more.
CurrentOrStepBehind(reported, capacity) ==
    reported = capacity \/ reported + ScalingResolution <= capacity

\* Capacities move in whole steps, so that a lagging reading is far off; and a
\* pending scale-up rests on a current one.
ReadingInv ==
    /\ \A p \in PVCs : cap[p] # 0 => CurrentOrStepBehind(cap[p], spec[p])
    /\ \A p \in PVCs, c \in LagSizes : CurrentOrStepBehind(c, IF cap[p] = 0 THEN spec[p] ELSE cap[p])
    /\ phase # "idle" => \A p \in PVCs :
          tick.metrics[p].capacity = 0 \/ CurrentOrStepBehind(tick.metrics[p].capacity, cap[p])
    /\ phase = "resize" => tick.metrics[patch.pvc].capacity = cap[patch.pvc]
    /\ phase = "recover" =>
          /\ cap[patch.pvc] # 0
          /\ ~patch.touched => cap[patch.pvc] + ScalingResolution <= patch.target

=============================================================================
