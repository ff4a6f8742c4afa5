---------------------------- MODULE OfflineResize ----------------------------
(***************************************************************************)
(* The offline-resize controller (internal/controller/offlineresize) with  *)
(* the Pod mutating webhook (internal/webhook/pod).  When a volume cannot  *)
(* be expanded while it is attached, the controller evicts the Pods that   *)
(* use it, the webhook holds their successors behind a scheduling gate,    *)
(* and the controller removes the gate once the volume has grown.          *)
(*                                                                         *)
(* One PersistentVolumeClaimAutoscaler covers all claims.  The storage     *)
(* system, the Pods' life cycle and the periodic runner are environment.   *)
(***************************************************************************)
EXTENDS Naturals, FiniteSets

CONSTANTS
    PVCs,                      \* the claims
    Pods,                      \* the Pod names of the workloads using them
    Mounts,                    \* the claims each Pod mounts
    OfflineOnly,               \* the claims whose volume must be detached to grow
    WorkloadTarget,            \* whether targetRef names a workload, not a claim
    ResizeStrategies,          \* the values resizeStrategy may take
    ErrorKinds,                \* what ControllerResizeError may say
    MaxConcurrentReconciles,   \* workers of the controller
    Faults                     \* the calls that may fail and the events that may happen

AllFaults == {"api", "patch", "blocked", "evict", "webhook", "crash", "delete", "noNodeExpansion",
              "runner"}

ASSUME WorkloadAssumption ==
    /\ Mounts \in [Pods -> SUBSET PVCs]
    /\ OfflineOnly \subseteq PVCs
    /\ WorkloadTarget \in BOOLEAN

ASSUME ControllerAssumption ==
    /\ ResizeStrategies \subseteq {"PreferInPlace", "InPlace", "Off"}
    /\ ErrorKinds \subseteq {"offline", "other"}
    /\ MaxConcurrentReconciles \in Nat \ {0}
    /\ Faults \subseteq AllFaults

VARIABLES
    \* the claims
    wanted,     \* a resize is outstanding: the request is above the capacity
    annotated,  \* the prev-size annotation is present
    error,      \* ControllerResizeError: "none", or what kind of message it carries
    pending,    \* FileSystemResizePending
    \* the Pods
    pod,        \* where each Pod is in its life
    gated,      \* whether it carries the offline-resize scheduling gate
    needed,     \* history: the claims that called for the gate when it was admitted
                \* and whose volume has not grown since
    \* the PersistentVolumeClaimAutoscaler
    listed,     \* the claims in status.volumeRecommendations
    strategy,   \* resizeStrategy of the volume policy
    \* the controller
    queue,      \* the work queue
    delayed,    \* requests that will be added to it after a delay
    work        \* the Reconcile running for each claim

claimVars == <<wanted, annotated, error, pending>>
podVars == <<pod, gated, needed>>
pvcaVars == <<listed, strategy>>
queueVars == <<queue, delayed, work>>
vars == <<claimVars, podVars, pvcaVars, queueVars>>

\* A Pod is admitted (the webhook has answered, the Pod is not stored yet), waits
\* for the scheduler, starts with its volumes attached, runs, and terminates.
PodStates == {"absent", "admitted", "waiting", "starting", "running", "terminating"}

NoWork == [step |-> "none", todo |-> {}]

Works == [step : {"none", "remove", "evict"}, todo : SUBSET Pods]

TypeOK ==
    /\ wanted \in [PVCs -> BOOLEAN]
    /\ annotated \in [PVCs -> BOOLEAN]
    /\ error \in [PVCs -> {"none", "offline", "other"}]
    /\ pending \in [PVCs -> BOOLEAN]
    /\ pod \in [Pods -> PodStates]
    /\ gated \in [Pods -> BOOLEAN]
    /\ needed \in [Pods -> SUBSET PVCs]
    /\ listed \subseteq PVCs
    /\ strategy \in ResizeStrategies
    /\ queue \subseteq PVCs
    /\ delayed \subseteq PVCs
    /\ work \in [PVCs -> Works]

\* Healthy claims, not known to the autoscaler yet, and the Pods that use them.
Init ==
    /\ wanted = [p \in PVCs |-> FALSE]
    /\ annotated = [p \in PVCs |-> FALSE]
    /\ error = [p \in PVCs |-> "none"]
    /\ pending = [p \in PVCs |-> FALSE]
    /\ pod = [k \in Pods |-> "waiting"]
    /\ gated = [k \in Pods |-> FALSE]
    /\ needed = [k \in Pods |-> {}]
    /\ listed = {}
    /\ strategy \in ResizeStrategies
    /\ queue = {}
    /\ delayed = {}
    /\ work = [p \in PVCs |-> NoWork]

-----------------------------------------------------------------------------
(***************************************************************************)
(* Watches and their predicates                                            *)
(***************************************************************************)
Exists(k) == pod[k] \notin {"absent", "admitted"}

\* Mutant of the predicate below: FileSystemResizePending alone is not an event.
PVCIsInResizeError(p) == annotated[p] /\ error[p] # "none"

PVCIsInResizeErrorOrFileSystemResizePending(p) ==
    annotated[p] /\ (error[p] # "none" \/ pending[p])

\* A write to claim p, as the controller hears of it.
ClaimEvent(p) ==
    queue' = IF PVCIsInResizeErrorOrFileSystemResizePending(p)' THEN queue \cup {p} ELSE queue

\* Mutants of PodCreated: Pods are not watched, and the request names the Pod.
PodCreatedUnseen(k) == k \in Pods /\ queue' = queue

PodCreatedByName(k) == queue' = IF gated[k] THEN queue \cup {k} ELSE queue

MapPodToPVCs(k) == Mounts[k]

\* A Pod is stored; only creations of gated Pods are looked at.
PodCreated(k) == queue' = IF gated[k] THEN queue \cup MapPodToPVCs(k) ELSE queue

PVCARecommendationsOrPoliciesChanged == listed' # listed \/ strategy' # strategy

\* An update is mapped twice, as it was and as it is.
MapPVCAToPVCs == listed \cup listed'

\* The autoscaler object changes.
PVCAEvent ==
    queue' = IF PVCARecommendationsOrPoliciesChanged THEN queue \cup MapPVCAToPVCs ELSE queue

(***************************************************************************)
(* Reconcile                                                               *)
(***************************************************************************)
\* Some PVCA has a recommendation for the claim, and its policy applies.
HasOwningPVCA(p) == p \in listed

IsOfflineResizeEnabled == WorkloadTarget /\ strategy = "PreferInPlace"

\* Mutant of IsOfflineResizeRequired: the wrong messages are recognised.
IsOtherError(p) == error[p] = "other"

\* The message of ControllerResizeError asks for the volume to be detached.
IsOfflineResizeRequired(p) == error[p] = "offline"

\* Mutant of GateIsDue: an error that outlives its cause counts as one.
GateIsDueWithoutError(p) == error[p] = "none"

GateIsDue(p) == pending[p] \/ error[p] = "none"

PodsUsingPVC(p) == {k \in Pods : Exists(k) /\ p \in Mounts[k]}

\* Mutant of Plan: Pods are evicted whatever their phase.
PlanEveryPod(p) ==
    IF GateIsDue(p)
    THEN [step |-> "remove", todo |-> {k \in PodsUsingPVC(p) : gated[k]}]
    ELSE IF HasOwningPVCA(p) /\ IsOfflineResizeEnabled /\ IsOfflineResizeRequired(p)
    THEN [step |-> "evict", todo |-> {k \in PodsUsingPVC(p) : pod[k] # "terminating"}]
    ELSE NoWork

\* What Reconcile goes on to do with the claim it has just read: remove gates,
\* evict, or nothing.  Claim, autoscaler object and Pods are read from the caches
\* of the manager's client, without a call in between.
Plan(p) ==
    IF GateIsDue(p)
    THEN [step |-> "remove", todo |-> {k \in PodsUsingPVC(p) : gated[k]}]
    ELSE IF HasOwningPVCA(p) /\ IsOfflineResizeEnabled /\ IsOfflineResizeRequired(p)
    THEN [step |-> "evict", todo |-> {k \in PodsUsingPVC(p) : pod[k] = "running"}]
    ELSE NoWork

Busy == {p \in PVCs : work[p] # NoWork}

Reconcile(p) ==
    /\ p \in queue
    /\ p \notin Busy
    /\ Cardinality(Busy) < MaxConcurrentReconciles
    /\ queue' = queue \ {p}
    /\ work' = [work EXCEPT ![p] = Plan(p)]
    /\ UNCHANGED <<claimVars, podVars, pvcaVars, delayed>>

\* A read fails.
ReconcileFails(p) ==
    /\ "api" \in Faults
    /\ p \in queue
    /\ p \notin Busy
    /\ Cardinality(Busy) < MaxConcurrentReconciles
    /\ queue' = queue \ {p}
    /\ delayed' = delayed \cup {p}
    /\ UNCHANGED <<claimVars, podVars, pvcaVars, work>>

\* Reconcile returns; with an error or RequeueAfter the request comes back.
Return(p, requeue) ==
    /\ work' = [work EXCEPT ![p] = NoWork]
    /\ delayed' = IF requeue THEN delayed \cup {p} ELSE delayed

\* removeSchedulingGates: a merge patch to whatever Pod has the name by now.
RemoveGate(p, k) ==
    /\ work[p].step = "remove"
    /\ k \in work[p].todo
    /\ Exists(k)
    /\ gated' = [gated EXCEPT ![k] = FALSE]
    /\ work' = [work EXCEPT ![p].todo = @ \ {k}]
    /\ UNCHANGED <<claimVars, pod, needed, pvcaVars, queue, delayed>>

\* The Pod is gone or the patch fails; the Pods not reached yet wait for the retry.
RemoveGateFails(p, k) ==
    /\ work[p].step = "remove"
    /\ k \in work[p].todo
    /\ ~Exists(k) \/ "patch" \in Faults
    /\ Return(p, TRUE)
    /\ UNCHANGED <<claimVars, podVars, pvcaVars, queue>>

\* evictPodsUsingPVC: the eviction, too, goes by name.
Evict(p, k) ==
    /\ work[p].step = "evict"
    /\ k \in work[p].todo
    /\ Exists(k)
    /\ pod' = [pod EXCEPT ![k] = "terminating"]
    /\ work' = [work EXCEPT ![p].todo = @ \ {k}]
    /\ UNCHANGED <<claimVars, gated, needed, pvcaVars, queue, delayed>>

\* Not found, or blocked by a PodDisruptionBudget: the loop goes on.
EvictPassesOver(p, k) ==
    /\ work[p].step = "evict"
    /\ k \in work[p].todo
    /\ ~Exists(k) \/ "blocked" \in Faults
    /\ work' = [work EXCEPT ![p].todo = @ \ {k}]
    /\ UNCHANGED <<claimVars, podVars, pvcaVars, queue, delayed>>

EvictFails(p, k) ==
    /\ "evict" \in Faults
    /\ work[p].step = "evict"
    /\ k \in work[p].todo
    /\ Return(p, TRUE)
    /\ UNCHANGED <<claimVars, podVars, pvcaVars, queue>>

\* After evictions the request always comes back: by RequeueAfter, or by the error
\* that reports a blocked one.
ReconcileDone(p) ==
    /\ work[p].step \in {"remove", "evict"}
    /\ work[p].todo = {}
    /\ Return(p, work[p].step = "evict")
    /\ UNCHANGED <<claimVars, podVars, pvcaVars, queue>>

\* The delay of a request is over.
Requeue(p) ==
    /\ p \in delayed
    /\ delayed' = delayed \ {p}
    /\ queue' = queue \cup {p}
    /\ UNCHANGED <<claimVars, podVars, pvcaVars, work>>

\* The process dies; its successor hears of every claim and every gated Pod.
Restart ==
    /\ "crash" \in Faults
    /\ queue' = {p \in PVCs : PVCIsInResizeErrorOrFileSystemResizePending(p)}
                   \cup UNION {MapPodToPVCs(k) : k \in {j \in Pods : Exists(j) /\ gated[j]}}
    /\ delayed' = {}
    /\ work' = [p \in PVCs |-> NoWork]
    /\ UNCHANGED <<claimVars, podVars, pvcaVars>>

(***************************************************************************)
(* The webhook                                                             *)
(***************************************************************************)
NeedsOffline(p) == IsOfflineResizeRequired(p) /\ ~pending[p]

\* Mutant of ShouldGate: the two conditions of the claim are confused.
ShouldGatePending(k) == \E p \in Mounts[k] : pending[p] /\ HasOwningPVCA(p) /\ IsOfflineResizeEnabled

ShouldGate(k) == \E p \in Mounts[k] : NeedsOffline(p) /\ HasOwningPVCA(p) /\ IsOfflineResizeEnabled

\* The API server asks the webhook; with failurePolicy Ignore the Pod is admitted
\* ungated when the webhook does not answer, as it is when its reads fail.
Handle(k) ==
    /\ pod[k] = "absent"
    /\ pod' = [pod EXCEPT ![k] = "admitted"]
    /\ \/ gated' = [gated EXCEPT ![k] = ShouldGate(k)]
       \/ "webhook" \in Faults /\ gated' = [gated EXCEPT ![k] = FALSE]
    /\ needed' = [needed EXCEPT ![k] = {p \in Mounts[k] : NeedsOffline(p) /\ IsOfflineResizeEnabled}]
    /\ UNCHANGED <<claimVars, pvcaVars, queueVars>>

-----------------------------------------------------------------------------
(***************************************************************************)
(* The environment: Pods                                                   *)
(***************************************************************************)
PodStored(k) ==
    /\ pod[k] = "admitted"
    /\ pod' = [pod EXCEPT ![k] = "waiting"]
    /\ PodCreated(k)
    /\ UNCHANGED <<claimVars, gated, needed, pvcaVars, delayed, work>>

PodScheduled(k) ==
    /\ pod[k] = "waiting"
    /\ ~gated[k]
    /\ pod' = [pod EXCEPT ![k] = "starting"]
    /\ UNCHANGED <<claimVars, gated, needed, pvcaVars, queueVars>>

PodRuns(k) ==
    /\ pod[k] = "starting"
    /\ pod' = [pod EXCEPT ![k] = "running"]
    /\ UNCHANGED <<claimVars, gated, needed, pvcaVars, queueVars>>

PodGone(k) ==
    /\ pod[k] = "terminating"
    /\ pod' = [pod EXCEPT ![k] = "absent"]
    /\ gated' = [gated EXCEPT ![k] = FALSE]
    /\ UNCHANGED <<claimVars, needed, pvcaVars, queueVars>>

UserDeletesPod(k) ==
    /\ "delete" \in Faults
    /\ Exists(k)
    /\ pod' = [pod EXCEPT ![k] = "terminating"]
    /\ UNCHANGED <<claimVars, gated, needed, pvcaVars, queueVars>>

(***************************************************************************)
(* The environment: claims                                                 *)
(***************************************************************************)
Attached(p) == \E k \in Pods : pod[k] \in {"starting", "running", "terminating"} /\ p \in Mounts[k]

\* The patch of resizePVC.
ResizeRequested(p) ==
    /\ ~wanted[p]
    /\ wanted' = [wanted EXCEPT ![p] = TRUE]
    /\ annotated' = [annotated EXCEPT ![p] = TRUE]
    /\ UNCHANGED <<error, pending>>
    /\ ClaimEvent(p)
    /\ UNCHANGED <<podVars, pvcaVars, delayed, work>>

\* A write that concerns nothing the controller reads, such as a Resizing condition
\* or a smaller request after a failure.
ClaimTouched(p) ==
    /\ UNCHANGED <<claimVars, podVars, pvcaVars, delayed, work>>
    /\ ClaimEvent(p)

ExpansionFails(p, kind) ==
    /\ kind \in ErrorKinds \ {error[p]}
    /\ wanted[p] /\ ~pending[p]
    /\ kind = "offline" => p \in OfflineOnly /\ Attached(p)
    /\ error' = [error EXCEPT ![p] = kind]
    /\ UNCHANGED <<wanted, annotated, pending>>
    /\ ClaimEvent(p)
    /\ UNCHANGED <<podVars, pvcaVars, delayed, work>>

\* No Pod has to be held for claim p any more.
VolumeHasGrown(p) == needed' = [k \in Pods |-> needed[k] \ {p}]

CanExpand(p) == wanted[p] /\ ~pending[p] /\ (p \in OfflineOnly => ~Attached(p))

\* The volume has grown and the kubelet has to grow the file system; the error
\* condition is removed now or with the next status update.
VolumeExpanded(p) ==
    /\ CanExpand(p)
    /\ pending' = [pending EXCEPT ![p] = TRUE]
    /\ error' \in {error, [error EXCEPT ![p] = "none"]}
    /\ UNCHANGED <<wanted, annotated>>
    /\ VolumeHasGrown(p)
    /\ ClaimEvent(p)
    /\ UNCHANGED <<pod, gated, pvcaVars, delayed, work>>

\* The resize is over: without work for the kubelet, or when it has done it for a
\* Pod that has started.
ResizeDone(p) ==
    /\ \/ CanExpand(p) /\ "noNodeExpansion" \in Faults
       \/ pending[p] /\ \E k \in Pods : pod[k] = "running" /\ p \in Mounts[k]
    /\ wanted' = [wanted EXCEPT ![p] = FALSE]
    /\ pending' = [pending EXCEPT ![p] = FALSE]
    /\ error' = [error EXCEPT ![p] = "none"]
    /\ UNCHANGED annotated
    /\ VolumeHasGrown(p)
    /\ ClaimEvent(p)
    /\ UNCHANGED <<pod, gated, pvcaVars, delayed, work>>

(***************************************************************************)
(* The environment: the autoscaler object                                  *)
(***************************************************************************)
\* A tick of the periodic runner writes recommendations for the claims it has found
\* in use and evaluated.  It drops some when Pods are absent or a call fails.
RunnerTick ==
    /\ listed' \in (SUBSET UNION {Mounts[k] : k \in Pods}) \ {listed}
    /\ listed \subseteq listed' \/ "runner" \in Faults
    /\ UNCHANGED strategy
    /\ PVCAEvent
    /\ UNCHANGED <<claimVars, podVars, delayed, work>>

UserChangesStrategy ==
    /\ strategy' \in ResizeStrategies \ {strategy}
    /\ UNCHANGED listed
    /\ PVCAEvent
    /\ UNCHANGED <<claimVars, podVars, delayed, work>>

-----------------------------------------------------------------------------
ControllerWorks(p) ==
    \/ Reconcile(p) \/ ReconcileFails(p) \/ ReconcileDone(p) \/ Requeue(p)
    \/ \E k \in Pods : \/ RemoveGate(p, k) \/ RemoveGateFails(p, k)
                       \/ Evict(p, k) \/ EvictPassesOver(p, k) \/ EvictFails(p, k)

PodLives(k) == Handle(k) \/ PodStored(k) \/ PodScheduled(k) \/ PodRuns(k) \/ PodGone(k)

ClaimChanges(p) ==
    \/ ResizeRequested(p)
    \/ ClaimTouched(p)
    \/ \E kind \in ErrorKinds : ExpansionFails(p, kind)
    \/ VolumeExpanded(p)
    \/ ResizeDone(p)

Next ==
    \/ \E p \in PVCs : ControllerWorks(p) \/ ClaimChanges(p)
    \/ \E k \in Pods : PodLives(k) \/ UserDeletesPod(k)
    \/ Restart
    \/ RunnerTick
    \/ UserChangesStrategy

Spec == Init /\ [][Next]_vars

(***************************************************************************)
(* The controller works off its queue and its delays end; a call sent      *)
(* again and again does not fail for ever.  Workloads re-create their      *)
(* Pods, the scheduler and the kubelet do their part, and the resizer      *)
(* tries every request and reports what becomes of it.  The runner ticks   *)
(* on.                                                                     *)
(***************************************************************************)
Fairness ==
    /\ \A p \in PVCs :
          /\ WF_vars(ControllerWorks(p))
          /\ SF_vars(Reconcile(p))
          /\ WF_vars(\E kind \in ErrorKinds : ExpansionFails(p, kind))
          /\ WF_vars(VolumeExpanded(p))
          /\ WF_vars(ResizeDone(p))
          /\ \A k \in Pods : SF_vars(Evict(p, k)) /\ SF_vars(RemoveGate(p, k))
    /\ \A k \in Pods : WF_vars(PodLives(k))
    /\ WF_vars(RunnerTick)

FairSpec == Spec /\ Fairness

-----------------------------------------------------------------------------
(***************************************************************************)
(* Properties                                                              *)
(***************************************************************************)
\* A gate never outlives the events that remove it: as long as a Pod is gated, one
\* of its claims is still in error, or a Reconcile of one of them is to come.
NoStrandedGate ==
    \A k \in Pods : Exists(k) /\ gated[k] =>
        \E p \in Mounts[k] : ~GateIsDue(p) \/ p \in queue \cup delayed \cup Busy

\* A Pod re-created while one of its volumes had to be resized offline is scheduled
\* only when that resize is ready to be finalized.
HeldUntilReady ==
    [][\A k \in Pods : pod[k] = "waiting" /\ pod'[k] = "starting" => needed[k] = {}]_vars

\* A step in which the eviction sent for claim p makes Pod k go.
Evicted(p, k) ==
    work[p].step = "evict" /\ k \in work[p].todo \ work'[p].todo /\ pod'[k] # pod[k]

\* Such a step finds the claim waiting for its volume to be expanded.
EvictsIfNeeded == \A p \in PVCs, k \in Pods : Evicted(p, k) => wanted[p] /\ ~pending[p]

\* No Pod is evicted for nothing: when the eviction arrives, the volume it was planned for
\* still waits to be expanded, though claim and Pods were read long before.
EvictionNeeded == [][EvictsIfNeeded]_vars

\* A requested resize is completed, though the volume must be detached for it.
ResizeCompletes == \A p \in PVCs : wanted[p] ~> ~wanted[p]

-----------------------------------------------------------------------------
(***************************************************************************)
(* The invariant behind the proof of NoStrandedGate.  A resize is not      *)
(* outstanding without the annotation the events depend on; and a gated    *)
(* Pod that a Reconcile under way does not know of has put its claim into  *)
(* the queue again.                                                        *)
(***************************************************************************)
GateInv ==
    /\ \A p \in PVCs : wanted[p] => annotated[p]
    /\ \A k \in Pods : gated[k] => Mounts[k] # {}
    /\ \A p \in PVCs, k \in Pods :
          work[p].step = "remove" /\ Exists(k) /\ gated[k] /\ p \in Mounts[k] =>
              k \in work[p].todo \/ p \in queue

(***************************************************************************)
(* The invariant behind the proof of HeldUntilReady, where each Pod mounts *)
(* one claim.  Pods die only by evictions for claims that the webhook will *)
(* find the owner of; a Pod that still has to be held has its gate; and a  *)
(* Reconcile that removes gates knows none of the Pods to be held.         *)
(***************************************************************************)
SingleMounts == \A k \in Pods : \A p, q \in Mounts[k] : p = q

HoldInv ==
    /\ \A k \in Pods :
          /\ gated[k] => pod[k] \in {"admitted", "waiting"}
          /\ pod[k] \in {"terminating", "absent"} => Mounts[k] \subseteq listed
          /\ \A p \in needed[k] : p \in Mounts[k] /\ gated[k] /\ ~GateIsDue(p)
    /\ \A p \in PVCs : \A k \in work[p].todo :
          /\ p \in Mounts[k]
          /\ work[p].step = "remove" => pod[k] = "waiting" /\ gated[k] /\ needed[k] = {}
          /\ work[p].step = "evict" => p \in listed /\ pod[k] = "running"

(***************************************************************************)
(* The invariant behind the proof of EvictionNeeded, where each Pod mounts *)
(* one claim.  A Pod on the list of an eviction runs, so the volume is     *)
(* attached and cannot have grown since the list was made.                 *)
(***************************************************************************)
EvictInv ==
    \A p \in PVCs :
        /\ error[p] = "offline" => wanted[p] /\ p \in OfflineOnly
        /\ \A k \in work[p].todo :
              /\ p \in Mounts[k]
              /\ work[p].step = "evict" =>
                    pod[k] = "running" /\ wanted[p] /\ ~pending[p] /\ p \in OfflineOnly

=============================================================================
