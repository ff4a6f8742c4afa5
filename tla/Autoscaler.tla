----------------------------- MODULE Autoscaler -----------------------------
(***************************************************************************)
(* The periodic runner, the offline-resize controller and the Pod webhook  *)
(* at work on the same claims and the same autoscaler object, in one       *)
(* process.  They share no memory: the runner's patches and status updates *)
(* reach the controller as events, the Pods the controller evicts and      *)
(* holds back are those the runner finds claims by, and a claim has        *)
(* metrics only while a Pod that mounts it runs.                           *)
(*                                                                         *)
(* Every step is one of PeriodicRunner, of OfflineResize or of both.       *)
(* Failing reads and status updates, edits of policies and Pods deleted by *)
(* hand are left to those two modules.                                     *)
(***************************************************************************)
EXTENDS Naturals, Sequences, FiniteSets

CONSTANTS
    ScalingResolution, PVCs, PVCA, None, PolicyLists, InitSizes, StorageLimit, FailKinds,
    Pods, Mounts, OfflineOnly, ErrorKinds, MaxConcurrentReconciles,
    RunnerFaults,      \* the faults of PeriodicRunner
    ControllerFaults   \* the faults of OfflineResize

VARIABLES
    spec, cap, prev, conds, alloc, failed,           \* the claims, as PeriodicRunner has them
    error,                                           \* the message of ControllerResizeError
    policies, recs, resizing, available,             \* the autoscaler object
    phase, tick, job, patch, now, lastScaled,        \* the runner
    pod, gated, needed,                              \* the Pods, as OfflineResize has them
    queue, delayed, work                             \* the controller

\* The claims the Pods of the target mount when they are there.
Mounted == UNION {Mounts[k] : k \in Pods}

\* The claims mounted by the Pods of the target, gated or not.
Used == UNION {Mounts[k] : k \in {j \in Pods : pod[j] \notin {"absent", "admitted"}}}

R == INSTANCE PeriodicRunner WITH
         PVCAs <- {PVCA}, TargetSets <- SUBSET Mounted, Unsupported <- {}, UserSizes <- {},
         Percents <- {90}, LagSizes <- {0}, Granule <- 1, Faults <- RunnerFaults,
         Kubernetes134 <- TRUE, MaxNow <- 0, targets <- [a \in {PVCA} |-> Used]

O == INSTANCE OfflineResize WITH
         WorkloadTarget <- TRUE, ResizeStrategies <- R!Strategies, Faults <- ControllerFaults,
         wanted    <- [p \in PVCs |-> cap[p] # 0 /\ spec[p] > cap[p]],
         annotated <- [p \in PVCs |-> prev[p] # R!NoAnnotation],
         pending   <- [p \in PVCs |-> "FileSystemResizePending" \in conds[p]],
         listed    <- {p \in PVCs : recs[PVCA][p] # R!NoRec},
         strategy  <- policies[PVCA][1].strategy

ASSUME RunnerAssumption ==
    /\ ScalingResolution \in Nat \ {0}
    /\ ScalingResolution % 2 = 0
    /\ None \notin PVCs \cup {PVCA}
    /\ PolicyLists \subseteq Seq(R!Policy)
    /\ InitSizes \subseteq Nat \ {0}
    /\ StorageLimit \in Nat
    /\ FailKinds \subseteq R!AllFailKinds
    /\ RunnerFaults \subseteq R!AllFaults

ASSUME ControllerAssumption ==
    /\ Mounts \in [Pods -> SUBSET PVCs]
    /\ OfflineOnly \subseteq PVCs
    /\ ErrorKinds \subseteq {"offline", "other"}
    /\ MaxConcurrentReconciles \in Nat \ {0}
    /\ ControllerFaults \subseteq O!AllFaults

\* What OfflineResize leaves out: the volume policy that covers all claims is one of a
\* list, and the runner drops recommendations while no Pod is there.  Failures to recover
\* from are told by the resize status, which a new expansion resets, and not by the
\* message of ControllerResizeError, which stays.
ASSUME CompositionAssumption ==
    /\ \A list \in PolicyLists : Len(list) = 1 /\ list[1].match = PVCs
    /\ "runner" \in ControllerFaults
    /\ FailKinds \subseteq {"infeasible", "error"}

claimVars == <<spec, cap, prev, conds, alloc, failed>>
pvcaVars == <<policies, recs, resizing, available>>
runnerVars == <<phase, tick, job, patch, now, lastScaled>>
podVars == <<pod, gated, needed>>
controllerVars == <<queue, delayed, work>>
vars == <<claimVars, error, pvcaVars, runnerVars, podVars, controllerVars>>

Init ==
    /\ pod = [k \in Pods |-> "waiting"]
    /\ R!Init
    /\ O!Init

-----------------------------------------------------------------------------
(***************************************************************************)
(* The runner, as the controller sees it                                   *)
(***************************************************************************)
Elsewhere == UNCHANGED <<error, podVars, delayed, work>>

Running(p) == \E k \in Pods : pod[k] = "running" /\ p \in Mounts[k]

\* The kubelet reports the volumes of running Pods; the last sample of another may
\* still be there.
StartTick ==
    /\ Elsewhere /\ UNCHANGED queue
    /\ R!StartTick
    /\ \A p \in PVCs : Running(p) => tick'.metrics[p].capacity = cap[p]

RunnerReads ==
    /\ Elsewhere /\ UNCHANGED queue
    /\ \/ R!FetchPVCs(PVCA) \/ R!StartPVCA(PVCA)
       \/ \E p \in PVCs : \/ R!SkipClaim(p) \/ R!SettleClaim(p)
                          \/ R!PlanResize(p) \/ R!PlanRecovery(p)
       \/ R!RecoverConflict

\* A patch that reaches the claim is an event.
PatchEvent ==
    \/ spec' = spec /\ UNCHANGED queue
    \/ \E p \in PVCs : spec'[p] # spec[p] /\ O!ClaimEvent(p)

ResizePVC == Elsewhere /\ R!ResizePVC /\ PatchEvent
ResizePVCFails == Elsewhere /\ R!ResizePVCFails /\ PatchEvent
Recover == Elsewhere /\ R!Recover /\ PatchEvent
RecoverFails == Elsewhere /\ R!RecoverFails /\ PatchEvent

\* Mutant of StatusWritten: the controller does not watch the autoscaler object.
StatusWrittenUnseen ==
    /\ Elsewhere
    /\ R!SetStatus \/ R!FetchFails(PVCA)
    /\ UNCHANGED queue

StatusWritten ==
    /\ Elsewhere
    /\ R!SetStatus \/ R!FetchFails(PVCA)
    /\ O!PVCAEvent

RunnerWorks ==
    \/ StartTick \/ RunnerReads \/ StatusWritten
    \/ ResizePVC \/ ResizePVCFails \/ Recover \/ RecoverFails

(***************************************************************************)
(* The storage system, as both see it.  A volume that must be detached to  *)
(* grow, and is not, makes the expansion fail with a message that says so. *)
(* ControllerResizeError stays until an expansion succeeds.                *)
(***************************************************************************)
Bind(p) == Elsewhere /\ R!Bind(p) /\ O!ClaimEvent(p)

ExpansionStarts(p) == Elsewhere /\ R!ExpansionStarts(p) /\ O!ClaimEvent(p)

VolumeExpanded(p) ==
    /\ UNCHANGED <<pod, gated, delayed, work>>
    /\ R!FileSystemPending(p)
    /\ O!VolumeExpanded(p)

ExpansionDone(p) ==
    /\ UNCHANGED <<pod, gated, delayed, work>>
    /\ R!ExpansionDone(p)
    /\ O!ResizeDone(p)

ExpansionFails(p, kind, message) ==
    /\ "FileSystemResizePending" \notin conds[p]
    /\ IF kind = "error" THEN message = "offline" => p \in OfflineOnly /\ O!Attached(p)
                         ELSE message = "other"
    /\ error' = [error EXCEPT ![p] = message]
    /\ UNCHANGED <<podVars, delayed, work>>
    /\ R!ExpansionFails(p, kind)
    /\ O!ClaimEvent(p)

\* The storage system refuses, for good.
ExpansionRefused(p) == \E kind \in FailKinds \ {"error"}, message \in ErrorKinds : ExpansionFails(p, kind, message)

StorageWorks(p) ==
    \/ Bind(p) \/ ExpansionStarts(p) \/ VolumeExpanded(p) \/ ExpansionDone(p)
    \/ \E kind \in FailKinds, message \in ErrorKinds : ExpansionFails(p, kind, message)

(***************************************************************************)
(* The controller, the webhook and the Pods, as the runner sees them       *)
(***************************************************************************)
RunnerWaits == UNCHANGED <<claimVars, pvcaVars, runnerVars>>

ControllerWorks(p) == RunnerWaits /\ O!ControllerWorks(p)

\* A Pod is not scheduled before its claims are bound.
PodLives(k) ==
    /\ RunnerWaits
    /\ \/ O!Handle(k) \/ O!PodStored(k) \/ O!PodRuns(k) \/ O!PodGone(k)
       \/ O!PodScheduled(k) /\ \A p \in Mounts[k] : cap[p] # 0

\* The process dies, with the runner and the controller in it.
Crash ==
    /\ UNCHANGED podVars
    /\ R!Crash \/ (phase = "idle" /\ RunnerWaits)
    /\ O!Restart

Next ==
    \/ RunnerWorks
    \/ \E p \in PVCs : StorageWorks(p) \/ ControllerWorks(p)
    \/ \E k \in Pods : PodLives(k)
    \/ Crash

Spec == Init /\ [][Next]_vars

(***************************************************************************)
(* As in the two modules; an expansion that is possible again and again is *)
(* carried out.                                                            *)
(***************************************************************************)
Fairness ==
    /\ WF_vars(RunnerWorks)
    /\ SF_vars(ResizePVC)
    /\ SF_vars(Recover)
    /\ \A p \in PVCs :
          /\ WF_vars(Bind(p))
          /\ WF_vars(ExpansionStarts(p))
          /\ SF_vars(~O!Attached(p) /\ ExpansionStarts(p))
          /\ SF_vars(VolumeExpanded(p))
          /\ WF_vars(ExpansionDone(p))
          /\ SF_vars(ExpansionRefused(p))
          /\ WF_vars(\E kind \in FailKinds, message \in ErrorKinds : ExpansionFails(p, kind, message))
          /\ WF_vars(ControllerWorks(p))
          /\ SF_vars(RunnerWaits /\ O!Reconcile(p))
          /\ \A k \in Pods : /\ SF_vars(RunnerWaits /\ O!Evict(p, k))
                             /\ SF_vars(RunnerWaits /\ O!RemoveGate(p, k))
    /\ \A k \in Pods : WF_vars(PodLives(k))

FairSpec == Spec /\ Fairness

-----------------------------------------------------------------------------
(***************************************************************************)
(* Properties                                                              *)
(***************************************************************************)
\* What the offline-resize controller is modelled to meet is all that the runner and
\* the storage system do to claims and recommendations.
ImplementsOfflineResize == O!Spec

\* A Pod is evicted only while the claim it mounts waits for a scale-up of the runner:
\* neither a recovery nor an expansion in between makes an eviction needless, and no
\* eviction outlives the process that planned it.
EvictionNeeded == O!EvictionNeeded

\* A full claim grows to the limit of its policy, though its volume must be detached
\* for every step: while the process stays up, ticks, evictions, the gate and the
\* expansion do not keep undoing each other.
GrowsOffline == R!GrowsToLimit

\* A failure the runner means to recover from by a smaller request does not persist,
\* though the Pods of the claim are evicted and held back meanwhile.
FailureRecovered == R!FailureRecovered

\* A Pod re-created while one of its volumes had to be resized offline is held
\* unscheduled until that resize is ready to be finalized.
HeldUntilReady == O!HeldUntilReady

-----------------------------------------------------------------------------
(***************************************************************************)
(* The invariant behind the proof of ImplementsOfflineResize, with those   *)
(* of PeriodicRunner: only an expansion under way waits for the kubelet.   *)
(***************************************************************************)
ViewInv ==
    /\ error \in [PVCs -> {"none", "offline", "other"}]
    /\ \A p \in PVCs : "FileSystemResizePending" \in conds[p] => R!Expanding(p)

=============================================================================
