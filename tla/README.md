# A TLA+ model of pvc-autoscaler

This directory holds a formal model of `pvc-autoscaler`: TLA+ modules translated
from the Go sources, configurations with which TLC checks them on small
instances, and theorems about them whose proofs TLAPS checks. `PROJECT.json`
relates every definition to the lines it models and lists the runs, findings,
hazards and theorems.

## The system

`pvc-autoscaler` grows PersistentVolumeClaims that fill up. One process, with one
active leader, runs these parts on the objects of the API server:

| Part | Source | What it does | Model |
|---|---|---|---|
| Periodic runner | `internal/periodic` | every tick: reads the autoscaler objects (PVCAs), metrics and target claims, patches the claims that are over their threshold, writes the PVCA status | `PeriodicRunner` |
| Expansion-failure recovery | `internal/expansionfailure` | called by the runner; reduces a request the storage system cannot satisfy | `PeriodicRunner` |
| Size arithmetic | `recommendResize`, `Recover`, staleness check | steps, rounding, clamping, tolerance | `VolumeSizing` |
| Condition aggregation | `internal/periodic/conditions.go` | folds per-claim conditions into those of the PVCA | `PeriodicRunner` (statuses only) |
| Volume policies | `internal/utils/volume_policy.go` | first matching policy of a claim | `PeriodicRunner` |
| Validating webhook | `api/.../..._webhook.go` | rejects bad policies | `validateVolumePolicies` in `PeriodicRunner` |
| Metrics source | `internal/metrics/source` | usage of every claim, from four Prometheus queries | `TickInputs` |
| PVC and selector fetcher | `internal/target` | claims mounted by the Pods of a target | `TickInputs` |
| Offline-resize controller | `internal/controller/offlineresize` | evicts Pods of volumes that must be detached to grow, removes the scheduling gates of their successors | `OfflineResize` |
| Pod mutating webhook | `internal/webhook/pod` | puts the gate on Pods that are re-created meanwhile | `OfflineResize` |
| Owner lookup | `internal/utils/utils.go` | finds the PVCA that lists a claim | `OfflineResize`; its premise in `PeriodicRunner` |
| Heartbeat | `internal/healthcheck` | liveness probe fed by the ticks | `Heartbeat` |
| Process | `cmd/pvc-autoscaler` | runs runner, controller and webhooks together | `Autoscaler` |
| Version check | `internal/version` | recovery needs Kubernetes 1.34 | the constant `Kubernetes134` |
| Indexers, counters, fake source, generated code | `api`, `internal/metrics` | no protocol | not modelled |

The parts meet in the objects they write. The runner sets the claim's request and
its `prev-size` annotation; the resizer of the storage system answers with
capacity and conditions; the runner, the offline-resize controller and the
webhook all read those. The runner writes `status.volumeRecommendations`; the
controller and the webhook take it as the list of managed claims. The controller
evicts Pods and holds them back; the runner finds claims through Pods, and a
volume has metrics only while a Pod uses it.

## The modules

* `VolumeSizing`: pure operators on sizes. `ScalingResolution` is 1Gi in units of
  the model; the runs use two units per Gi, so that sizes which are no multiple
  of 1Gi exist. The code computes in `float64`; the operators are exact.
* `PeriodicRunner`: claims (`spec`, `cap`, `prev`, `conds`, `alloc`, `failed`),
  PVCAs (`policies`, `targets`, `recs`, `resizing`, `available`) and the runner
  (`phase`, `tick`, `job`, `patch`). `tick` holds what `reconcileAll` has read,
  `job` the locals of `reconcilePVCA`, `patch` a claim copy with the target
  computed from it. `Verdict` is the loop body of `reconcilePVCA`: its early
  returns in the order of the code. Reading and deciding about a claim is one
  step, sending the patch another, so that users, the resizer and crashes come in
  between. `ResizePVC` patches without optimistic lock, `Recover` with one
  (`patch.touched`). `Faults` says which calls may fail. Only policy lists that
  pass `validateVolumePolicies` are ever in force (`ValidLists`).
* `ClaimLife`: the abstract specification of a claim. A request grows only when the
  one before is satisfied, shrinks only after a failure and never to the
  capacity, and the capacity changes only to what was requested. `Stage` in
  `PeriodicRunner` is the refinement mapping.
* `TickInputs`: what `PeriodicRunner` takes for single steps. `GetMetric` is one of
  the four queries, in any order; `FetchSelector`, `ListPods`, `GetPVC` are the
  calls of `Fetch`; `Judge` is the evaluation of a reading. Volumes grow, metrics
  are scraped, Pods and claims come and go between any two of them.
* `Heartbeat`: per replica the loop of `Start` (`run`), the ticker (`sinceFired`,
  `due`), the heartbeat (`checkTimeout`, `sinceActivity`) and the probe
  (`failures`); and the lease. Time is discrete and is kept as time elapsed since
  an event, so the state space is finite without a bound on the clock.
* `OfflineResize`: claims reduced to what the controller sees (`wanted`,
  `annotated`, `error`, `pending`), Pods (`pod`, `gated`), the PVCA (`listed`,
  `strategy`) and the controller (`queue`, `delayed`, `work`). An object change is
  put through the watch predicates in the step that makes it (`ClaimEvent`,
  `PodCreated`, `PVCAEvent`). `Reconcile` reads claim, PVCA and Pods from the
  caches of the client in one step; each eviction and each gate removal is a step
  of its own and goes by Pod name. `Handle` answers before the Pod is stored
  (`PodStored`). `needed` is history: the claims a Pod has to wait for.
* `Autoscaler`: the composition. `R` and `O` are the two modules above on the same
  objects: `targets` of the runner are the claims its Pods mount, `wanted`,
  `annotated`, `pending`, `listed` and `strategy` of the controller are read off
  the runner's claims and PVCA. Each action conjoins the step of one part with
  what the other part sees of it. A policy list has one policy, for all claims, as
  `OfflineResize` has one strategy; the storage system is exact. An expansion that
  fails is infeasible or to be retried: `failed` then stands for the resize status,
  which a new expansion resets, and `error` for `ControllerResizeError`, which stays
  until one succeeds. Limit errors, which the runner tells by the message of that
  same condition and treats like infeasible ones, are left to `PeriodicRunner`.
* `MCPeriodicRunner`, `MCTickInputs`, `MCOfflineResize`, `MCAutoscaler`: the values
  of the constants that a configuration cannot write.
* `VolumeSizingProofs`, `PeriodicRunnerProofs`, `PeriodicRunnerStatus`,
  `PeriodicRunnerRefinement`, `TickInputsProofs`, `HeartbeatProofs`,
  `OfflineResizeProofs`, `AutoscalerProofs`: theorems. The three about
  `PeriodicRunner` build on each other: types, patches and policies; ticks, status
  and cooldown; storage that grants what is asked, and the refinement.

Definitions whose comment begins with "Mutant" are deliberately wrong variants of
the definition after them. No specification uses them; replacing the definition
by its mutant must break the property that `PROJECT.json` names, which shows that
the property can fail.

The environment is modelled from how the code uses it: the API server admits
growth and, from 1.34, reductions that stay above the capacity (`Admits`); the
resizer takes up requests, rounds capacities up to `Granule`, cannot go beyond
`StorageLimit`, and reports failures as infeasible status, as limit error of the
controller or of the node, or as other errors. In `Autoscaler` a volume in
`OfflineOnly` fails to grow while it is attached, with a message that says so.

## What is checked

Runs that pass:

| Run | Instance | Shows |
|---|---|---|
| `runner_faults` | 1 claim, every fault, lagging or missing metrics, Pods coming and going | `NoPhantomResize`, `OneResizeAtATime`, `NoStaleScaleUp`, `ImplementsClaimLife` |
| `runner_writers` | policies with two maxima, Off, none, or steps the webhook rejects, edited at any time; users set requests by hand; storage rounds up | `TypeOK`, `ScaleUpWithinMax`, `ScaleUpIsAStep`, `RecoveryAboveCapacity` |
| `runner_cooldown` | cooldown of 2 in 5 units of time, failing patches and expansions | `StatusTellsRequest`, `CooldownRespected` |
| `runner_ownership` | 2 PVCAs, 2 claims, targets that change | `OwnershipSettles` |
| `runner_liveness` | failing patches, status updates and expansions | `GrowsToLimit`, `FailureRecovered` |
| `tick_inputs` | 2 claims, one growing, 3 Pods of 2 workloads; a target that is one of the workloads or a claim; one failing call or deleted Pod | `TypeOK`, `NoUnderstatement`, `FetchAllOrNothing`, `ReadingsSettle` |
| `heartbeat` | 2 replicas, ticks of up to 4 intervals, stuck calls, lost leases | `NoFalseAlarm`, `StuckOvercome` |
| `offline_faults` | 2 Pods on 1 claim; failing calls, blocked evictions, restarts | `TypeOK`, `NoStrandedGate`, `HeldUntilReady`, `EvictionNeeded`, `ResizeCompletes` |
| `offline_policies` | 1 Pod on 2 claims; strategy changes, other errors, cleared recommendations, deleted Pods, restarts, silent webhook | `NoStrandedGate` |
| `autoscaler_faults` | runner, controller and webhook; 1 claim and 1 Pod, failing patches, a process that dies at any time | `ImplementsOfflineResize`, `EvictionNeeded` |
| `autoscaler_liveness` | the same without crashes, two steps to the limit, each of which needs a detached volume | `GrowsOffline` |

`EvictionNeeded` is about the time between reading a claim and evicting its Pods: other
Pods are evicted first, evictions fail and are retried, the process restarts, the
runner asks for more or reduces its request; when the eviction arrives, the volume
still has to be detached. `ImplementsOfflineResize` justifies the split: the
controller was checked in an environment of its own making, and the runner does
nothing to it that this environment does not. `GrowsOffline` is what neither
module can show: the tick that clears the recommendations of a claim whose Pods
were just evicted lets the Pod come back ungated, and the cycle of eviction and
re-creation still comes to an end.

One run refutes a statement of the repository (quoted in `PROJECT.json`):
`find_gate_deadlock`. `reconcilePVCA` skips a claim without metrics before it asks
`ShouldRecover`. A Pod held back by the gate has no metrics, and the gate stays
while `ControllerResizeError` is set. When the expansion of the detached volume turns
out to be infeasible, recovery waits for metrics, metrics wait for the Pod, and the
Pod waits for the recovery.

Further disagreements of text and code, which the model shows with other constants
or properties than those of the runs:

* Cooldown lost: `types.go:129-130` promises a minimum time between scale-ups; a tick
  without Pods clears `lastResizeTime` (`periodic.go:327`). `CooldownRespected` in
  `runner_cooldown` with `TargetSets <- MountedOrGone`.
* Double resize: `common.go:57-58` says that the annotation shows a resize in flight;
  it holds a spec size and is compared with a capacity (`periodic.go:771`).
  `OneResizeAtATime` in `runner_faults` with `Granule = 2` and `InitSizes = {3}`.
  After recoveries back to the recorded size, annotation = capacity then stands
  for a resize that is over.
* Limit errors of the node: `expansionfailure.go:51-53` names `NodeResizeError`; line
  56 reads `ControllerResizeError` only. `FailureRecovered` in `runner_liveness`
  with `FailKinds = {"nodeLimit"}`.
* Gate stranded: `reconciler.go:154-155` says that a change of strategy strands no Pod;
  if the error clears without `FileSystemResizePending`, the predicate drops the
  event (`predicate.go:34`). `NoStrandedGate` in `offline_policies` with
  `"noNodeExpansion"` among the faults.
* Gate removed for another claim: `README.md:102-103` says that re-created Pods are
  held; the Reconcile of a healthy claim of the same Pod removes the gate
  (`reconciler.go:160`). `HeldUntilReady` in `offline_faults` with one Pod that
  mounts two claims.
* Gate missed: a tick that finds no Pods clears the recommendations the webhook looks
  for (`periodic.go:327`, `mutator.go:116`), and the Pods are admitted ungated.
  `HeldUntilReady` of `Autoscaler` in `autoscaler_liveness`.
* Torn reading: `types.go:108-109` says that a claim is scaled when usage passes the
  threshold; a volume first scraped between two queries has a capacity and zero
  available bytes, and reads as 100% used. `NoOverstatement`, as an
  invariant of `tick_inputs`.
* Empty selector: a scale subresource without a selector selects every Pod of the
  namespace (`selectorfetcher.go:99`). `FetchAllOrNothing` in `tick_inputs` with
  `SelectorReported = FALSE`.
* `common.go:46-48` calls every request the autoscaler sets divisible by 1Gi;
  `periodic.go:702` takes `maxCapacity` as it is.
* `README.md:107` says that `Off` turns off resizing; `periodic.go:450` recovers from
  failed expansions, by a patch, before it looks at the strategy.
* `utils.go:91` relies on a claim being listed by at most one PVCA; the PVCAs are
  written one after the other, so this holds only in the end (`OwnershipSettles`).
* `reconciler.go:196-197` says that Pods without a workload controller are not
  evicted; the loop below it does not look at owners.

The passing runs leave out what breaks the property they check: `runner_faults` has
exact storage (`Granule` 1) and no other writer of requests, `runner_cooldown` has
Pods throughout and no failing status update, `runner_liveness` no limit errors of
the node, `offline_policies` has every expansion pass through
`FileSystemResizePending`, `offline_faults`, which checks `HeldUntilReady`, has one
claim per Pod, no runner, no silent webhook and no Pod deleted by hand (with either
of the first and the last, an eviction, which goes by name, can also reach a Pod
that need not go, against `EvictionNeeded`), `tick_inputs` has a workload that reports its selector, and `autoscaler_liveness`
no infeasible expansions.

### Bounds

One claim suffices for the properties of a claim: the runner treats claims one
after the other and couples them only in the aggregated conditions and in
ownership, which has a run with two of each. Sizes start at 2Gi (or 1.5Gi), grow
by 50% and meet a policy maximum of 6Gi (or 4.5Gi) and a storage limit of
4.5Gi: steps, clamping, failures above the limit and recoveries all occur, and
the runs end there by themselves. `MaxNow` bounds the clock at two cooldowns and
a half; runs that are not about time keep it at 0. `NoStaleScaleUp` is checked
where every step exceeds the tolerance of half a resolution step; on volumes
above 25Gi the tolerance is 4% of the volume, full steps exceed it by theorem
`FullStepOutrunsTolerance`, and small recoveries may not. Two Pods and two
claims are the fewest for which one can be served while the other is not; the
proof of `NoStrandedGate` is for any number. In `tick_inputs` one volume grows
once, by more than the tolerance, and `MaxDisturbances` allows one failing call
or deleted Pod, which may come between any two steps; Pods and claims are
created without bound. The composition has one claim and one Pod: what it adds
over its parts is their order of steps, and its policy stops after two steps.
Deadlock is checked in every run.

### Fairness

`PeriodicRunner`: weak fairness of the runner, a loop driven by a ticker whose
calls return; strong fairness of its two patches, which a tick repeats for as
long as there is reason to. The resizer takes up requests and ends what it began;
an expansion within its means does not fail for ever, one beyond them is
reported in the end. `OfflineResize`: weak fairness of queue, delays and workers,
strong fairness of reconciles, evictions and gate removals, which are retried
after every failure and rediscovered after every restart; Pods are
re-created, scheduled and started; the resizer tries and reports; the runner
ticks on. `Autoscaler` has the same, and a volume that is detached again and
again is expanded in one of those times, as the resizer retries on its own
schedule. `TickInputs`: the runner ticks, Prometheus scrapes, the kubelet reports
capacities, missing Pods and claims are created. `Heartbeat`: time passes, ticks
that are not stuck end, failing probes are repeated, leases expire and are taken.
Nothing is assumed of users, crashes or stuck calls.

## What is proved

The proofs hold for all values of the constants that satisfy the named assumptions
(`ResolutionAssumption`, `ClaimAssumption`, `PolicyAssumption`, `SizeAssumption`,
`SwitchAssumption`; `InputsAssumption`; `HeartbeatAssumption`; `WorkloadAssumption`,
`ControllerAssumption`; and, for the composition, `RunnerAssumption` and
`CompositionAssumption`), which TLC evaluates in the runs. What a theorem needs
beyond them is a hypothesis of the theorem and is named below.

Sizes and types:

* `FullStepOutrunsTolerance`: why 4% tolerance fits a step of at least 5%.
* `TypeCorrect`, `TickTypeCorrect`, `HeartbeatTypeCorrect`, `OfflineTypeCorrect`:
  `TypeOK` of the four modules. That of `PeriodicRunner` contains that a pending
  job names a PVCA and a pending patch a claim and a positive size; that of
  `TickInputs` bounds the percentages, whatever mixture of scrapes they come from.

The runner, in every environment (any faults, other writers, rounding storage):

* `MaxCapacityHonoured`, `RecoverySafe`: the properties `ScaleUpWithinMax` and
  `RecoveryAboveCapacity`. They speak of the step that
  applies a patch, while the code established its bounds when it computed it, so
  they need an invariant about the time between: `PatchInv`, proved inductive in
  `PatchesSound`. Its second half is conditional on the claim being untouched,
  which is what the optimistic lock of `Recover` tests.
* `ScaleUpsAreSteps`: `ScaleUpIsAStep`. The invariant is
  `StepInv`: the policies of the PVCAs and the copies the tick works with have
  passed the webhook, and a pending scale-up is a whole step.
* `TicksSound`, `RecommendationsTargeted`: the invariants `TickInv` (how far a tick is;
  a claim is patched only if no other PVCA of the tick has fetched it) and
  `TargetedInv` (recommendations are for claims a target has had). Later proofs
  use them.

The runner, where the status is written reliably:

* `StatusTells`: `StatusTellsRequest`, if no answer, status update or process is lost
  within a tick (`ReliableWrites`), only the runner changes requests, and no policy
  is `Off` (`NeverOff`; with `Off` the target is a mere recommendation). A
  recommendation exists in up to three places, the status, the list the tick has
  read and the job at work, of which one is authoritative at a time; `StatusInv`
  says which, by the PVCAs that are still `Unwritten`.
* `CooldownKept`: `CooldownRespected`, if fetches too are reliable (`ReliableTicks`) and
  in every step the workloads keep their claims and the claims a policy
  (`SteadyStep`); users may edit policies otherwise. `CooldownInv` says that
  `lastResizeTime` is right wherever the recommendation of a claim with one
  owner is (`MemoryInv`), and that a planned scale-up has waited. Without these
  hypotheses the cooldown is lost as described above.

The runner, with exact storage (`ExactWorld`: storage grants what is asked, nobody else
writes requests):

* `NoPhantom`, `ResizesDoNotOverlap`: `NoPhantomResize` and `OneResizeAtATime`. The
  inductive invariant is `RequestInv`: an unsatisfied request was made by
  `resizePVC` from the capacity the annotation names, a running expansion is for
  the current request, and a planned scale-up is for a satisfied claim. The
  assumption is needed: the double resize above is what happens without it.
* `ReadingsCurrent`: `NoStaleScaleUp`, if policies let volumes grow to 25Gi at most
  (`SmallVolumes`) and metrics lag by whole steps (`LagInSteps`). `ReadingInv` says
  that capacities, requests and readings are equal or a resolution step or more
  apart. Above 25Gi the tolerance of 4% reaches a whole step, and a recovery or a
  clamped step within it goes unnoticed.
* `RunnerImplementsClaimLife`: `ImplementsClaimLife`, from the
  invariants above and `FailureInv` (a failure is one of an unsatisfied request).
  Every step maps to one of `ClaimLife` or to a stutter.

What a tick reads:

* `ReadingsNotUnderstated`: `NoUnderstatement`, if a growth exceeds the staleness
  tolerance. `SampleInv` bounds what the queries have seen: a capacity is the old or
  the new one, and the available bytes never exceed what is free now. The
  capacity check then leaves only the mixtures that overstate usage.
  `FullStepsNotUnderstated` discharges the condition for every step a policy the
  API admits can ask for.
* `FetchesAllOrNothing`: `FetchAllOrNothing`, if scale subresources report a selector
  (`SelectorReported`). `FetchInv` relates the claims fetched and still to be
  fetched to those mounted throughout and at some time of the Fetch.

Heartbeat and controller:

* `NoFalseAlarms`: `NoFalseAlarm`, if no tick takes longer than four intervals. The
  invariant `ActivityInv` bounds the time since the last activity in each state
  of the loop: by the time since the ticker fired while it waits, by one interval
  when a tick is due, by one interval and the time taken so far during a tick.
* `NoGateStranded`: `NoStrandedGate`, if every expansion passes through
  `FileSystemResizePending`, for all other faults. The invariant `GateInv` says
  that a claim that waits for a resize is annotated (so that its events pass the
  predicate), that only Pods with claims are gated, and that a Reconcile that
  removes gates knows of every gated Pod of its claim or will be repeated. The
  assumption is needed: the stranded gate above is what happens without it.
* `PodsHeld`: `HeldUntilReady`, if each Pod mounts one claim (`SingleMounts`), the
  webhook answers, only evictions make Pods go and no recommendation is dropped
  (`Undisturbed`). `HoldInv` says that a Pod that has to wait is gated and its claim
  not ready, and that a Reconcile about to remove gates has no such Pod on its
  list. The gates removed and missed above are what happens without these.
* `EvictionsNeeded`: `EvictionNeeded`, if each Pod mounts one claim and only evictions
  make Pods go, for all other faults. `EvictInv` says that a claim whose error asks for
  its volume to be detached waits for its expansion, and that the Pods still to be
  evicted for a claim run and keep its volume attached, so that it cannot have grown
  since the list was made.

The whole process:

* `AutoscalerImplementsController`: `ImplementsOfflineResize`. This needs what is known of
  the runner: that a scale-up is for a satisfied claim, that a recovery leaves
  its resize outstanding, that recommendations are for mounted claims
  (`RunnerInv`: `PatchInv`, `RequestInv`, `TargetedInv` of the runner), and that only
  an expansion under way waits for the kubelet (`ViewInv`). The runner's theorems
  are taken from an instance `P` of `PeriodicRunnerRefinement` with the same
  substitutions as `R`; `SameNext`, `SameRunner` and `SameInvariants` show that the two
  instances say the same.
* `AutoscalerRequestsSafe`: `NoPhantomResize`, `OneResizeAtATime`, `ScaleUpWithinMax`,
  `RecoveryAboveCapacity` and `ImplementsClaimLife` of the whole process, from the
  theorems about the runner. That the steps of the whole are steps the runner's
  module allows (lemma `RunnerOfTheWhole`) follows from how the actions are composed.
* `AutoscalerStrandsNoGate`, `AutoscalerEvictsWhenNeeded`: `NoStrandedGate` and
  `EvictionNeeded` of the whole process, under the hypotheses of `NoGateStranded` and
  `EvictionsNeeded`, from those theorems and `AutoscalerImplementsController`. They are
  taken from an instance `C` of `OfflineResizeProofs`; `SameControllerNext`,
  `SameController`, `SameGates` and `SameEvictions` relate it to `O`. `PodsHeld` does not
  carry over: the runner does drop recommendations.

The proofs about the runner sort its steps: `StepKinds` into those that plan a patch,
end one, write a claim from outside, or matter to neither; `TickKinds` by what they
do to the tick and the status. Each proof has a case for each kind. The other
proofs have one step per action.

Only model-checked is liveness, as the prover does not reason about
fairness and `ENABLED`: `OwnershipSettles`, `GrowsToLimit`, `FailureRecovered`,
`ReadingsSettle`, `StuckOvercome`, `ResizeCompletes` and `GrowsOffline`. Every safety
property that a passing run checks is also proved, under the hypotheses named
above. The run of `offline_policies`, with Pods that mount several claims, is
an instance of `NoGateStranded`.

## What is not modelled

Events, log and condition messages, Prometheus counters, the fake metrics source
of the tests and generated code, which no behaviour depends on; flags and client
set-up in `main.go`, which have no protocol, and the constructors with their
options; parsing of quantities, versions and globs, and the syntax of target
references; `float64` rounding, which begins at 2^53 bytes. Reads of the runner
are current, though the client is cached: a tick comes minutes after the patch of
the one before. Two autoscaler names that share a claim are not composed; to each,
the other is a user who changes requests, as in `runner_writers`. Provider error
messages are the kinds the code tells apart. A glob that `path.Match` rejects
cannot pass the validating webhook. A claim's phase is not kept apart from its
capacity: `Bind` sets both. In `TickInputs` the stored data stay as they are, and
REST mappings that are tried in turn are one call.
