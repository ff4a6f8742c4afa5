----------------------------- MODULE TickInputs -----------------------------
(***************************************************************************)
(* What a tick of the periodic runner works from: the metrics of the       *)
(* Prometheus source (internal/metrics/source), read with four queries,    *)
(* and the claims of the target (internal/target), found through the scale *)
(* subresource and the Pods.  Volumes grow, Pods come and go and metrics   *)
(* are scraped while the runner reads.                                     *)
(*                                                                         *)
(* PeriodicRunner takes both for single steps; this module looks into      *)
(* them.  One autoscaler object; what is stored on a volume stays.         *)
(***************************************************************************)
EXTENDS VolumeSizing, FiniteSets

CONSTANTS
    Claims, Pods,
    Workloads,
    TargetPods,        \* the Pods of each workload
    Mounts,            \* the claims each Pod mounts
    TargetRefs,        \* what targetRef may name: a workload or a claim
    SelectorReported,  \* whether scale subresources report a selector
    InitSize,          \* capacity of the volumes
    GrownSize,         \* and of those in Growing, after an expansion
    Growing,
    Usage,             \* the bytes and inodes in use on each volume, in units
    MaxDisturbances    \* bound on failing calls and deleted Pods

Queries == {"availableBytes", "capacityBytes", "availableInodes", "capacityInodes"}

ASSUME InputsAssumption ==
    /\ Workloads \cap Claims = {}
    /\ TargetPods \in [Workloads -> SUBSET Pods]
    /\ Mounts \in [Pods -> SUBSET Claims]
    /\ TargetRefs \subseteq Claims \cup Workloads
    /\ Growing \subseteq Claims
    /\ {InitSize, GrownSize} \subseteq Nat \ {0} /\ InitSize < GrownSize
    /\ Usage \in [Claims -> [bytes : 0..InitSize, inodes : 0..InitSize]]
    /\ SelectorReported \in BOOLEAN
    /\ MaxDisturbances \in Nat

VARIABLES
    targetRef,
    size,       \* the capacity of each volume's file system
    status,     \* .status.capacity.storage of each claim
    sample,     \* the capacity each volume had when it was last scraped, 0 without a sample
    pods,       \* the Pods there are
    claims,     \* the claims there are
    phase,      \* what the tick does next
    queries,    \* the queries still to run
    info,       \* Metrics: the VolumeInfo of each claim
    todo,       \* the claims still to get
    fetched,    \* the claims got, and not evaluated yet
    reading,    \* what the evaluation of each claim has returned in this tick, or the last
    always,     \* history: the target's claims all through the Fetch
    ever,       \* history: the target's claims at any time of it
    left        \* disturbances left

volumeVars == <<size, status, sample>>
workloadVars == <<pods, claims>>
tickVars == <<phase, queries, info, todo, fetched, reading>>
historyVars == <<always, ever>>
vars == <<targetRef, volumeVars, workloadVars, tickVars, historyVars, left>>

\* No reading: an error, or no evaluation.
NoReading == [space |-> 0, inodes |-> 0, ok |-> FALSE]

NoInfo == [q \in Queries |-> 0]

Sizes == {InitSize, GrownSize}

\* What may be in use: nothing reads as more than full, and a negative percentage is due
\* to the free space of a grown volume being divided by the capacity before.
Percentages == (100 - (100 * GrownSize) \div InitSize)..100
Readings == [space : Percentages, inodes : Percentages, ok : BOOLEAN]

TypeOK ==
    /\ targetRef \in TargetRefs
    /\ size \in [Claims -> Sizes]
    /\ status \in [Claims -> Sizes]
    /\ sample \in [Claims -> Sizes \cup {0}]
    /\ pods \subseteq Pods
    /\ claims \subseteq Claims
    /\ phase \in {"idle", "query", "selector", "list", "get", "judge"}
    /\ queries \subseteq Queries
    /\ info \in [Claims -> [Queries -> 0..GrownSize]]
    /\ \A c \in Claims : {info[c]["capacityBytes"], info[c]["capacityInodes"]} \subseteq Sizes \cup {0}
    /\ todo \subseteq Claims /\ fetched \subseteq Claims
    /\ reading \in [Claims -> Readings]
    /\ always \subseteq Claims /\ ever \subseteq Claims
    /\ left \in 0..MaxDisturbances

Init ==
    /\ targetRef \in TargetRefs
    /\ size = [c \in Claims |-> InitSize]
    /\ status = size
    /\ sample = [c \in Claims |-> 0]
    /\ pods = Pods
    /\ claims \in SUBSET Claims
    /\ phase = "idle"
    /\ queries = {}
    /\ info = [c \in Claims |-> NoInfo]
    /\ todo = {} /\ fetched = {}
    /\ reading = [c \in Claims |-> NoReading]
    /\ always = {} /\ ever = {}
    /\ left = MaxDisturbances

-----------------------------------------------------------------------------
\* reconcileAll returns, and with it all it has read.
EndTick ==
    /\ phase' = "idle"
    /\ queries' = {}
    /\ info' = [c \in Claims |-> NoInfo]
    /\ todo' = {} /\ fetched' = {}
    /\ always' = {} /\ ever' = {}

(***************************************************************************)
(* Prometheus.Get                                                          *)
(***************************************************************************)
StartTick ==
    /\ phase = "idle"
    /\ phase' = "query"
    /\ queries' = Queries
    /\ reading' = [c \in Claims |-> NoReading]
    /\ UNCHANGED <<targetRef, volumeVars, workloadVars, info, todo, fetched, historyVars, left>>

\* What the last scrape says.
Sampled(c, q) ==
    CASE q \in {"capacityBytes", "capacityInodes"} -> sample[c]
      [] q = "availableBytes" -> sample[c] - Usage[c].bytes
      [] q = "availableInodes" -> sample[c] - Usage[c].inodes

\* The claims the target's Pods mount, or the one claim that is the target.
Mounted(ks) == UNION {Mounts[k] : k \in ks}
TargetClaims(ks) == IF targetRef \in Workloads THEN Mounted(ks \cap TargetPods[targetRef]) ELSE {targetRef}

\* The queries run in the order of a Go map's iteration; Fetch begins after the last.
Queried(q) ==
    /\ phase = "query"
    /\ q \in queries
    /\ queries' = queries \ {q}
    /\ IF queries # {q}
       THEN UNCHANGED <<phase, todo, historyVars>>
       ELSE /\ phase' = IF targetRef \in Workloads THEN "selector" ELSE "get"
            /\ todo' = IF targetRef \in Workloads THEN {} ELSE {targetRef}
            /\ always' = TargetClaims(pods) /\ ever' = TargetClaims(pods)
    /\ UNCHANGED <<targetRef, volumeVars, workloadVars, fetched, reading, left>>

\* Mutant of GetMetric: only the first value for a claim is mapped.
GetMetricFirst(q) ==
    /\ info' = [c \in Claims |->
                   IF sample[c] = 0 \/ info[c] # NoInfo THEN info[c] ELSE [NoInfo EXCEPT ![q] = Sampled(c, q)]]
    /\ Queried(q)

GetMetric(q) ==
    /\ info' = [c \in Claims |-> IF sample[c] = 0 THEN info[c] ELSE [info[c] EXCEPT ![q] = Sampled(c, q)]]
    /\ Queried(q)

Disturbed == left > 0 /\ left' = left - 1

\* One failing query ends the tick.
GetMetricFails ==
    /\ phase = "query"
    /\ Disturbed
    /\ EndTick
    /\ UNCHANGED <<targetRef, volumeVars, workloadVars, reading>>

(***************************************************************************)
(* Fetch                                                                   *)
(***************************************************************************)
\* No claim is evaluated.
FetchFails ==
    /\ EndTick
    /\ UNCHANGED <<targetRef, volumeVars, workloadVars, reading>>

\* The scale subresource is asked of one REST mapping after the other.
FetchSelector ==
    /\ phase = "selector"
    /\ phase' = "list"
    /\ UNCHANGED <<targetRef, volumeVars, workloadVars, queries, info, todo, fetched, reading,
                   historyVars, left>>

\* An empty selector parses as one that selects every Pod of the namespace.
Selected == IF SelectorReported THEN pods \cap TargetPods[targetRef] ELSE pods

ListPods ==
    /\ phase = "list"
    /\ Mounted(Selected) # {}
    /\ phase' = "get"
    /\ todo' = Mounted(Selected)
    /\ UNCHANGED <<targetRef, volumeVars, workloadVars, queries, info, fetched, reading, historyVars,
                   left>>

\* ErrNoPodsFound, ErrNoPVCsFound.
NothingFound ==
    /\ phase = "list"
    /\ Mounted(Selected) = {}
    /\ FetchFails
    /\ UNCHANGED left

CallFails ==
    /\ phase \in {"selector", "list", "get"}
    /\ Disturbed
    /\ FetchFails

\* Claim c is got, or is not there and passed over.
Passed(c, got) ==
    /\ todo' = todo \ {c}
    /\ fetched' = IF got THEN fetched \cup {c} ELSE fetched
    /\ phase' = IF todo = {c} THEN "judge" ELSE "get"
    /\ UNCHANGED <<targetRef, volumeVars, workloadVars, queries, info, reading, historyVars, left>>

GetPVC(c) ==
    /\ phase = "get"
    /\ c \in todo \cap claims
    /\ Passed(c, TRUE)

\* Mutant of GetPVCFails: a claim that is not there is passed over.
GetPVCSkips(c) ==
    /\ phase = "get"
    /\ c \in todo \ claims
    /\ Passed(c, FALSE)

\* One claim that is not there fails the whole Fetch.
GetPVCFails(c) ==
    /\ phase = "get"
    /\ c \in todo \ claims
    /\ FetchFails
    /\ UNCHANGED left

(***************************************************************************)
(* updateVolumeRecommendationForPVC                                        *)
(***************************************************************************)
\* Mutant of UsedPercentage: the division is forgotten.
UsedUndivided(available, capacity) == 100 - 100 * available + 0 * capacity

\* The free part is truncated to an integer, so the used part is rounded up.
UsedPercentage(available, capacity) == 100 - (100 * available) \div capacity

Used(vi) ==
    [space |-> UsedPercentage(vi["availableBytes"], vi["capacityBytes"]),
     inodes |-> UsedPercentage(vi["availableInodes"], vi["capacityInodes"]),
     ok |-> TRUE]

HasCapacities(vi) == vi["capacityBytes"] # 0 /\ vi["capacityInodes"] # 0

\* Mutant of Evaluated: readings are not compared with the size of the claim.
EvaluatedUnchecked(c) == IF HasCapacities(info[c]) THEN Used(info[c]) ELSE NoReading

\* ErrNoMetrics, ErrCapacityIsZero or ErrStaleMetrics, or the reading.
Evaluated(c) ==
    IF HasCapacities(info[c]) /\ ~IsStale(status[c], info[c]["capacityBytes"])
    THEN Used(info[c]) ELSE NoReading

\* The claim is read again before.
Judge(c) ==
    /\ phase = "judge"
    /\ c \in fetched
    /\ reading' = [reading EXCEPT ![c] = Evaluated(c)]
    /\ IF fetched = {c}
       THEN EndTick
       ELSE /\ fetched' = fetched \ {c}
            /\ UNCHANGED <<phase, queries, info, todo, historyVars>>
    /\ UNCHANGED <<targetRef, volumeVars, workloadVars, left>>

RunnerWorks ==
    \/ StartTick \/ FetchSelector \/ ListPods \/ NothingFound
    \/ \E q \in Queries : GetMetric(q)
    \/ \E c \in Claims : GetPVC(c) \/ GetPVCFails(c) \/ Judge(c)

-----------------------------------------------------------------------------
(***************************************************************************)
(* The environment                                                         *)
(***************************************************************************)
\* The kubelet grows the file system, and then says so in the status of the claim.
VolumeGrows(c) ==
    /\ c \in Growing
    /\ size' = [size EXCEPT ![c] = GrownSize]
    /\ UNCHANGED <<targetRef, status, sample, workloadVars, tickVars, historyVars, left>>

CapacityReported(c) ==
    /\ status' = [status EXCEPT ![c] = size[c]]
    /\ UNCHANGED <<targetRef, size, sample, workloadVars, tickVars, historyVars, left>>

\* Only volumes of Pods have metrics; others lose theirs after a while.
Scrape ==
    /\ sample' = [c \in Claims |-> IF c \in Mounted(pods) \cap claims THEN size[c] ELSE 0]
    /\ UNCHANGED <<targetRef, size, status, workloadVars, tickVars, historyVars, left>>

ClaimCreated(c) ==
    /\ claims' = claims \cup {c}
    /\ UNCHANGED <<targetRef, volumeVars, pods, tickVars, historyVars, left>>

PodsChange ==
    /\ IF phase \in {"selector", "list", "get"}
       THEN always' = always \cap TargetClaims(pods') /\ ever' = ever \cup TargetClaims(pods')
       ELSE UNCHANGED historyVars
    /\ UNCHANGED <<targetRef, volumeVars, claims, tickVars>>

PodDeleted(k) ==
    /\ Disturbed
    /\ k \in pods
    /\ pods' = pods \ {k}
    /\ PodsChange

PodCreated(k) ==
    /\ pods' = pods \cup {k}
    /\ PodsChange
    /\ UNCHANGED left

Next ==
    \/ RunnerWorks \/ GetMetricFails \/ CallFails \/ Scrape
    \/ \E c \in Claims : VolumeGrows(c) \/ CapacityReported(c) \/ ClaimCreated(c)
    \/ \E k \in Pods : PodDeleted(k) \/ PodCreated(k)

Spec == Init /\ [][Next]_vars

(***************************************************************************)
(* The runner ticks on, the kubelet and Prometheus do their part, and Pods *)
(* and claims that are missing are created.                                *)
(***************************************************************************)
Fairness ==
    /\ WF_vars(RunnerWorks)
    /\ WF_vars(Scrape)
    /\ \A c \in Claims : WF_vars(CapacityReported(c)) /\ WF_vars(ClaimCreated(c))
    /\ \A k \in Pods : WF_vars(PodCreated(k))

FairSpec == Spec /\ Fairness

-----------------------------------------------------------------------------
(***************************************************************************)
(* Properties                                                              *)
(***************************************************************************)
\* A reading that is accepted for a claim whose status tells the size of its volume
\* never understates the space used, whatever scrapes the queries have seen and
\* whenever the volume has grown: a full volume is not taken for one with space left.  (The number of inodes is not compared with anything, and may be that
\* of the volume before it grew.)
NoUnderstatement ==
    [][\A c \in Claims :
          Judge(c) /\ Evaluated(c).ok /\ status[c] = size[c] =>
              Evaluated(c).space * size[c] >= 100 * Usage[c].bytes]_vars

\* A tick evaluates all claims the target's Pods mounted throughout the Fetch, and
\* none that they did not mount at some time of it, or it evaluates none.
FetchAllOrNothing ==
    [][phase # "judge" /\ phase' = "judge" => always \subseteq fetched' /\ fetched' \subseteq ever]_vars

\* Once Pods, claims and volumes stay as they are, every tick ends with the true
\* reading of every claim of the target: wrong ones, from a volume that grew or was scraped for
\* the first time between two queries, do not persist.
TrueReading(c) ==
    Used([availableBytes |-> size[c] - Usage[c].bytes, capacityBytes |-> size[c],
          availableInodes |-> size[c] - Usage[c].inodes, capacityInodes |-> size[c]])

ReadingsSettle ==
    \A c \in Claims : <>[](phase = "idle" /\ c \in TargetClaims(Pods) => reading[c] = TrueReading(c))

\* A volume is reported fuller than the threshold only if it is, or was when it was
\* smaller.
NoOverstatement ==
    \A c \in Claims : reading[c].ok =>
        reading[c].space <= UsedPercentage(InitSize - Usage[c].bytes, InitSize)

-----------------------------------------------------------------------------
(***************************************************************************)
(* The invariants behind the proofs of NoUnderstatement and                *)
(* FetchAllOrNothing: no query has seen more space than there is; and what *)
(* has been got and what is still to get are claims of the target.         *)
(***************************************************************************)
SampleInv ==
    \A c \in Claims :
        /\ sample[c] \in {0, InitSize, size[c]}
        /\ info[c]["capacityBytes"] \in {0, InitSize, size[c]}
        /\ info[c]["availableBytes"] <= size[c] - Usage[c].bytes

FetchInv ==
    /\ phase \notin {"get", "judge"} => fetched = {}
    /\ phase \in {"selector", "list"} =>
          /\ targetRef \in Workloads
          /\ always \subseteq TargetClaims(pods) /\ TargetClaims(pods) \subseteq ever
    /\ phase = "get" => always \subseteq todo \cup fetched /\ todo \cup fetched \subseteq ever

=============================================================================
