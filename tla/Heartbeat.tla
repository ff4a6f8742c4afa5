------------------------------ MODULE Heartbeat ------------------------------
(***************************************************************************)
(* The heartbeat (internal/healthcheck) between the loop that drives the   *)
(* periodic runner (Start in internal/periodic) and the liveness probe.    *)
(* The replicas compete for the lease of the manager; only the holder runs *)
(* the loop.  A tick may be slow, or get stuck in a call that does not     *)
(* return; the kubelet restarts a replica whose probe keeps failing.       *)
(*                                                                         *)
(* Time is kept as the time elapsed since an event; one step is one unit.  *)
(***************************************************************************)
EXTENDS Naturals

CONSTANTS
    Replicas,           \* the Pods of the manager
    None,               \* no holder of the lease
    Interval,           \* the period of the ticker
    LongestTick,        \* how long a tick takes at most unless it gets stuck
    FailureThreshold,   \* failed probes in a row before a restart
    Faults              \* what may happen: "stuck" calls, loss of the "lease"

ASSUME HeartbeatAssumption ==
    /\ None \notin Replicas
    /\ Interval \in Nat \ {0}
    /\ LongestTick \in Nat
    /\ FailureThreshold \in Nat \ {0}
    /\ Faults \subseteq {"stuck", "lease"}

\* Mutant of ActivityTimeout: one interval less.
ShortActivityTimeout == 4 * Interval

ActivityTimeout == 5 * Interval

VARIABLES
    lease,          \* the replica that holds the lease
    run,            \* where Start is: not called, waiting in select, in reconcileAll
    checkTimeout,   \* whether monitoring has started
    sinceActivity,  \* time since lastActivity, no longer counted beyond the timeout
    sinceFired,     \* time since the ticker was created or fired last
    due,            \* a tick waits in the channel of the ticker, which holds one
    busy,           \* time reconcileAll has taken so far
    failures        \* failed probes in a row

vars == <<lease, run, checkTimeout, sinceActivity, sinceFired, due, busy, failures>>

TypeOK ==
    /\ lease \in Replicas \cup {None}
    /\ run \in [Replicas -> {"standby", "select", "tick", "stuck"}]
    /\ checkTimeout \in [Replicas -> BOOLEAN]
    /\ sinceActivity \in [Replicas -> 0..(ActivityTimeout + 1)]
    /\ sinceFired \in [Replicas -> 0..(Interval - 1)]
    /\ due \in [Replicas -> BOOLEAN]
    /\ busy \in [Replicas -> 0..LongestTick]
    /\ failures \in [Replicas -> 0..(FailureThreshold - 1)]

\* NewHeartbeat, in every replica.
Init ==
    /\ lease = None
    /\ run = [r \in Replicas |-> "standby"]
    /\ checkTimeout = [r \in Replicas |-> FALSE]
    /\ sinceActivity = [r \in Replicas |-> 0]
    /\ sinceFired = [r \in Replicas |-> 0]
    /\ due = [r \in Replicas |-> FALSE]
    /\ busy = [r \in Replicas |-> 0]
    /\ failures = [r \in Replicas |-> 0]

-----------------------------------------------------------------------------
\* Mutant of StartMonitoring: the timeout is not enabled.
StartMonitoringUnchecked(r) ==
    /\ sinceActivity' = [sinceActivity EXCEPT ![r] = 0]
    /\ checkTimeout' = checkTimeout

StartMonitoring(r) ==
    /\ checkTimeout' = [checkTimeout EXCEPT ![r] = TRUE]
    /\ sinceActivity' = [sinceActivity EXCEPT ![r] = 0]

UpdateLastActivity(r) == sinceActivity' = [sinceActivity EXCEPT ![r] = 0]

\* The probe succeeds.
Check(r) == checkTimeout[r] => sinceActivity[r] <= ActivityTimeout

\* The manager wins the election and calls Start.
Start(r) ==
    /\ lease = None
    /\ lease' = r
    /\ run' = [run EXCEPT ![r] = "select"]
    /\ sinceFired' = [sinceFired EXCEPT ![r] = 0]
    /\ StartMonitoring(r)
    /\ UNCHANGED <<due, busy, failures>>

TickStarts(r) ==
    /\ run[r] = "select"
    /\ due[r]
    /\ run' = [run EXCEPT ![r] = "tick"]
    /\ due' = [due EXCEPT ![r] = FALSE]
    /\ busy' = [busy EXCEPT ![r] = 0]
    /\ UNCHANGED <<lease, checkTimeout, sinceActivity, sinceFired, failures>>

\* reconcileAll returns, with or without an error, in time or after having been stuck.
TickEnds(r) ==
    /\ run[r] \in {"tick", "stuck"}
    /\ run' = [run EXCEPT ![r] = "select"]
    /\ busy' = [busy EXCEPT ![r] = 0]
    /\ UpdateLastActivity(r)
    /\ UNCHANGED <<lease, checkTimeout, sinceFired, due, failures>>

TickStuck(r) ==
    /\ "stuck" \in Faults
    /\ run[r] = "tick"
    /\ run' = [run EXCEPT ![r] = "stuck"]
    /\ busy' = [busy EXCEPT ![r] = 0]
    /\ UNCHANGED <<lease, checkTimeout, sinceActivity, sinceFired, due, failures>>

\* A new process takes the place of r, with a new heartbeat and without the lease,
\* which is not released.
Restart(r) ==
    /\ run' = [run EXCEPT ![r] = "standby"]
    /\ checkTimeout' = [checkTimeout EXCEPT ![r] = FALSE]
    /\ sinceActivity' = [sinceActivity EXCEPT ![r] = 0]
    /\ due' = [due EXCEPT ![r] = FALSE]
    /\ busy' = [busy EXCEPT ![r] = 0]
    /\ failures' = [failures EXCEPT ![r] = 0]
    /\ UNCHANGED <<lease, sinceFired>>

ProbeSucceeds(r) ==
    /\ Check(r)
    /\ failures' = [failures EXCEPT ![r] = 0]
    /\ UNCHANGED <<lease, run, checkTimeout, sinceActivity, sinceFired, due, busy>>

ProbeFails(r) ==
    /\ ~Check(r)
    /\ IF failures[r] + 1 < FailureThreshold
       THEN /\ failures' = [failures EXCEPT ![r] = @ + 1]
            /\ UNCHANGED <<lease, run, checkTimeout, sinceActivity, sinceFired, due, busy>>
       ELSE Restart(r)

\* The lease of a process that is gone expires.
LeaseExpires ==
    /\ lease # None
    /\ run[lease] = "standby"
    /\ lease' = None
    /\ UNCHANGED <<run, checkTimeout, sinceActivity, sinceFired, due, busy, failures>>

\* The holder fails to renew the lease, and exits.
LeaseLost(r) ==
    /\ "lease" \in Faults
    /\ run[r] # "standby"
    /\ Restart(r)

\* A tick that is due starts, and one that is not stuck ends, without delay.
Urgent(r) == \/ run[r] = "select" /\ due[r]
             \/ run[r] = "tick" /\ busy[r] = LongestTick

Fires(r) == run[r] # "standby" /\ sinceFired[r] + 1 = Interval

TimePasses ==
    /\ \A r \in Replicas : ~Urgent(r)
    /\ sinceActivity' = [r \in Replicas |-> IF sinceActivity[r] > ActivityTimeout
                                            THEN sinceActivity[r] ELSE sinceActivity[r] + 1]
    /\ sinceFired' = [r \in Replicas |-> IF run[r] = "standby" \/ Fires(r) THEN 0 ELSE sinceFired[r] + 1]
    /\ due' = [r \in Replicas |-> due[r] \/ Fires(r)]
    /\ busy' = [r \in Replicas |-> IF run[r] = "tick" THEN busy[r] + 1 ELSE busy[r]]
    /\ UNCHANGED <<lease, run, checkTimeout, failures>>

Next ==
    \/ \E r \in Replicas : \/ Start(r) \/ TickStarts(r) \/ TickEnds(r) \/ TickStuck(r)
                           \/ ProbeSucceeds(r) \/ ProbeFails(r) \/ LeaseLost(r)
    \/ LeaseExpires
    \/ TimePasses

Spec == Init /\ [][Next]_vars

(***************************************************************************)
(* Time passes, the kubelet probes every replica, leases expire and are    *)
(* taken.  Nothing is assumed of the ticks: a stuck one may stay so.       *)
(***************************************************************************)
Fairness ==
    /\ WF_vars(TimePasses)
    /\ WF_vars(LeaseExpires)
    /\ WF_vars(\E r \in Replicas : Start(r))
    /\ \A r \in Replicas :
          /\ WF_vars(ProbeFails(r))
          /\ WF_vars(run[r] = "tick" /\ TickEnds(r))
          /\ WF_vars(TickStarts(r))

FairSpec == Spec /\ Fairness

-----------------------------------------------------------------------------
\* Check never fails for a replica on standby, nor for a loop that is not stuck, as
\* long as no tick takes longer than four intervals: the wait for a tick and the tick
\* together stay within the timeout of five intervals.
NoFalseAlarm == \A r \in Replicas : run[r] # "stuck" => Check(r)

\* A loop that is stuck comes back, or is restarted and taken over by some replica.
StuckOvercome == \A r \in Replicas : run[r] = "stuck" ~> \E q \in Replicas : run[q] = "select"

-----------------------------------------------------------------------------
(***************************************************************************)
(* The invariant behind the proof of NoFalseAlarm: when the last activity  *)
(* was, at the latest, in each state of the loop.                          *)
(***************************************************************************)
ActivityInv ==
    \A r \in Replicas :
        /\ run[r] = "standby" => ~checkTimeout[r]
        /\ run[r] = "select" /\ ~due[r] => sinceActivity[r] <= sinceFired[r]
        /\ run[r] = "select" /\ due[r] => sinceActivity[r] <= Interval
        /\ run[r] = "tick" => sinceActivity[r] <= Interval + busy[r]

=============================================================================
