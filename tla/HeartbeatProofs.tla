--------------------------- MODULE HeartbeatProofs ---------------------------
(***************************************************************************)
(* That the heartbeat raises no false alarm, for every number of replicas, *)
(* every interval and every fault: a loop that is not stuck passes Check   *)
(* as long as its ticks take at most four intervals.                       *)
(***************************************************************************)
EXTENDS Heartbeat, TLAPS

\* The counters of the model stay within their bounds: the failed probes below the
\* threshold of the kubelet, the time since the ticker fired below its period.
THEOREM HeartbeatTypeCorrect == Spec => []TypeOK
<1>1. Init => TypeOK
  BY HeartbeatAssumption DEF Init, TypeOK, ActivityTimeout
<1>2. ASSUME TypeOK, [Next]_vars
      PROVE  TypeOK'
  <2> USE <1>2, HeartbeatAssumption
  <2>1. ASSUME NEW r \in Replicas, Start(r)
        PROVE  TypeOK'
    BY <2>1 DEF TypeOK, Start, StartMonitoring, ActivityTimeout
  <2>2. ASSUME NEW r \in Replicas, TickStarts(r)
        PROVE  TypeOK'
    BY <2>2 DEF TypeOK, TickStarts
  <2>3. ASSUME NEW r \in Replicas, TickEnds(r)
        PROVE  TypeOK'
    BY <2>3 DEF TypeOK, TickEnds, UpdateLastActivity, ActivityTimeout
  <2>4. ASSUME NEW r \in Replicas, TickStuck(r)
        PROVE  TypeOK'
    BY <2>4 DEF TypeOK, TickStuck
  <2>5. ASSUME NEW r \in Replicas, ProbeSucceeds(r)
        PROVE  TypeOK'
    BY <2>5 DEF TypeOK, ProbeSucceeds
  <2>6. ASSUME NEW r \in Replicas, Restart(r)
        PROVE  TypeOK'
    BY <2>6 DEF TypeOK, Restart, ActivityTimeout
  <2>7. ASSUME NEW r \in Replicas, ProbeFails(r)
        PROVE  TypeOK'
    <3>1. CASE failures[r] + 1 < FailureThreshold
      BY <2>7, <3>1 DEF TypeOK, ProbeFails
    <3>2. CASE ~(failures[r] + 1 < FailureThreshold)
      BY <2>6, <2>7, <3>2 DEF ProbeFails
    <3> QED
      BY <3>1, <3>2
  <2>8. ASSUME NEW r \in Replicas, LeaseLost(r)
        PROVE  TypeOK'
    BY <2>6, <2>8 DEF LeaseLost
  <2>9. CASE LeaseExpires
    BY <2>9 DEF TypeOK, LeaseExpires
  <2>10. CASE TimePasses
    <3>1. sinceActivity' \in [Replicas -> 0..(ActivityTimeout + 1)]
      BY <2>10 DEF TypeOK, TimePasses, ActivityTimeout
    <3>2. sinceFired' \in [Replicas -> 0..(Interval - 1)]
      BY <2>10 DEF TypeOK, TimePasses, Fires
    <3>3. due' \in [Replicas -> BOOLEAN]
      BY <2>10, Zenon DEF TypeOK, TimePasses, Fires
    <3>4. busy' \in [Replicas -> 0..LongestTick]
      BY <2>10 DEF TypeOK, TimePasses, Urgent
    <3> QED
      BY <2>10, <3>1, <3>2, <3>3, <3>4 DEF TypeOK, TimePasses
  <2>11. CASE UNCHANGED vars
    BY <2>11 DEF TypeOK, vars
  <2> QED
    BY <2>1, <2>2, <2>3, <2>4, <2>5, <2>7, <2>8, <2>9, <2>10, <2>11 DEF Next
<1> QED
  BY <1>1, <1>2, PTL DEF Spec

\* How long ago the last activity can be in each state of the loop: since the ticker
\* fired while it waits, one interval when a tick starts, and the time of the tick
\* on top of it.
LEMMA ActivityBounded == Spec => []ActivityInv
<1>1. Init => ActivityInv
  BY DEF Init, ActivityInv
<1>2. ASSUME TypeOK, TypeOK', ActivityInv, [Next]_vars
      PROVE  ActivityInv'
  <2> USE <1>2, HeartbeatAssumption
  <2>1. ASSUME NEW r \in Replicas, Start(r)
        PROVE  ActivityInv'
    BY <2>1 DEF TypeOK, ActivityInv, Start, StartMonitoring
  <2>2. ASSUME NEW r \in Replicas, TickStarts(r)
        PROVE  ActivityInv'
    BY <2>2 DEF TypeOK, ActivityInv, TickStarts
  <2>3. ASSUME NEW r \in Replicas, TickEnds(r)
        PROVE  ActivityInv'
    BY <2>3 DEF TypeOK, ActivityInv, TickEnds, UpdateLastActivity
  <2>4. ASSUME NEW r \in Replicas, TickStuck(r)
        PROVE  ActivityInv'
    BY <2>4 DEF TypeOK, ActivityInv, TickStuck
  <2>5. ASSUME NEW r \in Replicas, ProbeSucceeds(r)
        PROVE  ActivityInv'
    BY <2>5 DEF TypeOK, ActivityInv, ProbeSucceeds
  <2>6. ASSUME NEW r \in Replicas, Restart(r)
        PROVE  ActivityInv'
    BY <2>6 DEF TypeOK, ActivityInv, Restart
  <2>7. ASSUME NEW r \in Replicas, ProbeFails(r)
        PROVE  ActivityInv'
    <3>1. CASE failures[r] + 1 < FailureThreshold
      BY <2>7, <3>1 DEF TypeOK, ActivityInv, ProbeFails
    <3>2. CASE ~(failures[r] + 1 < FailureThreshold)
      BY <2>6, <2>7, <3>2 DEF ProbeFails
    <3> QED
      BY <3>1, <3>2
  <2>8. ASSUME NEW r \in Replicas, LeaseLost(r)
        PROVE  ActivityInv'
    BY <2>6, <2>8 DEF LeaseLost
  <2>9. CASE LeaseExpires
    BY <2>9 DEF TypeOK, ActivityInv, LeaseExpires
  <2>10. CASE TimePasses
    <3> SUFFICES ASSUME NEW r \in Replicas
                 PROVE  /\ run[r] = "standby" => ~checkTimeout'[r]
                        /\ run[r] = "select" /\ ~due'[r] => sinceActivity'[r] <= sinceFired'[r]
                        /\ run[r] = "select" /\ due'[r] => sinceActivity'[r] <= Interval
                        /\ run[r] = "tick" => sinceActivity'[r] <= Interval + busy'[r]
      BY <2>10 DEF ActivityInv, TimePasses
    <3>1. run[r] = "select" => ~due[r]
      BY <2>10 DEF TimePasses, Urgent
    <3>2. sinceActivity'[r] <= sinceActivity[r] + 1 /\ sinceActivity'[r] \in Nat
      BY <2>10 DEF TypeOK, TimePasses, ActivityTimeout
    <3>3. CASE Fires(r)
      <4>1. due'[r]
        BY <2>10, <3>3, Zenon DEF TimePasses
      <4>2. run[r] # "standby" /\ sinceFired[r] + 1 = Interval
        BY <3>3 DEF Fires
      <4>3. run[r] = "tick" => busy'[r] = busy[r] + 1
        BY <2>10 DEF TimePasses
      <4> QED
        BY <3>1, <3>2, <4>1, <4>2, <4>3 DEF TypeOK, ActivityInv
    <3>4. CASE ~Fires(r)
      <4>1. due'[r] = (due[r] \/ FALSE)
        BY <2>10, <3>4, Zenon DEF TimePasses
      <4>2. run[r] = "select" => ~due'[r]
        BY <3>1, <4>1, Zenon
      <4>3. run[r] # "standby" => sinceFired'[r] = sinceFired[r] + 1
        BY <2>10, <3>4 DEF TimePasses
      <4>4. run[r] = "tick" => busy'[r] = busy[r] + 1
        BY <2>10 DEF TimePasses
      <4>5. checkTimeout' = checkTimeout
        BY <2>10 DEF TimePasses
      <4> QED
        BY <3>1, <3>2, <4>2, <4>3, <4>4, <4>5 DEF TypeOK, ActivityInv
    <3> QED
      BY <3>3, <3>4
  <2>11. CASE UNCHANGED vars
    BY <2>11 DEF ActivityInv, vars
  <2> QED
    BY <2>1, <2>2, <2>3, <2>4, <2>5, <2>7, <2>8, <2>9, <2>10, <2>11 DEF Next
<1> QED
  BY <1>1, <1>2, HeartbeatTypeCorrect, PTL DEF Spec

\* Ticks of at most four intervals never make Check fail: waiting for the ticker and
\* the tick itself together do not exceed the timeout of five intervals.
THEOREM NoFalseAlarms ==
    ASSUME LongestTick <= 4 * Interval
    PROVE  Spec => []NoFalseAlarm
<1>1. TypeOK /\ ActivityInv => NoFalseAlarm
  <2> SUFFICES ASSUME TypeOK, ActivityInv, NEW r \in Replicas, run[r] # "stuck", checkTimeout[r]
               PROVE  sinceActivity[r] <= ActivityTimeout
    BY DEF NoFalseAlarm, Check
  <2>1. run[r] \in {"select", "tick"}
    BY DEF TypeOK, ActivityInv
  <2> QED
    BY <2>1, HeartbeatAssumption DEF TypeOK, ActivityInv, ActivityTimeout
<1> QED
  BY <1>1, HeartbeatTypeCorrect, ActivityBounded, PTL

=============================================================================
