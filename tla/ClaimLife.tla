------------------------------ MODULE ClaimLife ------------------------------
(***************************************************************************)
(* What the autoscaler and the storage system together promise the owner   *)
(* of a claim, claim by claim: a request grows only when the previous one  *)
(* is satisfied, it shrinks only after an expansion has failed and never   *)
(* to the capacity, and the capacity changes only to what was requested.   *)
(* Nothing is said of policies, ticks, annotations, patches or conditions. *)
(***************************************************************************)
EXTENDS Naturals

CONSTANT Claims

VARIABLES
    request,    \* what the claim asks for
    capacity,   \* what it has, 0 while it is unbound
    stage       \* where it is in its life

vars == <<request, capacity, stage>>

Stages == {"unbound", "satisfied", "requested", "expanding", "failed"}

Init ==
    /\ request \in [Claims -> Nat \ {0}]
    /\ capacity = [c \in Claims |-> 0]
    /\ stage = [c \in Claims |-> "unbound"]

Moves(c, from, to) ==
    /\ stage[c] \in from
    /\ stage' = [stage EXCEPT ![c] = to]

\* The storage system grants the request.
Grant(c) ==
    /\ capacity' = [capacity EXCEPT ![c] = request[c]]
    /\ request' = request

\* Claim c alone gets a new request.
Asks(c) ==
    /\ request'[c] \in Nat
    /\ request' = [request EXCEPT ![c] = request'[c]]
    /\ capacity' = capacity

Provision(c) == Moves(c, {"unbound"}, "satisfied") /\ Grant(c)

ScaleUp(c) ==
    /\ Moves(c, {"satisfied"}, "requested")
    /\ Asks(c)
    /\ request'[c] > request[c]

Expand(c) == Moves(c, {"requested", "failed"}, "expanding") /\ UNCHANGED <<request, capacity>>

Finish(c) == Moves(c, {"expanding"}, "satisfied") /\ Grant(c)

Fail(c) == Moves(c, {"expanding"}, "failed") /\ UNCHANGED <<request, capacity>>

\* A failure shows until the storage system has reacted to the smaller request.
Reduce(c) ==
    /\ Moves(c, {"failed"}, "failed")
    /\ Asks(c)
    /\ capacity[c] < request'[c] /\ request'[c] < request[c]

Next == \E c \in Claims :
            Provision(c) \/ ScaleUp(c) \/ Expand(c) \/ Finish(c) \/ Fail(c) \/ Reduce(c)

Spec == Init /\ [][Next]_vars

=============================================================================
