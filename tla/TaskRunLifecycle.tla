-------------------------- MODULE TaskRunLifecycle --------------------------
(***************************************************************************)
(* What a client that watches a TaskRun may rely on: the phases of the     *)
(* TaskRun and of its steps only ever move forward.  No caches, Jobs,      *)
(* retries or crashes are visible here.                                    *)
(***************************************************************************)
VARIABLES
    phase,  \* status.phase
    steps   \* the phase of each entry of status.steps, <<>> before it starts

vars == <<phase, steps>>

\* A step goes from Pending to Running, and from either to a final phase.
MayBecome(p, q) ==
    \/ p = q
    \/ p = "Pending"
    \/ p = "Running" /\ q \in {"Succeeded", "Failed"}

Forward ==
    /\ DOMAIN steps' = DOMAIN steps
    /\ \A i \in DOMAIN steps : MayBecome(steps[i], steps'[i])

Init == phase = "" /\ steps = <<>>

Begin ==
    /\ phase = "" /\ phase' = "Running"
    /\ steps' = [i \in DOMAIN steps' |-> "Pending"]

Reject ==
    /\ phase = "" /\ phase' = "Failed"
    /\ UNCHANGED steps

\* A TaskRun that is still Running has no finished step to show.
Progress ==
    /\ phase = "Running" /\ UNCHANGED phase
    /\ Forward
    /\ \A i \in DOMAIN steps : steps'[i] \in {"Pending", "Running"}

Succeed ==
    /\ phase = "Running" /\ phase' = "Succeeded"
    /\ Forward
    /\ \A i \in DOMAIN steps : steps'[i] = "Succeeded"

Fail ==
    /\ phase = "Running" /\ phase' = "Failed"
    /\ Forward
    /\ \E i \in DOMAIN steps : steps'[i] # "Succeeded"

Next == Begin \/ Reject \/ Progress \/ Succeed \/ Fail

Spec == Init /\ [][Next]_vars
=============================================================================
