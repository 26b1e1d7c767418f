----------------------------- MODULE Executions -----------------------------
(***************************************************************************)
(* What app/engine promises to whoever awaits execute_with_verification:   *)
(* each execution has one result, which stays; it makes the platform act   *)
(* at most once, perhaps after its result; and where there is something to *)
(* look at, success means that it was seen.  No requests, no answers, no   *)
(* processes.                                                              *)
(***************************************************************************)
CONSTANTS
    Runs, Targets,
    Verified        \* targets that can be looked at afterwards

VARIABLES
    target,         \* what an execution is to bring about
    outcome,        \* its result, if it has one
    acted,          \* executions the platform acted for
    seen            \* executions whose target has held since they began

vars == <<target, outcome, acted, seen>>

\* What Instances knows of an execution: RunSucceeds or RunMetered, RunFails, JobRaises.
Outcomes == {"success", "failure", "raised"}

Refuse(r, t, o) ==
    /\ outcome[r] = "none" /\ o # "success"
    /\ target' = [target EXCEPT ![r] = t]
    /\ outcome' = [outcome EXCEPT ![r] = o]
    /\ UNCHANGED <<acted, seen>>

Take(r, t) ==
    /\ outcome[r] = "none"
    /\ target' = [target EXCEPT ![r] = t]
    /\ outcome' = [outcome EXCEPT ![r] = "awaited"]
    /\ seen' \in {seen, seen \cup {r}}
    /\ UNCHANGED acted

\* t comes about, or is noticed.
Hold(t) == seen' = seen \cup {r \in Runs : target[r] = t}

Act(r) ==
    /\ outcome[r] # "none" /\ r \notin acted
    /\ acted' = acted \cup {r}
    /\ Hold(target[r])
    /\ UNCHANGED <<target, outcome>>

OthersAct(t) == Hold(t) /\ UNCHANGED <<target, outcome, acted>>

Finish(r, o) ==
    /\ outcome[r] = "awaited"
    /\ o = "success" /\ target[r] \in Verified => r \in seen
    /\ outcome' = [outcome EXCEPT ![r] = o]
    /\ UNCHANGED <<target, acted, seen>>

Init ==
    /\ target = [r \in Runs |-> "none"]
    /\ outcome = [r \in Runs |-> "none"]
    /\ acted = {}
    /\ seen = {}

Next ==
    \/ \E r \in Runs :
          \/ \E t \in Targets : Take(r, t) \/ \E o \in Outcomes : Refuse(r, t, o)
          \/ Act(r)
          \/ \E o \in Outcomes : Finish(r, o)
    \/ \E t \in Targets : OthersAct(t)

Spec == Init /\ [][Next]_vars
=============================================================================
