-------------------------- MODULE RequestContract --------------------------
(***************************************************************************)
(* What an asynchronous inference request promises its user: it serves one *)
(* run at a time; every run has one outcome, which never changes; and a    *)
(* run that was started is over, the request free for the next one, before *)
(* its outcome can be seen.  A run whose first stage could not be started  *)
(* is the exception: its error is seen while the request is still taken.   *)
(***************************************************************************)
CONSTANTS Runs, NoRun

VARIABLES
    active,     \* the run that holds the request
    outcome     \* of each run

vars == <<active, outcome>>

Init ==
    /\ active = NoRun
    /\ outcome = [r \in Runs |-> "none"]

Start(r) ==
    /\ active = NoRun
    /\ outcome[r] = "none"
    /\ active' = r
    /\ outcome' = [outcome EXCEPT ![r] = "pending"]

StartFails(r) ==
    /\ active = r
    /\ outcome[r] = "pending"
    /\ outcome' = [outcome EXCEPT ![r] = "error"]
    /\ UNCHANGED active

Free ==
    /\ active # NoRun
    /\ active' = NoRun
    /\ UNCHANGED outcome

Deliver(r) ==
    /\ active # r
    /\ outcome[r] = "pending"
    /\ \E o \in {"value", "error"} : outcome' = [outcome EXCEPT ![r] = o]
    /\ UNCHANGED active

Next ==
    \/ \E r \in Runs : Start(r) \/ StartFails(r) \/ Deliver(r)
    \/ Free

Spec == Init /\ [][Next]_vars
=============================================================================
