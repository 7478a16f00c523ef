---------------------------- MODULE TaskExecutor ----------------------------
(***************************************************************************)
(* What an executor promises: a task that was submitted is started once    *)
(* and ends once, and the executor is not released before all its tasks    *)
(* ended.                                                                  *)
(***************************************************************************)
CONSTANT Tasks

VARIABLES
    phase,      \* of each task
    released    \* the executor's destructor returned

vars == <<phase, released>>

Phases == {"new", "queued", "running", "done"}

Init ==
    /\ phase = [t \in Tasks |-> "new"]
    /\ released = FALSE

Submit(t) ==
    /\ ~released
    /\ phase[t] = "new"
    /\ phase' = [phase EXCEPT ![t] = "queued"]
    /\ UNCHANGED released

Start(t) ==
    /\ ~released
    /\ phase[t] = "queued"
    /\ phase' = [phase EXCEPT ![t] = "running"]
    /\ UNCHANGED released

End(t) ==
    /\ ~released
    /\ phase[t] = "running"
    /\ phase' = [phase EXCEPT ![t] = "done"]
    /\ UNCHANGED released

Release ==
    /\ \A t \in Tasks : phase[t] \in {"new", "done"}
    /\ released' = TRUE
    /\ UNCHANGED phase

Next ==
    \/ \E t \in Tasks : Submit(t) \/ Start(t) \/ End(t)
    \/ Release

Spec == Init /\ [][Next]_vars
=============================================================================
