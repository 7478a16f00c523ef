------------------------ MODULE MCCPUStreamsExecutor ------------------------
(* Instances of CPUStreamsExecutor for TLC.                                 *)
EXTENDS CPUStreamsExecutor, TLC

\* Threads and tasks are interchangeable: sound for the safety properties.
Symmetry == Permutations(Workers) \cup Permutations(Clients) \cup Permutations(Tasks)
=============================================================================
