------------------------ MODULE MCAsyncInferRequest ------------------------
(* Instances of AsyncInferRequest for TLC.                                  *)
EXTENDS AsyncInferRequest, TLC

CONSTANTS c1, c2

\* Threads and runs are interchangeable: sound for the safety properties.
Symmetry == Permutations(Clients) \cup Permutations(Runs)

\* Which methods the threads call, in each of the runs.
CallsOps   == [d \in BOOLEAN |-> [c \in Clients |->
                  CASE d /\ c = c1 -> Ops
                    [] d /\ c # c1 -> {"StartAsync", "Infer"}
                    [] ~d /\ c = c1 -> {"StartAsync", "Infer", "Wait", "Cancel"}
                    [] OTHER -> {}]]
SafetyOps  == [d \in BOOLEAN |-> [c \in Clients |-> {"StartAsync", "Cancel"}]]
RestartOps == [d \in BOOLEAN |-> [c \in Clients |-> {"StartAsync"}]]
=============================================================================
