--------------------------- MODULE MCWorkerSessions ---------------------------
(* Instances of WorkerSessions: one worker with two slots. *)
EXTENDS WorkerSessions

CONSTANT w1

OneWorker == {w1}
TwoSlots == [w \in Workers |-> 2]
=============================================================================
