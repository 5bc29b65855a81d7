------------------------------ MODULE MCScheduler ------------------------------
(* Instances of Scheduler: one or two queues. *)
EXTENDS Scheduler

CONSTANTS q1, q2

OneQueue == {q1}
TwoQueues == {q1, q2}
QueueSymmetry == {[q \in Queues |-> q],
                  [q \in Queues |-> IF q = q1 THEN q2 ELSE q1]}
=============================================================================
