------------------------------ MODULE MCGetJob ------------------------------
(***************************************************************************)
(* The store and one reader for TLC: a queue that allows one retry.        *)
(***************************************************************************)
EXTENDS GetJob

CONSTANT q2

\* Every queue allows one retry.
RetryLimits == [q \in Queues |-> 1]
=============================================================================
