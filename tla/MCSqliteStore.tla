---------------------------- MODULE MCSqliteStore ----------------------------
(***************************************************************************)
(* The store for TLC: one or two queues whose retry limits differ.         *)
(***************************************************************************)
EXTENDS SqliteStore

CONSTANTS q1, q2

\* q1 allows no retry, q2 allows one.
RetryLimits == [q \in Queues |-> IF q = q1 THEN 0 ELSE 1]
=============================================================================
