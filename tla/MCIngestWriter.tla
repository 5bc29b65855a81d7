----------------------------- MODULE MCIngestWriter -----------------------------
(* Instances of IngestWriter for TLC. *)
EXTENDS IngestWriter
CONSTANTS q1, q2
TwoQueues == {q1, q2}
FirstQueue == {q1}
=============================================================================
