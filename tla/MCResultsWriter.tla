---------------------------- MODULE MCResultsWriter ----------------------------
(* Instances of ResultsWriter for TLC. *)
EXTENDS ResultsWriter
=============================================================================
