------------------------------- MODULE GetJob -------------------------------
(***************************************************************************)
(* GET /jobs/{id} beside a running store: SqliteStore::composed_job reads  *)
(* the accepted row through one read-only connection and, after an await,  *)
(* the execution row through another, and Job::from_accepted makes one     *)
(* status of the two.  No transaction spans the two files, so every action *)
(* of the store may happen between the two reads.                          *)
(*                                                                         *)
(* `reader` is one such call: reads change nothing, so calls cannot        *)
(* disturb each other.  Its field `seen` is a history: the statuses that   *)
(* one instantaneous read of both files would have returned since the      *)
(* first of the two reads.                                                 *)
(***************************************************************************)
EXTENDS SqliteStore

CONSTANT Asked    \* ids of the jobs that get_job is called for

VARIABLE reader

Statuses == {"pending", "running", "completed", "failed"}
NotFound == "not found"

NoReader == [step |-> "idle", job |-> NULL, dispatch |-> NULL,
             status |-> NotFound, seen |-> {}]

ReadInit == Init /\ reader = NoReader

\* Job::from_accepted, of the dispatch_id that was read with the accepted row
\* and of the execution row as it is now.
FromAccepted(dispatch, j) ==
    IF \/ j \notin DOMAIN executions
       \/ executions[j].status = "failed" /\ dispatch = NULL
    THEN "pending" ELSE executions[j].status

\* What a read of both files at this moment returns.
Composed(j) ==
    IF j \in DOMAIN accepted THEN FromAccepted(accepted[j].dispatch, j)
                             ELSE NotFound

\* ingest.accepted_row: a missing row ends the call with NotFound.
ReadAccepted(j) ==
    /\ up /\ reader.step # "execution"
    /\ j \in DOMAIN accepted
    /\ reader' = [step |-> "execution", job |-> j,
                  dispatch |-> accepted[j].dispatch, status |-> NotFound,
                  seen |-> {Composed(j)}]
    /\ UNCHANGED vars

\* The call has ended: its answer is left, and the history to judge it by.
Answered(status) ==
    [NoReader EXCEPT !.step = "answered", !.status = status, !.seen = reader.seen]

\* Mutant of ReadExecution: an error of the read counts as no execution.
ReadExecutionOrNone ==
    /\ reader.step = "execution"
    /\ \/ /\ reader' = Answered(FromAccepted(reader.dispatch, reader.job))
          /\ UNCHANGED vars
       \/ /\ Fault
          /\ reader' = Answered("pending")
          /\ UNCHANGED <<accepted, executions, nextDispatch, futures, delivered, env>>

\* results.execution and merge_job.  An error is answered as such.
ReadExecution ==
    /\ reader.step = "execution"
    /\ \/ /\ reader' = Answered(FromAccepted(reader.dispatch, reader.job))
          /\ UNCHANGED vars
       \/ /\ Fault
          /\ reader' = NoReader
          /\ UNCHANGED <<accepted, executions, nextDispatch, futures, delivered, env>>

\* A step of the store during the call; a crash loses the call.
StoreStep ==
    /\ Next
    /\ reader' = IF up' /\ reader.step = "execution"
                 THEN [reader EXCEPT !.seen = @ \cup {Composed(j)' : j \in {reader.job}}]
                 ELSE NoReader

ReadNext == (\E j \in Asked : ReadAccepted(j)) \/ ReadExecution \/ StoreStep

ReadSpec == ReadInit /\ [][ReadNext]_<<vars, reader>>

\* The fairness is the store's: clients need not read.
FairReadSpec == ReadSpec /\ Fairness

-----------------------------------------------------------------------------
\* The answer of get_job is a status the job really had at some moment of the
\* call, although its two reads are of different moments: a client never sees
\* a mixture of an old claim and a new attempt (until retention deletes).
GetJobIsLinearizable ==
    /\ reader.step = "answered"
    /\ CleanupOn => now <= Retention
    => reader.status \in reader.seen
=============================================================================
