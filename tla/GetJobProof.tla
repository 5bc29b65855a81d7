---------------------------- MODULE GetJobProof ----------------------------
(***************************************************************************)
(* get_job answers with a status the job had during the call, for any      *)
(* number of jobs, claims, crashes and failing calls, when retention is    *)
(* off.  The argument: a read that found no claim has seen the job         *)
(* pending, because of the fence; and an execution that fails after a      *)
(* claim was read fails while the claim is held.                           *)
(***************************************************************************)
EXTENDS GetJob, SqliteStoreProof

\* The answer the call would give now is one it may give.
ReadInv ==
    /\ reader \in [step: {"idle", "execution", "answered"}, job: Nat, dispatch: Nat,
                   status: Statuses \cup {NotFound},
                   seen: SUBSET (Statuses \cup {NotFound})]
    /\ reader.step = "execution" =>
        /\ reader.job \in DOMAIN accepted
        /\ reader.dispatch = NULL => "pending" \in reader.seen
        /\ FromAccepted(reader.dispatch, reader.job) \in reader.seen
    /\ reader.step = "answered" => reader.status \in reader.seen

-----------------------------------------------------------------------------
\* Without retention no row is deleted.
LEMMA RowsStay ==
    ~CleanupOn /\ FenceInv /\ Next =>
        /\ DOMAIN accepted \subseteq DOMAIN accepted'
        /\ DOMAIN executions \subseteq DOMAIN executions'
<1> SUFFICES ASSUME ~CleanupOn, FenceInv, Next
             PROVE  /\ DOMAIN accepted \subseteq DOMAIN accepted'
                    /\ DOMAIN executions \subseteq DOMAIN executions'
  BY Zenon
<1>1. /\ ~CleanupAccepted /\ ~CleanupExecutions
  BY Zenon DEF CleanupAccepted, CleanupExecutions, FenceInv, Idle
<1>2. \A j, d : DOMAIN Repended(j, d) = DOMAIN accepted
  BY Zenon DEF Repended
<1>3. DOMAIN accepted \subseteq DOMAIN accepted'
  BY Zenon, <1>1, <1>2 DEF Next, Enqueue, ClaimBatch, DispatchBatch, DispatchBatchFails,
       RependClaimed, Deliver, ReleaseClaim, CompleteSuccess, CompleteFailure, Abandon,
       Repend, LeaseExpires, RecoverStale, RecoverItem, Tick, Crash, Open
<1>4. DOMAIN executions \subseteq DOMAIN executions'
  BY Zenon, <1>1 DEF Next, Enqueue, ClaimBatch, DispatchBatch, DispatchBatchFails,
       RependClaimed, Deliver, ReleaseClaim, CompleteSuccess, CompleteFailure, Abandon,
       Repend, LeaseExpires, RecoverStale, RecoverItem, Tick, Crash, Open
<1>. QED
  BY Zenon, <1>3, <1>4

\* An execution fails in a transaction of the results file, while it runs:
\* the ingest file does not change in that step.
LEMMA FailsWhileHeld ==
    ASSUME ~CleanupOn, FenceInv, Next, NEW j \in DOMAIN executions',
           executions'[j].status = "failed"
    PROVE  /\ j \in DOMAIN executions
           /\ \/ executions[j].status = "failed"
              \/ executions[j].status = "running" /\ accepted' = accepted
<1>1. CASE executions' = executions
  <2>1. j \in DOMAIN executions /\ executions[j].status = "failed"
    BY Zenon, <1>1
  <2>. QED
    BY Zenon, <2>1
<1>2. CASE \E c \in claims : DispatchBatch(c)
  <2>1. PICK c \in claims : DispatchBatch(c)
    BY Zenon, <1>2
  <2>2. UpsertedRow(c, j).status = "running"
    BY Zenon DEF UpsertedRow
  <2>. QED
    BY Zenon, <2>1, <2>2 DEF DispatchBatch
<1>3. CASE \E a \in delivered : CompleteSuccess(a) \/ CompleteFailure(a)
  BY Zenon, <1>3 DEF CompleteSuccess, CompleteFailure, Running
<1>4. CASE \E a \in abandoning : Abandon(a)
  BY Zenon, <1>4 DEF Abandon, Running
<1>5. CASE \E i \in DOMAIN executions : LeaseExpires(i)
  BY Zenon, <1>5 DEF LeaseExpires
<1>6. CASE RecoverStale
  BY Zenon, <1>6 DEF RecoverStale, Stale
<1>7. ~CleanupExecutions
  BY Zenon DEF CleanupExecutions, FenceInv, Idle
<1>. QED
  BY Zenon, <1>1, <1>2, <1>3, <1>4, <1>5, <1>6, <1>7
  DEF Next, Enqueue, ClaimBatch, DispatchBatchFails, RependClaimed, Deliver,
      ReleaseClaim, Repend, RecoverItem, CleanupAccepted, Tick, Crash, Open

-----------------------------------------------------------------------------
\* One step of the store changes what the call would answer only to what a
\* read of both files returns after the step.
LEMMA AnswerStays ==
    ASSUME ~CleanupOn, FenceInv, FenceInv', Next,
           NEW j \in DOMAIN accepted, NEW d \in Nat, NEW seen,
           d = NULL => "pending" \in seen,
           FromAccepted(d, j) \in seen
    PROVE  FromAccepted(d, j)' \in seen \cup {Composed(j)'}
<1>0. TypeOK /\ TypeOK'
  BY Zenon DEF FenceInv
<1>1. j \in DOMAIN accepted' /\ accepted'[j].dispatch \in Nat
  BY Zenon, <1>0, RowsStay DEF TypeOK, AcceptedRow
<1>2. Composed(j)' = FromAccepted(accepted[j].dispatch, j)'
  BY Zenon, <1>1 DEF Composed
<1>3. CASE j \notin DOMAIN executions'
  <2>1. FromAccepted(d, j)' = "pending"
    BY Zenon, <1>3 DEF FromAccepted
  <2>2. FromAccepted(d, j) = "pending"
    BY Zenon, <1>3, RowsStay DEF FromAccepted
  <2>. QED
    BY Zenon, <2>1, <2>2
<1>4. CASE j \in DOMAIN executions' /\ executions'[j].status # "failed"
  BY Zenon, <1>2, <1>4 DEF FromAccepted
<1>5. CASE j \in DOMAIN executions' /\ executions'[j].status = "failed"
  <2>1. CASE d = NULL
    BY Zenon, <1>5, <2>1 DEF FromAccepted
  <2>2. CASE d # NULL
    <3>1. FromAccepted(d, j)' = "failed"
      BY Zenon, <1>5, <2>2 DEF FromAccepted
    <3>2. CASE j \in DOMAIN executions /\ executions[j].status = "failed"
      BY Zenon, <2>2, <3>1, <3>2 DEF FromAccepted
    <3>3. CASE /\ j \in DOMAIN executions /\ executions[j].status = "running"
               /\ accepted' = accepted
      <4>1. accepted[j].dispatch = executions[j].dispatch
        BY Zenon, <3>3 DEF FenceInv, Fenced
      <4>2. accepted[j].dispatch # NULL
        BY Zenon, <1>0, <3>3, <4>1 DEF TypeOK, ExecutionRow, DispatchIds
      <4>3. accepted'[j].dispatch # NULL
        BY Zenon, <3>3, <4>2
      <4>4. FromAccepted(accepted[j].dispatch, j)' = "failed"
        BY Zenon, <1>5, <4>3 DEF FromAccepted, NULL
      <4>. QED
        BY Zenon, <1>2, <3>1, <4>4
    <3>. QED
      BY Zenon, <1>5, <3>2, <3>3, FailsWhileHeld
  <2>. QED
    BY Zenon, <2>1, <2>2
<1>. QED
  BY Zenon, <1>3, <1>4, <1>5

\* A step of the store keeps the invariant of a call that is between its reads.
LEMMA StoreStepKeepsRead ==
    ASSUME ~CleanupOn, FenceInv, FenceInv', ReadInv, StoreStep
    PROVE  ReadInv'
<1>0. TypeOK /\ TypeOK' /\ Next
  BY Zenon DEF FenceInv, StoreStep
<1>1. CASE ~(up' /\ reader.step = "execution")
  BY Zenon, <1>1 DEF StoreStep, ReadInv, NoReader, NULL
<1>2. CASE up' /\ reader.step = "execution"
  <2> SUFFICES ASSUME NEW j, NEW d, NEW seen, j = reader.job,
                      d = reader.dispatch, seen = reader.seen
               PROVE  ReadInv'
    BY Zenon
  <2>1. /\ j \in DOMAIN accepted /\ d \in Nat
        /\ d = NULL => "pending" \in seen
        /\ FromAccepted(d, j) \in seen
    BY Zenon, <1>2 DEF ReadInv
  <2>2. j \in DOMAIN accepted'
    BY Zenon, <1>0, <2>1, RowsStay
  <2>3. FromAccepted(d, j)' \in seen \cup {Composed(j)'}
    BY Zenon, <1>0, <2>1, AnswerStays
  <2>4. Composed(j)' \in Statuses
    BY Zenon, <1>0, <2>2 DEF Composed, FromAccepted, Statuses, TypeOK, ExecutionRow
  <2>5. /\ reader'.step = "execution" /\ reader'.job = j /\ reader'.dispatch = d
        /\ reader'.seen = seen \cup {Composed(j)'}
        /\ reader' \in [step: {"idle", "execution", "answered"}, job: Nat,
                        dispatch: Nat, status: Statuses \cup {NotFound},
                        seen: SUBSET (Statuses \cup {NotFound})]
    BY Zenon, <1>2, <2>4 DEF StoreStep, ReadInv
  <2>. QED
    BY Zenon, <2>1, <2>2, <2>3, <2>5 DEF ReadInv
<1>. QED
  BY Zenon, <1>1, <1>2

\* The fence is untouched by a read.
LEMMA FenceRead ==
    ~CleanupOn /\ FenceInv /\ [ReadNext]_<<vars, reader>> => FenceInv'
<1> SUFFICES ASSUME ~CleanupOn, FenceInv, [ReadNext]_<<vars, reader>>
             PROVE  FenceInv'
  BY Zenon
<1>1. CASE [Next]_vars
  BY Zenon, <1>1, FenceNext
<1>2. CASE ReadExecution /\ Fault
             /\ UNCHANGED <<accepted, executions, nextDispatch, futures, delivered, env>>
  <2>1. TypeOK'
    BY <1>2 DEF FenceInv, TypeOK, Fault, futures, env
  <2>. QED
    BY Zenon, <1>2, <2>1, FenceUnchanged DEF env
<1>. QED
  BY Zenon, <1>1, <1>2 DEF ReadNext, ReadAccepted, ReadExecution, StoreStep

LEMMA ReadStep ==
    ~CleanupOn /\ FenceInv /\ FenceInv' /\ ReadInv /\ [ReadNext]_<<vars, reader>>
        => ReadInv'
<1> SUFFICES ASSUME ~CleanupOn, FenceInv, FenceInv', ReadInv,
                    [ReadNext]_<<vars, reader>>
             PROVE  ReadInv'
  BY Zenon
<1>0. TypeOK
  BY Zenon DEF FenceInv
<1>1. CASE \E j \in Asked : ReadAccepted(j)
  <2>1. PICK j \in Asked : ReadAccepted(j)
    BY Zenon, <1>1
  <2>2. /\ j \in DOMAIN accepted /\ accepted' = accepted /\ executions' = executions
        /\ reader' = [step |-> "execution", job |-> j,
                      dispatch |-> accepted[j].dispatch, status |-> NotFound,
                      seen |-> {Composed(j)}]
    BY Zenon, <2>1 DEF ReadAccepted, vars
  <2>3. accepted[j].dispatch \in Nat /\ j \in Nat
    BY <1>0, <2>2 DEF TypeOK, AcceptedRow, JobIds
  <2>4. Composed(j) = FromAccepted(accepted[j].dispatch, j)
    BY Zenon, <2>2 DEF Composed
  <2>5. Composed(j) \in Statuses
    BY Zenon, <1>0, <2>4 DEF FromAccepted, Statuses, TypeOK, ExecutionRow
  <2>6. accepted[j].dispatch = NULL => Composed(j) = "pending"
    BY Zenon, <1>0, <2>2, <2>4
    DEF FromAccepted, FenceInv, Fenced, TypeOK, ExecutionRow, DispatchIds
  <2>7. FromAccepted(reader.dispatch, reader.job)' = Composed(j)
    BY Zenon, <2>2, <2>4 DEF FromAccepted
  <2>. QED
    BY Zenon, <2>2, <2>3, <2>5, <2>6, <2>7 DEF ReadInv
<1>2. CASE ReadExecution
  <2>1. FromAccepted(reader.dispatch, reader.job) \in Statuses
    BY Zenon, <1>0 DEF FromAccepted, Statuses, TypeOK, ExecutionRow
  <2>2. CASE reader' = NoReader
    BY Zenon, <2>2 DEF ReadInv, NoReader, NULL
  <2>3. CASE reader' = Answered(FromAccepted(reader.dispatch, reader.job))
    BY Zenon, <1>2, <2>1, <2>3 DEF ReadExecution, ReadInv, Answered, NoReader, NULL
  <2>. QED
    BY Zenon, <1>2, <2>2, <2>3 DEF ReadExecution
<1>3. CASE StoreStep
  BY Zenon, <1>3, StoreStepKeepsRead
<1>4. CASE UNCHANGED <<vars, reader>>
  BY Zenon, <1>4 DEF ReadInv, vars, FromAccepted
<1>. QED
  BY Zenon, <1>1, <1>2, <1>3, <1>4 DEF ReadNext

\* Without retention get_job answers with a status that the job had at some
\* moment between its two reads, whatever the store does meanwhile.
THEOREM ReadsAreLinearizable ==
    ~CleanupOn => (ReadSpec => []GetJobIsLinearizable)
<1> SUFFICES ASSUME ~CleanupOn PROVE ReadSpec => []GetJobIsLinearizable
  BY Zenon
<1>1. ReadInit => FenceInv /\ ReadInv
  BY FenceInit DEF ReadInit, ReadInv, NoReader, NULL
<1>2. FenceInv /\ ReadInv /\ [ReadNext]_<<vars, reader>> => (FenceInv /\ ReadInv)'
  BY Zenon, FenceRead, ReadStep
<1>3. ReadInv => GetJobIsLinearizable
  BY Zenon DEF ReadInv, GetJobIsLinearizable
<1>. QED
  BY <1>1, <1>2, <1>3, PTL DEF ReadSpec
=============================================================================
