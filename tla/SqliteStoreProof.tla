-------------------------- MODULE SqliteStoreProof --------------------------
(***************************************************************************)
(* Theorems about SqliteStore, for any number of jobs, queues, claims,     *)
(* crashes and failing calls.                                              *)
(***************************************************************************)
EXTENDS SqliteStore, FiniteSetTheorems, TLAPS

-----------------------------------------------------------------------------
(***************************************************************************)
(* The fence.  Only ClaimBatch makes a dispatch id and only DispatchBatch  *)
(* writes one to the results file, so the dispatch ids of an execution     *)
(* only grow, and everything that remembers an older id is powerless.      *)
(***************************************************************************)
\* The attempts that some task still knows of.
Attempts == delivering \cup delivered \cup abandoning \cup repending

\* No cut-off is pending, and a stopped process has no call in flight.
Idle ==
    /\ cleaning = NULL
    /\ ~up => claims = {}

\* An execution that has not failed holds the claim of its job.
Fenced ==
    \A j \in DOMAIN executions :
        /\ j \in DOMAIN accepted
        /\ executions[j].dispatch < nextDispatch
        /\ executions[j].status # "failed" =>
             accepted[j].dispatch = executions[j].dispatch

\* A claim in flight holds its jobs, and has not been dispatched.
ClaimsHold ==
    /\ \A c \in claims :
        /\ c.dispatch < nextDispatch
        /\ \A j \in c.jobs :
            /\ j \in DOMAIN accepted
            /\ accepted[j].dispatch = c.dispatch
            /\ j \in DOMAIN executions =>
                 /\ executions[j].status = "failed"
                 /\ executions[j].dispatch < c.dispatch
    /\ \A c, d \in claims : c.dispatch = d.dispatch => c = d

\* Every attempt anyone remembers is in the results file, or a later one is.
AttemptsDispatched ==
    /\ \A a \in Attempts :
        /\ a.job \in DOMAIN executions
        /\ a.dispatch <= executions[a.job].dispatch
    /\ \A i \in recovering :
        /\ i.job \in DOMAIN executions
        /\ i.dispatch <= executions[i.job].dispatch

\* An attempt is being delivered, or abandoned, or delivered, and only once.
DeliveryOnce ==
    \A a \in delivering \cup abandoning :
        /\ a \in delivering => a \notin abandoning
        /\ \A b \in delivering \cup abandoning :
             a.job = b.job /\ a.dispatch = b.dispatch => a = b
        /\ \A b \in delivered : a.job = b.job => a.dispatch # b.dispatch

\* What is about to be made pending again has failed.
RependsFailed ==
    /\ \A a \in repending :
        executions[a.job].dispatch = a.dispatch => executions[a.job].status = "failed"
    /\ \A i \in recovering :
        executions[i.job].dispatch = i.dispatch => executions[i.job].status = "failed"

FenceInv ==
    /\ TypeOK
    /\ Idle
    /\ Fenced
    /\ ClaimsHold
    /\ AttemptsDispatched
    /\ DeliveryOnce
    /\ RependsFailed
    /\ CompletedWasDelivered

-----------------------------------------------------------------------------
(***************************************************************************)
(* What the helpers of the module write                                    *)
(***************************************************************************)
LEMMA EndedFields ==
    ASSUME now \in Nat, NEW row \in ExecutionRow, NEW st \in {"completed", "failed"}
    PROVE  /\ Ended(row, st) \in ExecutionRow
           /\ Ended(row, st).status = st
           /\ Ended(row, st).queue = row.queue
           /\ Ended(row, st).count = row.count
           /\ Ended(row, st).dispatch = row.dispatch
  BY Zenon DEF Ended, ExecutionRow

LEMMA UpsertedFields ==
    ASSUME TypeOK, NEW c \in Claim, NEW j \in JobIds
    PROVE  /\ UpsertedRow(c, j) \in ExecutionRow
           /\ UpsertedRow(c, j).status = "running"
           /\ UpsertedRow(c, j).dispatch = c.dispatch
           /\ UpsertedRow(c, j).queue =
                IF j \in DOMAIN executions THEN executions[j].queue ELSE c.queue
           /\ UpsertedRow(c, j).count =
                IF j \in DOMAIN executions THEN executions[j].count + 1 ELSE 1
<1>1. /\ now \in Nat /\ c.dispatch \in DispatchIds /\ c.queue \in Queues
      /\ j \in DOMAIN executions =>
           executions[j].queue \in Queues /\ executions[j].count \in Nat \ {0}
  BY Zenon DEF TypeOK, Claim, ExecutionRow
<1>. QED
  BY <1>1 DEF UpsertedRow, ExecutionRow

LEMMA RependedFields ==
    ASSUME TypeOK, NEW j, NEW d
    PROVE  /\ DOMAIN Repended(j, d) = DOMAIN accepted
           /\ Repended(j, d) \in [DOMAIN accepted -> AcceptedRow]
           /\ \A i \in DOMAIN accepted :
                /\ Repended(j, d)[i].queue = accepted[i].queue
                /\ Repended(j, d)[i].dispatch =
                     IF i = j /\ accepted[i].dispatch = d THEN NULL
                                                          ELSE accepted[i].dispatch
  BY Zenon DEF TypeOK, Repended, Claimed, AcceptedRow, NULL

-----------------------------------------------------------------------------
(***************************************************************************)
(* Type correctness                                                        *)
(***************************************************************************)
LEMMA TypeInit == Init => TypeOK
  BY DEF Init, TypeOK, DispatchIds, NULL

LEMMA TypeNext == TypeOK /\ [Next]_vars => TypeOK'
<1> SUFFICES ASSUME TypeOK, [Next]_vars PROVE TypeOK'
  BY Zenon
<1> USE StoreAssumption
<1> USE DEF TypeOK, futures, env
<1>1. CASE \E q \in Queues : Enqueue(q)
  BY <1>1 DEF Enqueue, AcceptedRow, NULL
<1>2. CASE \E q \in Queues, n \in ClaimLimits : ClaimBatch(q, n)
  BY <1>2 DEF ClaimBatch, AcceptedRow, Claim, DispatchIds, Pending, NULL
<1>3. CASE \E c \in claims : DispatchBatch(c)
  <2> PICK c \in claims : DispatchBatch(c)
    BY Zenon, <1>3
  <2>1. \A j \in c.jobs : j \in JobIds /\ UpsertedRow(c, j) \in ExecutionRow
    BY Zenon, UpsertedFields DEF Claim
  <2>2. /\ DOMAIN executions' \subseteq JobIds
        /\ executions' \in [DOMAIN executions' -> ExecutionRow]
    BY Zenon, <2>1 DEF DispatchBatch, Upsertable
  <2>3. claims' \subseteq Claim
    BY DEF DispatchBatch, Claim
  <2>4. delivering' \subseteq Attempt
    BY <2>1 DEF DispatchBatch, Claim, Attempt, ExecutionRow
  <2>. QED
    BY Zenon, <2>2, <2>3, <2>4 DEF DispatchBatch
<1>4. CASE \E c \in claims : DispatchBatchFails(c)
  BY <1>4 DEF DispatchBatchFails, Claim, Fault
<1>5. CASE \E c \in claims : \E j \in c.jobs : RependClaimed(c, j)
  BY <1>5, RependedFields DEF RependClaimed, Without, Claim, Fault
<1>6. CASE \E a \in delivering : Deliver(a) \/ ReleaseClaim(a)
  BY <1>6 DEF Deliver, ReleaseClaim, Fault
<1>7. CASE \E a \in delivered : CompleteSuccess(a) \/ CompleteFailure(a)
  <2>1. executions' \in [DOMAIN executions -> ExecutionRow]
    BY <1>7, EndedFields DEF CompleteSuccess, CompleteFailure, Running
  <2>2. repending' \subseteq Attempt
    BY <1>7 DEF CompleteSuccess, CompleteFailure
  <2>. QED
    BY Zenon, <1>7, <2>1, <2>2 DEF CompleteSuccess, CompleteFailure
<1>8. CASE \E a \in abandoning : Abandon(a)
  <2>1. executions' \in [DOMAIN executions -> ExecutionRow]
    BY <1>8, EndedFields DEF Abandon, Running
  <2>. QED
    BY <1>8, <2>1 DEF Abandon, Fault
<1>9. CASE \E a \in repending : Repend(a)
  BY <1>9, RependedFields DEF Repend, Fault
<1>10. CASE \E j \in DOMAIN executions : LeaseExpires(j)
  BY SMTT(30), <1>10 DEF LeaseExpires, ExecutionRow
<1>11. CASE RecoverStale
  <2>1. \A j \in DOMAIN executions : Ended(executions[j], "failed") \in ExecutionRow
    BY Zenon, EndedFields
  <2>2. executions' \in [DOMAIN executions -> ExecutionRow]
    BY Zenon, <1>11, <2>1 DEF RecoverStale
  <2>3. recovering' \subseteq Recovered
    <3>1. \A j \in Stale : Retryable(executions[j]) \in BOOLEAN
      BY DEF Retryable
    <3>2. \A j \in Stale : j \in JobIds /\ executions[j].dispatch \in DispatchIds
      BY Zenon DEF Stale, ExecutionRow
    <3>. QED
      BY <1>11, <3>1, <3>2 DEF RecoverStale, Recovered
  <2>. QED
    BY Zenon, <1>11, <2>2, <2>3 DEF RecoverStale
<1>12. CASE \E i \in recovering : RecoverItem(i)
  BY <1>12, RependedFields DEF RecoverItem, Fault
<1>13. CASE CleanupAccepted \/ CleanupExecutions \/ Tick
  BY <1>13 DEF CleanupAccepted, CleanupExecutions, Tick, Fault, NULL
<1>14. CASE Crash
  <2>1. up' \in BOOLEAN
    BY <1>14, Zenon DEF Crash
  <2>. QED
    BY <1>14, <2>1 DEF Crash, NULL
<1>15. CASE Open
  BY Zenon, <1>15 DEF Open, AcceptedRow, NULL
<1>16. CASE UNCHANGED vars
  BY Zenon, <1>16 DEF vars
<1>. QED
  BY Zenon, <1>1, <1>2, <1>3, <1>4, <1>5, <1>6, <1>7, <1>8, <1>9, <1>10, <1>11,
     <1>12, <1>13, <1>14, <1>15, <1>16 DEF Next

\* Both tables and every set of suspended calls keep their shape, with or
\* without retention: in particular the results file never holds a pending row.
THEOREM TypeCorrect == Spec => []TypeOK
  BY TypeInit, TypeNext, PTL DEF Spec

-----------------------------------------------------------------------------
(***************************************************************************)
(* Completed executions                                                    *)
(***************************************************************************)
\* No step changes a completed execution, with or without retention: every
\* UPDATE of the results file asks for a running row, and the upsert of
\* dispatch_batch for a failed one.
THEOREM CompletedStays == Spec => CompletedIsFinal
<1> DEFINE Final == \A j \in DOMAIN executions :
                      /\ executions[j].status = "completed"
                      /\ j \in DOMAIN executions'
                      => executions'[j] = executions[j]
<1>1. TypeOK /\ [Next]_vars => [Final]_vars
  <2> SUFFICES ASSUME TypeOK, Next PROVE Final
    BY Zenon
  <2>1. CASE UNCHANGED executions
    BY Zenon, <2>1
  <2>2. CASE \E c \in claims : DispatchBatch(c)
    BY Zenon, <2>2 DEF DispatchBatch, Upsertable
  <2>3. CASE \E a \in delivered : CompleteSuccess(a) \/ CompleteFailure(a)
    BY Zenon, <2>3 DEF CompleteSuccess, CompleteFailure, Running, TypeOK
  <2>4. CASE \E a \in abandoning : Abandon(a)
    BY Zenon, <2>4 DEF Abandon, Running, TypeOK
  <2>5. CASE \E j \in DOMAIN executions : LeaseExpires(j)
    BY Zenon, <2>5 DEF LeaseExpires, TypeOK
  <2>6. CASE RecoverStale
    BY Zenon, <2>6 DEF RecoverStale, Stale
  <2>7. CASE CleanupExecutions
    BY Zenon, <2>7 DEF CleanupExecutions
  <2>. QED
    BY Zenon, <2>1, <2>2, <2>3, <2>4, <2>5, <2>6, <2>7
    DEF Next, Enqueue, ClaimBatch, DispatchBatchFails, RependClaimed, Deliver,
        ReleaseClaim, Repend, RecoverItem, CleanupAccepted, Tick, Crash, Open
<1>. QED
  BY <1>1, TypeCorrect, PTL DEF Spec, CompletedIsFinal

-----------------------------------------------------------------------------
(***************************************************************************)
(* The fence is inductive when retention is off                            *)
(***************************************************************************)
LEMMA FenceInit == Init => FenceInv
  BY Zenon, TypeInit DEF Init, FenceInv, Idle, Fenced, ClaimsHold, Attempts,
       AttemptsDispatched, DeliveryOnce, RependsFailed, CompletedWasDelivered

\* Making job j pending under dispatch id d is harmless once its execution is
\* not a live attempt of d and no claim in flight holds it under d.
LEMMA RependKeepsFence ==
    ASSUME FenceInv, NEW j, NEW d, d # NULL,
           j \in DOMAIN executions /\ executions[j].dispatch = d =>
                executions[j].status = "failed",
           \A c \in claims' : j \in c.jobs => c.dispatch # d,
           \A c \in claims' : \E b \in claims : b.dispatch = c.dispatch
                                             /\ c.jobs \subseteq b.jobs,
           \A c, b \in claims' : c.dispatch = b.dispatch => c = b,
           accepted' = Repended(j, d) \/ accepted' = accepted,
           UNCHANGED <<executions, nextDispatch>>
    PROVE  Fenced' /\ ClaimsHold'
<1>1. /\ DOMAIN accepted' = DOMAIN accepted
      /\ \A i \in DOMAIN accepted :
           \/ accepted'[i].dispatch = accepted[i].dispatch
           \/ i = j /\ accepted[i].dispatch = d
  BY RependedFields DEF FenceInv
<1>2. Fenced'
  BY Zenon, <1>1 DEF FenceInv, Fenced
<1>3. ClaimsHold'
  BY <1>1 DEF FenceInv, ClaimsHold
<1>. QED
  BY Zenon, <1>2, <1>3

LEMMA FenceUnchanged ==
    ASSUME FenceInv, TypeOK',
           UNCHANGED <<accepted, executions, nextDispatch, futures, delivered, up>>
    PROVE  FenceInv'
<1>1. UNCHANGED <<accepted, executions, nextDispatch, claims, cleaning, up>>
  BY Zenon DEF futures
<1>2. UNCHANGED <<executions, delivering, delivered, abandoning, repending, recovering>>
  BY Zenon DEF futures
<1>3. Fenced'
  BY Zenon, <1>1 DEF FenceInv, Fenced
<1>4. ClaimsHold'
  BY <1>1 DEF FenceInv, ClaimsHold
<1>5. Idle'
  BY <1>1 DEF FenceInv, Idle
<1>6. AttemptsDispatched'
  BY Zenon, <1>2 DEF FenceInv, AttemptsDispatched, Attempts
<1>7. DeliveryOnce'
  BY Zenon, <1>2 DEF FenceInv, DeliveryOnce
<1>8. RependsFailed' /\ CompletedWasDelivered'
  BY <1>2 DEF FenceInv, RependsFailed, CompletedWasDelivered
<1>. QED
  BY Zenon, <1>3, <1>4, <1>5, <1>6, <1>7, <1>8 DEF FenceInv

LEMMA FenceNext == ~CleanupOn /\ FenceInv /\ [Next]_vars => FenceInv'
<1> SUFFICES ASSUME ~CleanupOn, FenceInv, [Next]_vars PROVE FenceInv'
  BY Zenon
<1>0. TypeOK /\ TypeOK'
  BY Zenon, TypeNext DEF FenceInv
<1> USE StoreAssumption
<1> USE DEF futures, env, Attempts
<1>1. CASE \E q \in Queues : Enqueue(q)
  <2>1. /\ DOMAIN accepted \subseteq DOMAIN accepted'
        /\ \A i \in DOMAIN accepted : accepted'[i] = accepted[i]
    BY <1>0, <1>1 DEF Enqueue, NextRowid, TypeOK, JobIds
  <2>2. Fenced'
    BY Zenon, <1>1, <2>1 DEF FenceInv, Fenced, Enqueue
  <2>3. ClaimsHold'
    BY <1>1, <2>1 DEF FenceInv, ClaimsHold, Enqueue
  <2>. QED
    BY <1>0, <1>1, <2>2, <2>3 DEF FenceInv, Enqueue, Idle, AttemptsDispatched,
         DeliveryOnce, RependsFailed, CompletedWasDelivered
<1>2. CASE \E q \in Queues, n \in ClaimLimits : ClaimBatch(q, n)
  <2>1. PICK q \in Queues, n \in ClaimLimits : ClaimBatch(q, n)
    BY Zenon, <1>2
  <2>2. PICK batch \in SUBSET Pending(q) :
          /\ accepted' = [j \in DOMAIN accepted |->
                            IF j \in batch
                            THEN [accepted[j] EXCEPT !.dispatch = nextDispatch]
                            ELSE accepted[j]]
          /\ claims' = claims \cup
               {[queue |-> q, jobs |-> batch, dispatch |-> nextDispatch,
                 step |-> "dispatch"]}
    BY Zenon, <2>1 DEF ClaimBatch
  <2>3. /\ DOMAIN accepted' = DOMAIN accepted
        /\ \A j \in DOMAIN accepted \ batch : accepted'[j] = accepted[j]
        /\ \A j \in batch : accepted[j].dispatch = NULL
                         /\ accepted'[j].dispatch = nextDispatch
    BY Zenon, <1>0, <2>2 DEF Pending, TypeOK, AcceptedRow
  <2>4. /\ nextDispatch \in Nat /\ nextDispatch' = nextDispatch + 1
        /\ UNCHANGED executions
        /\ \A j \in DOMAIN executions : executions[j].dispatch \in Nat \ {NULL}
        /\ \A c \in claims : c.dispatch \in Nat \ {NULL}
        /\ batch \subseteq DOMAIN accepted
    BY Zenon, <1>0, <2>1, <2>2 DEF ClaimBatch, TypeOK, DispatchIds, ExecutionRow, Claim, Pending
  <2>5. Fenced'
    BY <2>3, <2>4 DEF FenceInv, Fenced
  <2>6. ClaimsHold'
    <3> DEFINE w == [queue |-> q, jobs |-> batch, dispatch |-> nextDispatch,
                     step |-> "dispatch"]
    <3>1. w.jobs = batch /\ w.dispatch = nextDispatch
      BY Zenon
    <3>2. claims' = claims \cup {w}
      BY Zenon, <2>2
    <3> HIDE DEF w
    <3>3. ASSUME NEW c \in claims
          PROVE  /\ c.dispatch < nextDispatch
                 /\ c.jobs \cap batch = {}
                 /\ \A j \in c.jobs :
                      /\ j \in DOMAIN accepted
                      /\ accepted[j].dispatch = c.dispatch
                      /\ j \in DOMAIN executions =>
                           /\ executions[j].status = "failed"
                           /\ executions[j].dispatch < c.dispatch
      BY <2>3, <2>4 DEF FenceInv, ClaimsHold
    <3>4. ASSUME NEW c \in claims, NEW j \in c.jobs
          PROVE  j \in DOMAIN accepted' /\ accepted'[j].dispatch = c.dispatch
      BY Zenon, <2>3, <3>3
    <3>5. ASSUME NEW j \in batch, j \in DOMAIN executions
          PROVE  executions[j].status = "failed" /\ executions[j].dispatch < nextDispatch
      BY Zenon, <2>3, <2>4, <3>5 DEF FenceInv, Fenced
    <3>6. ASSUME NEW c \in claims'
          PROVE  /\ c.dispatch < nextDispatch'
                 /\ \A j \in c.jobs :
                      /\ j \in DOMAIN accepted'
                      /\ accepted'[j].dispatch = c.dispatch
                      /\ j \in DOMAIN executions' =>
                           /\ executions'[j].status = "failed"
                           /\ executions'[j].dispatch < c.dispatch
      <4>1. CASE c \in claims
        BY <2>4, <3>3, <3>4, <4>1
      <4>2. CASE c = w
        BY <2>3, <2>4, <3>1, <3>5, <4>2
      <4>. QED
        BY Zenon, <3>2, <4>1, <4>2
    <3>7. \A c, d \in claims' : c.dispatch = d.dispatch => c = d
      <4>1. \A c, d \in claims : c.dispatch = d.dispatch => c = d
        BY Zenon DEF FenceInv, ClaimsHold
      <4>2. \A c \in claims : c.dispatch # w.dispatch
        BY <2>4, <3>1, <3>3
      <4>. QED
        BY Zenon, <3>2, <4>1, <4>2
    <3>. QED
      BY Zenon, <3>6, <3>7 DEF ClaimsHold
  <2>. QED
    BY Zenon, <1>0, <2>1, <2>5, <2>6 DEF FenceInv, ClaimBatch, Idle, AttemptsDispatched,
         DeliveryOnce, RependsFailed, CompletedWasDelivered
<1>3. CASE \E c \in claims : DispatchBatch(c)
  <2>1. PICK c \in claims : DispatchBatch(c)
    BY Zenon, <1>3
  <2>2. /\ c \in Claim /\ c.jobs \subseteq JobIds /\ c.dispatch \in Nat
        /\ \A j \in c.jobs : j \in DOMAIN accepted
        /\ Upsertable(c) = c.jobs
    BY <1>0 DEF TypeOK, Claim, DispatchIds, FenceInv, ClaimsHold, Upsertable
  <2>3. /\ claims' = claims \ {c}
        /\ DOMAIN executions' = DOMAIN executions \cup c.jobs
        /\ \A j \in c.jobs : /\ executions'[j].status = "running"
                             /\ executions'[j].dispatch = c.dispatch
        /\ \A j \in DOMAIN executions \ c.jobs : executions'[j] = executions[j]
        /\ \A a \in delivering' : a \in delivering \/ (a.job \in c.jobs /\ a.dispatch = c.dispatch)
        /\ \A a, b \in delivering' \ delivering : a.job = b.job => a = b
    BY <1>0, <2>1, <2>2, UpsertedFields DEF DispatchBatch
  <2>4. /\ \A j \in DOMAIN executions : executions[j].dispatch \in Nat
        /\ \A a \in Attempts : a.dispatch \in Nat
        /\ \A i \in recovering : i.dispatch \in Nat
    BY Zenon, <1>0 DEF TypeOK, ExecutionRow, Attempt, Recovered, DispatchIds
  <2>5. \A j \in c.jobs \cap DOMAIN executions : executions[j].dispatch < c.dispatch
    BY Zenon DEF FenceInv, ClaimsHold
  <2>6. UNCHANGED <<accepted, nextDispatch, delivered, abandoning, repending,
                    recovering, cleaning, up>>
    BY Zenon, <2>1 DEF DispatchBatch
  <2>7. Fenced'
    BY <2>2, <2>3, <2>6 DEF FenceInv, Fenced, ClaimsHold
  <2>8. ClaimsHold'
    BY <2>2, <2>3, <2>6 DEF FenceInv, ClaimsHold
  <2>9. AttemptsDispatched'
    BY <2>2, <2>3, <2>4, <2>5, <2>6 DEF FenceInv, AttemptsDispatched
  <2>10. DeliveryOnce'
    BY SMTT(30), <2>2, <2>3, <2>4, <2>5, <2>6 DEF FenceInv, AttemptsDispatched, DeliveryOnce
  <2>11. RependsFailed'
    BY <2>2, <2>3, <2>4, <2>5, <2>6 DEF FenceInv, AttemptsDispatched, RependsFailed
  <2>12. CompletedWasDelivered'
    BY <2>3, <2>6 DEF FenceInv, CompletedWasDelivered
  <2>13. Idle'
    BY Zenon, <2>3, <2>6 DEF FenceInv, Idle
  <2>. QED
    BY Zenon, <1>0, <2>7, <2>8, <2>9, <2>10, <2>11, <2>12, <2>13 DEF FenceInv
<1>4. CASE \E c \in claims : DispatchBatchFails(c)
  <2>1. PICK c \in claims : DispatchBatchFails(c)
    BY Zenon, <1>4
  <2> DEFINE w == [c EXCEPT !.step = "repend"]
  <2>2. /\ claims' = (claims \ {c}) \cup {w}
        /\ w.jobs = c.jobs /\ w.dispatch = c.dispatch
    BY Zenon, <1>0, <2>1 DEF TypeOK, Claim, DispatchBatchFails
  <2> HIDE DEF w
  <2>3. ClaimsHold'
    <3>1. UNCHANGED <<accepted, executions, nextDispatch>>
      BY Zenon, <2>1 DEF DispatchBatchFails
    <3>. QED
      BY <2>2, <3>1 DEF FenceInv, ClaimsHold
  <2>. QED
    BY <1>0, <2>1, <2>3 DEF FenceInv, DispatchBatchFails, Idle, Fenced,
         AttemptsDispatched, DeliveryOnce, RependsFailed, CompletedWasDelivered
<1>5. CASE \E c \in claims : \E j \in c.jobs : RependClaimed(c, j)
  <2>1. PICK c \in claims : \E j \in c.jobs : RependClaimed(c, j)
    BY Zenon, <1>5
  <2>2. PICK j \in c.jobs : RependClaimed(c, j)
    BY Zenon, <2>1
  <2>3. \A w \in Without(c, j) : w.jobs = c.jobs \ {j} /\ w.dispatch = c.dispatch
    BY Zenon, <1>0 DEF TypeOK, Claim, Without
  <2>4. \A v, w \in Without(c, j) : v = w
    BY Zenon DEF Without
  <2>5. c.dispatch # NULL
    BY Zenon, <1>0 DEF TypeOK, Claim, DispatchIds
  <2>6. Fenced' /\ ClaimsHold'
    <3>1. j \in DOMAIN executions /\ executions[j].dispatch = c.dispatch =>
                executions[j].status = "failed"
      BY Zenon DEF FenceInv, ClaimsHold
    <3>2. \A b \in claims' : j \in b.jobs => b.dispatch # c.dispatch
      BY Zenon, <2>2, <2>3 DEF RependClaimed, FenceInv, ClaimsHold
    <3>3. \A b \in claims' : \E e \in claims : e.dispatch = b.dispatch
                                            /\ b.jobs \subseteq e.jobs
      BY Zenon, <2>2, <2>3 DEF RependClaimed
    <3>4. \A b, e \in claims' : b.dispatch = e.dispatch => b = e
      BY <2>2, <2>3, <2>4 DEF RependClaimed, FenceInv, ClaimsHold
    <3>5. /\ accepted' = Repended(j, c.dispatch) \/ accepted' = accepted
          /\ UNCHANGED <<executions, nextDispatch>>
      BY Zenon, <2>2 DEF RependClaimed
    <3>. QED
      BY Zenon, <2>5, <3>1, <3>2, <3>3, <3>4, <3>5, RependKeepsFence
  <2>. QED
    BY Zenon, <1>0, <2>2, <2>6 DEF FenceInv, RependClaimed, Idle,
         AttemptsDispatched, DeliveryOnce, RependsFailed, CompletedWasDelivered
<1>6. CASE \E a \in delivering : Deliver(a) \/ ReleaseClaim(a)
  <2>1. Fenced' /\ ClaimsHold' /\ Idle'
    <3>1. UNCHANGED <<accepted, executions, nextDispatch, claims, cleaning, up>>
      BY Zenon, <1>6 DEF Deliver, ReleaseClaim
    <3>2. Fenced'
      BY Zenon, <3>1 DEF FenceInv, Fenced
    <3>3. ClaimsHold'
      BY Zenon, <3>1 DEF FenceInv, ClaimsHold
    <3>4. Idle'
      BY Zenon, <3>1 DEF FenceInv, Idle
    <3>. QED
      BY Zenon, <3>2, <3>3, <3>4
  <2>2. AttemptsDispatched' /\ RependsFailed'
    BY Zenon, <1>6 DEF FenceInv, AttemptsDispatched, RependsFailed, Deliver, ReleaseClaim
  <2>3. DeliveryOnce'
    BY <1>6 DEF FenceInv, DeliveryOnce, Deliver, ReleaseClaim
  <2>4. CompletedWasDelivered'
    BY Zenon, <1>6 DEF FenceInv, CompletedWasDelivered, Deliver, ReleaseClaim
  <2>. QED
    BY Zenon, <1>0, <2>1, <2>2, <2>3, <2>4 DEF FenceInv
<1>7. CASE \E a \in delivered : CompleteSuccess(a) \/ CompleteFailure(a)
  <2>1. PICK a \in delivered : CompleteSuccess(a) \/ CompleteFailure(a)
    BY Zenon, <1>7
  <2>2. /\ a.job \in DOMAIN executions
        /\ executions[a.job].dispatch = a.dispatch
        /\ executions[a.job].status = "running"
        /\ DOMAIN executions' = DOMAIN executions
        /\ \A j \in DOMAIN executions : executions'[j].dispatch = executions[j].dispatch
        /\ \A j \in DOMAIN executions \ {a.job} : executions'[j] = executions[j]
        /\ executions'[a.job].status \in {"completed", "failed"}
        /\ a \in repending' \/ repending' = repending
        /\ \A r \in repending' : r \in repending \/ r = a
        /\ executions'[a.job].status = "completed" => repending' = repending
    BY <1>0, <2>1, EndedFields DEF TypeOK, CompleteSuccess, CompleteFailure, Running
  <2>3. UNCHANGED <<accepted, nextDispatch, claims, delivering, delivered,
                    abandoning, recovering, cleaning, up>>
    BY Zenon, <2>1 DEF CompleteSuccess, CompleteFailure
  <2>4. Fenced' /\ Idle'
    BY Zenon, <2>2, <2>3 DEF FenceInv, Fenced, Idle
  <2>5. ClaimsHold'
    BY SMTT(30), <2>2, <2>3 DEF FenceInv, ClaimsHold
  <2>6. AttemptsDispatched'
    BY Zenon, <2>2, <2>3 DEF FenceInv, AttemptsDispatched
  <2>7. DeliveryOnce' /\ CompletedWasDelivered'
    BY SMTT(30), <2>2, <2>3 DEF FenceInv, DeliveryOnce, CompletedWasDelivered
  <2>8. RependsFailed'
    BY <2>2, <2>3 DEF FenceInv, RependsFailed, AttemptsDispatched
  <2>. QED
    BY Zenon, <1>0, <2>4, <2>5, <2>6, <2>7, <2>8 DEF FenceInv
<1>8. CASE \E a \in abandoning : Abandon(a)
  <2>1. PICK a \in abandoning : Abandon(a)
    BY Zenon, <1>8
  <2>2. /\ DOMAIN executions' = DOMAIN executions
        /\ \A j \in DOMAIN executions :
             /\ executions'[j].dispatch = executions[j].dispatch
             /\ executions'[j].status # executions[j].status =>
                  executions'[j].status = "failed"
        /\ \A r \in repending' : r \in repending \/ r = a
        /\ a \in repending' /\ executions[a.job].dispatch = a.dispatch =>
             executions'[a.job].status # "running"
    BY <1>0, <2>1, EndedFields DEF TypeOK, Abandon, Running, FenceInv, AttemptsDispatched, RependsFailed
  <2>3. UNCHANGED <<accepted, nextDispatch, claims, delivering, delivered,
                    recovering, cleaning, up>> /\ abandoning' = abandoning \ {a}
    BY Zenon, <2>1 DEF Abandon
  <2>4. Fenced' /\ Idle'
    BY Zenon, <2>2, <2>3 DEF FenceInv, Fenced, Idle
  <2>5. ClaimsHold'
    BY Zenon, <2>2, <2>3 DEF FenceInv, ClaimsHold
  <2>6. AttemptsDispatched'
    BY Zenon, <2>2, <2>3 DEF FenceInv, AttemptsDispatched
  <2>7. DeliveryOnce' /\ CompletedWasDelivered'
    BY <2>2, <2>3 DEF FenceInv, DeliveryOnce, CompletedWasDelivered
  <2>8. executions[a.job].dispatch = a.dispatch => executions[a.job].status # "completed"
    BY DEF FenceInv, DeliveryOnce, CompletedWasDelivered, AttemptsDispatched
  <2>9. executions'[a.job].status \in {"running", "completed", "failed"}
    BY Zenon, <1>0, <2>2 DEF TypeOK, ExecutionRow, FenceInv, AttemptsDispatched
  <2>10. RependsFailed'
    BY Zenon, <2>2, <2>3, <2>8, <2>9 DEF FenceInv, RependsFailed, AttemptsDispatched
  <2>. QED
    BY Zenon, <1>0, <2>4, <2>5, <2>6, <2>7, <2>10 DEF FenceInv
<1>9. CASE \E a \in repending : Repend(a)
  <2>1. PICK a \in repending : Repend(a)
    BY Zenon, <1>9
  <2>2. Fenced' /\ ClaimsHold'
    <3>1. /\ a.job \in DOMAIN executions /\ executions[a.job].dispatch = a.dispatch =>
                executions[a.job].status = "failed"
          /\ a.dispatch # NULL
      BY Zenon, <1>0 DEF FenceInv, RependsFailed, TypeOK, Attempt, DispatchIds
    <3>2. \A c \in claims : a.job \in c.jobs => c.dispatch # a.dispatch
      <4>1. /\ a.dispatch \in Nat /\ a.job \in DOMAIN executions
            /\ executions[a.job].dispatch \in Nat
            /\ a.dispatch <= executions[a.job].dispatch
        BY Zenon, <1>0 DEF TypeOK, Attempt, ExecutionRow, DispatchIds, FenceInv, AttemptsDispatched
      <4>2. \A c \in claims : a.job \in c.jobs => executions[a.job].dispatch < c.dispatch
        BY Zenon, <4>1 DEF FenceInv, ClaimsHold
      <4>3. \A c \in claims : c.dispatch \in Nat
        BY Zenon, <1>0 DEF TypeOK, Claim, DispatchIds
      <4>. QED
        BY SMTT(30), <4>1, <4>2, <4>3
    <3>3. /\ accepted' = Repended(a.job, a.dispatch) \/ accepted' = accepted
          /\ UNCHANGED <<executions, nextDispatch, claims>>
      BY Zenon, <2>1 DEF Repend
    <3>4. \A c, d \in claims : c.dispatch = d.dispatch => c = d
      BY Zenon DEF FenceInv, ClaimsHold
    <3>. QED
      BY SMTT(30), <3>1, <3>2, <3>3, <3>4, RependKeepsFence
  <2>. QED
    BY Zenon, <1>0, <2>1, <2>2 DEF FenceInv, Repend, Idle,
         AttemptsDispatched, DeliveryOnce, RependsFailed, CompletedWasDelivered
<1>10. CASE \E j \in DOMAIN executions : LeaseExpires(j)
  <2>1. /\ DOMAIN executions' = DOMAIN executions
        /\ \A j \in DOMAIN executions :
             /\ executions'[j].status = executions[j].status
             /\ executions'[j].dispatch = executions[j].dispatch
    BY <1>0, <1>10 DEF TypeOK, ExecutionRow, LeaseExpires
  <2>2. UNCHANGED <<accepted, nextDispatch, futures, delivered, up>>
    BY Zenon, <1>10 DEF LeaseExpires
  <2>3. Fenced' /\ Idle' /\ DeliveryOnce' /\ CompletedWasDelivered'
    BY <2>1, <2>2 DEF FenceInv, Fenced, Idle, DeliveryOnce, CompletedWasDelivered
  <2>4. ClaimsHold'
    BY Zenon, <2>1, <2>2 DEF FenceInv, ClaimsHold
  <2>5. AttemptsDispatched' /\ RependsFailed'
    BY Zenon, <2>1, <2>2 DEF FenceInv, AttemptsDispatched, RependsFailed
  <2>. QED
    BY Zenon, <1>0, <2>3, <2>4, <2>5 DEF FenceInv
<1>11. CASE RecoverStale
  <2>1. /\ DOMAIN executions' = DOMAIN executions
        /\ \A j \in DOMAIN executions :
             /\ executions'[j].dispatch = executions[j].dispatch
             /\ executions'[j].status \in {executions[j].status, "failed"}
    BY Zenon, <1>0, <1>11, EndedFields DEF TypeOK, RecoverStale
  <2>2. UNCHANGED <<accepted, nextDispatch, claims, delivering, delivered,
                    abandoning, repending, cleaning, up>>
    BY Zenon, <1>11 DEF RecoverStale
  <2>3. \A i \in recovering' : /\ i.job \in DOMAIN executions
                               /\ i.dispatch = executions[i.job].dispatch
                               /\ executions'[i.job].status = "failed"
    <3>1. \A i \in recovering' : i.job \in Stale /\ i.dispatch = executions[i.job].dispatch
      BY <1>11 DEF RecoverStale
    <3>2. \A j \in Stale : j \in DOMAIN executions /\ executions'[j].status = "failed"
      <4>1. \A j \in Stale : /\ j \in DOMAIN executions
                            /\ executions'[j] = Ended(executions[j], "failed")
        BY Zenon, <1>11 DEF RecoverStale, Stale
      <4>2. now \in Nat /\ \A j \in DOMAIN executions : executions[j] \in ExecutionRow
        BY Zenon, <1>0 DEF TypeOK
      <4>. QED
        BY <4>1, <4>2, EndedFields
    <3>. QED
      BY Zenon, <3>1, <3>2
  <2>4. Fenced' /\ Idle' /\ DeliveryOnce' /\ CompletedWasDelivered'
    <3>1. Fenced'
      BY Zenon, <2>1, <2>2 DEF FenceInv, Fenced
    <3>2. Idle'
      BY Zenon, <2>2 DEF FenceInv, Idle
    <3>3. DeliveryOnce'
      BY Zenon, <2>2 DEF FenceInv, DeliveryOnce
    <3>4. CompletedWasDelivered'
      BY <2>1, <2>2 DEF FenceInv, CompletedWasDelivered
    <3>. QED
      BY Zenon, <3>1, <3>2, <3>3, <3>4
  <2>5. ClaimsHold'
    BY Zenon, <2>1, <2>2 DEF FenceInv, ClaimsHold
  <2>6. \A j \in DOMAIN executions : executions[j].dispatch \in Nat
    BY Zenon, <1>0 DEF TypeOK, ExecutionRow, DispatchIds
  <2>7. AttemptsDispatched' /\ RependsFailed'
    BY SMTT(30), <2>1, <2>2, <2>3, <2>6 DEF FenceInv, AttemptsDispatched, RependsFailed
  <2>. QED
    BY Zenon, <1>0, <2>4, <2>5, <2>7 DEF FenceInv
<1>12. CASE \E i \in recovering : RecoverItem(i)
  <2>1. PICK i \in recovering : RecoverItem(i)
    BY Zenon, <1>12
  <2>2. Fenced' /\ ClaimsHold'
    <3>1. /\ i.job \in DOMAIN executions /\ executions[i.job].dispatch = i.dispatch =>
                executions[i.job].status = "failed"
          /\ i.dispatch # NULL
      BY Zenon, <1>0 DEF FenceInv, RependsFailed, TypeOK, Recovered, DispatchIds
    <3>2. \A c \in claims : i.job \in c.jobs => c.dispatch # i.dispatch
      <4>1. /\ i.dispatch \in Nat /\ i.job \in DOMAIN executions
            /\ executions[i.job].dispatch \in Nat
            /\ i.dispatch <= executions[i.job].dispatch
        BY Zenon, <1>0 DEF TypeOK, Recovered, ExecutionRow, DispatchIds, FenceInv, AttemptsDispatched
      <4>2. \A c \in claims : i.job \in c.jobs => executions[i.job].dispatch < c.dispatch
        BY Zenon, <4>1 DEF FenceInv, ClaimsHold
      <4>3. \A c \in claims : c.dispatch \in Nat
        BY Zenon, <1>0 DEF TypeOK, Claim, DispatchIds
      <4>. QED
        BY SMTT(30), <4>1, <4>2, <4>3
    <3>3. /\ accepted' = Repended(i.job, i.dispatch) \/ accepted' = accepted
          /\ UNCHANGED <<executions, nextDispatch, claims>>
      BY Zenon, <2>1 DEF RecoverItem
    <3>4. \A c, d \in claims : c.dispatch = d.dispatch => c = d
      BY Zenon DEF FenceInv, ClaimsHold
    <3>. QED
      BY SMTT(30), <3>1, <3>2, <3>3, <3>4, RependKeepsFence
  <2>3. /\ recovering' \subseteq recovering
        /\ UNCHANGED <<executions, nextDispatch, claims, delivering, delivered,
                       abandoning, repending, cleaning, up>>
    BY Zenon, <2>1 DEF RecoverItem
  <2>. QED
    BY Zenon, <1>0, <2>2, <2>3 DEF FenceInv, Idle,
         AttemptsDispatched, DeliveryOnce, RependsFailed, CompletedWasDelivered
<1>13. CASE CleanupAccepted \/ CleanupExecutions
  BY Zenon, <1>13 DEF CleanupAccepted, CleanupExecutions, FenceInv, Idle
<1>14. CASE Tick
  BY Zenon, <1>0, <1>14, FenceUnchanged DEF Tick
<1>15. CASE Crash
  <2>1. /\ UNCHANGED <<accepted, executions, nextDispatch, delivered>>
        /\ claims' = {} /\ delivering' = {} /\ abandoning' = {}
        /\ repending' = {} /\ recovering' = {} /\ cleaning' = NULL
    BY Zenon, <1>15 DEF Crash
  <2>2. Fenced' /\ CompletedWasDelivered'
    BY Zenon, <2>1 DEF FenceInv, Fenced, CompletedWasDelivered
  <2>3. ClaimsHold' /\ Idle' /\ DeliveryOnce' /\ RependsFailed'
    BY Zenon, <2>1 DEF ClaimsHold, Idle, DeliveryOnce, RependsFailed
  <2>4. AttemptsDispatched'
    BY Zenon, <2>1 DEF FenceInv, AttemptsDispatched
  <2>. QED
    BY Zenon, <1>0, <2>2, <2>3, <2>4 DEF FenceInv
<1>16. CASE Open
  <2>1. /\ DOMAIN accepted' = DOMAIN accepted
        /\ \A j \in DOMAIN accepted \ Orphans : accepted'[j] = accepted[j]
    BY Zenon, <1>16 DEF Open
  <2>2. Fenced'
    BY Zenon, <1>16, <2>1 DEF Open, Orphans, FenceInv, Fenced
  <2>3. claims = {} /\ UNCHANGED claims
    BY Zenon, <1>16 DEF Open, FenceInv, Idle
  <2>4. ClaimsHold'
    BY Zenon, <2>3 DEF ClaimsHold
  <2>5. Idle'
    BY Zenon, <1>16, <2>3 DEF Open, FenceInv, Idle
  <2>. QED
    BY Zenon, <1>0, <1>16, <2>2, <2>4, <2>5 DEF Open, FenceInv,
         AttemptsDispatched, DeliveryOnce, RependsFailed, CompletedWasDelivered
<1>17. CASE UNCHANGED vars
  BY Zenon, <1>0, <1>17, FenceUnchanged DEF vars
<1>. QED
  BY Zenon, <1>1, <1>2, <1>3, <1>4, <1>5, <1>6, <1>7, <1>8, <1>9, <1>10, <1>11,
     <1>12, <1>13, <1>14, <1>15, <1>16, <1>17 DEF Next

LEMMA FenceInvariant == ~CleanupOn => (Spec => []FenceInv)
<1> SUFFICES ASSUME ~CleanupOn PROVE Spec => []FenceInv
  BY Zenon
<1>1. FenceInv /\ [Next]_vars => FenceInv'
  BY Zenon, FenceNext
<1>. QED
  BY <1>1, FenceInit, PTL DEF Spec

\* Without retention the two files agree on the fence: a running execution
\* holds the claim of its job in the ingest file.
THEOREM RunningHolds == ~CleanupOn => (Spec => []RunningHoldsClaim)
<1>1. FenceInv => RunningHoldsClaim
  BY Zenon DEF FenceInv, Fenced, RunningHoldsClaim, Claimed
<1>. QED
  BY <1>1, FenceInvariant, PTL

\* Without retention a job that claim_batch may take has no live execution, so
\* dispatch_batch commits a batch only if it can report it as a success.
THEOREM PendingFree == ~CleanupOn => (Spec => []PendingIsFree)
<1>1. FenceInv => PendingIsFree
  BY Zenon DEF FenceInv, Fenced, PendingIsFree, TypeOK, ExecutionRow, DispatchIds
<1>. QED
  BY <1>1, FenceInvariant, PTL

\* A job completes only under a dispatch that a worker has received, with or
\* without retention: `delivered` only grows, and only a result of a delivered
\* attempt completes an execution.
THEOREM CompletedDelivered == Spec => []CompletedWasDelivered
<1>1. Init => CompletedWasDelivered
  BY Zenon DEF Init, CompletedWasDelivered
<1>2. TypeOK /\ CompletedWasDelivered /\ [Next]_vars => CompletedWasDelivered'
  <2> SUFFICES ASSUME TypeOK, CompletedWasDelivered, [Next]_vars
               PROVE  CompletedWasDelivered'
    BY Zenon
  <2>1. CASE UNCHANGED <<executions, delivered>>
    BY Zenon, <2>1 DEF CompletedWasDelivered
  <2>2. CASE \E c \in claims : DispatchBatch(c)
    <3>1. PICK c \in claims : DispatchBatch(c)
      BY Zenon, <2>2
    <3>2. \A j \in c.jobs : UpsertedRow(c, j).status = "running"
      BY Zenon DEF UpsertedRow
    <3>. QED
      BY <3>1, <3>2 DEF DispatchBatch, Upsertable, CompletedWasDelivered
  <2>3. CASE \E a \in delivering : Deliver(a)
    BY Zenon, <2>3 DEF Deliver, CompletedWasDelivered
  <2>4. CASE \E a \in delivered : CompleteSuccess(a) \/ CompleteFailure(a)
    BY <2>4, EndedFields DEF CompleteSuccess, CompleteFailure, Running, TypeOK,
         CompletedWasDelivered
  <2>5. CASE \E a \in abandoning : Abandon(a)
    BY <2>5, EndedFields DEF Abandon, Running, TypeOK, CompletedWasDelivered
  <2>6. CASE \E j \in DOMAIN executions : LeaseExpires(j)
    BY <2>6 DEF LeaseExpires, TypeOK, ExecutionRow, CompletedWasDelivered
  <2>7. CASE RecoverStale
    BY <2>7, EndedFields DEF RecoverStale, TypeOK, CompletedWasDelivered
  <2>8. CASE CleanupExecutions
    BY <2>8 DEF CleanupExecutions, CompletedWasDelivered
  <2>. QED
    BY Zenon, <2>1, <2>2, <2>3, <2>4, <2>5, <2>6, <2>7, <2>8
    DEF Next, vars, Enqueue, ClaimBatch, DispatchBatchFails, RependClaimed,
        ReleaseClaim, Repend, RecoverItem, CleanupAccepted, Tick, Crash, Open
<1>. QED
  BY <1>1, <1>2, TypeCorrect, PTL DEF Spec

-----------------------------------------------------------------------------
(***************************************************************************)
(* The retry limit.  abandon counts an execution that no worker saw, and   *)
(* release_claim gives a job back without asking for the retry limit, so   *)
(* execution_count alone bounds nothing.  What does is that an attempt     *)
(* beyond max_retries which a worker may receive is the last one of its    *)
(* job: nothing will ever give its claim back.                             *)
(***************************************************************************)
\* Attempts that were, or may still be, received by a worker.
Received == delivering \cup delivered

QueuesAgree ==
    /\ \A j \in DOMAIN executions : executions[j].queue = accepted[j].queue
    /\ \A c \in claims : \A j \in c.jobs : accepted[j].queue = c.queue

\* Attempts of one job differ in their dispatch id and in their count, and
\* the count of the results file is the largest.
CountsGrow ==
    /\ \A a \in Received : a.count <= executions[a.job].count
    /\ \A a, b \in Received :
        a.job = b.job /\ (a.dispatch = b.dispatch \/ a.count = b.count) => a = b
    /\ \A a \in Received :
        a.dispatch = executions[a.job].dispatch => a.count = executions[a.job].count

LastAttempts ==
    {a \in Received : a.count > MaxRetries[executions[a.job].queue]}

LastHoldsClaim ==
    \A a \in LastAttempts :
        /\ accepted[a.job].dispatch = a.dispatch
        /\ executions[a.job].dispatch = a.dispatch
        /\ \A r \in abandoning \cup repending :
             r.job = a.job => r.dispatch # a.dispatch
        /\ \A i \in recovering :
             i.job = a.job /\ i.dispatch = a.dispatch => ~i.repend

CountInv == QueuesAgree /\ CountsGrow /\ LastHoldsClaim

-----------------------------------------------------------------------------
LEMMA CountInit == Init => CountInv
  BY Zenon DEF Init, CountInv, QueuesAgree, CountsGrow, LastAttempts, LastHoldsClaim, Received

\* Every attempt a worker may receive is known to both files.
LEMMA ReceivedKnown ==
    ASSUME FenceInv
    PROVE  \A a \in Received :
             /\ a \in Attempt
             /\ a.job \in DOMAIN executions /\ a.job \in DOMAIN accepted
             /\ executions[a.job] \in ExecutionRow
             /\ a.dispatch <= executions[a.job].dispatch
  BY Zenon DEF FenceInv, TypeOK, AttemptsDispatched, Attempts, Fenced, Received

\* What the steps that may repend one job under a dispatch id have in common.
Repends(j, d) ==
    /\ accepted' = Repended(j, d) \/ accepted' = accepted
    /\ \A c \in claims' : \E b \in claims : b.queue = c.queue /\ c.jobs \subseteq b.jobs
    /\ abandoning' \cup repending' \subseteq abandoning \cup repending
    /\ recovering' \subseteq recovering
    /\ UNCHANGED <<executions, delivering, delivered>>

\* Steps that leave the executions and the attempts alone, and give up only
\* claims that are not the one of a last attempt.
LEMMA RependKeepsCount ==
    ASSUME FenceInv, CountInv, NEW j, NEW d, d # NULL,
           \A a \in LastAttempts : a.job = j => a.dispatch # d,
           Repends(j, d)
    PROVE  CountInv'
<1>. /\ accepted' = Repended(j, d) \/ accepted' = accepted
     /\ \A c \in claims' : \E b \in claims : b.queue = c.queue /\ c.jobs \subseteq b.jobs
     /\ abandoning' \cup repending' \subseteq abandoning \cup repending
     /\ recovering' \subseteq recovering
     /\ UNCHANGED <<executions, delivering, delivered>>
  BY Zenon DEF Repends
<1>1. /\ DOMAIN accepted' = DOMAIN accepted
      /\ \A i \in DOMAIN accepted :
           /\ accepted'[i].queue = accepted[i].queue
           /\ \/ accepted'[i].dispatch = accepted[i].dispatch
              \/ i = j /\ accepted[i].dispatch = d
  BY RependedFields DEF FenceInv
<1>2. QueuesAgree'
  BY SMTT(30), <1>1 DEF QueuesAgree, CountInv, FenceInv, Fenced, ClaimsHold
<1>3. CountsGrow'
  BY ZenonT(40) DEF CountsGrow, CountInv, Received
<1>4. LastAttempts' = LastAttempts
  BY Zenon DEF LastAttempts, Received
<1>5. LastHoldsClaim'
  BY SMTT(30), <1>1, <1>4, ReceivedKnown DEF LastHoldsClaim, CountInv, LastAttempts
<1>. QED
  BY Zenon, <1>2, <1>3, <1>5 DEF CountInv

\* Steps that end executions, keeping their queue, count and dispatch id.
LEMMA EndKeepsCount ==
    ASSUME FenceInv, CountInv,
           DOMAIN executions' = DOMAIN executions,
           \A j \in DOMAIN executions :
             /\ executions'[j].queue = executions[j].queue
             /\ executions'[j].count = executions[j].count
             /\ executions'[j].dispatch = executions[j].dispatch,
           UNCHANGED <<accepted, claims, delivering, delivered>>,
           \A r \in abandoning' \cup repending' : r \in abandoning \cup repending
             \/ \A a \in LastAttempts : r.job = a.job => r.dispatch # a.dispatch,
           \A i \in recovering' : i \in recovering
             \/ \A a \in LastAttempts :
                  i.job = a.job /\ i.dispatch = a.dispatch => ~i.repend
    PROVE  CountInv'
<1>1. QueuesAgree'
  BY Zenon DEF QueuesAgree, CountInv
<1>2. CountsGrow'
  BY Zenon, ReceivedKnown DEF CountsGrow, CountInv, Received
<1>3. LastAttempts' = LastAttempts
  BY Zenon, ReceivedKnown DEF LastAttempts, Received
<1>4. LastHoldsClaim'
  BY ZenonT(40), <1>3, ReceivedKnown DEF LastHoldsClaim, CountInv, LastAttempts
<1>. QED
  BY Zenon, <1>1, <1>2, <1>4 DEF CountInv

LEMMA CountNext ==
    ~CleanupOn /\ FenceInv /\ CountInv /\ [Next]_vars => CountInv'
<1> SUFFICES ASSUME ~CleanupOn, FenceInv, CountInv, [Next]_vars PROVE CountInv'
  BY Zenon
<1>0. TypeOK
  BY Zenon DEF FenceInv
<1> USE StoreAssumption
<1> USE DEF futures, env
<1>1. CASE \E q \in Queues : Enqueue(q)
  <2>1. /\ DOMAIN accepted \subseteq DOMAIN accepted'
        /\ \A i \in DOMAIN accepted : accepted'[i] = accepted[i]
    BY SMTT(30), <1>0, <1>1 DEF Enqueue, NextRowid, TypeOK, JobIds
  <2>2. UNCHANGED <<executions, claims, delivering, delivered, abandoning,
                    repending, recovering>>
    BY Zenon, <1>1 DEF Enqueue
  <2>3. QueuesAgree'
    BY <2>1, <2>2 DEF QueuesAgree, CountInv, FenceInv, Fenced, ClaimsHold
  <2>4. CountsGrow' /\ LastAttempts' = LastAttempts
    BY Zenon, <2>2 DEF CountsGrow, CountInv, Received, LastAttempts
  <2>5. LastHoldsClaim'
    BY Zenon, <2>1, <2>2, <2>4, ReceivedKnown DEF LastHoldsClaim, CountInv, LastAttempts
  <2>. QED
    BY Zenon, <2>3, <2>4, <2>5 DEF CountInv
<1>2. CASE \E q \in Queues, n \in ClaimLimits : ClaimBatch(q, n)
  <2>1. PICK q \in Queues, n \in ClaimLimits : ClaimBatch(q, n)
    BY Zenon, <1>2
  <2>2. PICK batch \in SUBSET Pending(q) :
          /\ accepted' = [j \in DOMAIN accepted |->
                            IF j \in batch
                            THEN [accepted[j] EXCEPT !.dispatch = nextDispatch]
                            ELSE accepted[j]]
          /\ claims' = claims \cup
               {[queue |-> q, jobs |-> batch, dispatch |-> nextDispatch,
                 step |-> "dispatch"]}
    BY ZenonT(40), <2>1 DEF ClaimBatch
  <2>3. /\ DOMAIN accepted' = DOMAIN accepted
        /\ \A j \in DOMAIN accepted : accepted'[j].queue = accepted[j].queue
        /\ \A j \in DOMAIN accepted \ batch : accepted'[j] = accepted[j]
        /\ \A j \in batch : /\ j \in DOMAIN accepted
                            /\ accepted[j].dispatch = NULL
                            /\ accepted[j].queue = q
    BY Zenon, <1>0, <2>2 DEF Pending, TypeOK, AcceptedRow
  <2>4. UNCHANGED <<executions, delivering, delivered, abandoning, repending,
                    recovering>>
    BY Zenon, <2>1 DEF ClaimBatch
  <2>5. QueuesAgree'
    BY <2>2, <2>3, <2>4 DEF QueuesAgree, CountInv, FenceInv, Fenced, ClaimsHold
  <2>6. CountsGrow' /\ LastAttempts' = LastAttempts
    BY Zenon, <2>4 DEF CountsGrow, CountInv, Received, LastAttempts
  <2>7. \A a \in LastAttempts : a.job \in DOMAIN accepted /\ a.dispatch # NULL
    BY Zenon, ReceivedKnown DEF LastAttempts, Attempt, DispatchIds
  <2>8. LastHoldsClaim'
    BY <2>3, <2>4, <2>6, <2>7 DEF LastHoldsClaim, CountInv
  <2>. QED
    BY Zenon, <2>5, <2>6, <2>8 DEF CountInv
<1>3. CASE \E c \in claims : DispatchBatch(c)
  <2>1. PICK c \in claims : DispatchBatch(c)
    BY Zenon, <1>3
  <2>2. /\ c \in Claim /\ c.jobs \subseteq JobIds /\ c.dispatch \in Nat
        /\ \A j \in c.jobs : j \in DOMAIN accepted
        /\ Upsertable(c) = c.jobs
    BY <1>0 DEF TypeOK, Claim, DispatchIds, FenceInv, ClaimsHold, Upsertable
  <2>3. /\ claims' = claims \ {c}
        /\ DOMAIN executions' = DOMAIN executions \cup c.jobs
        /\ \A j \in DOMAIN executions \ c.jobs : executions'[j] = executions[j]
        /\ \A j \in c.jobs : executions'[j] = UpsertedRow(c, j)
        /\ delivering' = delivering \cup
             {[job |-> j, dispatch |-> c.dispatch,
               count |-> UpsertedRow(c, j).count] : j \in c.jobs}
        /\ UNCHANGED <<accepted, delivered, abandoning, repending, recovering>>
    BY Zenon, <2>1, <2>2 DEF DispatchBatch
  <2>4. \A a \in Received' : a \in Received \/
          (/\ a.job \in c.jobs /\ a.dispatch = c.dispatch
           /\ a.count = executions'[a.job].count
           /\ a = [job |-> a.job, dispatch |-> a.dispatch, count |-> a.count])
    BY SMTT(30), <2>3 DEF Received
  <2>5. /\ \A j \in c.jobs :
             /\ executions'[j].dispatch = c.dispatch
             /\ executions'[j].count \in Nat
             /\ j \in DOMAIN executions =>
                  /\ executions'[j].queue = executions[j].queue
                  /\ executions'[j].count = executions[j].count + 1
                  /\ executions[j].dispatch < c.dispatch
                  /\ executions[j].count \in Nat /\ executions[j].dispatch \in Nat
             /\ j \notin DOMAIN executions => executions'[j].queue = c.queue
    BY SMTT(30), <1>0, <2>2, <2>3, UpsertedFields
       DEF FenceInv, ClaimsHold, TypeOK, ExecutionRow, DispatchIds
  <2>6. \A a \in Received : /\ a.job \in DOMAIN executions
                            /\ a.dispatch \in Nat /\ a.count \in Nat
                            /\ a.dispatch <= executions[a.job].dispatch
                            /\ a.count <= executions[a.job].count
    BY Zenon, ReceivedKnown DEF Attempt, DispatchIds, CountInv, CountsGrow
  <2>7. QueuesAgree'
    BY ZenonT(40), <2>2, <2>3, <2>5 DEF QueuesAgree, CountInv
  <2>8. CountsGrow'
    BY SMTT(30), <2>3, <2>4, <2>5, <2>6 DEF CountInv, CountsGrow
  <2>9. \A a \in Received : a.job \in c.jobs => a.dispatch < c.dispatch
    BY SMTT(30), <2>2, <2>5, <2>6
  <2>10. \A a \in LastAttempts' : a \in Received =>
           a \in LastAttempts /\ a.job \notin c.jobs
    <3> SUFFICES ASSUME NEW a \in LastAttempts', a \in Received
                 PROVE  a \in LastAttempts /\ a.job \notin c.jobs
      BY Zenon
    <3>1. executions'[a.job].queue = executions[a.job].queue
      BY ZenonT(40), <2>3, <2>5, <2>6
    <3>2. a \in LastAttempts
      BY Zenon, <3>1 DEF LastAttempts
    <3>3. accepted[a.job].dispatch = a.dispatch
      BY Zenon, <3>2 DEF CountInv, LastHoldsClaim
    <3>4. a.job \in c.jobs => accepted[a.job].dispatch = c.dispatch
      BY Zenon DEF FenceInv, ClaimsHold
    <3>. QED
      BY <2>2, <2>6, <2>9, <3>2, <3>3, <3>4
  <2>11. /\ \A r \in abandoning \cup repending : r.job \in c.jobs => r.dispatch < c.dispatch
         /\ \A i \in recovering : i.job \in c.jobs => i.dispatch < c.dispatch
    <3>1. /\ \A r \in abandoning \cup repending : r.dispatch \in Nat
          /\ \A i \in recovering : i.dispatch \in Nat
      BY Zenon, <1>0 DEF TypeOK, Attempt, Recovered, DispatchIds
    <3>. QED
      BY <2>2, <2>5, <3>1 DEF FenceInv, AttemptsDispatched, Attempts
  <2>12. LastHoldsClaim'
    <3> SUFFICES ASSUME NEW a \in LastAttempts'
                 PROVE  /\ accepted'[a.job].dispatch = a.dispatch
                        /\ executions'[a.job].dispatch = a.dispatch
                        /\ \A r \in abandoning \cup repending :
                             r.job = a.job => r.dispatch # a.dispatch
                        /\ \A i \in recovering :
                             i.job = a.job /\ i.dispatch = a.dispatch => ~i.repend
      BY Zenon, <2>3 DEF LastHoldsClaim
    <3>1. CASE a \in Received
      BY Zenon, <2>3, <2>6, <2>10, <3>1 DEF CountInv, LastHoldsClaim
    <3>2. CASE a \notin Received
      <4>1. a.job \in c.jobs /\ a.dispatch = c.dispatch
        BY Zenon, <2>4, <3>2 DEF LastAttempts
      <4>2. accepted[a.job].dispatch = c.dispatch
        BY Zenon, <4>1 DEF FenceInv, ClaimsHold
      <4>3. /\ \A r \in abandoning \cup repending : r.dispatch \in Nat
            /\ \A i \in recovering : i.dispatch \in Nat
        BY Zenon, <1>0 DEF TypeOK, Attempt, Recovered, DispatchIds
      <4>4. \A m, n \in Nat : m < n => m # n
        BY SMT
      <4>5. /\ \A r \in abandoning \cup repending : r.job = a.job => r.dispatch # a.dispatch
            /\ \A i \in recovering : i.job = a.job => i.dispatch # a.dispatch
        BY Zenon, <2>2, <2>11, <4>1, <4>3, <4>4
      <4>6. executions'[a.job].dispatch = a.dispatch
        BY Zenon, <2>5, <4>1
      <4>7. accepted' = accepted
        BY Zenon, <2>3
      <4>. QED
        BY Zenon, <4>1, <4>2, <4>5, <4>6, <4>7
    <3>. QED
      BY Zenon, <3>1, <3>2
  <2>. QED
    BY Zenon, <2>7, <2>8, <2>12 DEF CountInv
<1>4. CASE \E c \in claims : DispatchBatchFails(c)
  <2>1. PICK c \in claims : DispatchBatchFails(c)
    BY Zenon, <1>4
  <2> DEFINE w == [c EXCEPT !.step = "repend"]
  <2>2. /\ claims' = (claims \ {c}) \cup {w}
        /\ w.jobs = c.jobs /\ w.queue = c.queue
    BY Zenon, <1>0, <2>1 DEF TypeOK, Claim, DispatchBatchFails
  <2> HIDE DEF w
  <2>3. UNCHANGED <<accepted, executions, delivering, delivered, abandoning,
                    repending, recovering>>
    BY Zenon, <2>1 DEF DispatchBatchFails
  <2>4. QueuesAgree'
    BY ZenonT(40), <2>2, <2>3 DEF QueuesAgree, CountInv
  <2>. QED
    BY Zenon, <2>3, <2>4 DEF CountInv, CountsGrow, Received, LastAttempts, LastHoldsClaim
<1>5. CASE \E c \in claims : \E j \in c.jobs : RependClaimed(c, j)
  <2>1. PICK c \in claims : \E j \in c.jobs : RependClaimed(c, j)
    BY Zenon, <1>5
  <2>2. PICK j \in c.jobs : RependClaimed(c, j)
    BY Zenon, <2>1
  <2>3. \A w \in Without(c, j) : w.jobs = c.jobs \ {j} /\ w.queue = c.queue
    BY Zenon, <1>0 DEF TypeOK, Claim, Without
  <2>4. \A b \in claims' : \E e \in claims : e.queue = b.queue /\ b.jobs \subseteq e.jobs
    BY Zenon, <2>2, <2>3 DEF RependClaimed
  <2>5. c.dispatch # NULL
    BY Zenon, <1>0 DEF TypeOK, Claim, DispatchIds
  <2>6. \A a \in LastAttempts : a.job = j => a.dispatch # c.dispatch
    <3>1. \A a \in LastAttempts : /\ executions[a.job].dispatch = a.dispatch
                                  /\ a.job \in DOMAIN executions
      BY Zenon, ReceivedKnown DEF CountInv, LastHoldsClaim, LastAttempts
    <3>2. j \in DOMAIN executions => executions[j].dispatch # c.dispatch
      <4>1. j \in DOMAIN executions => executions[j].dispatch \in Nat
        BY Zenon, <1>0 DEF TypeOK, ExecutionRow, DispatchIds
      <4>. QED
        BY <4>1 DEF FenceInv, ClaimsHold
    <3>. QED
      BY Zenon, <3>1, <3>2
  <2>7. /\ accepted' = Repended(j, c.dispatch) \/ accepted' = accepted
        /\ abandoning' \cup repending' \subseteq abandoning \cup repending
        /\ recovering' \subseteq recovering
        /\ UNCHANGED <<executions, delivering, delivered>>
    BY Zenon, <2>2 DEF RependClaimed
  <2>8. CASE accepted' = Repended(j, c.dispatch)
    <3>1. Repends(j, c.dispatch)
      BY Zenon, <2>4, <2>7 DEF Repends
    <3>. QED
      BY Zenon, <2>5, <2>6, <3>1, RependKeepsCount
  <2>9. CASE accepted' = accepted
    <3>1. QueuesAgree'
      BY Zenon, <2>4, <2>7, <2>9 DEF CountInv, QueuesAgree
    <3>2. UNCHANGED <<abandoning, repending, recovering>>
      BY Zenon, <2>2 DEF RependClaimed
    <3>. QED
      BY SMTT(30), <2>7, <2>9, <3>1, <3>2
      DEF CountInv, CountsGrow, Received, LastAttempts, LastHoldsClaim
  <2>. QED
    BY Zenon, <2>7, <2>8, <2>9
<1>6. CASE \E a \in delivering : Deliver(a) \/ ReleaseClaim(a)
  <2>1. PICK a \in delivering : Deliver(a) \/ ReleaseClaim(a)
    BY Zenon, <1>6
  <2>2. /\ Received' \subseteq Received
        /\ \A r \in abandoning' : r \in abandoning \/ (r = a /\ a \notin Received')
        /\ UNCHANGED <<accepted, executions, claims, repending, recovering>>
    BY Zenon, <2>1 DEF Deliver, ReleaseClaim, Received, FenceInv, DeliveryOnce
  <2>3. QueuesAgree'
    BY Zenon, <2>2 DEF QueuesAgree, CountInv
  <2>4. CountsGrow'
    BY Zenon, <2>2 DEF CountsGrow, CountInv
  <2>5. \A b \in LastAttempts' : b \in LastAttempts /\ b \in Received'
    BY Zenon, <2>2 DEF LastAttempts
  <2>6. \A b \in Received : a.job = b.job /\ a.dispatch = b.dispatch => a = b
    BY Zenon DEF CountInv, CountsGrow, Received
  <2>7. LastHoldsClaim'
    BY Zenon, <2>2, <2>5, <2>6 DEF LastHoldsClaim, CountInv, LastAttempts
  <2>. QED
    BY Zenon, <2>3, <2>4, <2>7 DEF CountInv
<1>7. CASE \E a \in delivered : CompleteSuccess(a) \/ CompleteFailure(a)
  <2>1. PICK a \in delivered : CompleteSuccess(a) \/ CompleteFailure(a)
    BY Zenon, <1>7
  <2>2. /\ DOMAIN executions' = DOMAIN executions
        /\ \A j \in DOMAIN executions :
             /\ executions'[j].queue = executions[j].queue
             /\ executions'[j].count = executions[j].count
             /\ executions'[j].dispatch = executions[j].dispatch
    BY SMTT(30), <1>0, <2>1, EndedFields DEF TypeOK, CompleteSuccess, CompleteFailure, Running
  <2>3. /\ UNCHANGED <<accepted, claims, delivering, delivered, abandoning, recovering>>
        /\ \A r \in repending' : r \in repending \/
             (r = a /\ executions[a.job].count <= MaxRetries[executions[a.job].queue])
        /\ executions[a.job].dispatch = a.dispatch
    BY ZenonT(40), <2>1 DEF CompleteSuccess, CompleteFailure, Running, Retryable
  <2>4. executions[a.job].count <= MaxRetries[executions[a.job].queue] =>
          \A b \in LastAttempts : a.job = b.job => a.dispatch # b.dispatch
    <3>1. /\ a \in Received /\ a.count = executions[a.job].count
          /\ a.count \in Nat /\ MaxRetries[executions[a.job].queue] \in Nat
      BY Zenon, <2>3, ReceivedKnown DEF Received, CountInv, CountsGrow, Attempt, ExecutionRow
    <3>2. \A b \in LastAttempts : a.job = b.job /\ a.dispatch = b.dispatch => a = b
      BY Zenon, <3>1 DEF LastAttempts, CountInv, CountsGrow
    <3>. QED
      BY SMTT(30), <3>1, <3>2 DEF LastAttempts
  <2>. QED
    BY Zenon, <2>2, <2>3, <2>4, EndKeepsCount
<1>8. CASE \E a \in abandoning : Abandon(a)
  <2>1. PICK a \in abandoning : Abandon(a)
    BY Zenon, <1>8
  <2>2. /\ DOMAIN executions' = DOMAIN executions
        /\ \A j \in DOMAIN executions :
             /\ executions'[j].queue = executions[j].queue
             /\ executions'[j].count = executions[j].count
             /\ executions'[j].dispatch = executions[j].dispatch
    BY <1>0, <2>1, EndedFields DEF TypeOK, Abandon, Running
  <2>3. /\ UNCHANGED <<accepted, claims, delivering, delivered, recovering>>
        /\ abandoning' \cup repending' \subseteq abandoning \cup repending
    BY Zenon, <2>1 DEF Abandon
  <2>. QED
    BY Zenon, <2>2, <2>3, EndKeepsCount
<1>9. CASE \E a \in repending : Repend(a)
  <2>1. PICK a \in repending : Repend(a)
    BY Zenon, <1>9
  <2>2. a.dispatch # NULL
    BY Zenon, <1>0 DEF TypeOK, Attempt, DispatchIds
  <2>3. \A b \in LastAttempts : b.job = a.job => b.dispatch # a.dispatch
    BY Zenon DEF CountInv, LastHoldsClaim
  <2>4. /\ accepted' = Repended(a.job, a.dispatch) \/ accepted' = accepted
        /\ abandoning' \cup repending' \subseteq abandoning \cup repending
        /\ recovering' \subseteq recovering
        /\ \A c \in claims' : \E b \in claims : b.queue = c.queue /\ c.jobs \subseteq b.jobs
        /\ UNCHANGED <<executions, delivering, delivered>>
    BY Zenon, <2>1 DEF Repend
  <2>. QED
    <3>1. Repends(a.job, a.dispatch)
      BY Zenon, <2>4 DEF Repends
    <3>. QED
      BY Zenon, <2>2, <2>3, <3>1, RependKeepsCount
<1>10. CASE \E j \in DOMAIN executions : LeaseExpires(j)
  <2>1. /\ DOMAIN executions' = DOMAIN executions
        /\ \A j \in DOMAIN executions :
             /\ executions'[j].queue = executions[j].queue
             /\ executions'[j].count = executions[j].count
             /\ executions'[j].dispatch = executions[j].dispatch
        /\ UNCHANGED <<accepted, claims, delivering, delivered, abandoning,
                       repending, recovering>>
    BY SMTT(30), <1>0, <1>10 DEF TypeOK, ExecutionRow, LeaseExpires
  <2>. QED
    BY Zenon, <2>1, EndKeepsCount
<1>11. CASE RecoverStale
  <2>1. /\ DOMAIN executions' = DOMAIN executions
        /\ \A j \in DOMAIN executions :
             /\ executions'[j].queue = executions[j].queue
             /\ executions'[j].count = executions[j].count
             /\ executions'[j].dispatch = executions[j].dispatch
    BY Zenon, <1>0, <1>11, EndedFields DEF TypeOK, RecoverStale
  <2>2. /\ UNCHANGED <<accepted, claims, delivering, delivered, abandoning, repending>>
        /\ recovering' = {[job |-> j, dispatch |-> executions[j].dispatch,
                           repend |-> Retryable(executions[j])] : j \in Stale}
    BY Zenon, <1>11 DEF RecoverStale
  <2>3. \A a \in LastAttempts : /\ executions[a.job].dispatch = a.dispatch
                                /\ ~Retryable(executions[a.job])
    <3> SUFFICES ASSUME NEW a \in LastAttempts
                 PROVE  /\ executions[a.job].dispatch = a.dispatch
                        /\ ~Retryable(executions[a.job])
      BY Zenon
    <3>1. /\ executions[a.job].dispatch = a.dispatch
          /\ a.count = executions[a.job].count
      BY Zenon DEF CountInv, LastHoldsClaim, LastAttempts, CountsGrow
    <3>2. a.count \in Nat /\ MaxRetries[executions[a.job].queue] \in Nat
      BY Zenon, ReceivedKnown DEF LastAttempts, Attempt, ExecutionRow
    <3>. QED
      BY <3>1, <3>2 DEF LastAttempts, Retryable
  <2>4. \A i \in recovering' : \A a \in LastAttempts :
          i.job = a.job /\ i.dispatch = a.dispatch => ~i.repend
    BY <2>2, <2>3
  <2>. QED
    BY Zenon, <2>1, <2>2, <2>4, EndKeepsCount
<1>12. CASE \E i \in recovering : RecoverItem(i)
  <2>1. PICK i \in recovering : RecoverItem(i)
    BY Zenon, <1>12
  <2>2. i.dispatch # NULL
    BY Zenon, <1>0 DEF TypeOK, Recovered, DispatchIds
  <2>3. /\ accepted' = Repended(i.job, i.dispatch) \/ accepted' = accepted
        /\ ~i.repend => accepted' = accepted
        /\ recovering' \subseteq recovering
        /\ UNCHANGED <<executions, claims, delivering, delivered, abandoning, repending>>
    BY Zenon, <2>1 DEF RecoverItem
  <2>4. i.repend => \A b \in LastAttempts : b.job = i.job => b.dispatch # i.dispatch
    BY Zenon DEF CountInv, LastHoldsClaim
  <2>5. CASE accepted' = accepted
    BY SMTT(30), <2>3, <2>5 DEF CountInv, QueuesAgree, CountsGrow, Received, LastAttempts, LastHoldsClaim
  <2>6. CASE i.repend
    <3>1. Repends(i.job, i.dispatch)
      BY Zenon, <2>3 DEF Repends
    <3>. QED
      BY Zenon, <2>2, <2>4, <2>6, <3>1, RependKeepsCount
  <2>. QED
    BY Zenon, <2>3, <2>5, <2>6
<1>13. CASE CleanupAccepted \/ CleanupExecutions
  BY Zenon, <1>13 DEF CleanupAccepted, CleanupExecutions, FenceInv, Idle
<1>14. CASE Tick
  BY ZenonT(40), <1>14 DEF Tick, CountInv, QueuesAgree, CountsGrow, Received, LastAttempts, LastHoldsClaim
<1>15. CASE Crash
  <2>1. /\ Received' \subseteq Received
        /\ claims' = {} /\ abandoning' = {} /\ repending' = {} /\ recovering' = {}
        /\ UNCHANGED <<accepted, executions>>
    BY Zenon, <1>15 DEF Crash, Received
  <2>. QED
    BY Zenon, <2>1 DEF CountInv, QueuesAgree, CountsGrow, LastAttempts, LastHoldsClaim
<1>16. CASE Open
  <2>1. /\ DOMAIN accepted' = DOMAIN accepted
        /\ \A j \in DOMAIN accepted : accepted'[j].queue = accepted[j].queue
        /\ \A j \in DOMAIN accepted \ Orphans : accepted'[j] = accepted[j]
        /\ UNCHANGED <<executions, claims, delivering, delivered, abandoning,
                       repending, recovering>>
    BY Zenon, <1>0, <1>16 DEF Open, TypeOK, AcceptedRow
  <2>2. QueuesAgree'
    BY Zenon, <2>1 DEF CountInv, QueuesAgree, FenceInv, Fenced, ClaimsHold
  <2>3. CountsGrow' /\ LastAttempts' = LastAttempts
    BY Zenon, <2>1 DEF CountsGrow, CountInv, Received, LastAttempts
  <2>4. \A a \in LastAttempts : a.job \in DOMAIN accepted \ Orphans
    BY Zenon, ReceivedKnown DEF CountInv, LastHoldsClaim, LastAttempts, Orphans
  <2>5. LastHoldsClaim'
    BY ZenonT(40), <2>1, <2>3, <2>4 DEF CountInv, LastHoldsClaim
  <2>. QED
    BY Zenon, <2>2, <2>3, <2>5 DEF CountInv
<1>17. CASE UNCHANGED vars
  BY ZenonT(40), <1>17 DEF vars, CountInv, QueuesAgree, CountsGrow, Received, LastAttempts, LastHoldsClaim
<1>. QED
  BY ZenonT(40), <1>1, <1>2, <1>3, <1>4, <1>5, <1>6, <1>7, <1>8, <1>9, <1>10, <1>11,
     <1>12, <1>13, <1>14, <1>15, <1>16, <1>17 DEF Next

LEMMA CountInvariant == ~CleanupOn => (Spec => [](FenceInv /\ CountInv))
<1> SUFFICES ASSUME ~CleanupOn PROVE Spec => [](FenceInv /\ CountInv)
  BY Zenon
<1>1. FenceInv /\ [Next]_vars => FenceInv'
  BY Zenon, FenceNext
<1>2. FenceInv /\ CountInv /\ [Next]_vars => CountInv'
  BY Zenon, CountNext
<1>. QED
  BY <1>1, <1>2, FenceInit, CountInit, PTL DEF Spec

\* The attempts at one job that workers have received are finitely many: their
\* counts, cut off at max_retries + 1, are distinct, and only the last attempt
\* is cut off.
LEMMA DeliveredCount ==
    ASSUME FenceInv, CountInv, NEW j \in DOMAIN accepted
    PROVE  LET S == {a \in delivered : a.job = j}
               max == MaxRetries[accepted[j].queue]
           IN  /\ max \in Nat
               /\ IsFiniteSet(S) /\ Cardinality(S) \in Nat
               /\ Cardinality(S) <= max + 1
               /\ S \cap LastAttempts = {} => Cardinality(S) <= max
<1> DEFINE max == MaxRetries[accepted[j].queue]
           S == {a \in delivered : a.job = j}
           f == [a \in S |-> IF a.count <= max THEN a.count ELSE max + 1]
<1>1. max \in Nat
  BY Zenon, StoreAssumption DEF FenceInv, TypeOK, AcceptedRow
<1>2. \A a \in S : /\ a \in Received /\ a.count \in Nat \ {0}
                   /\ executions[a.job].queue = accepted[j].queue
  BY SMTT(30), ReceivedKnown DEF Received, Attempt, CountInv, QueuesAgree
<1>3. \A a \in S : a.count > max => a \in LastAttempts
  BY Zenon, <1>2 DEF LastAttempts
<1>4. \A a, b \in S : a \in LastAttempts /\ b \in LastAttempts => a = b
  BY <1>2 DEF CountInv, LastHoldsClaim, CountsGrow
<1>5. \A a, b \in S : a.count = b.count => a = b
  BY SMTT(30), <1>2 DEF CountInv, CountsGrow
<1>6. \A a, b \in S : f[a] = f[b] => a = b
  BY SMTT(30), <1>1, <1>2, <1>3, <1>4, <1>5
<1>7. f \in [S -> 1..(max + 1)]
  BY SMTT(30), <1>1, <1>2
<1>8. f \in Injection(S, 1..(max + 1))
  BY Zenon, <1>6, <1>7 DEF Injection, IsInjective
<1>9. ASSUME S \cap LastAttempts = {}
      PROVE  f \in Injection(S, 1..max)
  <2>1. \A a \in S : a.count <= max
    BY <1>1, <1>2, <1>3, <1>9
  <2>2. f \in [S -> 1..max]
    BY <1>1, <1>2, <2>1
  <2>. QED
    BY Zenon, <1>6, <2>2 DEF Injection, IsInjective
<1> HIDE DEF f, S, max
<1>10. \A n \in Nat : IsFiniteSet(1..n) /\ Cardinality(1..n) = n
  <2> SUFFICES ASSUME NEW n \in Nat PROVE IsFiniteSet(1..n) /\ Cardinality(1..n) = n
    BY Zenon
  <2>1. 1 \in Int /\ n \in Int /\ (1 > n => n = 0) /\ n - 1 + 1 = n
    OBVIOUS
  <2>. QED
    BY Zenon, <2>1, FS_Interval
<1>11. max + 1 \in Nat
  BY <1>1
<1>12. IsFiniteSet(S) /\ Cardinality(S) <= max + 1
  BY SMTT(30), <1>8, <1>10, <1>11, FS_Injection
<1>13. S \cap LastAttempts = {} => Cardinality(S) <= max
  BY <1>1, <1>9, <1>10, FS_Injection
<1>14. Cardinality(S) \in Nat
  BY Zenon, <1>12, FS_CardinalityType
<1>. QED
  BY Zenon, <1>1, <1>12, <1>13, <1>14 DEF S, max

\* Without retention, workers receive a job at most max_retries + 1 times.
THEOREM RetryLimit == ~CleanupOn => (Spec => []ExecutionsBounded)
<1>1. FenceInv /\ CountInv => ExecutionsBounded
  BY Zenon, DeliveredCount DEF ExecutionsBounded
<1>. QED
  BY <1>1, CountInvariant, PTL

-----------------------------------------------------------------------------
(***************************************************************************)
(* Jobs that failed for good                                               *)
(***************************************************************************)
\* A failed row stays as it is until a later dispatch takes it over.
LEMMA FailedRowStays ==
    ASSUME ~CleanupOn, FenceInv, Next,
           NEW j \in DOMAIN executions, executions[j].status = "failed"
    PROVE  /\ j \in DOMAIN executions'
           /\ executions'[j].queue = executions[j].queue
           /\ \/ executions'[j] = executions[j]
              \/ executions'[j].dispatch # executions[j].dispatch
<1>0. TypeOK /\ cleaning = NULL
  BY Zenon DEF FenceInv, Idle
<1>1. CASE UNCHANGED executions
  BY Zenon, <1>1
<1>2. CASE \E c \in claims : DispatchBatch(c)
  <2> PICK c \in claims : DispatchBatch(c)
    BY Zenon, <1>2
  <2>1. /\ j \in DOMAIN executions'
        /\ executions'[j] = IF j \in Upsertable(c) THEN UpsertedRow(c, j)
                                                   ELSE executions[j]
    BY Zenon DEF DispatchBatch
  <2>2. j \in Upsertable(c) => executions[j].dispatch < c.dispatch
    BY Zenon DEF Upsertable, FenceInv, ClaimsHold
  <2>3. /\ UpsertedRow(c, j).dispatch = c.dispatch
        /\ UpsertedRow(c, j).queue = executions[j].queue
    BY Zenon DEF UpsertedRow
  <2>4. executions[j].dispatch \in Nat /\ c.dispatch \in Nat
    BY Zenon, <1>0 DEF TypeOK, ExecutionRow, Claim, DispatchIds
  <2>. QED
    BY SMTT(30), <2>1, <2>2, <2>3, <2>4
<1>3. CASE \E a \in delivered : CompleteSuccess(a) \/ CompleteFailure(a)
  BY Zenon, <1>0, <1>3 DEF CompleteSuccess, CompleteFailure, Running, TypeOK
<1>4. CASE \E a \in abandoning : Abandon(a)
  BY Zenon, <1>0, <1>4 DEF Abandon, Running, TypeOK
<1>5. CASE \E i \in DOMAIN executions : LeaseExpires(i)
  BY Zenon, <1>0, <1>5 DEF LeaseExpires, TypeOK
<1>6. CASE RecoverStale
  BY Zenon, <1>6 DEF RecoverStale, Stale
<1>. QED
  BY Zenon, <1>0, <1>1, <1>2, <1>3, <1>4, <1>5, <1>6
  DEF Next, Enqueue, ClaimBatch, DispatchBatchFails, RependClaimed, Deliver,
      ReleaseClaim, Repend, RecoverItem, CleanupAccepted, CleanupExecutions,
      Tick, Crash, Open

\* Without retention, a job whose last attempt reached a worker and failed with
\* no retry left stays failed: LastHoldsClaim holds after every step, so nobody
\* can give the claim back, and without it no dispatch can take the row over.
THEOREM LastFailureStays == ~CleanupOn => (Spec => LastFailureIsFinal)
<1> SUFFICES ASSUME ~CleanupOn PROVE Spec => LastFailureIsFinal
  BY Zenon
<1> DEFINE Final ==
      \A j \in DOMAIN executions :
         /\ Exhausted(j)
         /\ \E a \in delivered : a.job = j /\ a.dispatch = executions[j].dispatch
         => Exhausted(j)'
<1>1. FenceInv /\ CountInv /\ FenceInv' /\ CountInv' /\ [Next]_vars => [Final]_vars
  <2> SUFFICES ASSUME FenceInv, CountInv, FenceInv', CountInv', Next,
                      NEW j \in DOMAIN executions, Exhausted(j),
                      NEW a \in delivered, a.job = j,
                      a.dispatch = executions[j].dispatch
               PROVE  Exhausted(j)'
    BY Zenon
  <2>1. a \in Received /\ a.count = executions[j].count
    BY ZenonT(40) DEF Received, CountInv, CountsGrow
  <2>2. a \in Received'
    BY ZenonT(40) DEF Received, Next, vars, futures, env, Enqueue, ClaimBatch, DispatchBatch,
           DispatchBatchFails, RependClaimed, Deliver, ReleaseClaim, Abandon,
           CompleteSuccess, CompleteFailure, Repend, LeaseExpires, RecoverStale,
           RecoverItem, CleanupAccepted, CleanupExecutions, Tick, Crash, Open
  <2>3. /\ j \in DOMAIN executions'
        /\ executions'[j].queue = executions[j].queue
        /\ \/ executions'[j] = executions[j]
           \/ executions'[j].dispatch # executions[j].dispatch
    BY Zenon, FailedRowStays DEF Exhausted
  <2>4. a \in LastAttempts'
    BY Zenon, <2>1, <2>2, <2>3 DEF LastAttempts, Exhausted
  <2>5. executions'[j] = executions[j]
    BY Zenon, <2>3, <2>4 DEF CountInv, LastHoldsClaim
  <2>6. j \in DOMAIN accepted'
    BY Zenon, <2>3 DEF FenceInv, Fenced
  <2>7. /\ accepted'[a.job].dispatch = a.dispatch
        /\ \A r \in (abandoning \cup repending)' : r.job = a.job => r.dispatch # a.dispatch
        /\ \A i \in recovering' : i.job = a.job /\ i.dispatch = a.dispatch => ~i.repend
    BY Zenon, <2>4 DEF CountInv, LastHoldsClaim
  <2>8. executions'[j].dispatch = a.dispatch
    BY Zenon, <2>5
  <2>9. Claimed(j, executions[j].dispatch)'
    BY Zenon, <2>6, <2>7, <2>8 DEF Claimed
  <2>10. ~WillRepend(j, executions[j].dispatch)'
    BY Zenon, <2>7, <2>8 DEF WillRepend
  <2>11. /\ executions'[j].status = "failed"
         /\ executions'[j].count > MaxRetries[executions'[j].queue]
    BY Zenon, <2>5 DEF Exhausted
  <2>. QED
    BY Zenon, <2>3, <2>9, <2>10, <2>11 DEF Exhausted
<1>. QED
  BY <1>1, CountInvariant, PTL DEF Spec, LastFailureIsFinal

=============================================================================
