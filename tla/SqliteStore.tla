----------------------------- MODULE SqliteStore -----------------------------
(***************************************************************************)
(* The durable store (crates/persistence/src/sqlite): two SQLite files,    *)
(* each written by one thread.  `accepted` is the table accepted_jobs of   *)
(* the ingest file, `executions` the table executions of the results file. *)
(* One transaction on one file is one action.  An operation of SqliteStore *)
(* that touches both files is several actions, and what it still has to do *)
(* is kept in the sets `claims`, `abandoning`, `repending`, `recovering`:  *)
(* these are the suspended futures of the server and a crash empties them. *)
(*                                                                         *)
(* dispatch_id is a fresh UUID for every claimed job.  Here the jobs of    *)
(* one claim share a number and the UUID is the pair of job and number;    *)
(* every fence in the code compares the job id as well.  A lease is        *)
(* abstracted to what recovery asks of it, whether it has expired; `now`   *)
(* is a coarse clock that only created_at, updated_at and the cut-off of   *)
(* the retention task are read from.                                       *)
(***************************************************************************)
EXTENDS Integers, FiniteSets

CONSTANTS
    MaxJobs,      \* bound: rows ever inserted into accepted_jobs
    Queues,       \* configured queue names
    MaxRetries,   \* job_queues.max_retries of each queue
    ClaimLimits,  \* values of the limit of claim_batch
    MaxDispatch,  \* bound: claims with a non-empty answer
    CleanupOn,    \* [persistence.cleanup] is configured
    Retention,    \* its retention, in ticks of the clock
    MaxTime,      \* bound: ticks of the clock
    MaxCrashes,   \* bound: crashes of the server process
    MaxFaults     \* bound: store calls answered with an error

ASSUME StoreAssumption ==
    /\ MaxJobs \in Nat /\ MaxDispatch \in Nat
    /\ MaxCrashes \in Nat /\ MaxFaults \in Nat
    /\ MaxRetries \in [Queues -> Nat]
    /\ ClaimLimits \subseteq Nat \ {0}
    /\ CleanupOn \in BOOLEAN /\ Retention \in Nat /\ MaxTime \in Nat

VARIABLES
    accepted,     \* table accepted_jobs: job id -> row
    executions,   \* table executions: job id -> row
    nextDispatch, \* the next fresh dispatch id
    claims,       \* claim_batch_inner calls past ingest.claim_batch
    delivering,   \* attempts the engine is writing to a worker
    delivered,    \* attempts a worker has received
    abandoning,   \* release_claim calls before results.abandon
    repending,    \* release_claim and complete calls before ingest.repend
    recovering,   \* items recover_stale_leases has still to process
    cleaning,     \* cut-off of a cleanup before its results half, or NULL
    now,          \* the clock
    up,           \* the server process is running
    crashes, faults

futures == <<claims, delivering, abandoning, repending, recovering,
             cleaning>>
env == <<now, up, crashes>>
vars == <<accepted, executions, nextDispatch, futures, delivered, env, faults>>

JobIds == 1..MaxJobs
NULL == 0
DispatchIds == Nat \ {NULL}

AcceptedRow == [queue: Queues, dispatch: Nat, created: Nat]
ExecutionRow == [queue: Queues, status: {"running", "completed", "failed"},
                 count: Nat \ {0}, lease: {"null", "live", "expired"},
                 dispatch: DispatchIds, updated: Nat]
Claim == [queue: Queues, jobs: SUBSET JobIds, dispatch: DispatchIds,
          step: {"dispatch", "repend"}]
Attempt == [job: JobIds, dispatch: DispatchIds, count: Nat \ {0}]
Recovered == [job: JobIds, dispatch: DispatchIds, repend: BOOLEAN]

Init ==
    /\ accepted = [j \in {} |-> NULL]
    /\ executions = [j \in {} |-> NULL]
    /\ nextDispatch = 1
    /\ claims = {} /\ delivering = {} /\ delivered = {}
    /\ abandoning = {} /\ repending = {} /\ recovering = {}
    /\ cleaning = NULL /\ now = 0
    /\ up = TRUE /\ crashes = 0 /\ faults = 0

-----------------------------------------------------------------------------
(***************************************************************************)
(* Rows and fences                                                         *)
(***************************************************************************)
Fault ==
    /\ faults < MaxFaults
    /\ faults' = faults + 1

Claimed(j, d) == j \in DOMAIN accepted /\ accepted[j].dispatch = d

\* Mutants of Running: the fence forgets the dispatch id.
RunningAnyDispatch(j, d) ==
    j \in DOMAIN executions /\ executions[j].status = "running"

Running(j, d) ==
    /\ j \in DOMAIN executions
    /\ executions[j].dispatch = d
    /\ executions[j].status = "running"

\* Mutant of Ended: a failed attempt is written back as pending.
EndedAsPending(row, status) ==
    [row EXCEPT !.status = IF status = "failed" THEN "pending" ELSE status]

\* The row of a running attempt once it has ended.
Ended(row, status) ==
    [row EXCEPT !.status = status, !.lease = "null", !.updated = now]

\* Mutants of Retryable: one retry too many, one too few.
RetryableOneMore(row) == row.count <= MaxRetries[row.queue] + 1
RetryableOneLess(row) == row.count < MaxRetries[row.queue]

\* execution_count <= max_retries: a failed attempt goes back to pending.
Retryable(row) == row.count <= MaxRetries[row.queue]

\* Mutant of Repended: the update forgets the dispatch id.
RependedUnfenced(j, d) ==
    IF j \in DOMAIN accepted THEN [accepted EXCEPT ![j].dispatch = NULL]
                             ELSE accepted

\* repend_batch: fenced by job id and dispatch id.
Repended(j, d) ==
    IF Claimed(j, d) THEN [accepted EXCEPT ![j].dispatch = NULL] ELSE accepted

-----------------------------------------------------------------------------
(***************************************************************************)
(* Submission and claim                                                    *)
(***************************************************************************)
\* The rowid SQLite gives to the next row: one more than the largest.
NextRowid(j) ==
    /\ \A i \in DOMAIN accepted : i < j
    /\ j = 1 \/ j - 1 \in DOMAIN accepted

\* One row of enqueue_batch.  created_at was read before the request queued.
Enqueue(q) ==
    /\ up
    /\ \E j \in JobIds, stamp \in {now - 1, now} \cap Nat :
        /\ NextRowid(j)
        /\ accepted' = [i \in DOMAIN accepted \cup {j} |->
                          IF i = j
                          THEN [queue |-> q, dispatch |-> NULL, created |-> stamp]
                          ELSE accepted[i]]
    /\ UNCHANGED <<executions, nextDispatch, futures, delivered, env, faults>>

Pending(q) ==
    {j \in DOMAIN accepted : accepted[j].queue = q /\ accepted[j].dispatch = NULL}

\* ORDER BY created_at ASC, id ASC
Before(i, j) ==
    \/ accepted[i].created < accepted[j].created
    \/ accepted[i].created = accepted[j].created /\ i < j

\* The rows the SELECT of ingest.claim_batch returns.
Selected(q, limit, batch) ==
    /\ batch # {}
    /\ Cardinality(batch) <= limit
    /\ batch = Pending(q) \/ Cardinality(batch) = limit
    /\ \A i \in batch, j \in Pending(q) \ batch : Before(i, j)

\* claim_batch_inner up to the commit of ingest.claim_batch.
ClaimBatch(q, limit) ==
    /\ up
    /\ nextDispatch <= MaxDispatch
    /\ \E batch \in SUBSET Pending(q) :
        /\ Selected(q, limit, batch)
        /\ accepted' = [j \in DOMAIN accepted |->
                          IF j \in batch
                          THEN [accepted[j] EXCEPT !.dispatch = nextDispatch]
                          ELSE accepted[j]]
        /\ claims' = claims \cup
             {[queue |-> q, jobs |-> batch, dispatch |-> nextDispatch,
               step |-> "dispatch"]}
    /\ nextDispatch' = nextDispatch + 1
    /\ UNCHANGED <<executions, delivering, delivered, abandoning, repending,
                   recovering, cleaning, env, faults>>

\* Mutant of Upsertable: the upsert has no WHERE clause.
UpsertableAny(c) == c.jobs

\* The rows of a claim the upsert of dispatch_batch writes.
Upsertable(c) ==
    {j \in c.jobs : j \in DOMAIN executions => executions[j].status = "failed"}

\* ON CONFLICT keeps the queue of the row and counts one execution more.
UpsertedRow(c, j) ==
    LET conflict == j \in DOMAIN executions IN
    [queue |-> IF conflict THEN executions[j].queue ELSE c.queue,
     count |-> IF conflict THEN executions[j].count + 1 ELSE 1,
     status |-> "running", lease |-> "live",
     dispatch |-> c.dispatch, updated |-> now]

\* results.dispatch.  The transaction commits whatever it could upsert and
\* only then reports the jobs it could not.
DispatchBatch(c) ==
    LET upserted == Upsertable(c) IN
    /\ c.step = "dispatch"
    /\ executions' = [j \in DOMAIN executions \cup upserted |->
                        IF j \in upserted THEN UpsertedRow(c, j)
                                          ELSE executions[j]]
    /\ \/ /\ upserted = c.jobs
          /\ claims' = claims \ {c}
          /\ delivering' = delivering \cup
               {[job |-> j, dispatch |-> c.dispatch,
                 count |-> UpsertedRow(c, j).count] : j \in c.jobs}
       \/ /\ upserted # c.jobs
          /\ claims' = (claims \ {c}) \cup {[c EXCEPT !.step = "repend"]}
          /\ UNCHANGED delivering
    /\ UNCHANGED <<accepted, nextDispatch, delivered, abandoning, repending,
                   recovering, cleaning, env, faults>>

\* results.dispatch fails and its transaction is rolled back.
DispatchBatchFails(c) ==
    /\ c.step = "dispatch"
    /\ Fault
    /\ claims' = (claims \ {c}) \cup {[c EXCEPT !.step = "repend"]}
    /\ UNCHANGED <<accepted, executions, nextDispatch, delivering, delivered,
                   abandoning, repending, recovering, cleaning, env>>

\* The claim without job j, or nothing when j was the last.
Without(c, j) ==
    IF c.jobs = {j} THEN {} ELSE {[c EXCEPT !.jobs = @ \ {j}]}

\* One turn of the loop that undoes a claim; the result of repend is ignored.
RependClaimed(c, j) ==
    /\ c.step = "repend" /\ j \in c.jobs
    /\ claims' = (claims \ {c}) \cup Without(c, j)
    /\ \/ accepted' = Repended(j, c.dispatch) /\ UNCHANGED faults
       \/ Fault /\ UNCHANGED accepted
    /\ UNCHANGED <<executions, nextDispatch, delivering, delivered, abandoning,
                   repending, recovering, cleaning, env>>

-----------------------------------------------------------------------------
(***************************************************************************)
(* The attempt's outcome                                                   *)
(***************************************************************************)
\* The engine's delivery task: the worker has received the dispatch.
Deliver(a) ==
    /\ delivering' = delivering \ {a}
    /\ delivered' = delivered \cup {a}
    /\ UNCHANGED <<accepted, executions, nextDispatch, claims, abandoning,
                   repending, recovering, cleaning, env, faults>>

\* The delivery failed: release_claim reads the accepted row.
ReleaseClaim(a) ==
    /\ delivering' = delivering \ {a}
    /\ \/ /\ Claimed(a.job, a.dispatch)
          /\ abandoning' = abandoning \cup {a}
          /\ UNCHANGED faults
       \/ ~Claimed(a.job, a.dispatch) /\ UNCHANGED <<abandoning, faults>>
       \/ Fault /\ UNCHANGED abandoning
    /\ UNCHANGED <<accepted, executions, nextDispatch, claims, delivered,
                   repending, recovering, cleaning, env>>

\* results.abandon: no retry limit is consulted.
Abandon(a) ==
    /\ abandoning' = abandoning \ {a}
    /\ \/ /\ executions' = IF Running(a.job, a.dispatch)
                           THEN [executions EXCEPT ![a.job] = Ended(@, "failed")]
                           ELSE executions
          /\ repending' = repending \cup {a}
          /\ UNCHANGED faults
       \/ Fault /\ UNCHANGED <<executions, repending>>
    /\ UNCHANGED <<accepted, nextDispatch, claims, delivering, delivered,
                   recovering, cleaning, env>>

\* results.complete for a success.
CompleteSuccess(a) ==
    /\ up
    /\ Running(a.job, a.dispatch)
    /\ executions' = [executions EXCEPT ![a.job] = Ended(@, "completed")]
    /\ UNCHANGED <<accepted, nextDispatch, futures, delivered, env, faults>>

\* results.complete for a failure: Repend or Completed.
CompleteFailure(a) ==
    /\ up
    /\ Running(a.job, a.dispatch)
    /\ executions' = [executions EXCEPT ![a.job] = Ended(@, "failed")]
    /\ repending' = IF Retryable(executions[a.job]) THEN repending \cup {a}
                                                    ELSE repending
    /\ UNCHANGED <<accepted, nextDispatch, claims, delivering, delivered,
                   abandoning, recovering, cleaning, env, faults>>

\* The last step of release_claim, complete and complete_worker_result.
Repend(a) ==
    /\ repending' = repending \ {a}
    /\ \/ accepted' = Repended(a.job, a.dispatch) /\ UNCHANGED faults
       \/ Fault /\ UNCHANGED accepted
    /\ UNCHANGED <<executions, nextDispatch, claims, delivering, delivered,
                   abandoning, recovering, cleaning, env>>

-----------------------------------------------------------------------------
(***************************************************************************)
(* Leases                                                                  *)
(***************************************************************************)
\* Time passes lease_expires_at.
LeaseExpires(j) ==
    /\ executions[j].status = "running"
    /\ executions[j].lease = "live"
    /\ executions' = [executions EXCEPT ![j].lease = "expired"]
    /\ UNCHANGED <<accepted, nextDispatch, futures, delivered, env, faults>>

Stale == {j \in DOMAIN executions :
            executions[j].status = "running" /\ executions[j].lease = "expired"}

\* results.recover_stale: one transaction fails every stale attempt.
RecoverStale ==
    /\ up
    /\ recovering = {} /\ Stale # {}
    /\ executions' = [j \in DOMAIN executions |->
                        IF j \in Stale THEN Ended(executions[j], "failed")
                                       ELSE executions[j]]
    /\ recovering' = {[job |-> j, dispatch |-> executions[j].dispatch,
                       repend |-> Retryable(executions[j])] : j \in Stale}
    /\ UNCHANGED <<accepted, nextDispatch, claims, delivering, delivered,
                   abandoning, repending, cleaning, env, faults>>

\* One turn of the loop of recover_stale_leases.  An error ends the loop, and
\* so does a job whose accepted row is gone.
RecoverItem(i) ==
    /\ \/ /\ recovering' = IF i.job \in DOMAIN accepted THEN recovering \ {i}
                                                      ELSE {}
          /\ accepted' = IF i.repend THEN Repended(i.job, i.dispatch) ELSE accepted
          /\ UNCHANGED faults
       \/ /\ Fault
          /\ recovering' = {}
          /\ \/ UNCHANGED accepted
             \/ i.repend /\ accepted' = Repended(i.job, i.dispatch)
    /\ UNCHANGED <<executions, nextDispatch, claims, delivering, delivered,
                   abandoning, repending, cleaning, env>>

-----------------------------------------------------------------------------
(***************************************************************************)
(* Retention, time and restart                                             *)
(***************************************************************************)
Tick ==
    /\ now < MaxTime
    /\ now' = now + 1
    /\ UNCHANGED <<accepted, executions, nextDispatch, futures, delivered, up,
                   crashes, faults>>

\* cleanup_expired_records, first half: DELETE FROM accepted_jobs.
CleanupAccepted ==
    /\ up /\ CleanupOn
    /\ cleaning = NULL /\ now > Retention
    /\ cleaning' = now - Retention
    /\ accepted' = [j \in {i \in DOMAIN accepted :
                            accepted[i].created >= now - Retention} |-> accepted[j]]
    /\ UNCHANGED <<executions, nextDispatch, claims, delivering, delivered,
                   abandoning, repending, recovering, env, faults>>

\* Second half: DELETE FROM executions, by the time of the last update.
CleanupExecutions ==
    /\ cleaning # NULL
    /\ cleaning' = NULL
    /\ \/ /\ executions' = [j \in {i \in DOMAIN executions :
                                    executions[i].updated >= cleaning} |->
                              executions[j]]
          /\ UNCHANGED faults
       \/ Fault /\ UNCHANGED executions
    /\ UNCHANGED <<accepted, nextDispatch, claims, delivering, delivered,
                   abandoning, repending, recovering, env>>

\* The process dies between two transactions; both files survive.
Crash ==
    /\ up
    /\ crashes < MaxCrashes
    /\ crashes' = crashes + 1
    /\ up' = FALSE
    /\ claims' = {} /\ delivering' = {}
    /\ abandoning' = {} /\ repending' = {} /\ recovering' = {}
    /\ cleaning' = NULL
    /\ UNCHANGED <<accepted, executions, nextDispatch, delivered, now, faults>>

\* Mutant of Orphans: any execution row of the job counts as its attempt.
OrphansWithoutRow ==
    {j \in DOMAIN accepted : accepted[j].dispatch # NULL /\ j \notin DOMAIN executions}

\* heal_orphan_claims: a claim without an execution of its dispatch id.
Orphans ==
    {j \in DOMAIN accepted :
        /\ accepted[j].dispatch # NULL
        /\ j \in DOMAIN executions => executions[j].dispatch # accepted[j].dispatch}

\* open_with_options_pair
Open ==
    /\ ~up
    /\ up' = TRUE
    /\ accepted' = [j \in DOMAIN accepted |->
                      IF j \in Orphans THEN [accepted[j] EXCEPT !.dispatch = NULL]
                                       ELSE accepted[j]]
    /\ UNCHANGED <<executions, nextDispatch, futures, delivered, now, crashes, faults>>

-----------------------------------------------------------------------------
Next ==
    \/ \E q \in Queues : Enqueue(q)
    \/ \E q \in Queues, n \in ClaimLimits : ClaimBatch(q, n)
    \/ \E c \in claims : DispatchBatch(c) \/ DispatchBatchFails(c)
    \/ \E c \in claims : \E j \in c.jobs : RependClaimed(c, j)
    \/ \E a \in delivering : Deliver(a) \/ ReleaseClaim(a)
    \/ \E a \in delivered : CompleteSuccess(a) \/ CompleteFailure(a)
    \/ \E a \in abandoning : Abandon(a)
    \/ \E a \in repending : Repend(a)
    \/ \E j \in DOMAIN executions : LeaseExpires(j)
    \/ RecoverStale
    \/ \E i \in recovering : RecoverItem(i)
    \/ CleanupAccepted \/ CleanupExecutions \/ Tick
    \/ Crash \/ Open

Spec == Init /\ [][Next]_vars

(***************************************************************************)
(* Both writer threads serve every request, every awaited call is resumed, *)
(* the scheduler probes its queues and runs recovery on a timer, and time  *)
(* passes.  Nothing is assumed of clients, of workers, or of a delivery    *)
(* other than that its write ends.                                         *)
(***************************************************************************)
Fairness ==
    /\ \A q \in Queues : WF_vars(\E n \in ClaimLimits : ClaimBatch(q, n))
    /\ WF_vars(\E c \in claims : DispatchBatch(c))
    /\ WF_vars(\E c \in claims : \E j \in c.jobs : RependClaimed(c, j))
    /\ WF_vars(\E a \in delivering : Deliver(a) \/ ReleaseClaim(a))
    /\ WF_vars(\E a \in abandoning : Abandon(a))
    /\ WF_vars(\E a \in repending : Repend(a))
    /\ WF_vars(\E j \in DOMAIN executions : LeaseExpires(j))
    /\ WF_vars(RecoverStale)
    /\ WF_vars(\E i \in recovering : RecoverItem(i))

-----------------------------------------------------------------------------
(***************************************************************************)
(* Properties                                                              *)
(***************************************************************************)
\* The shape of both tables and of the calls in flight.
TypeOK ==
    /\ DOMAIN accepted \subseteq JobIds
    /\ accepted \in [DOMAIN accepted -> AcceptedRow]
    /\ DOMAIN executions \subseteq JobIds
    /\ executions \in [DOMAIN executions -> ExecutionRow]
    /\ nextDispatch \in DispatchIds
    /\ claims \subseteq Claim
    /\ delivering \subseteq Attempt /\ delivered \subseteq Attempt
    /\ abandoning \subseteq Attempt /\ repending \subseteq Attempt
    /\ recovering \subseteq Recovered
    /\ cleaning \in Nat /\ now \in Nat
    /\ up \in BOOLEAN /\ crashes \in Nat /\ faults \in Nat

\* A job the ingest file offers to claim_batch has no running and no completed
\* attempt in the results file, so dispatch_batch can never commit a batch and
\* then report it as failed (retention off).
PendingIsFree ==
    \A j \in DOMAIN accepted \cap DOMAIN executions :
        accepted[j].dispatch = NULL => executions[j].status = "failed"

\* The two files agree on the fence: a running attempt holds the claim of its
\* job, so the result of that attempt is the only one that can settle the job
\* (retention off).
RunningHoldsClaim ==
    \A j \in DOMAIN executions :
        executions[j].status = "running" => Claimed(j, executions[j].dispatch)

\* Workers receive a job at most max_retries + 1 times, whatever mix of failed
\* deliveries, expired leases, late frames, errors and restarts happens, and
\* although abandon never looks at the retry limit (retention off).
ExecutionsBounded ==
    \A j \in DOMAIN accepted :
        Cardinality({a \in delivered : a.job = j})
            <= MaxRetries[accepted[j].queue] + 1

\* A job is completed only under a dispatch that a worker has received: a
\* late result of an older dispatch cannot complete the newer attempt.
CompletedWasDelivered ==
    \A j \in DOMAIN executions :
        executions[j].status = "completed" =>
            \E a \in delivered : a.job = j /\ a.dispatch = executions[j].dispatch

\* complete, abandon, recover_stale and dispatch_batch never change a
\* completed execution; only retention removes it.
CompletedIsFinal ==
    [][\A j \in DOMAIN executions :
         /\ executions[j].status = "completed"
         /\ j \in DOMAIN executions'
         => executions'[j] = executions[j]]_vars

\* Some call in flight will return job j to pending under dispatch d.
WillRepend(j, d) ==
    \/ \E a \in abandoning \cup repending : a.job = j /\ a.dispatch = d
    \/ \E i \in recovering : i.job = j /\ i.dispatch = d /\ i.repend

\* Some claim in flight still owns job j under dispatch d.
InClaim(j, d) == \E c \in claims : j \in c.jobs /\ c.dispatch = d

\* A claimed job always has an attempt of its dispatch id, or a claim that is
\* about to create one or to give the job back: claim_batch_inner undoes its
\* claim when dispatch fails, and heal_orphan_claims repairs every claim a
\* crash interrupted, even when an older attempt left an execution row.  Only
\* an error of that undo itself can break it, so it is claimed without faults.
ClaimsAreOwned ==
    up /\ faults = 0 =>
        \A j \in DOMAIN accepted :
            accepted[j].dispatch # NULL =>
                \/ InClaim(j, accepted[j].dispatch)
                \/ /\ j \in DOMAIN executions
                   /\ executions[j].dispatch = accepted[j].dispatch

\* A retryable failure is never forgotten: as long as no call fails and the
\* process lives, a claimed job whose attempt failed within max_retries has a
\* call in flight that returns it to pending (complete, release_claim and
\* recover_stale_leases all finish what they began in the results file).
RetriesAreOwned ==
    crashes + faults = 0 =>
        \A j \in DOMAIN accepted \cap DOMAIN executions :
            /\ executions[j].status = "failed"
            /\ Claimed(j, executions[j].dispatch)
            /\ executions[j].count <= MaxRetries[executions[j].queue]
            => WillRepend(j, executions[j].dispatch)

\* No call is in flight: whatever was begun has ended or was lost.
Quiescent == up /\ claims \cup delivering \cup abandoning \cup repending
                    \cup recovering = {}

\* "A retryable failure or failed delivery returns work to pending" (engine
\* README): once nothing is in flight, no claimed job is left with a failed
\* attempt that max_retries allows to be retried.
RetryableFailureReturnsToPending ==
    Quiescent =>
        \A j \in DOMAIN accepted \cap DOMAIN executions :
            ~ /\ executions[j].status = "failed"
              /\ Claimed(j, executions[j].dispatch)
              /\ executions[j].count <= MaxRetries[executions[j].queue]

\* Job j has failed for good: recovery or completion left it claimed because
\* its executions are used up, and no call is about to release it.
Exhausted(j) ==
    /\ j \in DOMAIN executions
    /\ executions[j].status = "failed"
    /\ executions[j].count > MaxRetries[executions[j].queue]
    /\ Claimed(j, executions[j].dispatch)
    /\ ~WillRepend(j, executions[j].dispatch)

\* A job that failed for good, and whose last attempt a worker has received,
\* stays failed: no release, repend or recovery of an older attempt, and no
\* restart, brings it back.  Without the delivery it need not: release_claim
\* asks for no retry limit (retention off).
LastFailureIsFinal ==
    [][\A j \in DOMAIN executions :
         /\ Exhausted(j)
         /\ \E a \in delivered : a.job = j /\ a.dispatch = executions[j].dispatch
         => Exhausted(j)']_vars

\* Every accepted job is settled: it completes, or it fails for good, although
\* workers may never answer and deliveries may fail.  The only ways out are a
\* failed call of the store, and to be pending when the bound on claims is used
\* up: each failed delivery costs one.
AcceptedJobsSettle ==
    \A j \in JobIds :
        j \in DOMAIN accepted ~>
            \/ faults > 0
            \/ nextDispatch > MaxDispatch /\ Claimed(j, NULL)
            \/ Exhausted(j)
            \/ j \in DOMAIN executions /\ executions[j].status = "completed"

-----------------------------------------------------------------------------
(***************************************************************************)
(* The store implements the lifecycle it promises                          *)
(***************************************************************************)
Phase(j) ==
    CASE j \notin DOMAIN accepted -> "absent"
      [] j \in DOMAIN accepted /\ accepted[j].dispatch = NULL -> "pending"
      [] j \in Orphans -> "claimed"
      [] OTHER -> executions[j].status

ExecutionsLeft(j) ==
    IF j \in DOMAIN accepted
    THEN MaxRetries[accepted[j].queue] + 1
           - Cardinality({a \in delivered : a.job = j})
    ELSE 0

Lifecycle == INSTANCE JobLifecycle WITH
    phase <- [j \in JobIds |-> Phase(j)],
    left <- [j \in JobIds |-> ExecutionsLeft(j)]

\* Every step of the store, crashes, errors and restarts included, is a step
\* of the lifecycle or leaves it alone (retention off).
ImplementsLifecycle == Lifecycle!Spec

=============================================================================
