# A TLA+ model of maqistor

maqistor is a durable job queue server. Clients submit jobs over HTTP, workers
connect over TLS and execute them, and two SQLite files keep the state. This
directory holds TLA+ modules translated from the Rust sources, the TLC runs that
check them on small instances, and TLAPS proofs of the main invariants for all
instances. `PROJECT.json` maps every definition to the lines it models and lists
runs, mutants, findings, hazards and theorems. Paths below are under `src/crates/`.

## The system

| Part | Source | Module |
|---|---|---|
| Durable store: jobs and attempts in two files | `persistence/src/sqlite/{store,ingest,results,common}.rs` | `SqliteStore`, abstractly `JobLifecycle` |
| `get_job`: composed reads of the two files | `persistence/src/sqlite/{store,common}.rs` | `GetJob` |
| Writer thread of the ingest file | `persistence/src/sqlite/ingest.rs` | `IngestWriter` |
| Writer thread of the results file, lane controller | `persistence/src/sqlite/{results,adaptive}.rs` | `ResultsWriter` |
| Batch size controllers of both writers | `persistence/src/sqlite/adaptive.rs`, `engine/src/adaptive.rs` | `AdaptiveBatch` |
| Engine: wakeups, passes, deliveries, probes, recovery | `engine/src/lib.rs` | `Scheduler` |
| Registry of workers, reservations, dispatch | `dispatcher/src/lib.rs` | `WorkerSessions` |
| Worker SDK session | `worker-sdk/src/lib.rs` | `WorkerSessions` |
| Supervisor of Docker workers | `dispatcher/src/lib.rs` | `Supervisor` |
| SQL helpers | `persistence/src/sqlite/bulk.rs` | not modelled |
| HTTP API, client SDK, protocol codec, configuration | `api`, `client-sdk`, `types`, `worker-protocol`, `maqistor` | not modelled |

A submitted job is a row of `accepted_jobs` in the ingest file. The engine wakes
the queue, a pass reserves worker slots, claims as many jobs as it got slots
(`dispatch_id` is set in the ingest file, then an attempt with that id is written
to the results file) and hands them to delivery tasks. A delivery writes the job
to the worker through its writer task; the result comes back as an event, and the
engine completes the attempt. The `dispatch_id` fences every step: whoever holds
an old one is ignored. Leases bound an attempt whose worker never answers.

## Modules

**`SqliteStore`.** One transaction on one file is one action. `accepted` and
`executions` are the two tables. An operation that touches both files is several
actions; between them it is an element of `claims`, `abandoning`, `repending`,
`recovering`, or `cleaning` is set. These stand for suspended futures: they
interleave freely, a failing call (`Fault`) ends them as the code's `?` or `let _`
does, and `Crash` empties them. `Open` is the restart with `heal_orphan_claims`.
`delivered` is a history of the attempts that reached a worker: any of them may
still produce a result, also a late or a second one. Time is abstracted: a lease
is live or expired, and `now` is a coarse clock read only by retention.
Rowids follow SQLite's rule for a table without AUTOINCREMENT.

**`JobLifecycle`.** What the store promises about a job: phases and the number of
executions left, without files or fences. `ImplementsLifecycle` in `SqliteStore`
maps `Phase(j)` and `ExecutionsLeft(j)` to it.

**`WorkerSessions`.** One queue, its registry rows, and for each connection the
handler task, the writer task with its outbound channel, both directions of the
wire, and the SDK session with its jobs and reports. A section under the registry
lock is one action; waiting for the acknowledgement of a write happens outside it
(`dispatching`). A connection may break at any point. The SDK reads frames in a
`select!` branch, so a frame may be half read (`partial`) when another branch runs.
The rejection of an unknown queue or a duplicate instance id changes no state, and
heartbeats only keep the read timeout away: neither is an action.

**`Scheduler`.** `SchedulerState` (scheduled, rerun, idle, idle_set), the wakeup
channel, `drain_pass`, delivery tasks with their budget, the idle probe, the result
listener, recovery. In `drain_pass` the reservation and each claim are a step, and so is each
permit that gets its budget, each job that is sent and each permit that is released
(`Reserve`, `Acquire`, `Claim`, `Send`, `ReleaseUnused`); deliveries, results and wakeups
come between them. Three sequences of the code remain one step: `try_acquire_owned` with the
release of the permit it was refused for; a refused `try_send` with what undoes it, which
`ClaimsFitChannel` shows not to happen; and `recover_stale_leases` with its wakeups. Jobs
are counted per queue and stage, and store and workers appear only as the answers they can
give. The loop over a hash set visits it in any order.

**`ResultsWriter`.** The loop of the results thread: its channel, the three queues,
turns of dispatch and completion, gathering a batch, and shutdown, together with
`ResultsLaneController`. Measured pressure is arbitrary, the batch size is that of
`AdaptiveBatch`. A caller that is cancelled leaves its request behind, so the last
handle may be dropped while requests wait.

**`AdaptiveBatch`.** The controllers of the batch size as operators on a record of
size, `DirectionStreak` and `low_fill_timeouts`, with the rounding and the limits of
the code; the factors are percentages. What is measured (commit duration, rates,
goodput) enters as the outcome of the comparison the code makes. `BatchOptions` is
what `validate` accepts. Both writers extend this module.

**`IngestWriter`.** The loop of the ingest thread. Requests are records with the queue
they name, because `queue_names` decides the answer of an enqueue. One receive, one
request served, one request gathered and one commit are an action each. Histories in
a request say whether it was sent after an upsert of its queue (`after`) and how many
batches were committed while it waited (`passed`). The history `line` holds the enqueues
that are not answered yet in the order of their calls, and loses its front when a batch is.

**`GetJob`.** Extends `SqliteStore` with one `get_job` call: the accepted row is read in
one step, the execution row in a later one, and any store step may come between. The
history `seen` collects what an instantaneous read would have answered meanwhile.
`Asked` is the set of jobs that are read; a call that has ended keeps only its answer
and `seen`.

**`Supervisor`.** One action per call to the Docker daemon: inspect or pull an image,
inspect, remove, create and start a container. Between two calls containers stop,
disappear or are put there by others, tags move, a call fails, or the server starts
again with another configuration. Env entries and mounts are both `settings`, and the
daemon reports them as it was given them. The histories `missing` and `moved` hold the names
that the process freed and has not filled, and whether a tag it had resolved was moved.

The `MC*` modules only give sets and functions for the constants.
The `*Proof` modules hold the theorems.

## Runs

All runs but `supervisor`, whose passes never end, say `CHECK_DEADLOCK FALSE`: the
bounds on submissions, claims, dispatches and callers run out, or a writer stops, and
the modelled part may then be still.

| Run | Instance | Shows |
|---|---|---|
| `store` | 2 jobs, one retry, 3 claims, 1 crash, 1 fault | the fences of the two files agree, workers execute a job at most `max_retries + 1` times, claims and retries always have an owner, a last failure stays final, the lifecycle is implemented |
| `store_retention` | 1 job id, used again, in queues of 0 and 1 retries; 3 claims, clock, 1 crash, 1 fault | completed attempts were delivered and stay while rows are deleted |
| `store_liveness` | 2 jobs of a queue with one retry, 2 claims, 1 fault, 1 reader of the first job | every accepted job settles, unless a call of the store fails or the bound on claims is used up; `get_job` answers a status the job had during the call |
| `sessions` | 1 worker of 2 slots, 4 dispatches, breaks, panics, split frames | slots are neither leaked nor overbooked, drains lose nothing and end, dispatch calls return |
| `scheduler` | 2 queues, budget 2, 2 slots, 1 job, 1 fault of any kind | one token per scheduled queue, no queue forgotten, slots and budget conserved at every permit of a pass |
| `scheduler_liveness` | 2 queues that share a budget of 1, 2 slots, 1 job in the first queue, 1 fault of a pass or a result | a pending job and an unoccupied slot of its queue meet unless the scheduler does not know the queue; a failed pass is repeated |
| `writer` | 4 preferred turns, channel 2, batches of 1 to 3, 3 callers | every call is in one place, the override bounds starvation, shutdown answers what was accepted |
| `ingest` | 2 queues, one unknown at first; channel 2, batches of 1 to 3, 3 callers, 1 fault | every call is in one place, enqueues keep their order, other requests wait for one batch at most, upserts take effect before later enqueues, shutdown answers all, the batch size keeps its limits and grows to the maximum under demand |
| `supervisor` | 2 queues, 2 configurations of 2 and 3 replicas, 2 images, 2 changes by hand, 2 faults, 1 restart | at most one replica is without the container that was removed for it; a container that is as configured is left alone; replicas end up as configured |

Why the bounds are enough for the cases that matter: two jobs in one claim are
needed to see one of a batch fail; three claims let an attempt be retried while an
older one still reports, and a crash fall on either; two claims let both jobs of a batch
use up their retry, which is what settles a job that never completes (three claims with
the reader are beyond a few minutes of TLC, and liveness is not checked after a failed
call, a crash or a deletion); the reader asks for one of the two jobs, because a read depends on the
rows of its own job alone and what can happen to the rows of the second can, up to the
numbers of its dispatches, happen to those of the first; it is run without crashes and retention, and proved for every `Asked` and
any number of crashes; two slots let two reports
overtake each other, and four dispatches use each slot again after a failure or a
late report. A budget of two lets a pass have a permit for each of two queues, or two for
one, and is short while a delivery has one of them; a permit that is refused before another
one gets its budget needs three queues and is left to the proof. A budget of one with two
queues makes every pass compete for it: `scheduler_liveness` gives slots to both and jobs to
the first (`Busy`), so the second only takes the budget away and gives it back. Its `FaultKinds` are a failing call
of a pass and a lost result, while a failed seed, a lost registration and the wakeup of a
dropped submission are free of any bound, so all of them meet in one behaviour. With
batches of one to three the size grows in single steps, each of which rounding down would
prevent, and three callers fill the channel while a request waits in a queue. Two
changes by hand let a name be freed and taken by another container within one pass, and two
faults let the creation of a replica fail in one pass and something else in the next. One
worker is enough for the slot accounting, which never relates two rows; the choice
among workers (`LessOrEqualLoad`) is part of the module, and no property depends on it.

Every property of a passing run has a mutant: a definition changed as a plausible
bug would change it (a fence without its dispatch id, a retry limit off by one, a
permit not returned), under which TLC finds the property violated.

### Disagreements with the documentation

Three runs expect a violation: the property is what a doc says of the program.

| Run | What happens |
|---|---|
| `store_crash_retry` | a crash between the failed attempt and the repend leaves a retryable job claimed for ever |
| `store_rowid_reuse` | after retention a new job inherits the id, and the execution row, of a deleted one |
| `sessions_cancelled_read` | a job that ends while a frame is half read ends the session |

The models also have these behaviours, which no run is spent on:

- Recovery (`store.rs:216`) leaves its loop at the first error; a job that retention
  has deleted is one. The remaining jobs stay claimed with a failed attempt.
  `RetriesAreOwned` is violated when it is checked with `CleanupOn = TRUE`.
- `release_claim` (`store.rs:203`) asks for no retry limit: a delivery that fails after
  its lease was recovered returns a job to pending that had failed for good. Hence the
  condition on the delivery in `LastFailureIsFinal`.
- Retention (`ingest.rs:323`) deletes by age, pending and running jobs included, where
  `maqistor.example.toml:28` speaks of terminal jobs.
- A worker can be reserved before `registered` is queued (`dispatcher/src/lib.rs:717`),
  so a dispatch may come first on the wire, unlike `PROTOCOL.md:20`.
- `handle_worker` inserts the row and then returns with `?` when `registered` cannot be
  written (`dispatcher/src/lib.rs:741`). The row stays, its slots are reserved and fail,
  where `dispatcher/README.md:13` says "Disconnects remove the worker."
- `get_job` may answer `failed` for a job that will be retried: between the failed attempt
  and the repend, and while the retry is claimed but not yet dispatched. A status it
  answers was real at that moment; it need not be final. While retention deletes rows, it may
  answer `pending` for a completed job whose execution row is already gone.
- Two queue names that `container_name` maps to one (`a.b` and `a-b`,
  `dispatcher/src/lib.rs:574`) replace each other's containers for ever if their images
  differ. `Converges` is violated with such a `Sanitized`.
- The image id of a tag is resolved once per process (`dispatcher/src/lib.rs:539`), a
  container is created from the tag. After the tag was moved and the container removed,
  the new container never matches and is replaced in every pass (`Moved` in `Converges`).
- A replica whose name is taken by a foreign container ends every pass there, so the
  replicas after it are not looked after (`Obstructed`, `dispatcher/src/lib.rs:417`).
- Env entries and mounts that leave the configuration are not noticed
  (`dispatcher/src/lib.rs:447`), and containers above a lowered `replicas` stay.
- The backlog the ingest controller sees is the length of the channel only, not of its
  queue (`ingest.rs:666`); `flush_ingest` at shutdown always finds the queue empty.
- If `list_queues` fails at start (`engine/src/lib.rs:451`), queues are not probed until
  something wakes them: `NoQueueForgotten` is stated for `seeded = "yes"`, and
  `PendingMeetsSlot` excepts such queues (`Unknown`). If the event of the registration is
  lost as well and the request that submitted a job is dropped before it wakes the queue,
  the job waits beside a free worker until another wakeup comes.
- `remove_container` takes a name (`dispatcher/src/lib.rs:478`), and the label was read by
  the call before. A container that is put there by hand between the two calls is removed,
  whoever it belongs to.
- A replica that is found but cannot be started is passed over (the error is ignored,
  `dispatcher/src/lib.rs:488`), so a pass may replace the next one while it is down:
  `OneMissingAtATime` is about the containers that were removed. It does not hold once a
  resolved tag is moved, because what was created then is outdated at once.
- `Converges` takes the daemon to report a mount as it was configured. A target such as
  `/certs/`, which `validate_managed_mounts` accepts (`maqistor/src/config.rs:505`), comes
  back as `/certs`; `ensure` would find it missing, and replace the container, in every pass.

## Fairness

- Store: both writer threads serve their requests, awaited calls are resumed, the
  scheduler keeps claiming and recovering, leases expire. Nothing is assumed of
  clients and workers; a delivery only has to end, either way.
- Sessions: tasks are scheduled, the wire delivers or is broken, handlers return. A
  worker that stops reading without breaking the connection is outside this: the code
  sets no limit on a write.
- Scheduler: tasks run. `tokio::select!` picks among ready branches at random, and a
  `HashSet` is seeded anew, so strong fairness holds for the probe, for a pass, and
  for each queue to come first in a reservation.
- Writers: the threads run. Nothing is assumed of callers or of the batch deadline, which
  may pass at any time.
- Supervisor: the task is polled and the daemon answers each call, rightly or with an
  error. Changes, errors and restarts are bounded, so they end.

## Proofs

Checked by TLAPS, for all values of the constants that satisfy the modules' `ASSUME`s.

- `SqliteStoreProof`: `TypeCorrect`, `CompletedStays` and `CompletedDelivered` hold
  with or without retention. `RunningHolds` and `PendingFree` need retention to be
  off, as `store_rowid_reuse` shows. Neither is inductive: `FenceInv` adds that all
  dispatch ids are older than `nextDispatch`, that a claim in flight holds its jobs
  and no attempt has its id yet, that an attempt is delivered or abandoned once, and
  that every attempt that will be repended has failed. With it each action is a few lines.
  `RetryLimit`, also without retention, is the bound on executions although `abandon`
  ignores the limit. `CountInv`, together with `FenceInv`, says that an attempt beyond the
  limit which a worker has received or may still receive is the last of its job: it
  holds the claim in both files, and nothing in flight will give it back. The same
  invariant gives `LastFailureStays`: such an attempt, once failed, is final.
- `SqliteStoreLifecycleProof`, all without retention: `ClaimsOwned` and `RetriesOwned`,
  inductive beside `FenceInv`, and `StoreImplementsLifecycle`. The refinement needs
  `NewestClaims`, that the claim of a job is never older than its execution: a late
  repend then finds its claim only if that attempt has failed. `DeliveredCount` bounds the
  attempts at one job, which keeps `ExecutionsLeft(j)` a natural number. Every action moves
  no job, or a set of jobs along one edge of the lifecycle (`Moves`).
- `ResultsWriterProof`: `ResultsCallsAreHeld` (`HeldInv` adds that no batch is open at the
  top of the loop) and `LanesAreServed`, for every `MaxTurns`. `LaneInv` bounds
  `skipped` by `preferred_turns` of the preferred lane. The bound is `MaxTurns + 1`,
  because the preference may turn round right after an override.
- `GetJobProof`: `ReadsAreLinearizable`, without retention. `ReadInv` says that until the
  second read the status it would give, with the claim that was read before, is one that
  an instantaneous read has given since. It rests on `FenceInv`: an attempt fails only
  while its claim is held.
- `IngestWriterProof`: `IngestTypes` (`ProbesInRange` and `ConfirmType` bound the controller
  for all factors), `CallsAreHeld` (with `PendingInTurn`: a batch exists only within a
  turn), `OvertakenAtMostOnce` (`OvertakeInv`: a turn begins only when no other
  request is waiting, so all that its commit overtakes arrived during the turn) and
  `UpsertsComeFirst` (`UpsertInv`: the upsert of an announced queue is known, in the meta
  queue, or ahead of the enqueue in the channel, and no turn is open with an upsert in
  the meta queue). `EnqueuesStayInOrder` needs `QueueTaken`: a batch that still takes from
  the channel has left nothing in the queue, because it took all of it or is full. That
  batch, queue and channel make up `line` is `InLine`, with one lemma for each way in
  which an enqueue moves; a position in the channel is turned into one in the line by counting
  the enqueues before it (`Rank`), so the lemmas rest on cardinalities and need no induction.
- `SchedulerProof`: `SchedulerTypes`, `ScheduledOnce`, `QueuesAreRemembered`,
  `PermitsAreConserved` and `ClaimsFitChannel`, for any number of queues, slots, jobs
  and faults. `WakeInv` is `OneToken` and `NoQueueForgotten` with two facts: between
  passes no queue is in the pass, and every name of `idle_set` has an entry in `idle`.
  `PermitInv` is the conservation law with `PassHolds`: only queues of a pass have
  reservations or hold permits, at most one claim is open, and it is no larger than what its
  queue holds. Every step but the reservation moves one unit from one place to another
  (`SlotMoves`, `ShareMoves`). From the law follows
  `ClaimsFitChannel`, which no run states: what is claimed and what is in the channel
  together are never more than the capacity. The sum over the queues is the cardinality of a
  set (`Units`), so the lemmas on sums (`TotalInc`, `TotalAdd`) rest on those on finite sets
  and need no induction over the queues.
- `WorkerSessionsProof`: `SessionTypes`, `WorkersAreNeverOverbooked`, `InFlightStaysExact`,
  `JobsNeverWaitForSlot`, `DrainingIsLast`, `IdleWorkersCanBeReserved` and
  `DrainReportsEverything`, for any number of workers, slots, dispatches, breaks and panics.
  One invariant, `SessionInv`, carries all seven. Its core is `Placed`: a dispatch is in
  at most one of the frames to the worker, its jobs, its reports and the results on the way
  back. `Booked` relates a row to the permits and the slots, `Covered` says that the row counts
  all the worker has or can still get, `Backed` the converse on a sound connection, `Fits` that
  it fits the slots also when the row is gone. `Snapshot` says that each reported number of
  running jobs leaves a slot, `Ended` and `Reported` what a drain guarantees, and `Waits`
  that a dispatch call which is told of a failure has left no frame. An action leaves all
  workers but its own as they were (`Apart`), and most give their own worker no dispatch it
  did not have (`Shrinks`).

- `SupervisorProof`: `ReplacedOneByOne` and `ConfiguredStays`, for all queues, replicas,
  images and configurations, and any number of changes by hand, errors and restarts.
  `SupervisorInv` says that the image of a tag is known before a container is compared with it,
  and pulled only while it is not. `ReplacedOneByOne` rests on `RollingInv`: while no resolved
  tag is moved, the cached ids are those of the tags, no replica that the pass has been over
  is to be replaced (`Clean`), and a missing name is that of a replica still ahead, with nothing
  to replace before it. So a pass that finds a container to remove finds it while no name is
  missing. Both theorems have one hypothesis, `NamesDistinct`: `container_name` gives
  different queues different names. The code does not ensure it, and without it two
  queues replace each other's containers (see above).

Only model-checked: liveness, because the provers do not reason about fairness and `ENABLED`.
Every safety invariant and action property of a passing run is also proved.

A theorem that excludes retention is false with it (`store_rowid_reuse`), or rests on a
fact that is.

## Not modelled

- Changes of a queue's retry limit while jobs exist, and the two files that hold it.
- Vacuum and the maintenance schedule: they depend on the wall clock and change no job.
- Waiting time of a batch and moving averages: floating point that decides when a batch is
  committed. The models let a deadline pass, and a comparison come out, at any time.
- TLS, CBOR framing (but for half-read frames), HTTP routing, JSON, SQL text and
  configuration parsing: conversions without state.
- More than one worker in a registry is in no run, see the bounds above; the theorems of
  `WorkerSessionsProof` hold for any number.
- The composition of `Scheduler`, `SqliteStore` and `WorkerSessions`. Each is checked
  alone, against every answer the others can give; no run states end to end that a
  submitted job is executed.
