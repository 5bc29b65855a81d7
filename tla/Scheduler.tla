------------------------------- MODULE Scheduler -------------------------------
(***************************************************************************)
(* The scheduler of crates/engine: the coalesced wakeups of queues, the    *)
(* pass that reserves worker slots, claims jobs and hands them to the      *)
(* delivery pump, the idle probe and the result listener.                  *)
(*                                                                         *)
(* A pass is several steps: each call of drain_pass that is awaited is one, *)
(* each permit that is acquired, sent or released is one, and everything   *)
(* else runs concurrently with it.  A section under the state lock and the *)
(* send on the channel that follows it are one action: the receiver may be *)
(* late anyhow.  The store and the workers are the external sides: jobs    *)
(* are counted per queue and stage, and a worker slot is free or taken.    *)
(***************************************************************************)
EXTENDS Integers, Sequences, FiniteSets, Functions

CONSTANTS
    Queues,
    MaxInFlight,   \* dispatch.max_delivery_in_flight
    BatchMax,      \* dispatch.batch_size_max
    ProbeBatch,    \* dispatch.idle_probe_batch_size
    Busy,          \* the queues that jobs are submitted to
    MaxJobs,       \* bound: jobs submitted
    MaxSlots,      \* bound: worker slots registered
    FaultKinds,    \* what may go wrong: a call of a pass ("pass"), the event of a
                   \* result ("event"), a worker ("worker"), a delivery
                   \* ("delivery"), an attempt of a job ("attempt"), its
                   \* completion ("completion")
    MaxFaults      \* bound: how often something of these kinds goes wrong

ASSUME SchedulerAssumption ==
    /\ IsFiniteSet(Queues) /\ Busy \subseteq Queues
    /\ {MaxInFlight, BatchMax, ProbeBatch} \subseteq Nat \ {0}
    /\ {MaxJobs, MaxSlots, MaxFaults} \subseteq Nat
    /\ FaultKinds \subseteq {"pass", "event", "worker", "delivery", "attempt",
                       "completion"}

VARIABLES
    scheduled,   \* SchedulerState.scheduled
    rerun,       \* the scheduled queues with QueueSchedule.rerun
    idle,        \* SchedulerState.idle
    idleSet,     \* SchedulerState.idle_set
    channel,     \* queue names sent to the scheduler task and not received
    retrying,    \* tasks that sleep before resume_retry
    seeded,      \* seed_idle_queues: "no", "yes" or "failed"
    phase,       \* the scheduler task: "select", "reserve", "acquire" or "serve"
    todo,        \* queues of the pass that are not finished
    perQueue,    \* slots the pass asks for per queue
    reserved,    \* slots the pass has reserved and has no budget for yet
    taking,      \* the queue, at most one, whose reservations get a budget now
    held,        \* permits with a budget that the pass holds
    claim,       \* what claim_batch answered for the queue being served, or none
    budget,      \* available permits of delivery_budget
    slots,       \* free worker slots
    pending,     \* jobs in the store that can be claimed
    waking,      \* events and tasks that lead to a call of schedule_queue
    queued,      \* DeliveryWork in the delivery channel
    delivering,  \* delivery tasks in dispatch
    undelivered, \* delivery tasks in release_claim
    returning,   \* delivery tasks about to call schedule_queue
    finishing,   \* delivery tasks that have scheduled but still hold a budget
    executing,   \* jobs at a worker
    completing,  \* results received, up to the end of complete_worker_result
    stale,       \* running jobs of which no result will come
    registered,  \* worker slots that are connected
    submitted, faults   \* what the bounds count

wakeups == <<scheduled, rerun, channel, idleSet>>
pass == <<phase, todo, perQueue, reserved, taking, held, claim>>
deliveries == <<queued, delivering, undelivered, returning, finishing>>
bounds == <<registered, submitted, faults>>
vars == <<wakeups, idle, retrying, seeded, pass, budget, slots, pending, waking,
          deliveries, executing, completing, stale, bounds>>

None == [q \in Queues |-> 0]
Inc(f, q) == [f EXCEPT ![q] = @ + 1]
Dec(f, q) == [f EXCEPT ![q] = @ - 1]
Lesser(m, n) == IF m < n THEN m ELSE n
Greater(m, n) == IF m > n THEN m ELSE n

\* The sum of a count per queue, as the number of what it counts.
Units(f) == UNION {{q} \X (1..f[q]) : q \in Queues}
Total(f) == Cardinality(Units(f))

\* The orders in which a loop over a hash set may visit it.
Orders(S) == Bijection(1..Cardinality(S), S)

Init ==
    /\ scheduled = {} /\ rerun = {} /\ idle = <<>> /\ idleSet = {}
    /\ channel = None /\ retrying = None /\ seeded = "no"
    /\ phase = "select" /\ todo = {} /\ perQueue = 0
    /\ reserved = None /\ taking = {} /\ held = None /\ claim = {}
    /\ budget = MaxInFlight /\ slots = None
    /\ pending = None /\ waking = None
    /\ queued = None /\ delivering = None /\ undelivered = None
    /\ returning = None /\ finishing = None
    /\ executing = None /\ completing = None /\ stale = None
    /\ submitted = 0 /\ registered = None /\ faults = 0

Fault(kind) ==
    /\ kind \in FaultKinds /\ faults < MaxFaults
    /\ faults' = faults + 1

-----------------------------------------------------------------------------
(***************************************************************************)
(* Wakeups                                                                 *)
(***************************************************************************)
\* schedule_queue for each queue of S.  The entry in `idle` stays behind.
ScheduleQueues(S) ==
    /\ scheduled' = scheduled \cup S
    /\ rerun' = rerun \cup (S \cap scheduled)
    /\ channel' = [q \in Queues |->
                     channel[q] + IF q \in S \ scheduled THEN 1 ELSE 0]
    /\ idleSet' = idleSet \ (S \ scheduled)

\* Mutant of Parked: the queue leaves `scheduled` although it was woken.
ParkedAlways(S, again) == S

\* The queues of a finished pass that leave `scheduled`.
Parked(S, again) == S \ again

\* Mutant of Entered: a queue that is parked is not entered in the deque.
EnteredNever(S) == {}

\* The parked queues that get an entry in `idle`.
Entered(S) == S \ idleSet

\* finish_pass for each queue of S: `again` are sent once more, `later` sleep
\* before that, the others are parked.  `sent` are the names in the channel.
FinishPass(S, again, later, sent) ==
    LET parked == Parked(S \ later, again) IN
    /\ scheduled' = scheduled \ parked
    /\ rerun' = rerun \ S
    /\ channel' = [q \in Queues |-> sent[q] + IF q \in again THEN 1 ELSE 0]
    /\ retrying' = [q \in Queues |-> retrying[q] + IF q \in later THEN 1 ELSE 0]
    /\ idleSet' = idleSet \cup parked
    /\ \E order \in Orders(Entered(parked)) : idle' = idle \o order

\* Mutant of Resumed: the queue of a failed pass is not sent again.
ResumedNever(q) == channel

Resumed(q) == IF q \in scheduled THEN Inc(channel, q) ELSE channel

\* resume_retry
ResumeRetry(q) ==
    /\ retrying[q] > 0
    /\ retrying' = Dec(retrying, q)
    /\ channel' = Resumed(q)
    /\ UNCHANGED <<scheduled, rerun, idleSet, idle, seeded, pass, budget, slots,
                   pending, waking, deliveries, executing, completing, stale, bounds>>

\* seed_idle_queues, the first thing the scheduler task does.
Seed ==
    /\ seeded = "no"
    /\ seeded' = "yes"
    /\ idleSet' = idleSet \cup Queues
    /\ \E order \in Orders(Queues \ idleSet) : idle' = idle \o order
    /\ UNCHANGED <<scheduled, rerun, channel, retrying, pass, budget, slots,
                   pending, waking, deliveries, executing, completing, stale, bounds>>

\* list_queues fails and the scheduler starts without any idle queue.
SeedFails ==
    /\ seeded = "no"
    /\ seeded' = "failed"
    /\ UNCHANGED <<wakeups, idle, retrying, pass, budget, slots, pending, waking,
                   deliveries, executing, completing, stale, bounds>>

\* The scheduler task waits in its select.
Selecting == seeded # "no" /\ phase = "select"

\* The entries among the first n that are not scheduled.
Unscheduled(n) == {i \in 1..n : idle[i] \notin scheduled}

\* One probe takes entries until ProbeBatch of them are not scheduled.
IsProbed(n) ==
    /\ n = Len(idle) \/ Cardinality(Unscheduled(n)) = ProbeBatch
    /\ \A m \in 0..(n - 1) : Cardinality(Unscheduled(m)) < ProbeBatch

\* Mutant of ProbedQueues: the probe takes the entries and schedules nothing.
ProbedQueuesNone(n) == {}

ProbedQueues(n) == {idle[i] : i \in Unscheduled(n)}

\* probe_idle_queues.  A queue with two entries is scheduled twice.
Probe ==
    /\ Selecting /\ idle # <<>>
    /\ \E n \in 1..Len(idle) :
        /\ IsProbed(n)
        /\ idle' = SubSeq(idle, n + 1, Len(idle))
        /\ idleSet' = idleSet \ {idle[i] : i \in 1..n}
        /\ scheduled' = scheduled \cup ProbedQueues(n)
        /\ rerun' = rerun \cup {q \in ProbedQueues(n) :
                       \E i, k \in 1..n : i # k /\ idle[i] = q /\ idle[k] = q}
        /\ channel' = [q \in Queues |->
                         channel[q] + IF q \in ProbedQueues(n) THEN 1 ELSE 0]
    /\ UNCHANGED <<retrying, seeded, pass, budget, slots, pending, waking,
                   deliveries, executing, completing, stale, bounds>>

-----------------------------------------------------------------------------
(***************************************************************************)
(* drain_pass                                                              *)
(***************************************************************************)
Received == {q \in Queues : channel[q] > 0}

\* The pass takes all names from the channel and reads the headroom: with none
\* left every queue is finished as blocked.
PassBlocked ==
    /\ Selecting /\ Received # {} /\ budget = 0
    /\ FinishPass(Received, Received \cap rerun, {}, None)
    /\ UNCHANGED <<seeded, pass, budget, slots, pending, waking,
                   deliveries, executing, completing, stale, bounds>>

PassStarts ==
    /\ Selecting /\ Received # {} /\ budget > 0
    /\ phase' = "reserve"
    /\ todo' = Received
    /\ perQueue' = Lesser(Greater(budget \div Cardinality(Received), 1), BatchMax)
    /\ channel' = None
    /\ UNCHANGED <<scheduled, rerun, idleSet, idle, retrying, seeded, reserved,
                   taking, held, claim, budget, slots, pending, waking,
                   deliveries, executing, completing, stale, bounds>>

\* What the dispatcher reserves for a queue.
Granted(q) == IF q \in todo THEN Lesser(perQueue, slots[q]) ELSE 0

Grants == [q \in Queues |-> Granted(q)]

\* dispatcher.reserve, one section under the lock of the registry.  The requests
\* have the order of a hash set, which is seeded anew for every pass: any queue
\* of the pass may come first.
Reserve(q) ==
    /\ phase = "reserve" /\ q \in todo
    /\ reserved' = Grants
    /\ slots' = [p \in Queues |-> slots[p] - Granted(p)]
    /\ IF Grants = None THEN phase' = "serve" /\ taking' = {}
                        ELSE phase' = "acquire" /\ taking' = {q}
    /\ UNCHANGED <<wakeups, idle, retrying, seeded, todo, perQueue, held, claim,
                   budget, pending, waking, deliveries, executing, completing,
                   stale, bounds>>

\* Mutant of Released: the slot of a permit that is given up stays reserved.
ReleasedNever(q) == slots

\* dispatcher.release
Released(q) == Inc(slots, q)

\* Mutant of Budgeted: a permit is kept whether or not a budget is left.
BudgetedAlways == TRUE

\* try_acquire_owned
Budgeted == budget > 0

\* The next permit of the loop over the reservations, which are in the order of
\* the queues: it gets a budget, or is released again when none is left.
Acquire(q) ==
    /\ phase = "acquire" /\ reserved[q] > 0
    /\ q \in taking \/ \A p \in taking : reserved[p] = 0
    /\ reserved' = Dec(reserved, q)
    /\ IF Budgeted
       THEN held' = Inc(held, q) /\ budget' = budget - 1 /\ UNCHANGED slots
       ELSE slots' = Released(q) /\ UNCHANGED <<held, budget>>
    /\ IF reserved' = None THEN phase' = "serve" /\ taking' = {}
                           ELSE phase' = "acquire" /\ taking' = {q}
    /\ UNCHANGED <<wakeups, idle, retrying, seeded, todo, perQueue, claim, pending,
                   waking, deliveries, executing, completing, stale, bounds>>

\* reserve fails: all queues of the pass are retried later.
ReserveFails ==
    /\ phase = "reserve" /\ Fault("pass")
    /\ phase' = "select" /\ todo' = {}
    /\ FinishPass(todo, {}, todo, channel)
    /\ UNCHANGED <<seeded, perQueue, reserved, taking, held, claim, budget, slots,
                   pending, waking, deliveries, executing, completing, stale,
                   submitted, registered>>

\* The pass is over once its last queue is.
QueueDone(q) ==
    /\ todo' = todo \ {q}
    /\ phase' = IF todo = {q} THEN "select" ELSE "serve"

\* The queue got no permit.
Blocked(q) ==
    /\ phase = "serve" /\ claim = {} /\ q \in todo /\ held[q] = 0
    /\ QueueDone(q)
    /\ FinishPass({q}, {q} \cap rerun, {}, channel)
    /\ UNCHANGED <<seeded, perQueue, reserved, taking, held, claim, budget, slots,
                   pending, waking, deliveries, executing, completing, stale, bounds>>

\* claim_batch with as many jobs as permits.
Claim(q) ==
    /\ phase = "serve" /\ claim = {} /\ q \in todo /\ held[q] > 0
    /\ LET n == Lesser(held[q], pending[q]) IN
       /\ claim' = {[queue |-> q, jobs |-> n,
                     outcome |-> IF n = held[q] THEN "active" ELSE "idle"]}
       /\ pending' = [pending EXCEPT ![q] = @ - n]
    /\ UNCHANGED <<wakeups, idle, retrying, seeded, phase, todo, perQueue, reserved,
                   taking, held, budget, slots, waking, deliveries, executing,
                   completing, stale, bounds>>

\* claim_batch fails: the permits are to be released and the queue retried later.
ClaimFails(q) ==
    /\ phase = "serve" /\ claim = {} /\ q \in todo /\ held[q] > 0 /\ Fault("pass")
    /\ claim' = {[queue |-> q, jobs |-> 0, outcome |-> "retry"]}
    /\ UNCHANGED <<wakeups, idle, retrying, seeded, phase, todo, perQueue, reserved,
                   taking, held, budget, slots, pending, waking, deliveries,
                   executing, completing, stale, submitted, registered>>

\* try_send for the next job claimed.  A job that the channel has no room for is
\* released and its queue woken.
Send(c) ==
    LET q == c.queue IN
    /\ c.jobs > 0
    /\ claim' = {[c EXCEPT !.jobs = @ - 1]}
    /\ held' = Dec(held, q)
    /\ IF Total(queued) < MaxInFlight
       THEN queued' = Inc(queued, q) /\ UNCHANGED <<wakeups, budget, slots, pending>>
       ELSE /\ slots' = Released(q) /\ budget' = budget + 1
            /\ pending' = Inc(pending, q)
            /\ ScheduleQueues({q})
            /\ UNCHANGED queued
    /\ UNCHANGED <<idle, retrying, seeded, phase, todo, perQueue, reserved, taking,
                   waking, delivering, undelivered, returning, finishing, executing,
                   completing, stale, bounds>>

\* A permit that no job was claimed for is released.
ReleaseUnused(c) ==
    LET q == c.queue IN
    /\ c.jobs = 0 /\ held[q] > 0
    /\ held' = Dec(held, q)
    /\ slots' = Released(q)
    /\ budget' = budget + 1
    /\ UNCHANGED <<wakeups, idle, retrying, seeded, phase, todo, perQueue, reserved,
                   taking, claim, pending, waking, deliveries, executing,
                   completing, stale, bounds>>

\* finish_pass for the queue that was served.
FinishQueue(c) ==
    LET q == c.queue
        later == IF c.outcome = "retry" THEN {q} ELSE {}
        again == IF c.outcome = "active" THEN {q} ELSE ({q} \cap rerun) \ later
    IN
    /\ c.jobs = 0 /\ held[q] = 0
    /\ claim' = {}
    /\ QueueDone(q)
    /\ FinishPass({q}, again, later, channel)
    /\ UNCHANGED <<seeded, perQueue, reserved, taking, held, budget, slots, pending,
                   waking, deliveries, executing, completing, stale, bounds>>

-----------------------------------------------------------------------------
(***************************************************************************)
(* The delivery pump and its tasks                                         *)
(***************************************************************************)
Pump(q) ==
    /\ queued[q] > 0
    /\ queued' = Dec(queued, q)
    /\ delivering' = Inc(delivering, q)
    /\ UNCHANGED <<wakeups, idle, retrying, seeded, pass, budget, slots, pending,
                   waking, undelivered, returning, finishing, executing,
                   completing, stale, bounds>>

\* dispatch has written the job to its worker, which may answer before the
\* delivery task goes on.
Delivered(q) ==
    /\ delivering[q] > 0
    /\ delivering' = Dec(delivering, q)
    /\ executing' = Inc(executing, q)
    /\ returning' = Inc(returning, q)
    /\ UNCHANGED <<wakeups, idle, retrying, seeded, pass, budget, slots, pending,
                   waking, queued, undelivered, finishing, completing, stale, bounds>>

\* dispatch fails, which gives the slot back, and the claim is to be released.
DeliveryFails(q) ==
    /\ delivering[q] > 0 /\ Fault("delivery")
    /\ delivering' = Dec(delivering, q)
    /\ undelivered' = Inc(undelivered, q)
    /\ slots' = Inc(slots, q)
    /\ UNCHANGED <<wakeups, idle, retrying, seeded, pass, budget, pending, waking,
                   queued, returning, finishing, executing, completing, stale,
                   submitted, registered>>

\* release_claim returns the job to pending; if it fails its lease must expire.
ReleaseClaim(q) ==
    /\ undelivered[q] > 0
    /\ undelivered' = Dec(undelivered, q)
    /\ returning' = Inc(returning, q)
    /\ \/ pending' = Inc(pending, q) /\ UNCHANGED stale
       \/ stale' = Inc(stale, q) /\ UNCHANGED pending
    /\ UNCHANGED <<wakeups, idle, retrying, seeded, pass, budget, slots, waking,
                   queued, delivering, finishing, executing, completing, bounds>>

\* The delivery task wakes its queue.  The budget is dropped only after that.
WakeDelivered(q) ==
    /\ returning[q] > 0
    /\ returning' = Dec(returning, q)
    /\ finishing' = Inc(finishing, q)
    /\ ScheduleQueues({q})
    /\ UNCHANGED <<idle, retrying, seeded, pass, budget, slots, pending, waking,
                   queued, delivering, undelivered, executing, completing, stale,
                   bounds>>

DropBudget(q) ==
    /\ finishing[q] > 0
    /\ finishing' = Dec(finishing, q)
    /\ budget' = budget + 1
    /\ UNCHANGED <<wakeups, idle, retrying, seeded, pass, slots, pending, waking,
                   queued, delivering, undelivered, returning, executing,
                   completing, stale, bounds>>

-----------------------------------------------------------------------------
(***************************************************************************)
(* Submissions, worker events and lease recovery                           *)
(***************************************************************************)
\* submit has committed the job and goes on to schedule_queue, unless the
\* request is dropped while it waits for the store.
Submit(q) ==
    /\ q \in Busy /\ submitted < MaxJobs
    /\ submitted' = submitted + 1
    /\ pending' = Inc(pending, q)
    /\ waking' \in {Inc(waking, q), waking}
    /\ UNCHANGED <<wakeups, idle, retrying, seeded, pass, budget, slots,
                   deliveries, executing, completing, stale, registered, faults>>

Wake(q) ==
    /\ waking[q] > 0
    /\ waking' = Dec(waking, q)
    /\ ScheduleQueues({q})
    /\ UNCHANGED <<idle, retrying, seeded, pass, budget, slots, pending,
                   deliveries, executing, completing, stale, bounds>>

\* A worker registers a slot.  Its event may be lost to a lagging listener.
WorkerRegisters(q) ==
    /\ Total(registered) < MaxSlots
    /\ registered' = Inc(registered, q)
    /\ slots' = Inc(slots, q)
    /\ waking' \in {Inc(waking, q), waking}
    /\ UNCHANGED <<wakeups, idle, retrying, seeded, pass, budget, pending,
                   deliveries, executing, completing, stale, submitted, faults>>

\* A worker answers: its slot is free, and the event reaches the listener, which
\* starts the completion and calls schedule_queue, in either order.
Result(q) ==
    /\ executing[q] > 0
    /\ executing' = Dec(executing, q)
    /\ slots' = Inc(slots, q)
    /\ completing' = Inc(completing, q)
    /\ waking' = Inc(waking, q)
    /\ UNCHANGED <<wakeups, idle, retrying, seeded, pass, budget, pending,
                   deliveries, stale, bounds>>

\* The listener lags and the result is lost.
ResultLost(q) ==
    /\ executing[q] > 0 /\ Fault("event")
    /\ executing' = Dec(executing, q)
    /\ slots' = Inc(slots, q)
    /\ stale' = Inc(stale, q)
    /\ UNCHANGED <<wakeups, idle, retrying, seeded, pass, budget, pending, waking,
                   deliveries, completing, registered, submitted>>

\* A worker disconnects, with its job or idle.
WorkerLost(q) ==
    /\ Fault("worker")
    /\ registered' = Dec(registered, q)
    /\ \/ /\ executing[q] > 0
          /\ executing' = Dec(executing, q)
          /\ stale' = Inc(stale, q)
          /\ UNCHANGED slots
       \/ /\ slots[q] > 0
          /\ slots' = Dec(slots, q)
          /\ UNCHANGED <<executing, stale>>
    /\ UNCHANGED <<wakeups, idle, retrying, seeded, pass, budget, pending,
                   waking, deliveries, completing, submitted>>

\* complete_worker_result ends the job, or returns it to pending and answers
\* that its queue is to be scheduled.  If it fails the job keeps its lease.
Complete(q) ==
    /\ completing[q] > 0
    /\ completing' = Dec(completing, q)
    /\ \/ UNCHANGED <<pending, waking, stale, faults>>
       \/ /\ Fault("attempt")
          /\ pending' = Inc(pending, q)
          /\ waking' = Inc(waking, q)
          /\ UNCHANGED stale
       \/ /\ Fault("completion")
          /\ stale' = Inc(stale, q)
          /\ UNCHANGED <<pending, waking>>
    /\ UNCHANGED <<wakeups, idle, retrying, seeded, pass, budget, slots,
                   deliveries, executing, registered, submitted>>

\* recover_stale_leases: some of the jobs return to pending, the others have no
\* attempt left.  When the call fails on its way no queue is scheduled.
Recover ==
    /\ Selecting /\ stale # None
    /\ stale' = None
    /\ \E back \in [Queues -> 0..MaxJobs] :
        /\ \A q \in Queues : back[q] <= stale[q]
        /\ pending' = [q \in Queues |-> pending[q] + back[q]]
        /\ \/ ScheduleQueues({q \in Queues : back[q] > 0})
           \/ UNCHANGED wakeups
    /\ UNCHANGED <<idle, retrying, seeded, pass, budget, slots, waking,
                   deliveries, executing, completing, bounds>>

-----------------------------------------------------------------------------
Next ==
    \/ Seed \/ SeedFails \/ Probe \/ Recover
    \/ PassBlocked \/ PassStarts \/ ReserveFails
    \/ \E c \in claim : Send(c) \/ ReleaseUnused(c) \/ FinishQueue(c)
    \/ \E q \in Queues :
        \/ ResumeRetry(q) \/ Reserve(q) \/ Acquire(q)
        \/ Blocked(q) \/ Claim(q) \/ ClaimFails(q)
        \/ Pump(q) \/ Delivered(q) \/ DeliveryFails(q) \/ ReleaseClaim(q)
        \/ WakeDelivered(q) \/ DropBudget(q)
        \/ Submit(q) \/ Wake(q) \/ WorkerRegisters(q)
        \/ Result(q) \/ ResultLost(q) \/ WorkerLost(q) \/ Complete(q)

Spec == Init /\ [][Next]_vars

(***************************************************************************)
(* Fairness: every task that can run does.  The branches of the scheduler's *)
(* select are chosen at random, so none that is ready again and again is   *)
(* passed over for ever: strong fairness.  Nor does the random order of a  *)
(* hash set put another queue first in every pass.  Submissions,           *)
(* registrations, results and faults are the environment's.                *)
(***************************************************************************)
Fairness ==
    /\ WF_vars(Seed)
    /\ SF_vars(Probe) /\ SF_vars(PassStarts \/ PassBlocked)
    /\ WF_vars(\/ \E q \in Queues : Reserve(q) \/ Acquire(q) \/ Blocked(q) \/ Claim(q)
               \/ \E c \in claim : Send(c) \/ ReleaseUnused(c) \/ FinishQueue(c))
    /\ \A q \in Queues :
        /\ SF_vars(Reserve(q))
        /\ WF_vars(ResumeRetry(q)) /\ WF_vars(Wake(q))
        /\ WF_vars(Pump(q)) /\ WF_vars(Delivered(q)) /\ WF_vars(ReleaseClaim(q))
        /\ WF_vars(WakeDelivered(q)) /\ WF_vars(DropBudget(q))

FairSpec == Spec /\ Fairness

-----------------------------------------------------------------------------
(***************************************************************************)
(* Properties                                                              *)
(***************************************************************************)
\* Every variable has its type.
TypeOK ==
    /\ scheduled \subseteq Queues /\ rerun \subseteq Queues
    /\ idle \in Seq(Queues) /\ idleSet \subseteq Queues
    /\ seeded \in {"no", "yes", "failed"}
    /\ phase \in {"select", "reserve", "acquire", "serve"}
    /\ todo \subseteq Queues /\ perQueue \in Nat /\ taking \subseteq Queues
    /\ claim \subseteq [queue: Queues, jobs: Nat, outcome: {"active", "idle", "retry"}]
    /\ budget \in Nat
    /\ \A f \in {channel, retrying, reserved, held, slots, pending, waking, queued,
                  delivering, undelivered, returning, finishing, executing,
                  completing, stale, registered} : f \in [Queues -> Nat]
    /\ submitted \in Nat /\ faults \in Nat

\* A queue that is scheduled is in exactly one place: in the channel, in the
\* pass, or sleeping before a retry.  A wakeup is neither lost nor doubled, so
\* one queue is never served twice in a pass (schedule_queue, finish_pass).
Tokens(q) == channel[q] + retrying[q] + IF q \in todo THEN 1 ELSE 0
OneToken ==
    \A q \in Queues : Tokens(q) = IF q \in scheduled THEN 1 ELSE 0

\* Once the idle queues have been seeded, every queue is scheduled or has an
\* entry that a probe will find, although schedule_queue leaves entries behind
\* and probes take entries of scheduled queues.
NoQueueForgotten ==
    seeded = "yes" => scheduled \cup Range(idle) = Queues

\* Each worker slot is free, reserved or held by the pass, or under one job, and
\* the delivery budget covers the permits of the pass and every delivery that has
\* not ended: wherever the loops of drain_pass are, and whatever deliveries and
\* results do meanwhile, no reservation or budget permit is lost or released twice.
PermitsConserved ==
    /\ \A q \in Queues :
         slots[q] + reserved[q] + held[q] + queued[q] + delivering[q] + executing[q]
           = registered[q]
    /\ budget + Total(held) + Total(queued) + Total(delivering) + Total(undelivered)
              + Total(returning) + Total(finishing) = MaxInFlight

\* list_queues failed when the scheduler started and nothing has woken the queue:
\* the scheduler has never heard of it.
Unknown(q) == seeded = "failed" /\ q \notin scheduled \cup Range(idle)

\* The slots of a queue that no job is under, those that a pass holds included.
Unoccupied(q) == slots[q] + reserved[q] + held[q]

\* A pending job and a slot of its queue that no job is under do not wait for
\* each other for ever, whichever wakeups were lost and although another queue
\* takes the delivery budget, unless the scheduler does not know the queue
\* (probe_idle_queues, and the order of the reservations in drain_pass).
PendingMeetsSlot ==
    \A q \in Queues : []<>(pending[q] = 0 \/ Unoccupied(q) = 0 \/ Unknown(q))

\* A queue whose reservation or claim failed gets another pass.
FailedPassIsRetried == \A q \in Queues : retrying[q] > 0 ~> q \in todo
=============================================================================
