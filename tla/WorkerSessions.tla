---------------------------- MODULE WorkerSessions ----------------------------
(***************************************************************************)
(* The workers of one queue: the registry of crates/dispatcher, which      *)
(* reserves slots and hands dispatches to a writer task per connection,    *)
(* the wire, and the session of crates/worker-sdk at the other end.  The   *)
(* registry only ever compares workers of one queue, so one is enough.     *)
(*                                                                         *)
(* A section under the registry lock is one action.  A dispatch waits for  *)
(* the writer's acknowledgement outside the lock: these calls are the set  *)
(* `dispatching`.  A connection has a fresh instance id, as the SDK makes  *)
(* it.  Both directions of the wire are FIFO; once a worker is in `broken` *)
(* what is on the wire may or may not still arrive, writes may fail and    *)
(* both ends may notice at any time (a read error or the 15 s timeout).    *)
(***************************************************************************)
EXTENDS Integers, Sequences, FiniteSets

CONSTANTS
    Workers,      \* worker sessions, by instance id
    Concurrency,  \* the slots each of them registers with
    MaxDispatch,  \* bound: dispatches
    SplitFrames,  \* a dispatch may span several TLS records
    Panics        \* a job handler may panic

ASSUME SessionAssumption ==
    /\ Concurrency \in [Workers -> Nat \ {0}]
    /\ MaxDispatch \in Nat
    /\ SplitFrames \in BOOLEAN /\ Panics \in BOOLEAN

VARIABLES
    registry,    \* WorkerRegistry: instance id -> WorkerState
    permits,     \* reservations the engine holds for a worker
    nextId,      \* the dispatch id of the next delivery
    handler,     \* handle_worker task of a connection
    writer,      \* its writer task is running
    outbound,    \* the channel to the writer task
    dispatching, \* dispatch calls past the registry lock
    down, up,    \* the wire to the worker, and back
    broken,      \* workers whose connection has failed
    sdk,         \* Worker::run_until
    jobs,        \* accepted dispatches whose handler has not ended
    partial,     \* workers that have read part of the next frame
    reporting,   \* reports between reading the free slots and sending
    accepted,    \* history: dispatches the worker ever spawned
    answered     \* history: results that reached the registry

engine == <<permits, nextId>>
server == <<registry, handler, writer, outbound, dispatching, answered>>
worker == <<sdk, jobs, partial, reporting, accepted>>
vars == <<engine, server, worker, down, up, broken>>

DispatchIds == 1..MaxDispatch
WorkerState == [reserved: Nat, running: Nat, inflight: SUBSET DispatchIds,
                draining: BOOLEAN]
ToWorker == [type: {"registered", "draining"}] \cup [type: {"job"}, id: DispatchIds]
ToServer == [type: {"drain"}] \cup [type: {"result"}, id: DispatchIds, running: Nat]
Dispatching == [worker: Workers, id: DispatchIds, ack: {"wait", "err"}]
Report == [id: DispatchIds, running: Nat]

Registered == [type |-> "registered"]
Draining == [type |-> "draining"]
Job(id) == [type |-> "job", id |-> id]
Drain == [type |-> "drain"]

Init ==
    /\ registry = [w \in {} |-> 0]
    /\ permits = [w \in Workers |-> 0]
    /\ nextId = 1
    /\ handler = [w \in Workers |-> "none"]
    /\ writer = [w \in Workers |-> FALSE]
    /\ outbound = [w \in Workers |-> <<>>]
    /\ dispatching = {} /\ broken = {} /\ answered = {} /\ partial = {}
    /\ down = [w \in Workers |-> <<>>] /\ up = [w \in Workers |-> <<>>]
    /\ sdk = [w \in Workers |-> "none"]
    /\ jobs = [w \in Workers |-> {}] /\ reporting = [w \in Workers |-> {}]
    /\ accepted = [w \in Workers |-> {}]

-----------------------------------------------------------------------------
(***************************************************************************)
(* Capacity                                                                *)
(***************************************************************************)
Greater(m, n) == IF m > n THEN m ELSE n

\* Mutant of UsedSlots: only what the worker last reported counts.
UsedSlotsReported(w) == registry[w].reserved + registry[w].running

UsedSlots(w) ==
    registry[w].reserved
      + Greater(registry[w].running, Cardinality(registry[w].inflight))

\* capacity_slots is running_jobs + free_slots of the registration.
AvailableSlots(w) == Concurrency[w] - UsedSlots(w)

\* compare_load: used slots relative to capacity.
LessOrEqualLoad(v, w) ==
    UsedSlots(v) * Concurrency[w] <= UsedSlots(w) * Concurrency[v]

Candidates ==
    {w \in DOMAIN registry : ~registry[w].draining /\ AvailableSlots(w) > 0}

\* find_ideal_worker and one reserved slot.  A request for n slots is n such
\* steps under one lock.
Reserve(w) ==
    /\ w \in Candidates
    /\ \A v \in Candidates : LessOrEqualLoad(w, v)
    /\ registry' = [registry EXCEPT ![w].reserved = @ + 1]
    /\ permits' = [permits EXCEPT ![w] = @ + 1]
    /\ UNCHANGED <<nextId, handler, writer, outbound, dispatching, answered,
                   worker, down, up, broken>>

\* Mutant of Freed: the slot is given back twice, and not saturating.
FreedTwice(w) ==
    IF w \in DOMAIN registry THEN [registry EXCEPT ![w].reserved = @ - 2] ELSE registry

\* reserved_slots.saturating_sub(1), if the worker is still registered.
Freed(w) ==
    IF w \in DOMAIN registry
    THEN [registry EXCEPT ![w].reserved = IF @ > 0 THEN @ - 1 ELSE 0]
    ELSE registry

\* release_permit
Release(w) ==
    /\ permits[w] > 0
    /\ permits' = [permits EXCEPT ![w] = @ - 1]
    /\ registry' = Freed(w)
    /\ UNCHANGED <<nextId, handler, writer, outbound, dispatching, answered,
                   worker, down, up, broken>>

\* Mutant of Accepts: the draining flag is not looked at again.
AcceptsDraining(w) == w \in DOMAIN registry

\* A permit may still be used: the worker is registered and not draining.
Accepts(w) == w \in DOMAIN registry /\ ~registry[w].draining

\* dispatch under the lock: the frame goes to the writer task while it lives.
DispatchQueued(w) ==
    /\ permits[w] > 0 /\ nextId \in DispatchIds
    /\ Accepts(w) /\ writer[w]
    /\ registry' = [Freed(w) EXCEPT ![w].inflight = @ \cup {nextId}]
    /\ outbound' = [outbound EXCEPT ![w] = Append(@, Job(nextId))]
    /\ dispatching' = dispatching \cup {[worker |-> w, id |-> nextId, ack |-> "wait"]}
    /\ permits' = [permits EXCEPT ![w] = @ - 1]
    /\ nextId' = nextId + 1
    /\ UNCHANGED <<handler, writer, answered, worker, down, up, broken>>

\* dispatch fails: the worker is gone, draining, or its writer has stopped.
DispatchRefused(w) ==
    /\ permits[w] > 0 /\ nextId \in DispatchIds
    /\ ~Accepts(w) \/ ~writer[w]
    /\ registry' = Freed(w)
    /\ permits' = [permits EXCEPT ![w] = @ - 1]
    /\ nextId' = nextId + 1
    /\ UNCHANGED <<handler, writer, outbound, dispatching, answered, worker,
                   down, up, broken>>

\* release_dispatched
ReleaseInflight(w, id) ==
    IF w \in DOMAIN registry
    THEN [registry EXCEPT ![w].inflight = @ \ {id}]
    ELSE registry

\* The write failed: dispatch takes the lock again before it returns the error.
DispatchFailed(d) ==
    /\ d.ack = "err"
    /\ dispatching' = dispatching \ {d}
    /\ registry' = ReleaseInflight(d.worker, d.id)
    /\ UNCHANGED <<engine, handler, writer, outbound, answered, worker, down,
                   up, broken>>

-----------------------------------------------------------------------------
(***************************************************************************)
(* handle_worker and its writer task                                       *)
(***************************************************************************)
\* The worker connects and its registration inserts the row.
Register(w) ==
    /\ sdk[w] = "none"
    /\ sdk' = [sdk EXCEPT ![w] = "serving"]
    /\ registry' = [v \in DOMAIN registry \cup {w} |->
                      IF v = w THEN [reserved |-> 0, running |-> 0,
                                     inflight |-> {}, draining |-> FALSE]
                               ELSE registry[v]]
    /\ handler' = [handler EXCEPT ![w] = "inserted"]
    /\ writer' = [writer EXCEPT ![w] = TRUE]
    /\ UNCHANGED <<engine, outbound, dispatching, answered, jobs, partial,
                   reporting, accepted, down, up, broken>>

\* Past the lock, the reply goes to the writer task.
Reply(w) ==
    /\ handler[w] = "inserted"
    /\ \/ /\ writer[w]
          /\ handler' = [handler EXCEPT ![w] = "registering"]
          /\ outbound' = [outbound EXCEPT ![w] = Append(@, Registered)]
       \/ /\ ~writer[w]
          /\ handler' = [handler EXCEPT ![w] = "gone"]
          /\ UNCHANGED outbound
    /\ UNCHANGED <<engine, registry, writer, dispatching, answered, worker,
                   down, up, broken>>

\* The writer task writes one frame and acknowledges it.
Write(w) ==
    LET frame == Head(outbound[w]) IN
    /\ writer[w] /\ outbound[w] # <<>>
    /\ outbound' = [outbound EXCEPT ![w] = Tail(@)]
    /\ down' = [down EXCEPT ![w] = Append(@, frame)]
    /\ handler' = IF frame = Registered THEN [handler EXCEPT ![w] = "serving"]
                                        ELSE handler
    /\ dispatching' = {d \in dispatching : ~(d.worker = w /\ frame = Job(d.id))}
    /\ UNCHANGED <<engine, registry, writer, answered, worker, up, broken>>

\* The connection is closed or lost at the other end.
Lost(w) == w \in broken \/ sdk[w] \in {"done", "stopped"}

\* Mutant of AfterFailedWrite: a dispatch is not told that its frame is lost.
AfterFailedWriteSilent(w) == dispatching

\* The acknowledgements of all the frames the writer task drops.
AfterFailedWrite(w) ==
    {IF d.worker = w THEN [d EXCEPT !.ack = "err"] ELSE d : d \in dispatching}

\* A write fails: the writer task ends and drops its channel.  A registration
\* that was still waiting for its reply returns at once.
WriteFails(w) ==
    /\ writer[w] /\ outbound[w] # <<>> /\ Lost(w)
    /\ writer' = [writer EXCEPT ![w] = FALSE]
    /\ outbound' = [outbound EXCEPT ![w] = <<>>]
    /\ dispatching' = AfterFailedWrite(w)
    /\ handler' = [handler EXCEPT ![w] = IF @ = "registering" THEN "gone" ELSE @]
    /\ UNCHANGED <<engine, registry, answered, worker, down, up, broken>>

Unregistered(w) == [v \in DOMAIN registry \ {w} |-> registry[v]]

\* Mutant of RecordWorkerResult: the dispatch stays in flight.
RecordRunningOnly(w, frame) == [registry EXCEPT ![w].running = frame.running]

RecordWorkerResult(w, frame) ==
    [registry EXCEPT ![w].running = frame.running, ![w].inflight = @ \ {frame.id}]

\* A job_result frame.
ReadResult(w) ==
    LET frame == Head(up[w]) IN
    /\ handler[w] = "serving" /\ up[w] # <<>> /\ frame.type = "result"
    /\ registry' = RecordWorkerResult(w, frame)
    /\ answered' = answered \cup {frame.id}
    /\ up' = [up EXCEPT ![w] = Tail(@)]
    /\ UNCHANGED <<engine, handler, writer, outbound, dispatching, worker, down,
                   broken>>

\* Mutant of DrainReply: the worker is marked as draining but never told.
DrainReplyMissing == <<>>

DrainReply == <<Draining>>

\* begin_drain, which ends the session if the writer task has stopped.
ReadDrain(w) ==
    /\ handler[w] = "serving" /\ up[w] # <<>> /\ Head(up[w]) = Drain
    /\ up' = [up EXCEPT ![w] = Tail(@)]
    /\ \/ /\ writer[w]
          /\ registry' = [registry EXCEPT ![w].draining = TRUE]
          /\ outbound' = [outbound EXCEPT ![w] = @ \o DrainReply]
          /\ UNCHANGED handler
       \/ /\ ~writer[w]
          /\ registry' = Unregistered(w)
          /\ handler' = [handler EXCEPT ![w] = "gone"]
          /\ UNCHANGED outbound
    /\ UNCHANGED <<engine, writer, dispatching, answered, worker, down, broken>>

\* The reader fails or times out: the session ends and the row is removed.
Disconnect(w) ==
    /\ handler[w] = "serving"
    /\ w \in broken \/ (Lost(w) /\ up[w] = <<>>)
    /\ handler' = [handler EXCEPT ![w] = "gone"]
    /\ registry' = Unregistered(w)
    /\ UNCHANGED <<engine, writer, outbound, dispatching, answered, worker, down,
                   up, broken>>

\* External: the network fails.
Break(w) ==
    /\ sdk[w] # "none" /\ w \notin broken
    /\ broken' = broken \cup {w}
    /\ UNCHANGED <<engine, server, worker, down, up>>

-----------------------------------------------------------------------------
(***************************************************************************)
(* The session of the worker SDK                                           *)
(***************************************************************************)
Alive(w) == sdk[w] \in {"serving", "awaiting", "draining"}

\* read_async_frame has consumed the head of the next frame and waits for the
\* rest of it.
SdkReadPart(w) ==
    /\ SplitFrames
    /\ Alive(w) /\ w \notin partial
    /\ down[w] # <<>> /\ Head(down[w]).type = "job"
    /\ partial' = partial \cup {w}
    /\ UNCHANGED <<engine, server, sdk, jobs, reporting, accepted, down, up,
                   broken>>

\* The session ends with an error: the JoinSet aborts the jobs.
Stops(w) ==
    /\ sdk' = [sdk EXCEPT ![w] = "stopped"]
    /\ jobs' = [jobs EXCEPT ![w] = {}]
    /\ reporting' = [reporting EXCEPT ![w] = {}]
    /\ partial' = partial \ {w}

\* serve takes a frame.  A dispatch after `draining` is an unexpected frame.
SdkRead(w) ==
    LET frame == Head(down[w]) IN
    /\ Alive(w) /\ down[w] # <<>>
    /\ down' = [down EXCEPT ![w] = Tail(@)]
    /\ IF frame.type = "job" /\ sdk[w] = "draining"
       THEN Stops(w) /\ UNCHANGED accepted
       ELSE /\ sdk' = [sdk EXCEPT ![w] = IF frame = Draining THEN "draining" ELSE @]
            /\ jobs' = [jobs EXCEPT ![w] =
                          @ \cup {id \in DispatchIds : frame = Job(id)}]
            /\ accepted' = [accepted EXCEPT ![w] =
                              @ \cup {id \in DispatchIds : frame = Job(id)}]
            /\ partial' = partial \ {w}
            /\ UNCHANGED reporting
    /\ UNCHANGED <<engine, server, up, broken>>

\* The shutdown future resolves and drain is written.  A read under way is
\* dropped with the bytes it had consumed, and the next one finds no frame.
Shutdown(w) ==
    /\ sdk[w] = "serving"
    /\ up' = [up EXCEPT ![w] = Append(@, Drain)]
    /\ IF w \in partial
       THEN Stops(w)
       ELSE /\ sdk' = [sdk EXCEPT ![w] = "awaiting"]
            /\ UNCHANGED <<jobs, partial, reporting>>
    /\ UNCHANGED <<engine, server, accepted, down, broken>>

\* Mutant of Snapshots: the slots are read before the job's own is dropped.
SnapshotsWithOwnSlot(w) == 0..Cardinality(jobs[w])

\* What report can find taken of the semaphore: the slots of the other jobs,
\* those that have not taken one yet not counted.
Snapshots(w) ==
    {running \in 0..Concurrency[w] : running < Cardinality(jobs[w])}

\* The handler of a job ends and its slot is free; report reads the semaphore.
FinishJob(w, id) ==
    /\ id \in jobs[w]
    /\ jobs' = [jobs EXCEPT ![w] = @ \ {id}]
    /\ \E running \in Snapshots(w) :
        reporting' = [reporting EXCEPT ![w] = @ \cup {[id |-> id, running |-> running]}]
    /\ UNCHANGED <<engine, server, sdk, partial, accepted, down, up, broken>>

\* send_and_wait of a result, after which the task is joined: that too drops a
\* read under way.  Reports may overtake each other.
SendResult(w, r) ==
    /\ r \in reporting[w]
    /\ up' = [up EXCEPT ![w] =
                Append(@, [type |-> "result", id |-> r.id, running |-> r.running])]
    /\ IF w \in partial
       THEN Stops(w)
       ELSE /\ reporting' = [reporting EXCEPT ![w] = @ \ {r}]
            /\ UNCHANGED <<sdk, jobs, partial>>
    /\ UNCHANGED <<engine, server, accepted, down, broken>>

\* Mutant of Drained: results still being written are not waited for.
DrainedEarly(w) == sdk[w] = "draining" /\ jobs[w] = {}

\* serve has been told that no dispatch follows and its JoinSet is empty.
Drained(w) == sdk[w] = "draining" /\ jobs[w] = {} /\ reporting[w] = {}

SdkDone(w) ==
    /\ Drained(w)
    /\ sdk' = [sdk EXCEPT ![w] = "done"]
    /\ UNCHANGED <<engine, server, jobs, partial, reporting, accepted, down, up,
                   broken>>

\* A read or a write fails, or a job handler panics.
SdkStops(w) ==
    /\ Alive(w)
    /\ w \in broken \/ (Panics /\ jobs[w] # {})
    /\ Stops(w)
    /\ UNCHANGED <<engine, server, accepted, down, up, broken>>

-----------------------------------------------------------------------------
Next ==
    \/ \E w \in Workers :
        \/ Reserve(w) \/ Release(w) \/ DispatchQueued(w) \/ DispatchRefused(w)
        \/ Register(w) \/ Reply(w) \/ Write(w) \/ WriteFails(w)
        \/ ReadResult(w) \/ ReadDrain(w) \/ Disconnect(w) \/ Break(w)
        \/ SdkReadPart(w) \/ SdkRead(w) \/ Shutdown(w) \/ SdkDone(w) \/ SdkStops(w)
        \/ \E id \in jobs[w] : FinishJob(w, id)
        \/ \E r \in reporting[w] : SendResult(w, r)
    \/ \E d \in dispatching : DispatchFailed(d)

Spec == Init /\ [][Next]_vars

(***************************************************************************)
(* Fairness: the tasks of both processes are scheduled, the wire delivers  *)
(* what is written (or breaks), and job handlers return.  Nothing forces a *)
(* reservation, a break, a panic or a shutdown.                            *)
(***************************************************************************)
SessionFairness(w) ==
    /\ WF_vars(Reply(w)) /\ WF_vars(Write(w) \/ WriteFails(w))
    /\ WF_vars(ReadResult(w) \/ ReadDrain(w) \/ Disconnect(w))
    /\ WF_vars(SdkRead(w)) /\ WF_vars(SdkDone(w))
    /\ WF_vars(w \in broken /\ SdkStops(w))
    /\ WF_vars(\E id \in DispatchIds : FinishJob(w, id))
    /\ WF_vars(\E r \in reporting[w] : SendResult(w, r))

FairSpec ==
    /\ Spec
    /\ \A w \in Workers : SessionFairness(w)
    /\ WF_vars(\E d \in dispatching : DispatchFailed(d))

-----------------------------------------------------------------------------
(***************************************************************************)
(* Properties                                                              *)
(***************************************************************************)
\* Every variable has its type.
TypeOK ==
    /\ DOMAIN registry \subseteq Workers
    /\ \A w \in DOMAIN registry : registry[w] \in WorkerState
    /\ permits \in [Workers -> Nat]
    /\ nextId \in 1..(MaxDispatch + 1)
    /\ handler \in [Workers -> {"none", "inserted", "registering", "serving", "gone"}]
    /\ writer \in [Workers -> BOOLEAN]
    /\ outbound \in [Workers -> Seq(ToWorker)] /\ down \in [Workers -> Seq(ToWorker)]
    /\ up \in [Workers -> Seq(ToServer)]
    /\ dispatching \subseteq Dispatching
    /\ broken \subseteq Workers /\ partial \subseteq Workers
    /\ sdk \in [Workers -> {"none", "serving", "awaiting", "draining", "done",
                            "stopped"}]
    /\ jobs \in [Workers -> SUBSET DispatchIds]
    /\ reporting \in [Workers -> SUBSET Report]
    /\ accepted \in [Workers -> SUBSET DispatchIds]
    /\ answered \subseteq DispatchIds

\* The engine never holds more permits and unanswered dispatches of a worker
\* than the worker has slots, whatever order results, write failures and
\* releases arrive in (available_slots, dispatcher/src/lib.rs), and
\* reserved_slots is the number of permits that are really held: no path of
\* dispatch or release loses one or counts one twice.
NeverOverbooked ==
    \A w \in DOMAIN registry :
        /\ registry[w].reserved = permits[w]
        /\ permits[w] + Cardinality(registry[w].inflight) <= Concurrency[w]

InFrames(frames, id) == \E i \in 1..Len(frames) : frames[i] = Job(id)

\* The dispatch is somewhere between the writer task and the worker's report.
AtWorker(w, id) ==
    \/ InFrames(outbound[w], id) \/ InFrames(down[w], id)
    \/ id \in jobs[w]
    \/ \E r \in reporting[w] : r.id = id

ResultOnWire(w, id) ==
    \E i \in 1..Len(up[w]) : up[w][i].type = "result" /\ up[w][i].id = id

\* in_flight_dispatches is exact.  It forgets no dispatch that the worker can
\* still be given or is still executing, so a slot is not handed out twice; and
\* each slot it counts is backed by a dispatch at the worker or by its result on
\* the way, so no slot of a healthy worker leaks.
InFlightIsExact ==
    \A w \in DOMAIN registry, id \in DispatchIds : Alive(w) =>
        /\ AtWorker(w, id) => id \in registry[w].inflight
        /\ id \in registry[w].inflight /\ w \notin broken
               => AtWorker(w, id) \/ ResultOnWire(w, id)

\* A dispatched job never waits for a slot of the worker's semaphore.
WorkerWithinConcurrency ==
    \A w \in Workers : Cardinality(jobs[w]) <= Concurrency[w]

\* Once the writer task is given `draining` no dispatch follows it, and a worker
\* that has read it is sent no more: begin_drain and dispatch queue their frames
\* under the registry lock.
NoDispatchAfterDraining ==
    \A w \in Workers :
        LET frames == down[w] \o outbound[w] IN
        /\ \A i, k \in 1..Len(frames) :
              frames[i] = Draining /\ i < k => frames[k].type # "job"
        /\ sdk[w] = "draining" =>
              \A i \in 1..Len(frames) : frames[i].type # "job"

\* Snapshots may be applied out of order, so running_jobs may be too high on an
\* idle worker.  It still leaves a slot: an idle worker can always be reserved,
\* and the next result corrects the estimate.
IdleWorkerIsAvailable ==
    \A w \in DOMAIN registry :
        registry[w].reserved = 0 /\ registry[w].inflight = {}
            => AvailableSlots(w) > 0

\* A worker that ends its session by a drain has reported every dispatch it
\* accepted: each result is on the wire or has reached the registry.
DrainedReportsAll ==
    \A w \in Workers :
        sdk[w] = "done" /\ w \notin broken =>
            \A id \in accepted[w] : id \in answered \/ ResultOnWire(w, id)

\* A worker that was asked to shut down ends its session.
DrainEnds == \A w \in Workers : sdk[w] = "awaiting" ~> ~Alive(w)

\* A dispatch call always returns: its frame is written or its acknowledgement
\* fails.
DispatchReturns ==
    \A w \in Workers, id \in DispatchIds :
        (\E d \in dispatching : d.worker = w /\ d.id = id)
            ~> ~\E d \in dispatching : d.worker = w /\ d.id = id

\* What worker-protocol/PROTOCOL.md says of a worker: it "reports every accepted
\* job result, then closes the session".
SessionOutlivesJobs ==
    \A w \in Workers : sdk[w] = "stopped" => w \in broken
=============================================================================
