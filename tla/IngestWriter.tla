------------------------------ MODULE IngestWriter ------------------------------
(***************************************************************************)
(* The writer thread of the ingest file                                    *)
(* (crates/persistence/src/sqlite/ingest.rs): one loop that takes the      *)
(* requests of all callers from a bounded channel.  upsert, repend,        *)
(* cleanup and vacuum requests go to the meta queue, claims to the claim   *)
(* queue; both are served before any enqueue.  Enqueues are gathered into  *)
(* a batch whose size the controller of AdaptiveBatch sets, and committed  *)
(* in one transaction.  What a request does to accepted_jobs is the        *)
(* subject of SqliteStore; here it is answered, and the set of known queue *)
(* names it reads or extends is kept.                                      *)
(*                                                                         *)
(* "cleanup" stands for CleanupExpiredRecords and Vacuum, the requests     *)
(* that do not close an open batch; the "upsert" of a known queue also for *)
(* Repend, which closes a batch and leaves the queue names alone.  The     *)
(* deadline of a batch may pass at any time.                               *)
(***************************************************************************)
EXTENDS AdaptiveBatch, Sequences

CONSTANTS
    Queues,      \* queue names
    Registered,  \* those in job_queues when the file is opened
    Capacity,    \* CHANNEL_CAPACITY
    Callers,     \* bound: calls that wait for an answer
    MaxFaults    \* bound: failing transactions

ASSUME IngestAssumption ==
    /\ Registered \subseteq Queues
    /\ Capacity \in Nat \ {0} /\ Callers \in Nat \ {0} /\ MaxFaults \in Nat

VARIABLES
    channel,     \* rx
    meta, claim, ingest,  \* IngestQueues
    pending,     \* the batch of the open turn
    phase,       \* where the loop is
    controller,  \* AdaptiveBatchController
    names,       \* queue_names
    open,        \* some handle to the channel is left
    faults,
    calls,       \* history: calls not answered yet
    announced,   \* history: queues whose upsert has entered the channel
    line         \* history: the enqueues not answered yet, in the order of their calls

queues == <<meta, claim, ingest>>
vars == <<channel, queues, pending, phase, controller, names, open, faults,
          calls, announced, line>>

NoQueue == "none"
Meta == {"upsert", "cleanup"}
Named == {"enqueue", "upsert"}
Kinds == Meta \cup {"enqueue", "claim"}

\* History in a request: whether it was sent after an upsert of its queue, and
\* how many batches of enqueues were committed while it waited.
Request ==
    [kind: Named, queue: Queues, after: BOOLEAN, passed: Nat]
      \cup [kind: Kinds \ Named, queue: {NoQueue}, after: BOOLEAN, passed: Nat]

\* Mutant of Preempts: an upsert does not close the batch.
PreemptsClaimOnly(kind) == kind = "claim"

\* Requests that close the batch they meet.
Preempts(kind) == kind \in {"claim", "upsert"}

Init ==
    /\ channel = <<>> /\ meta = <<>> /\ claim = <<>> /\ ingest = <<>>
    /\ pending = <<>> /\ phase = "receive"
    /\ controller = NewController
    /\ names = Registered /\ announced = Registered
    /\ open = TRUE /\ calls = 0 /\ faults = 0 /\ line = <<>>

Fault ==
    /\ faults < MaxFaults
    /\ faults' = faults + 1

-----------------------------------------------------------------------------
(***************************************************************************)
(* IngestHandle                                                            *)
(***************************************************************************)
\* IngestHandle::call
Call(kind, q) ==
    LET request == [kind |-> kind, queue |-> q, passed |-> 0,
                    after |-> kind = "enqueue" /\ q \in announced] IN
    /\ open /\ Len(channel) < Capacity /\ calls < Callers
    /\ channel' = Append(channel, request)
    /\ announced' = IF kind = "upsert" THEN announced \cup {q} ELSE announced
    /\ line' = IF kind = "enqueue" THEN Append(line, request) ELSE line
    /\ calls' = calls + 1
    /\ UNCHANGED <<queues, pending, phase, controller, names, open, faults>>

\* The last handle is dropped.
Close ==
    /\ open
    /\ open' = FALSE
    /\ UNCHANGED <<channel, queues, pending, phase, controller, names, faults,
                   calls, announced, line>>

-----------------------------------------------------------------------------
(***************************************************************************)
(* ingest_writer_loop                                                      *)
(***************************************************************************)
\* IngestQueues::push
Push(r) ==
    /\ meta' = IF r.kind \in Meta THEN Append(meta, r) ELSE meta
    /\ claim' = IF r.kind = "claim" THEN Append(claim, r) ELSE claim
    /\ ingest' = IF r.kind = "enqueue" THEN Append(ingest, r) ELSE ingest

\* recv and try_recv at the top of the loop
Receive ==
    /\ phase = "receive" /\ channel # <<>>
    /\ Push(Head(channel))
    /\ channel' = Tail(channel)
    /\ UNCHANGED <<pending, phase, controller, names, open, faults, calls, announced, line>>

\* try_recv finds the channel empty.
Emptied ==
    /\ phase = "receive" /\ channel = <<>>
    /\ <<meta, claim, ingest>> # <<<<>>, <<>>, <<>>>>
    /\ phase' = "serve"
    /\ UNCHANGED <<channel, queues, pending, controller, names, open, faults,
                   calls, announced, line>>

\* A meta request is served first; a successful upsert makes its queue known.
HandleMeta ==
    /\ phase = "serve" /\ meta # <<>>
    /\ meta' = Tail(meta)
    /\ \/ /\ names' = IF Head(meta).kind = "upsert" THEN names \cup {Head(meta).queue}
                                                   ELSE names
          /\ UNCHANGED faults
       \/ Fault /\ UNCHANGED names
    /\ calls' = calls - 1
    /\ phase' = "receive"
    /\ UNCHANGED <<channel, claim, ingest, pending, controller, open, announced, line>>

\* Then a claim.
HandleClaim ==
    /\ phase = "serve" /\ meta = <<>> /\ claim # <<>>
    /\ claim' = Tail(claim)
    /\ calls' = calls - 1
    /\ phase' = "receive"
    /\ UNCHANGED <<channel, meta, ingest, pending, controller, names, open, faults,
                   announced, line>>

\* The loop ends: nothing is queued and the channel is closed.
Stop ==
    /\ phase = "receive" /\ channel = <<>> /\ ~open
    /\ <<meta, claim, ingest>> = <<<<>>, <<>>, <<>>>>
    /\ phase' = "stopped"
    /\ UNCHANGED <<channel, queues, pending, controller, names, open, faults, calls,
                   announced, line>>

-----------------------------------------------------------------------------
(***************************************************************************)
(* run_ingest_turn                                                         *)
(***************************************************************************)
Lesser(m, n) == IF m < n THEN m ELSE n

\* The enqueues that open the batch.
Taken == Lesser(controller.size, Len(ingest))

\* Mutant of BeginTurn: the newest enqueues are taken.
BeginTurnNewest ==
    /\ phase = "serve" /\ meta = <<>> /\ claim = <<>>
    /\ pending' = SubSeq(ingest, Len(ingest) - Taken + 1, Len(ingest))
    /\ ingest' = SubSeq(ingest, 1, Len(ingest) - Taken)
    /\ phase' = "gather"
    /\ UNCHANGED <<channel, meta, claim, controller, names, open, faults, calls,
                   announced, line>>

\* Mutant of BeginTurn: claims wait for the enqueues.
BeginTurnBeforeClaims ==
    /\ phase = "serve" /\ meta = <<>> /\ ingest # <<>>
    /\ pending' = SubSeq(ingest, 1, Taken)
    /\ ingest' = SubSeq(ingest, Taken + 1, Len(ingest))
    /\ phase' = "gather"
    /\ UNCHANGED <<channel, meta, claim, controller, names, open, faults, calls,
                   announced, line>>

BeginTurn ==
    /\ phase = "serve" /\ meta = <<>> /\ claim = <<>>
    /\ pending' = SubSeq(ingest, 1, Taken)
    /\ ingest' = SubSeq(ingest, Taken + 1, Len(ingest))
    /\ phase' = "gather"
    /\ UNCHANGED <<channel, meta, claim, controller, names, open, faults, calls,
                   announced, line>>

Gathering == phase = "gather" /\ Len(pending) < controller.size

\* An enqueue from the channel joins the batch.
GatherEnqueue ==
    /\ Gathering /\ channel # <<>> /\ Head(channel).kind = "enqueue"
    /\ pending' = Append(pending, Head(channel))
    /\ channel' = Tail(channel)
    /\ UNCHANGED <<queues, phase, controller, names, open, faults, calls, announced, line>>

\* Any other request is queued, and may close the batch.
GatherOther ==
    /\ Gathering /\ channel # <<>> /\ Head(channel).kind # "enqueue"
    /\ Push(Head(channel))
    /\ channel' = Tail(channel)
    /\ phase' = IF Preempts(Head(channel).kind) THEN "flush" ELSE "gather"
    /\ UNCHANGED <<pending, controller, names, open, faults, calls, announced, line>>

\* recv finds the channel closed.
Disconnected ==
    /\ Gathering /\ channel = <<>> /\ ~open
    /\ phase' = "last"
    /\ UNCHANGED <<channel, queues, pending, controller, names, open, faults, calls,
                   announced, line>>

\* History: a batch has been committed ahead of the requests of s.
Passed(s) ==
    [i \in DOMAIN s |->
       IF s[i].kind = "enqueue" THEN s[i] ELSE [s[i] EXCEPT !.passed = @ + 1]]

\* The rows of the batch: the other enqueues are answered QueueNotFound.
Inserted == {i \in DOMAIN pending : pending[i].queue \in names}

\* flush_pending and enqueue_batch: the batch is full, closed, or its deadline
\* has passed.  The controller learns of successful transactions only.
Commit ==
    /\ phase \in {"gather", "flush", "last"}
    /\ \/ /\ Inserted = {}
          /\ UNCHANGED <<controller, faults>>
       \/ /\ Inserted # {}
          /\ Fault /\ UNCHANGED controller
       \/ /\ Inserted # {}
          /\ \E queueing, demand \in BOOLEAN :
               controller' = RecordCommit(controller, Cardinality(Inserted), Len(channel),
                               Len(pending) < controller.size, queueing, demand)
          /\ UNCHANGED faults
    /\ pending' = <<>>
    /\ calls' = calls - Len(pending)
    /\ channel' = Passed(channel) /\ meta' = Passed(meta) /\ claim' = Passed(claim)
    /\ phase' = IF phase = "last" THEN "drain" ELSE "receive"
    /\ line' = SubSeq(line, Len(pending) + 1, Len(line))
    /\ UNCHANGED <<ingest, names, open, announced>>

\* Mutant of Drain: the requests met while gathering are forgotten.
DrainNothing ==
    /\ phase = "drain"
    /\ meta' = <<>> /\ claim' = <<>> /\ ingest' = <<>>
    /\ phase' = "stopped"
    /\ UNCHANGED <<channel, pending, controller, names, open, faults, calls, announced, line>>

\* After a disconnect: flush_ingest, then every meta request, then every claim.
Drain ==
    /\ phase = "drain"
    /\ meta' = <<>> /\ claim' = <<>> /\ ingest' = <<>>
    /\ calls' = calls - Len(ingest) - Len(meta) - Len(claim)
    /\ phase' = "stopped"
    /\ line' = SubSeq(line, Len(ingest) + 1, Len(line))
    /\ UNCHANGED <<channel, pending, controller, names, open, faults, announced>>

-----------------------------------------------------------------------------
Writer ==
    \/ Receive
    \/ Emptied
    \/ HandleMeta
    \/ HandleClaim
    \/ BeginTurn
    \/ GatherEnqueue
    \/ GatherOther
    \/ Disconnected
    \/ Commit
    \/ Drain
    \/ Stop

Next ==
    \/ \E kind \in Named, q \in Queues : Call(kind, q)
    \/ \E kind \in Kinds \ Named : Call(kind, NoQueue)
    \/ Close
    \/ Writer

Spec == Init /\ [][Next]_vars

\* The writer thread keeps running.
FairSpec == Spec /\ WF_vars(Writer)

-----------------------------------------------------------------------------
(***************************************************************************)
(* Properties                                                              *)
(***************************************************************************)
\* Every variable has the type its Rust counterpart has; the batch size stays
\* within its limits.
TypeOK ==
    /\ {channel, meta, claim, ingest, pending, line} \subseteq Seq(Request)
    /\ Len(channel) <= Capacity
    /\ phase \in {"receive", "serve", "gather", "flush", "last", "drain", "stopped"}
    /\ controller \in Controller
    /\ names \subseteq Queues /\ announced \subseteq Queues
    /\ open \in BOOLEAN /\ faults \in 0..MaxFaults /\ calls \in 0..Callers

\* Every call that waits has its request in exactly one place, so none is
\* dropped and none is answered twice, through preemption, failing
\* transactions and the two ways ingest_writer_loop ends.
EveryCallIsHeld ==
    calls = Len(channel) + Len(meta) + Len(claim) + Len(ingest) + Len(pending)

\* How many enqueues there are up to position i.
Rank(s, i) == Cardinality({j \in 1..i : s[j].kind = "enqueue"})

\* Enqueues are committed in the order in which they entered the channel,
\* although run_ingest_turn fills its batch from the queue and then, past the
\* queue, from the channel: the batch is the front of the line, the queue
\* follows, and then the enqueues in the channel.
EnqueuesInOrder ==
    /\ Len(line) = Len(pending) + Len(ingest) + Rank(channel, Len(channel))
    /\ \A i \in DOMAIN pending : pending[i] = line[i]
    /\ \A i \in DOMAIN ingest : ingest[i] = line[Len(pending) + i]
    /\ \A i \in DOMAIN channel :
         channel[i].kind = "enqueue" =>
             channel[i] = line[Len(pending) + Len(ingest) + Rank(channel, i)]

\* However many enqueues arrive, a claim, repend, upsert or cleanup waits for
\* at most one batch of them: the batch that was open when it entered the
\* channel.
OvertakenOnce ==
    \A s \in {channel, meta, claim} : \A i \in DOMAIN s : s[i].passed <= 1

\* An enqueue sent after the upsert of its queue is not answered QueueNotFound
\* (unless a transaction failed): the upsert closes the batch it meets, and no
\* batch that holds the enqueue is committed before it is served.
UpsertedBeforeEnqueue ==
    faults = 0 =>
        \A i \in DOMAIN pending : pending[i].after => pending[i].queue \in names

\* When the store is dropped the writer stops, having answered every call that
\* was already in the channel, in a queue or in a batch.
ShutdownAnswersAll == ~open ~> (phase = "stopped" /\ calls = 0)

\* When from some point on every commit finds requests waiting and is not slowed
\* down (it observes direction 1), and commits never end, the batch size reaches
\* batch_size_max: rounding never leaves it stuck below.
GrowsUnderDemand ==
    /\ <>[](controller.streak.direction = 1)
    /\ []<><<Commit /\ controller' # controller>>_vars
    => <>[](controller.size = MaxSize)
=============================================================================
