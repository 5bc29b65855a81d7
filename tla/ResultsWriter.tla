----------------------------- MODULE ResultsWriter -----------------------------
(***************************************************************************)
(* The writer thread of the results file                                   *)
(* (crates/persistence/src/sqlite/results.rs): one loop that takes the     *)
(* requests of all callers from a bounded channel, sorts them into three   *)
(* queues and gives each turn to one of them.  Requests of the meta queue  *)
(* come first; between dispatches and completions ResultsLaneController    *)
(* chooses (adaptive.rs).  What a request does to the tables is the        *)
(* subject of SqliteStore; here it is only answered.                       *)
(*                                                                         *)
(* The queues are FIFO and the answers independent, so queues are counts.  *)
(* The pressure of the lanes comes from measured rates and waiting times:  *)
(* its sign is any value.  The batch size of completions is the one of     *)
(* AdaptiveBatch; whether goodput has regressed is any value.              *)
(***************************************************************************)
EXTENDS AdaptiveBatch, Sequences, FiniteSets

CONSTANTS
    MaxTurns,   \* MAX_RESULTS_PREFERRED_LANE_TURNS
    Capacity,   \* CHANNEL_CAPACITY
    Callers     \* bound: calls that wait for an answer

ASSUME WriterAssumption ==
    {MaxTurns, Capacity, Callers} \subseteq Nat \ {0}

VARIABLES
    inbox,      \* the channel
    queues,     \* ResultsQueues: requests per queue
    batch,      \* completions taken by the open turn
    controller, \* AdaptiveBatchController of the completions
    phase,      \* "top" of the loop, "gather" a batch, "flush" it, "stopped"
    preferred,  \* ResultsLaneController.preferred, or "none"
    streak,     \* its direction_streak
    turns,      \* its preferred_turns
    open,       \* some handle to the channel is left
    calls,      \* history: calls not answered yet
    skipped     \* history: turns a waiting lane was passed over in a row

control == <<preferred, streak, turns>>
vars == <<inbox, queues, batch, controller, phase, control, open, calls, skipped>>

Lanes == {"dispatch", "complete"}
\* "cleanup" stands for the meta requests that do not close an open batch.
Kinds == Lanes \cup {"meta", "cleanup"}
QueueOf(kind) == IF kind = "cleanup" THEN "meta" ELSE kind
Other(lane) == IF lane = "dispatch" THEN "complete" ELSE "dispatch"
Lesser(m, n) == IF m < n THEN m ELSE n

Init ==
    /\ inbox = <<>> /\ queues = [dispatch |-> 0, complete |-> 0, meta |-> 0]
    /\ batch = 0 /\ controller = NewController /\ phase = "top"
    /\ preferred = "none" /\ streak = NoStreak /\ turns = 0
    /\ open = TRUE /\ calls = 0 /\ skipped = [lane \in Lanes |-> 0]

\* ResultsHandle::call
Call(kind) ==
    /\ open /\ Len(inbox) < Capacity /\ calls < Callers
    /\ inbox' = Append(inbox, kind)
    /\ calls' = calls + 1
    /\ UNCHANGED <<queues, batch, controller, phase, control, open, skipped>>

\* The last handle is dropped.
Close ==
    /\ open
    /\ open' = FALSE
    /\ UNCHANGED <<inbox, queues, batch, controller, phase, control, calls, skipped>>

\* ResultsQueues::push for everything in the channel.
Received ==
    [k \in DOMAIN queues |->
       queues[k] + Cardinality({i \in 1..Len(inbox) : QueueOf(inbox[i]) = k})]

\* A meta request is handled before any lane.
HandleMeta ==
    /\ phase = "top" /\ Received.meta > 0
    /\ queues' = [Received EXCEPT !.meta = @ - 1]
    /\ inbox' = <<>>
    /\ calls' = calls - 1
    /\ UNCHANGED <<batch, controller, phase, control, open, skipped>>

-----------------------------------------------------------------------------
(***************************************************************************)
(* ResultsLaneController                                                   *)
(***************************************************************************)
Contested == Received.dispatch > 0 /\ Received.complete > 0

Preference(direction) ==
    IF ~Confirms(streak, direction) THEN preferred
    ELSE IF direction = 1 THEN "complete" ELSE "dispatch"

\* The turns the preferred lane has had when a lane is chosen.
TurnsBefore(direction) == IF Preference(direction) = preferred THEN turns ELSE 0

\* Mutant of Chosen: the preferred lane is never overridden.
ChosenAlways(direction) ==
    IF Preference(direction) = "none" THEN "complete" ELSE Preference(direction)

\* The lane of a contested turn.
Chosen(direction) ==
    LET p == Preference(direction) IN
    IF p = "none" THEN "complete"
    ELSE IF TurnsBefore(direction) >= MaxTurns THEN Other(p) ELSE p

\* select gives the turn to a lane; `turns` counts it when the turn is over.
Select(lane) ==
    \/ /\ Received[lane] > 0 /\ Received[Other(lane)] = 0
       /\ turns' = 0
       /\ skipped' = [l \in Lanes |-> 0]
       /\ UNCHANGED <<preferred, streak>>
    \/ /\ Contested
       /\ \E direction \in {-1, 0, 1} :
           /\ lane = Chosen(direction)
           /\ streak' = Confirm(streak, direction)
           /\ preferred' = Preference(direction)
           /\ turns' = TurnsBefore(direction)
           /\ skipped' = [l \in Lanes |->
                            IF l = lane \/ Preference(direction) = "none" THEN 0
                            ELSE skipped[l] + 1]

\* record_turn
RecordTurn(lane, p, n) == IF p = lane THEN n + 1 ELSE 0

-----------------------------------------------------------------------------
(***************************************************************************)
(* Turns                                                                   *)
(***************************************************************************)
\* run_dispatch_turn takes one request, a transaction of its own.
BeginDispatch ==
    /\ phase = "top" /\ Received.meta = 0
    /\ Select("dispatch")
    /\ queues' = [Received EXCEPT !.dispatch = @ - 1]
    /\ inbox' = <<>> /\ batch' = 1 /\ phase' = "dispatch"
    /\ UNCHANGED <<controller, open, calls>>

EndDispatch ==
    /\ phase = "dispatch"
    /\ calls' = calls - batch
    /\ turns' = RecordTurn("dispatch", preferred, turns)
    /\ batch' = 0 /\ phase' = "top"
    /\ UNCHANGED <<inbox, queues, controller, preferred, streak, open, skipped>>

\* run_complete_turn takes what is queued, up to the batch size,
BeginComplete ==
    /\ phase = "top" /\ Received.meta = 0
    /\ Select("complete")
    /\ batch' = Lesser(controller.size, Received.complete)
    /\ queues' = [Received EXCEPT !.complete = @ - Lesser(controller.size, @)]
    /\ inbox' = <<>> /\ phase' = "gather"
    /\ UNCHANGED <<controller, open, calls>>

\* Mutant of Requeued: a request met while gathering is lost.
RequeuedNever(kind) == queues

\* A request of another queue met while gathering waits there.
Requeued(kind) == [queues EXCEPT ![QueueOf(kind)] = @ + 1]

\* waits for more completions, unless a meta request closes the batch,
Gather ==
    /\ phase = "gather" /\ batch < controller.size /\ inbox # <<>>
    /\ inbox' = Tail(inbox)
    /\ \/ /\ Head(inbox) = "complete"
          /\ batch' = batch + 1
          /\ UNCHANGED <<queues, phase>>
       \/ /\ Head(inbox) # "complete"
          /\ queues' = Requeued(Head(inbox))
          /\ phase' = IF Head(inbox) = "meta" THEN "flush" ELSE "gather"
          /\ UNCHANGED batch
    /\ UNCHANGED <<controller, control, open, calls, skipped>>

\* The controller learns of the commit, unless complete_batch failed.
Record ==
    \/ UNCHANGED controller
    \/ \E regressed \in BOOLEAN :
         controller' = RecordCompletionCommit(controller, batch,
                         queues.complete + Len(inbox), batch < controller.size, regressed)

\* and commits: the batch is full, closed, or its deadline has passed.
EndComplete ==
    /\ phase \in {"gather", "flush"}
    /\ calls' = calls - batch
    /\ Record
    /\ turns' = RecordTurn("complete", preferred, turns)
    /\ batch' = 0 /\ phase' = "top"
    /\ UNCHANGED <<inbox, queues, preferred, streak, open, skipped>>

\* Mutant of Drained: the dispatches are not answered.
DrainedNoDispatch == queues.complete + queues.meta

\* The requests answered after the channel is found closed.
Drained == queues.complete + queues.meta + queues.dispatch

\* While gathering the channel is found closed.
Disconnected ==
    /\ phase = "gather" /\ batch < controller.size /\ inbox = <<>> /\ ~open
    /\ calls' = calls - batch - Drained
    /\ Record
    /\ turns' = RecordTurn("complete", preferred, turns)
    /\ queues' = [k \in DOMAIN queues |-> 0]
    /\ batch' = 0 /\ phase' = "stopped"
    /\ UNCHANGED <<inbox, preferred, streak, open, skipped>>

\* At the top of the loop it is found closed with nothing left to do.
Stop ==
    /\ phase = "top" /\ inbox = <<>> /\ ~open
    /\ \A k \in DOMAIN queues : queues[k] = 0
    /\ phase' = "stopped"
    /\ UNCHANGED <<inbox, queues, batch, controller, control, open, calls, skipped>>

Writer ==
    \/ HandleMeta
    \/ BeginDispatch
    \/ EndDispatch
    \/ BeginComplete
    \/ Gather
    \/ EndComplete
    \/ Disconnected
    \/ Stop

Next == (\E kind \in Kinds : Call(kind)) \/ Close \/ Writer

Spec == Init /\ [][Next]_vars

\* The writer thread keeps running.
FairSpec == Spec /\ WF_vars(Writer)

-----------------------------------------------------------------------------
(***************************************************************************)
(* Properties                                                              *)
(***************************************************************************)
\* Every call that waits has its request in exactly one place - the channel,
\* a queue or the open batch - so none is dropped and none answered twice,
\* through preemption, the drain of the channel and the shutdown paths of
\* results_writer_loop.
EveryCallIsHeld ==
    calls = Len(inbox) + queues.dispatch + queues.complete + queues.meta + batch

\* The override of select works: once some lane is preferred, a lane with
\* waiting requests is passed over at most MaxTurns + 1 turns in a row,
\* whatever the measured pressures do to the preference.  One more than
\* MaxTurns, because the preference may turn round right after the override
\* has given a turn to the lane that is now preferred.
PassedOverBounded ==
    \A lane \in Lanes : skipped[lane] <= MaxTurns + 1

\* When the store is dropped the writer stops, having answered every call that
\* was already in the channel, in a queue or in a batch.
ShutdownAnswersAll == ~open ~> (phase = "stopped" /\ calls = 0)
=============================================================================
