-------------------------- MODULE ResultsWriterProof --------------------------
(***************************************************************************)
(* The starvation bound of the results writer and the conservation of its  *)
(* calls for every value of MAX_RESULTS_PREFERRED_LANE_TURNS, every        *)
(* channel capacity, batch size and number of callers.                     *)
(*                                                                         *)
(* PassedOverBounded is not inductive: what bounds the turns a lane is     *)
(* passed over is the count of preferred turns, which is updated when a    *)
(* turn ends and set back when the preference changes.  LaneInv relates    *)
(* the two, at the top of the loop and within a turn.  EveryCallIsHeld is  *)
(* inductive with the types of what it adds up (HeldInv); the work is in   *)
(* the drain of the channel, which moves every request to one queue.       *)
(***************************************************************************)
EXTENDS ResultsWriter, FiniteSetTheorems, SequenceTheorems, TLAPS

\* The lane the open turn belongs to.
TurnLane == IF phase = "dispatch" THEN "dispatch" ELSE "complete"

AtTop == phase \in {"top", "stopped"}

\* The types the argument needs.
LaneTypes ==
    /\ preferred \in Lanes \cup {"none"}
    /\ turns \in Nat
    /\ skipped \in [Lanes -> Nat]
    /\ phase \in {"top", "dispatch", "gather", "flush", "stopped"}

\* No lane is preferred yet: nothing is counted.
NoPreference ==
    preferred = "none" => turns = 0 /\ \A l \in Lanes : skipped[l] = 0

\* Between turns a lane has been passed over once more than counted at most.
TopBound ==
    AtTop /\ preferred # "none" =>
        /\ turns <= MaxTurns
        /\ skipped[Other(preferred)] <= turns + 1
        /\ skipped[preferred] <= 1
        /\ skipped[preferred] > 0 => turns = 0

\* A turn of the preferred lane is not counted yet.
PreferredBound ==
    ~AtTop /\ preferred = TurnLane =>
        /\ turns < MaxTurns
        /\ skipped[Other(preferred)] <= turns + 2
        /\ skipped[preferred] = 0

\* A turn of the other lane starts the count again.
OverrideBound ==
    ~AtTop /\ preferred = Other(TurnLane) =>
        /\ skipped[Other(preferred)] = 0
        /\ skipped[preferred] <= 1

LaneInv == LaneTypes /\ NoPreference /\ TopBound /\ PreferredBound /\ OverrideBound

-----------------------------------------------------------------------------
\* LaneInv bounds what is passed over (select).
LEMMA LaneInvBounds == LaneInv => PassedOverBounded
<1> SUFFICES ASSUME LaneInv, NEW lane \in Lanes
             PROVE  skipped[lane] <= MaxTurns + 1
    BY Zenon DEF PassedOverBounded
<1> MaxTurns \in Nat \ {0}
    BY Zenon, WriterAssumption
<1>1. CASE preferred = "none"
    BY <1>1 DEF LaneInv, NoPreference
<1>2. CASE preferred # "none"
    <2>1. preferred \in Lanes /\ (lane = preferred \/ lane = Other(preferred))
        BY Zenon, <1>2 DEF LaneInv, LaneTypes, Lanes, Other
    <2>2. TurnLane \in Lanes /\ (preferred = TurnLane \/ preferred = Other(TurnLane))
        BY Zenon, <2>1 DEF TurnLane, Lanes, Other
    <2>3. turns \in Nat /\ skipped[lane] \in Nat
        BY Zenon DEF LaneInv, LaneTypes
    <2>4. CASE AtTop
        BY <1>2, <2>1, <2>3, <2>4 DEF LaneInv, TopBound
    <2>5. CASE ~AtTop /\ preferred = TurnLane
        BY <2>1, <2>3, <2>5 DEF LaneInv, PreferredBound
    <2>6. CASE ~AtTop /\ preferred = Other(TurnLane)
        BY <2>1, <2>3, <2>6 DEF LaneInv, OverrideBound
    <2> QED BY Zenon, <2>2, <2>4, <2>5, <2>6
<1> QED BY Zenon, <1>1, <1>2

\* Steps that leave the controller alone and do not begin or end a turn.
LEMMA LaneInvUnaffected ==
    ASSUME LaneInv, UNCHANGED <<preferred, turns, skipped>>,
           \/ phase' = phase
           \/ AtTop /\ phase' = "stopped"
           \/ phase = "gather" /\ phase' = "flush"
    PROVE  LaneInv'
BY Zenon DEF LaneInv, LaneTypes, NoPreference, TopBound, PreferredBound,
       OverrideBound, AtTop, TurnLane

\* A lane is selected (select).
LEMMA LaneInvBegin ==
    ASSUME LaneInv, NEW lane \in Lanes, phase = "top", Select(lane),
           phase' = IF lane = "dispatch" THEN "dispatch" ELSE "gather"
    PROVE  LaneInv'
<1> MaxTurns \in Nat \ {0}
    BY Zenon, WriterAssumption
<1>1. ~AtTop' /\ TurnLane' = lane /\ AtTop
    BY Zenon DEF AtTop, TurnLane, Lanes
<1>2. Other(lane) \in Lanes /\ Other(lane) # lane /\ Other(Other(lane)) = lane
      /\ \A l \in Lanes : l = lane \/ l = Other(lane)
    BY Zenon DEF Lanes, Other
<1>3. turns \in Nat /\ preferred \in Lanes \cup {"none"} /\ skipped \in [Lanes -> Nat]
    BY Zenon DEF LaneInv, LaneTypes
<1>4. "none" \notin Lanes
    BY Zenon DEF Lanes
<1>5. CASE /\ turns' = 0
           /\ skipped' = [l \in Lanes |-> 0]
           /\ UNCHANGED <<preferred, streak>>
    <2>1. LaneTypes'
        BY Zenon, <1>3, <1>5 DEF LaneTypes, Lanes
    <2>2. NoPreference' /\ TopBound' /\ OverrideBound'
        BY <1>1, <1>2, <1>4, <1>5 DEF NoPreference, TopBound, OverrideBound
    <2>3. PreferredBound'
        BY <1>1, <1>2, <1>4, <1>5 DEF PreferredBound
    <2> QED BY Zenon, <2>1, <2>2, <2>3 DEF LaneInv
<1>6. ASSUME NEW direction \in {-1, 0, 1},
             lane = Chosen(direction),
             preferred' = Preference(direction),
             turns' = TurnsBefore(direction),
             skipped' = [l \in Lanes |->
                            IF l = lane \/ Preference(direction) = "none" THEN 0
                            ELSE skipped[l] + 1]
      PROVE  LaneInv'
    <2>1. preferred' \in Lanes \cup {"none"} /\ (preferred = "none" \/ preferred' # "none")
        BY Zenon, <1>3, <1>6 DEF Preference, Lanes
    <2>2. turns' = IF preferred' = preferred THEN turns ELSE 0
        BY Zenon, <1>6 DEF TurnsBefore
    <2>3. lane = IF preferred' = "none" THEN "complete"
                 ELSE IF turns' >= MaxTurns THEN Other(preferred') ELSE preferred'
        BY Zenon, <1>6 DEF Chosen
    <2>4. /\ skipped'[lane] = 0
          /\ skipped'[Other(lane)] = IF preferred' = "none" THEN 0
                                     ELSE skipped[Other(lane)] + 1
        BY Zenon, <1>2, <1>6
    <2>5. LaneTypes'
        BY <1>3, <1>6, <2>1, <2>2 DEF LaneTypes, Lanes
    <2>6. NoPreference'
        BY Zenon, <1>2, <1>3, <2>1, <2>2, <2>4 DEF LaneInv, NoPreference
    <2>7. TopBound'
        BY Zenon, <1>1 DEF TopBound
    <2>8. PreferredBound'
        <3> SUFFICES ASSUME preferred' = lane
                     PROVE  /\ turns' < MaxTurns
                            /\ skipped'[Other(lane)] <= turns' + 2
                            /\ skipped'[lane] = 0
            BY Zenon, <1>1 DEF PreferredBound
        <3>1. turns' < MaxTurns
            BY <1>2, <1>3, <1>4, <2>2, <2>3
        <3>2. skipped[Other(lane)] <= turns' + 1
            <4>1. CASE preferred = "none"
                <5>1. turns = 0 /\ skipped[Other(lane)] = 0
                    BY Zenon, <1>2, <4>1 DEF LaneInv, NoPreference
                <5>2. turns' = 0
                    BY Zenon, <2>2, <5>1
                <5> QED BY <5>1, <5>2
            <4>2. CASE preferred = lane
                BY Zenon, <1>1, <1>3, <1>4, <2>2, <4>2 DEF LaneInv, TopBound
            <4>3. CASE preferred = Other(lane)
                BY <1>1, <1>2, <1>3, <1>4, <2>2, <4>3 DEF LaneInv, TopBound
            <4> QED BY Zenon, <1>2, <1>3, <4>1, <4>2, <4>3
        <3>3. turns' \in Nat /\ skipped[Other(lane)] \in Nat
            BY Zenon, <1>2, <1>3, <2>2
        <3> QED BY <1>4, <2>4, <3>1, <3>2, <3>3
    <2>9. OverrideBound'
        <3> SUFFICES ASSUME preferred' = Other(lane)
                     PROVE  skipped'[lane] = 0 /\ skipped'[Other(lane)] <= 1
            BY Zenon, <1>1, <1>2 DEF OverrideBound
        <3>1. turns' >= MaxTurns
            BY Zenon, <1>2, <1>4, <2>3
        <3>2. preferred = Other(lane) /\ turns > 0
            BY <1>3, <2>2, <3>1
        <3>3. skipped[Other(lane)] = 0
            BY <1>1, <1>2, <1>3, <1>4, <3>2 DEF LaneInv, TopBound
        <3> QED BY <1>2, <1>4, <2>4, <3>3
    <2> QED BY Zenon, <2>5, <2>6, <2>7, <2>8, <2>9 DEF LaneInv
<1> QED BY Zenon, <1>5, <1>6 DEF Select

\* A turn is over (record_turn).
LEMMA LaneInvEnd ==
    ASSUME LaneInv, ~AtTop, turns' = RecordTurn(TurnLane, preferred, turns),
           phase' \in {"top", "stopped"}, UNCHANGED <<preferred, skipped>>
    PROVE  LaneInv'
<1> MaxTurns \in Nat \ {0}
    BY Zenon, WriterAssumption
<1>1. TurnLane \in Lanes /\ AtTop' /\ "none" \notin Lanes
    BY Zenon DEF TurnLane, Lanes, AtTop
<1>2. turns \in Nat /\ preferred \in Lanes \cup {"none"} /\ skipped \in [Lanes -> Nat]
    BY Zenon DEF LaneInv, LaneTypes
<1>3. turns' = IF preferred = TurnLane THEN turns + 1 ELSE 0
    BY Zenon DEF RecordTurn
<1>4. LaneTypes'
    BY <1>2, <1>3 DEF LaneTypes
<1>5. NoPreference'
    BY Zenon, <1>1, <1>3 DEF LaneInv, NoPreference
<1>6. TopBound'
    <2>1. CASE preferred = TurnLane
        BY <1>1, <1>2, <1>3, <2>1 DEF LaneInv, PreferredBound, TopBound, Lanes, Other
    <2>2. CASE preferred = Other(TurnLane)
        BY <1>1, <1>2, <1>3, <2>2 DEF LaneInv, OverrideBound, TopBound, Lanes, Other
    <2>3. CASE preferred = "none"
        BY Zenon, <2>3 DEF TopBound
    <2> QED BY Zenon, <1>1, <1>2, <2>1, <2>2, <2>3 DEF Lanes, Other
<1>7. PreferredBound' /\ OverrideBound'
    BY Zenon, <1>1 DEF PreferredBound, OverrideBound
<1> QED BY Zenon, <1>4, <1>5, <1>6, <1>7 DEF LaneInv

LEMMA LaneInvInit == Init => LaneInv
BY WriterAssumption DEF Init, LaneInv, LaneTypes, NoPreference, TopBound,
   PreferredBound, OverrideBound, AtTop, Lanes

LEMMA LaneInvStep == LaneInv /\ [Next]_vars => LaneInv'
<1> SUFFICES ASSUME LaneInv, [Next]_vars PROVE LaneInv'
    BY Zenon
<1>1. ASSUME NEW kind \in Kinds, Call(kind) PROVE LaneInv'
    BY Zenon, <1>1, LaneInvUnaffected DEF Call, control
<1>2. CASE Close
    BY Zenon, <1>2, LaneInvUnaffected DEF Close, control
<1>3. CASE HandleMeta
    BY Zenon, <1>3, LaneInvUnaffected DEF HandleMeta, control
<1>4. CASE BeginDispatch
    BY Zenon, <1>4, LaneInvBegin DEF BeginDispatch, Lanes
<1>5. CASE EndDispatch
    BY Zenon, <1>5, LaneInvEnd DEF EndDispatch, AtTop, TurnLane
<1>6. CASE BeginComplete
    BY Zenon, <1>6, LaneInvBegin DEF BeginComplete, Lanes
<1>7. CASE Gather
    BY Zenon, <1>7, LaneInvUnaffected DEF Gather, control
<1>8. CASE EndComplete
    BY Zenon, <1>8, LaneInvEnd DEF EndComplete, AtTop, TurnLane
<1>9. CASE Disconnected
    BY Zenon, <1>9, LaneInvEnd DEF Disconnected, AtTop, TurnLane
<1>10. CASE Stop
    BY Zenon, <1>10, LaneInvUnaffected DEF Stop, control, AtTop
<1>11. CASE UNCHANGED vars
    BY Zenon, <1>11, LaneInvUnaffected DEF vars, control
<1> QED BY Zenon, <1>1, <1>2, <1>3, <1>4, <1>5, <1>6, <1>7, <1>8, <1>9, <1>10, <1>11
        DEF Next, Writer

\* Once a lane of the results writer is preferred, no lane with waiting
\* requests is passed over more than MAX_RESULTS_PREFERRED_LANE_TURNS + 1
\* turns in a row, whatever the pressures, arrivals and batch sizes.
THEOREM LanesAreServed == Spec => []PassedOverBounded
BY LaneInvInit, LaneInvStep, LaneInvBounds, PTL DEF Spec

-----------------------------------------------------------------------------
(***************************************************************************)
(* No call is lost                                                         *)
(***************************************************************************)
\* The requests of the channel that go to a queue.
Arrived(k) == {i \in 1..Len(inbox) : QueueOf(inbox[i]) = k}

HeldTypes ==
    /\ inbox \in Seq(Kinds)
    /\ queues \in [dispatch: Nat, complete: Nat, meta: Nat]
    /\ batch \in Nat /\ calls \in Nat
    /\ phase = "top" => batch = 0
    /\ controller \in [size: Nat, low: Nat,
                       streak: [direction: {-1, 0, 1}, samples: Nat]]

HeldInv == HeldTypes /\ EveryCallIsHeld

\* Disjoint sets add up.
LEMMA DisjointUnion ==
    ASSUME NEW S, IsFiniteSet(S), NEW T, IsFiniteSet(T), S \cap T = {}
    PROVE  IsFiniteSet(S \cup T) /\ Cardinality(S \cup T) = Cardinality(S) + Cardinality(T)
<1>1. Cardinality(S \cap T) = 0
    BY Zenon, FS_EmptySet
<1>2. Cardinality(S) \in Nat /\ Cardinality(T) \in Nat
    BY Zenon, FS_CardinalityType
<1>3. /\ IsFiniteSet(S \cup T)
      /\ Cardinality(S \cup T) = Cardinality(S) + Cardinality(T) - Cardinality(S \cap T)
    BY Zenon, FS_Union
<1> QED BY <1>1, <1>2, <1>3

LEMMA PositionsCount ==
    ASSUME NEW n \in Nat
    PROVE  IsFiniteSet(1..n) /\ Cardinality(1..n) = n
<1> DEFINE size == IF 1 > n THEN 0 ELSE n - 1 + 1
<1>1. 1 \in Int /\ n \in Int
    OBVIOUS
<1>2. size = n
    OBVIOUS
<1>3. IsFiniteSet(1..n) /\ Cardinality(1..n) = size
    BY Zenon, <1>1, FS_Interval
<1> HIDE DEF size
<1> QED BY Zenon, <1>2, <1>3

\* Every request of the channel goes to exactly one queue (ResultsQueues::push).
LEMMA ArrivedCount ==
    ASSUME inbox \in Seq(Kinds)
    PROVE  /\ \A k \in {"dispatch", "complete", "meta"} : Cardinality(Arrived(k)) \in Nat
           /\ Cardinality(Arrived("dispatch")) + Cardinality(Arrived("complete"))
                + Cardinality(Arrived("meta")) = Len(inbox)
<1> DEFINE D == Arrived("dispatch")
           C == Arrived("complete")
           M == Arrived("meta")
<1>1. Len(inbox) \in Nat /\ \A i \in 1..Len(inbox) : inbox[i] \in Kinds
    BY Zenon, ElementOfSeq, LenProperties
<1>2. IsFiniteSet(1..Len(inbox)) /\ Cardinality(1..Len(inbox)) = Len(inbox)
    BY Zenon, <1>1, PositionsCount
<1>3. IsFiniteSet(D) /\ IsFiniteSet(C) /\ IsFiniteSet(M)
    <2>1. \A k : Arrived(k) \in SUBSET (1..Len(inbox))
        BY Zenon DEF Arrived
    <2> QED BY <1>2, <2>1, FS_Subset, Zenon
<1>4. Cardinality(D) \in Nat /\ Cardinality(C) \in Nat /\ Cardinality(M) \in Nat
    BY Zenon, <1>3, FS_CardinalityType
<1>5. (D \cup C) \cup M = 1..Len(inbox)
    BY Zenon, <1>1 DEF Arrived, Kinds, Lanes, QueueOf
<1>6. D \cap C = {} /\ (D \cup C) \cap M = {}
    BY Zenon DEF Arrived
<1>7. IsFiniteSet(D \cup C) /\ Cardinality(D \cup C) = Cardinality(D) + Cardinality(C)
    BY Zenon, <1>3, <1>6, DisjointUnion
<1>8. Cardinality((D \cup C) \cup M) = Cardinality(D \cup C) + Cardinality(M)
    BY Zenon, <1>3, <1>6, <1>7, DisjointUnion
<1> QED BY Zenon, <1>2, <1>4, <1>5, <1>7, <1>8

\* The drain of the channel moves its requests to the queues.
LEMMA ReceivedCount ==
    ASSUME HeldTypes
    PROVE  /\ Received \in [dispatch: Nat, complete: Nat, meta: Nat]
           /\ Received.dispatch + Received.complete + Received.meta
                = Len(inbox) + queues.dispatch + queues.complete + queues.meta
<1> DEFINE D == Cardinality(Arrived("dispatch"))
           C == Cardinality(Arrived("complete"))
           M == Cardinality(Arrived("meta"))
<1>1. D \in Nat /\ C \in Nat /\ M \in Nat /\ D + C + M = Len(inbox)
    BY Zenon, ArrivedCount DEF HeldTypes
<1>2. Received = [dispatch |-> queues.dispatch + D,
                  complete |-> queues.complete + C, meta |-> queues.meta + M]
    BY DEF Received, Arrived, HeldTypes
<1>3. queues.dispatch \in Nat /\ queues.complete \in Nat /\ queues.meta \in Nat
    BY Zenon DEF HeldTypes
<1> DEFINE d == queues.dispatch
           c == queues.complete
           m == queues.meta
           l == Len(inbox)
<1>4. d \in Nat /\ c \in Nat /\ m \in Nat /\ l \in Nat /\ D + C + M = l
    BY Zenon, <1>1, <1>3, LenProperties DEF HeldTypes
<1> HIDE DEF D, C, M, d, c, m, l
<1>5. (d + D) + (c + C) + (m + M) = l + d + c + m
    BY <1>1, <1>4
<1>6. Received \in [dispatch: Nat, complete: Nat, meta: Nat]
    BY SMTT(30), <1>1, <1>2, <1>3
<1> QED BY Zenon, <1>2, <1>5, <1>6 DEF d, c, m, l

\* The sum of EveryCallIsHeld, of numbers.
Held(n, q, b) == n + q.dispatch + q.complete + q.meta + b

\* Requests more in the channel or in the batch.
LEMMA HeldArith ==
    ASSUME NEW n \in Nat, NEW q \in [dispatch: Nat, complete: Nat, meta: Nat],
           NEW b \in Nat
    PROVE  /\ Held(n, q, b) \in Nat
           /\ Held(n + 1, q, b) = Held(n, q, b) + 1
           /\ \A a \in Nat : Held(n, q, b + a) = Held(n, q, b) + a
           /\ Held(n, q, b) = Held(n, q, 0) + b
<1> DEFINE d == q.dispatch
           c == q.complete
           m == q.meta
<1>1. d \in Nat /\ c \in Nat /\ m \in Nat
    BY Zenon
<1> HIDE DEF d, c, m
<1>2. /\ n + d + c + m + b \in Nat
      /\ (n + 1) + d + c + m + b = (n + d + c + m + b) + 1
      /\ \A a \in Nat : n + d + c + m + (b + a) = (n + d + c + m + b) + a
      /\ n + d + c + m + b = (n + d + c + m + 0) + b
    BY <1>1
<1> QED BY <1>2, Zenon DEF Held, d, c, m

\* One of the three queues has changed by a.
Shifted(r, q, a) ==
    \/ r.dispatch = q.dispatch + a /\ r.complete = q.complete /\ r.meta = q.meta
    \/ r.dispatch = q.dispatch /\ r.complete = q.complete + a /\ r.meta = q.meta
    \/ r.dispatch = q.dispatch /\ r.complete = q.complete /\ r.meta = q.meta + a

Row(q) == q \in [dispatch: Nat, complete: Nat, meta: Nat]

\* Requests more, or fewer, in one queue.
LEMMA HeldQueue ==
    ASSUME NEW q, Row(q), NEW r, NEW a \in Int, Shifted(r, q, a)
    PROVE  \A n, b \in Nat : Held(n, r, b) = Held(n, q, b) + a
<1> SUFFICES ASSUME NEW n \in Nat, NEW b \in Nat
             PROVE  Held(n, r, b) = Held(n, q, b) + a
    BY Zenon
<1> DEFINE d == q.dispatch
           c == q.complete
           m == q.meta
<1>1. d \in Nat /\ c \in Nat /\ m \in Nat
    BY Zenon DEF Row
<1> HIDE DEF d, c, m
<1>2. /\ n + (d + a) + c + m + b = (n + d + c + m + b) + a
      /\ n + d + (c + a) + m + b = (n + d + c + m + b) + a
      /\ n + d + c + (m + a) + b = (n + d + c + m + b) + a
    BY <1>1
<1> QED BY <1>2, Zenon DEF Held, Shifted, d, c, m

\* The drain of the channel keeps the sum.
LEMMA ReceivedHeld ==
    ASSUME HeldTypes, NEW b \in Nat
    PROVE  Held(0, Received, b) = Held(Len(inbox), queues, b)
<1> DEFINE d == Received.dispatch
           c == Received.complete
           m == Received.meta
           s == Len(inbox) + queues.dispatch + queues.complete + queues.meta
<1>1. d \in Nat /\ c \in Nat /\ m \in Nat /\ d + c + m = s
    BY Zenon, ReceivedCount
<1> HIDE DEF d, c, m, s
<1>2. 0 + d + c + m + b = s + b
    BY <1>1
<1> QED BY <1>2, Zenon DEF Held, d, c, m, s

\* A size of the completions' controller stays a number (AdaptiveBatchController).
LEMMA SizesAreNumbers ==
    ASSUME HeldTypes, NEW filled \in Nat, NEW backlog \in Nat,
           NEW timeout \in BOOLEAN, NEW regressed \in BOOLEAN
    PROVE  RecordCompletionCommit(controller, filled, backlog, timeout, regressed)
             \in [size: Nat, low: Nat, streak: [direction: {-1, 0, 1}, samples: Nat]]
<1> DEFINE Sizes == [size: Nat, low: Nat,
                     streak: [direction: {-1, 0, 1}, samples: Nat]]
           c == [controller EXCEPT !.low =
                   LowFillTimeouts(controller, filled, backlog, timeout)]
           direction == IF backlog = 0 THEN 0 ELSE IF regressed THEN -1 ELSE 1
<1>1. controller \in Sizes
    BY Zenon DEF HeldTypes
<1>2. LowFillTimeouts(controller, filled, backlog, timeout) \in Nat
    BY <1>1 DEF LowFillTimeouts
<1>3. c \in Sizes
    BY Zenon, <1>1, <1>2
<1>4. c.size \in Nat /\ c.streak \in [direction: {-1, 0, 1}, samples: Nat]
    BY Zenon, <1>3
<1>5. direction \in {-1, 0, 1}
    BY Zenon
<1>6. MinSize \in Nat /\ MaxSize \in Nat /\ ProbePercent \in Nat /\ BackoffPercent \in Nat
    BY Zenon, BatchOptions
<1>7. \A n \in Int : Clamped(n) \in Nat
    BY <1>6 DEF Clamped
<1>8. \A n \in Nat : n * BackoffPercent \in Nat /\ n * ProbePercent + 99 \in Nat
    BY <1>6
<1>9. \A n \in Nat : n \div 100 \in Nat
    OBVIOUS
<1>10. Probed(c.size) \in Nat /\ BackedOff(c.size) \in Nat
    BY <1>4, <1>7, <1>8, <1>9 DEF Probed, BackedOff
<1> HIDE DEF c, direction
<1>11. \A e \in {-1, 0, 1} : Confirm(c.streak, e) \in [direction: {-1, 0, 1}, samples: Nat]
    BY <1>4 DEF Confirm, Samples
<1>12. LowFilled(c) \in Sizes
    BY Zenon, <1>10, <1>11 DEF LowFilled
<1>13. ObserveDirection(c, direction) \in Sizes
    BY Zenon, <1>3, <1>5, <1>10, <1>11 DEF ObserveDirection
<1> QED BY Zenon, <1>12, <1>13 DEF RecordCompletionCommit, AdjustCompletionBatchSize, c, direction

\* What a step has to keep: the types, and the sum.
LEMMA HeldEnough ==
    ASSUME inbox' \in Seq(Kinds),
           queues' \in [dispatch: Nat, complete: Nat, meta: Nat],
           batch' \in Nat, phase' = "top" => batch' = 0,
           controller' \in [size: Nat, low: Nat,
                            streak: [direction: {-1, 0, 1}, samples: Nat]],
           calls' = Held(Len(inbox'), queues', batch')
    PROVE  HeldInv'
<1>1. Len(inbox') \in Nat
    BY Zenon, LenProperties
<1>2. calls' \in Nat
    BY Zenon, <1>1, HeldArith
<1>3. calls' = Len(inbox') + queues'.dispatch + queues'.complete + queues'.meta + batch'
    BY Zenon DEF Held
<1> QED BY Zenon, <1>2, <1>3 DEF HeldInv, HeldTypes, EveryCallIsHeld

LEMMA HeldInvStep == HeldInv /\ [Next]_vars => HeldInv'
<1> SUFFICES ASSUME HeldInv, [Next]_vars PROVE HeldInv'
    BY Zenon
<1> DEFINE Rows == [dispatch: Nat, complete: Nat, meta: Nat]
           Sizes == [size: Nat, low: Nat,
                     streak: [direction: {-1, 0, 1}, samples: Nat]]
<1>0. /\ HeldTypes /\ inbox \in Seq(Kinds) /\ Len(inbox) \in Nat
      /\ queues \in Rows /\ batch \in Nat /\ controller \in Sizes
      /\ phase = "top" => batch = 0
    BY Zenon, LenProperties DEF HeldInv, HeldTypes
<1>a. calls = Held(Len(inbox), queues, batch) /\ calls \in Nat
    BY Zenon DEF HeldInv, HeldTypes, EveryCallIsHeld, Held
<1>b. Received \in Rows
    BY Zenon, <1>0, ReceivedCount
<1>c. calls = Held(0, Received, batch)
    BY Zenon, <1>0, <1>a, ReceivedHeld
<1>d. <<>> \in Seq(Kinds) /\ Len(<<>>) = 0
    BY Zenon, EmptySeq
<1>1. ASSUME NEW kind \in Kinds, Call(kind) PROVE HeldInv'
    <2>1. inbox' \in Seq(Kinds) /\ Len(inbox') = Len(inbox) + 1
        BY Zenon, <1>0, <1>1, AppendProperties DEF Call
    <2>2. calls' = Held(Len(inbox'), queues, batch)
        BY SMTT(30), <1>0, <1>1, <1>a, <2>1, HeldArith DEF Call
    <2> QED BY Zenon, <1>0, <1>1, <2>1, <2>2, HeldEnough DEF Call
<1>2. CASE Close
    BY Zenon, <1>0, <1>2, <1>a, HeldEnough DEF Close
<1>3. CASE HandleMeta
    <2>1. /\ queues' \in Rows
          /\ queues'.dispatch = Received.dispatch
          /\ queues'.complete = Received.complete
          /\ queues'.meta = Received.meta + (-1)
        BY <1>3, <1>b DEF HandleMeta
    <2>2. Held(0, queues', batch) = calls + (-1)
        <3>1. Shifted(queues', Received, -1) /\ 0 \in Nat /\ -1 \in Int
            BY <2>1 DEF Shifted
        <3>2. Row(Received) /\ batch \in Nat
            BY Zenon, <1>0, <1>b DEF Row
        <3>3. \A n, b \in Nat : Held(n, queues', b) = Held(n, Received, b) + (-1)
            BY SMT, <3>1, <3>2, HeldQueue
        <3> QED BY Zenon, <1>c, <3>1, <3>2, <3>3
    <2>3. calls' = Held(0, queues', batch)
        BY Zenon, <1>3, <1>a, <2>2 DEF HandleMeta
    <2> QED BY Zenon, <1>0, <1>3, <1>d, <2>1, <2>3, HeldEnough DEF HandleMeta
<1>4. CASE BeginDispatch
    <2>1. Received.dispatch > 0 /\ batch = 0
        BY Zenon, <1>0, <1>4 DEF BeginDispatch, Select, Contested, Other
    <2>2. /\ queues' \in Rows
          /\ queues'.dispatch = Received.dispatch + (-1)
          /\ queues'.complete = Received.complete
          /\ queues'.meta = Received.meta
        BY <1>4, <1>b, <2>1 DEF BeginDispatch
    <2>3. Held(0, queues', 0) = calls + (-1)
        <3>1. Shifted(queues', Received, -1) /\ 0 \in Nat /\ -1 \in Int
            BY <2>2 DEF Shifted
        <3>2. Row(Received) /\ calls = Held(0, Received, 0)
            BY Zenon, <1>b, <1>c, <2>1 DEF Row
        <3> QED BY Zenon, <3>1, <3>2, HeldQueue
    <2>4. Held(0, queues', 0 + 1) = (calls + (-1)) + 1
        BY <2>2, <2>3, HeldArith
    <2>5. Held(0, queues', 1) = calls
        BY <1>a, <2>4
    <2> QED BY Zenon, <1>0, <1>4, <1>d, <2>2, <2>5, HeldEnough DEF BeginDispatch
<1>5. ASSUME calls' = calls - batch, batch' = 0, inbox' = inbox, queues' = queues,
             controller' \in Sizes
      PROVE  HeldInv'
    <2>1. Held(Len(inbox), queues, batch) = Held(Len(inbox), queues, 0) + batch
          /\ Held(Len(inbox), queues, 0) \in Nat
        BY <1>0, HeldArith
    <2>2. calls' = Held(Len(inbox'), queues', batch')
        BY SMTT(30), <1>0, <1>5, <1>a, <2>1
    <2> QED BY Zenon, <1>0, <1>5, <2>2, HeldEnough
<1>6. CASE EndDispatch
    BY Zenon, <1>0, <1>5, <1>6 DEF EndDispatch
<1>7. CASE BeginComplete
    <2> DEFINE n == Lesser(controller.size, Received.complete)
    <2>1. n \in Nat /\ n <= Received.complete
        BY <1>0, <1>b DEF Lesser
    <2>2. queues' = [Received EXCEPT !.complete = @ - n]
        BY Zenon, <1>7, <1>b DEF BeginComplete
    <2>3. /\ queues' \in Rows
          /\ queues'.dispatch = Received.dispatch
          /\ queues'.complete = Received.complete + (-n)
          /\ queues'.meta = Received.meta
        BY <1>b, <2>1, <2>2
    <2>4. batch = 0 /\ batch' = n
        BY Zenon, <1>0, <1>7 DEF BeginComplete
    <2> HIDE DEF n
    <2>5. Held(0, queues', 0) = calls + (-n)
        <3>1. Shifted(queues', Received, -n)
            BY Zenon, <2>3 DEF Shifted
        <3>2. 0 \in Nat /\ -n \in Int
            BY <2>1
        <3>3. Row(Received) /\ calls = Held(0, Received, 0)
            BY Zenon, <1>b, <1>c, <2>4 DEF Row
        <3> QED BY Zenon, <3>1, <3>2, <3>3, HeldQueue
    <2>6. Held(0, queues', 0 + n) = (calls + (-n)) + n
        BY <1>a, <2>1, <2>3, <2>5, HeldArith
    <2>7. Held(0, queues', batch') = calls
        BY <1>a, <2>1, <2>4, <2>6
    <2> QED BY Zenon, <1>0, <1>7, <1>d, <2>1, <2>3, <2>4, <2>7, HeldEnough DEF BeginComplete
<1>8. CASE Gather
    <2>1. inbox # <<>> /\ inbox' = Tail(inbox)
        BY Zenon, <1>8 DEF Gather
    <2>2. /\ inbox' \in Seq(Kinds) /\ Len(inbox) = Len(inbox') + 1
          /\ Len(inbox') \in Nat /\ Head(inbox) \in Kinds
        BY <1>0, <2>1, HeadTailProperties, LenProperties
    <2>3. calls = Held(Len(inbox'), queues, batch) + 1
        BY <1>0, <1>a, <2>2, HeldArith
    <2>4. CASE batch' = batch + 1 /\ UNCHANGED <<queues, phase>>
        <3>1. Held(Len(inbox'), queues, batch + 1) = calls
            BY <1>0, <2>2, <2>3, HeldArith
        <3> QED BY <1>0, <1>8, <2>2, <2>4, <3>1, HeldEnough DEF Gather
    <2>5. CASE queues' = Requeued(Head(inbox)) /\ UNCHANGED batch /\ phase' # "top"
        <3> DEFINE k == QueueOf(Head(inbox))
        <3>1. k \in {"dispatch", "complete", "meta"}
            BY Zenon, <2>2 DEF QueueOf, Kinds, Lanes
        <3> HIDE DEF k
        <3>2. queues' = [queues EXCEPT ![k] = @ + 1]
            BY Zenon, <2>5 DEF Requeued, k
        <3>3. /\ queues' \in Rows
              /\ \/ /\ queues'.dispatch = queues.dispatch + 1
                    /\ queues'.complete = queues.complete /\ queues'.meta = queues.meta
                 \/ /\ queues'.dispatch = queues.dispatch
                    /\ queues'.complete = queues.complete + 1 /\ queues'.meta = queues.meta
                 \/ /\ queues'.dispatch = queues.dispatch
                    /\ queues'.complete = queues.complete /\ queues'.meta = queues.meta + 1
            <4>1. queues \in Rows
                BY Zenon, <1>0
            <4>2. CASE k = "dispatch"
                BY <3>2, <4>1, <4>2
            <4>3. CASE k = "complete"
                BY <3>2, <4>1, <4>3
            <4>4. CASE k = "meta"
                BY <3>2, <4>1, <4>4
            <4> QED BY <3>1, <4>2, <4>3, <4>4, Zenon
        <3>4. Held(Len(inbox'), queues', batch) = calls
            <4>1. 1 \in Int
                OBVIOUS
            <4>2. Held(Len(inbox'), queues', batch) = Held(Len(inbox'), queues, batch) + 1
                <5>1. Shifted(queues', queues, 1)
                    BY Zenon, <3>3 DEF Shifted
                <5>2. Row(queues) /\ batch \in Nat /\ Len(inbox') \in Nat
                    BY Zenon, <1>0, <2>2 DEF Row
                <5>3. \A n, b \in Nat : Held(n, queues', b) = Held(n, queues, b) + 1
                    BY SMT, <4>1, <5>1, <5>2, HeldQueue
                <5> QED BY Zenon, <5>2, <5>3
            <4> QED BY <2>3, <4>2, Zenon
        <3> QED BY Zenon, <1>0, <1>8, <2>2, <2>5, <3>3, <3>4, HeldEnough DEF Gather
    <2> QED BY Zenon, <1>8, <2>4, <2>5 DEF Gather
<1>9. ASSUME Record PROVE controller' \in Sizes
    <2>1. queues.complete + Len(inbox) \in Nat /\ (batch < controller.size) \in BOOLEAN
        BY <1>0
    <2>2. \A regressed \in BOOLEAN :
            RecordCompletionCommit(controller, batch, queues.complete + Len(inbox),
                                   batch < controller.size, regressed) \in Sizes
        BY Zenon, <1>0, <2>1, SizesAreNumbers
    <2> QED BY <1>0, <1>9, <2>2, Zenon DEF Record
<1>10. CASE EndComplete
    BY Zenon, <1>0, <1>5, <1>9, <1>10 DEF EndComplete
<1>11. CASE Disconnected
    <2> DEFINE d == queues.dispatch
               c == queues.complete
               m == queues.meta
    <2>1. inbox = <<>> /\ inbox' = inbox /\ batch' = 0 /\ Len(inbox) = 0
        BY Zenon, <1>11, <1>d DEF Disconnected
    <2>2. queues' = [dispatch |-> 0, complete |-> 0, meta |-> 0]
        BY Zenon, <1>0, <1>11 DEF Disconnected
    <2>3. d \in Nat /\ c \in Nat /\ m \in Nat
        BY Zenon, <1>0
    <2>4. calls = 0 + d + c + m + batch /\ calls' = calls - batch - (c + m + d)
        BY <1>11, <1>a, <2>1, Zenon DEF Held, Disconnected, Drained
    <2> HIDE DEF d, c, m
    <2>5. calls' = 0
        BY <1>0, <2>3, <2>4
    <2>6. Held(0, queues', 0) = 0
        BY <2>2 DEF Held
    <2>7. queues' \in Rows /\ controller' \in Sizes
        BY <1>9, <1>11, <2>2 DEF Disconnected
    <2> QED BY Zenon, <1>0, <2>1, <2>5, <2>6, <2>7, HeldEnough
<1>12. CASE Stop
    BY Zenon, <1>0, <1>12, <1>a, HeldEnough DEF Stop
<1>13. CASE UNCHANGED vars
    BY Zenon, <1>0, <1>13, <1>a, HeldEnough DEF vars
<1> QED BY Zenon, <1>1, <1>2, <1>3, <1>4, <1>6, <1>7, <1>8, <1>10, <1>11, <1>12, <1>13
        DEF Next, Writer

LEMMA HeldInvInit == Init => HeldInv
<1> SUFFICES ASSUME Init PROVE HeldInv
    BY Zenon
<1>1. inbox \in Seq(Kinds) /\ Len(inbox) = 0
    BY Zenon, EmptySeq DEF Init
<1>2. InitialSize \in Nat
    <2> DEFINE S == {n \in 1..MaxSize :
                       (2 * n - 1) * (2 * n - 1) <= 4 * MinSize * MaxSize}
    <2>1. IsFiniteSet(1..MaxSize) /\ S \subseteq 1..MaxSize
        BY BatchOptions, FS_Interval
    <2>2. Cardinality(S) \in Nat
        BY Zenon, <2>1, FS_Subset, FS_CardinalityType
    <2> HIDE DEF S
    <2>3. Clamped(Cardinality(S)) \in Nat
        BY Zenon, <2>2, BatchOptions DEF Clamped
    <2> QED BY Zenon, <2>3 DEF InitialSize, S
<1>3. HeldTypes
    BY Zenon, <1>1, <1>2 DEF Init, HeldTypes, NewController, NoStreak
<1>4. EveryCallIsHeld
    BY <1>1 DEF Init, EveryCallIsHeld
<1> QED BY Zenon, <1>3, <1>4 DEF HeldInv

\* Every call of ResultsHandle that waits has its request in exactly one place -
\* the channel, one of the three queues or the open batch - through the drain of
\* the channel, preemption by a meta request and both shutdown paths of
\* results_writer_loop: none is dropped and none answered twice.
THEOREM ResultsCallsAreHeld == Spec => []EveryCallIsHeld
<1>1. HeldInv => EveryCallIsHeld
    BY Zenon DEF HeldInv
<1> QED BY <1>1, HeldInvInit, HeldInvStep, PTL DEF Spec
=============================================================================
