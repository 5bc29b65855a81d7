-------------------------- MODULE IngestWriterProof --------------------------
(***************************************************************************)
(* Theorems about IngestWriter, for every capacity of the channel, every   *)
(* number of callers and failing transactions, and every batch size that   *)
(* BatchOptions::validate accepts.                                         *)
(***************************************************************************)
EXTENDS IngestWriter, FiniteSetTheorems, SequenceTheorems, TLAPS

-----------------------------------------------------------------------------
(***************************************************************************)
(* The batch size                                                          *)
(***************************************************************************)
LEMMA ClampedInRange == \A n \in Int : Clamped(n) \in MinSize..MaxSize
  BY BatchOptions DEF Clamped

LEMMA InitialSizeInRange == InitialSize \in MinSize..MaxSize
<1> DEFINE below == {n \in 1..MaxSize :
                       (2 * n - 1) * (2 * n - 1) <= 4 * MinSize * MaxSize}
<1>1. IsFiniteSet(1..MaxSize)
  BY BatchOptions, FS_Interval
<1>2. IsFiniteSet(below)
  BY Zenon, <1>1, FS_Subset
<1>3. Cardinality(below) \in Int
  BY <1>2, FS_CardinalityType
<1>. QED
  BY Zenon, <1>3, ClampedInRange DEF InitialSize

\* Rounding is of integers, whatever the factors.
LEMMA ProbesInRange ==
    \A n \in Nat : Probed(n) \in MinSize..MaxSize /\ BackedOff(n) \in MinSize..MaxSize
<1> SUFFICES ASSUME NEW n \in Nat
             PROVE  Probed(n) \in MinSize..MaxSize /\ BackedOff(n) \in MinSize..MaxSize
  BY Zenon
<1>1. n * ProbePercent + 99 \in Nat /\ n * BackoffPercent \in Nat
  BY BatchOptions
<1>2. \A p \in Nat : p \div 100 \in Int
  OBVIOUS
<1>. QED
  BY Zenon, <1>1, <1>2, ClampedInRange DEF Probed, BackedOff

\* DirectionStreak::confirm keeps at most two samples.
LEMMA ConfirmType ==
    ASSUME NEW s \in [direction: {-1, 0, 1}, samples: 0..2],
           NEW d \in {-1, 0, 1}
    PROVE  Confirm(s, d) \in [direction: {-1, 0, 1}, samples: 0..2]
  BY DEF Confirm, Confirms, Samples

\* adjust_batch_size keeps the limits of the controller,
LEMMA AdjustType ==
    ASSUME NEW c \in Controller, NEW backlog \in Nat,
           NEW queueing \in BOOLEAN, NEW demand \in BOOLEAN
    PROVE  AdjustBatchSize(c, backlog, queueing, demand) \in Controller
<1> DEFINE direction == IF queueing THEN -1
                        ELSE IF backlog > 0 \/ demand THEN 1 ELSE 0
<1>1. direction \in {-1, 0, 1}
  BY Zenon
<1>2. c.size \in Nat /\ c.size \in MinSize..MaxSize
  BY BatchOptions DEF Controller
<1>3. Confirm(c.streak, 0) \in [direction: {-1, 0, 1}, samples: 0..2]
  BY Zenon, ConfirmType DEF Controller
<1>4. Confirm(c.streak, direction) \in [direction: {-1, 0, 1}, samples: 0..2]
  BY Zenon, <1>1, ConfirmType DEF Controller
<1>5. LowFilled(c) \in Controller
  BY <1>2, <1>3, ProbesInRange DEF Controller, LowFilled
<1>6. ObserveDirection(c, direction) \in Controller
  <2> HIDE DEF direction
  <2>1. IF ~Confirms(c.streak, direction) THEN c.size \in MinSize..MaxSize
        ELSE IF direction = 1 THEN Probed(c.size) \in MinSize..MaxSize
             ELSE BackedOff(c.size) \in MinSize..MaxSize
    BY Zenon, <1>2, ProbesInRange
  <2>. QED
    BY ZenonT(40), <1>4, <2>1 DEF ObserveDirection, Controller
<1>. QED
  BY Zenon, <1>5, <1>6 DEF AdjustBatchSize

\* and so does every commit.
LEMMA RecordCommitType ==
    ASSUME NEW c \in Controller, NEW filled \in Nat, NEW backlog \in Nat,
           NEW timeout \in BOOLEAN, NEW queueing \in BOOLEAN, NEW demand \in BOOLEAN
    PROVE  RecordCommit(c, filled, backlog, timeout, queueing, demand) \in Controller
<1>1. LowFillTimeouts(c, filled, backlog, timeout) \in 0..3
  BY DEF LowFillTimeouts, Controller
<1>2. [c EXCEPT !.low = LowFillTimeouts(c, filled, backlog, timeout)] \in Controller
  BY Zenon, <1>1 DEF Controller
<1>. QED
  BY Zenon, <1>2, AdjustType DEF RecordCommit

-----------------------------------------------------------------------------
(***************************************************************************)
(* Types, and where each call is held                                      *)
(***************************************************************************)
\* Passed changes no kind and no length.
LEMMA PassedSeq ==
    ASSUME NEW s \in Seq(Request)
    PROVE  /\ Passed(s) \in Seq(Request)
           /\ Len(Passed(s)) = Len(s)
           /\ DOMAIN Passed(s) = DOMAIN s
<1>1. \A i \in DOMAIN s : s[i] \in Request
  OBVIOUS
<1>2. \A r \in Request : [r EXCEPT !.passed = @ + 1] \in Request
  BY DEF Request
<1>3. \A i \in 1..Len(s) : Passed(s)[i] \in Request
  BY <1>1, <1>2 DEF Passed
<1>4. DOMAIN Passed(s) = 1..Len(s)
  BY DEF Passed
<1>5. Passed(s) = [i \in 1..Len(s) |-> Passed(s)[i]]
  BY Zenon, <1>4 DEF Passed
<1>6. Passed(s) \in [1..Len(s) -> Request]
  BY Zenon, <1>3, <1>5
<1>. QED
  BY <1>4, <1>6

\* The batch and the rest of the queue when a turn begins.
LEMMA TakenSplits ==
    ASSUME NEW s \in Seq(Request), NEW n \in 0..Len(s)
    PROVE  /\ SubSeq(s, 1, n) \in Seq(Request)
           /\ SubSeq(s, n + 1, Len(s)) \in Seq(Request)
           /\ Len(SubSeq(s, 1, n)) + Len(SubSeq(s, n + 1, Len(s))) = Len(s)
           /\ \A i \in DOMAIN SubSeq(s, 1, n) : SubSeq(s, 1, n)[i] = s[i] /\ i \in DOMAIN s
           /\ \A i \in DOMAIN SubSeq(s, n + 1, Len(s)) :
                SubSeq(s, n + 1, Len(s))[i] = s[n + i] /\ n + i \in DOMAIN s
<1>1. /\ SubSeq(s, 1, n) \in Seq(Request) /\ Len(SubSeq(s, 1, n)) = n
      /\ \A i \in 1..n : SubSeq(s, 1, n)[i] = s[i]
  OBVIOUS
<1>2. /\ SubSeq(s, n + 1, Len(s)) \in Seq(Request)
      /\ Len(SubSeq(s, n + 1, Len(s))) = Len(s) - n
      /\ \A i \in 1..(Len(s) - n) : SubSeq(s, n + 1, Len(s))[i] = s[n + i]
  <2>1. \A i \in (n + 1)..Len(s) : s[i] \in Request
    OBVIOUS
  <2>. QED
    BY <2>1, SubSeqProperties
<1>3. DOMAIN SubSeq(s, 1, n) = 1..n
  BY <1>1
<1>4. DOMAIN SubSeq(s, n + 1, Len(s)) = 1..(Len(s) - n)
  BY <1>2
<1>5. DOMAIN s = 1..Len(s) /\ Len(s) \in Nat
  OBVIOUS
<1>6. \A i \in 1..(Len(s) - n) : n + i \in 1..Len(s)
  BY <1>5
<1>7. \A i \in 1..n : i \in 1..Len(s)
  BY <1>5
<1>8. Len(SubSeq(s, 1, n)) + Len(SubSeq(s, n + 1, Len(s))) = Len(s)
  <2>1. \A a, b, l \in Nat : a = n /\ b = l - n => a + b = l
    OBVIOUS
  <2>2. Len(s) \in Nat /\ n \in Nat /\ Len(s) - n \in Nat
    BY <1>5
  <2>. QED
    BY <1>1, <1>2, <2>1, <2>2, Zenon
<1>. QED
  BY Zenon, <1>1, <1>2, <1>3, <1>4, <1>5, <1>6, <1>7, <1>8

\* What is left of the line behind its first n requests.
LEMMA RestOfLine ==
    ASSUME NEW s \in Seq(Request), NEW n \in Nat
    PROVE  SubSeq(s, n + 1, Len(s)) \in Seq(Request)
<1>1. \A i \in (n + 1)..Len(s) : s[i] \in Request
  OBVIOUS
<1>2. n + 1 \in Int /\ Len(s) \in Int
  OBVIOUS
<1>. QED
  BY Zenon, <1>1, <1>2, SubSeqProperties

\* A request is pushed to one queue.
LEMMA PushOne ==
    ASSUME NEW r \in Request, Push(r),
           meta \in Seq(Request), claim \in Seq(Request), ingest \in Seq(Request)
    PROVE  /\ meta' \in Seq(Request) /\ claim' \in Seq(Request) /\ ingest' \in Seq(Request)
           /\ Len(meta') + Len(claim') + Len(ingest')
                = Len(meta) + Len(claim) + Len(ingest) + 1
<1>1. \/ r.kind \in Meta /\ r.kind # "claim" /\ r.kind # "enqueue"
      \/ r.kind \notin Meta /\ r.kind = "claim"
      \/ r.kind \notin Meta /\ r.kind = "enqueue"
  BY Zenon DEF Request, Kinds, Meta, Named
<1>2. CASE meta' = Append(meta, r) /\ claim' = claim /\ ingest' = ingest
  BY <1>2
<1>3. CASE meta' = meta /\ claim' = Append(claim, r) /\ ingest' = ingest
  BY <1>3
<1>4. CASE meta' = meta /\ claim' = claim /\ ingest' = Append(ingest, r)
  BY <1>4
<1>. QED
  BY Zenon, <1>1, <1>2, <1>3, <1>4 DEF Push

\* A batch is open only within a turn.
PendingInTurn == phase \in {"gather", "flush", "last"} \/ pending = <<>>

TypeInv == TypeOK /\ EveryCallIsHeld /\ PendingInTurn

LEMMA TypeInvInit == Init => TypeInv
<1> SUFFICES ASSUME Init PROVE TypeInv
  BY Zenon
<1>1. NewController \in Controller
  BY InitialSizeInRange DEF NewController, Controller, NoStreak
<1>. QED
  BY <1>1, IngestAssumption DEF Init, TypeInv, TypeOK, EveryCallIsHeld, PendingInTurn

LEMMA TypeInvStep == TypeInv /\ [Next]_vars => TypeInv'
<1> SUFFICES ASSUME TypeInv, [Next]_vars PROVE TypeInv'
  BY Zenon
<1>0. /\ channel \in Seq(Request) /\ meta \in Seq(Request) /\ claim \in Seq(Request)
      /\ ingest \in Seq(Request) /\ pending \in Seq(Request)
      /\ Len(channel) <= Capacity /\ Capacity \in Nat /\ Callers \in Nat
      /\ calls \in 0..Callers /\ controller \in Controller
      /\ calls = Len(channel) + Len(meta) + Len(claim) + Len(ingest) + Len(pending)
  BY Zenon, IngestAssumption DEF TypeInv, TypeOK, EveryCallIsHeld, PendingInTurn
<1>a. faults \in 0..MaxFaults /\ MaxFaults \in Nat /\ (Fault => faults' \in 0..MaxFaults)
  BY IngestAssumption DEF TypeInv, TypeOK, Fault
<1>1. ASSUME NEW kind, NEW q, Call(kind, q),
             \/ kind \in Named /\ q \in Queues
             \/ kind \in Kinds \ Named /\ q = NoQueue
      PROVE  TypeInv'
  <2>1. [kind |-> kind, queue |-> q, passed |-> 0,
         after |-> kind = "enqueue" /\ q \in announced] \in Request
    BY Zenon, <1>1 DEF Request
  <2>2. /\ channel' \in Seq(Request) /\ Len(channel') = Len(channel) + 1
        /\ Len(channel') <= Capacity
    BY <1>0, <1>1, <2>1 DEF Call
  <2>3. calls' = calls + 1 /\ calls' \in 0..Callers
    BY SMTT(30), <1>0, <1>1 DEF Call
  <2>4. announced' \subseteq Queues
    BY Zenon, <1>1 DEF Call, Named, TypeInv, TypeOK
  <2>. QED
    BY SMTT(30), <1>0, <1>1, <2>2, <2>3, <2>4
    DEF Call, queues, TypeInv, TypeOK, EveryCallIsHeld, PendingInTurn
<1>2. CASE Close
  BY Zenon, <1>2 DEF Close, queues, TypeInv, TypeOK, EveryCallIsHeld, PendingInTurn
<1>3. CASE Receive
  <2>1. /\ Head(channel) \in Request /\ Tail(channel) \in Seq(Request)
        /\ Len(channel') = Len(channel) - 1 /\ Len(channel') \in Nat
    BY <1>0, <1>3 DEF Receive
  <2>2. /\ meta' \in Seq(Request) /\ claim' \in Seq(Request) /\ ingest' \in Seq(Request)
        /\ Len(meta') + Len(claim') + Len(ingest')
             = Len(meta) + Len(claim) + Len(ingest) + 1
    BY Zenon, <1>0, <1>3, <2>1, PushOne DEF Receive
  <2>3. EveryCallIsHeld'
    <3>1. calls' = calls /\ pending' = pending
      BY Zenon, <1>3 DEF Receive
    <3>2. /\ Len(meta') \in Nat /\ Len(claim') \in Nat /\ Len(ingest') \in Nat
          /\ Len(meta) \in Nat /\ Len(claim) \in Nat /\ Len(ingest) \in Nat
          /\ Len(channel) \in Nat /\ Len(pending) \in Nat
      BY SMTT(30), <1>0, <2>2
    <3>3. Len(channel') = Len(channel) - 1 /\ Len(pending') = Len(pending)
      BY Zenon, <2>1, <3>1
    <3>4. calls = Len(channel) + Len(meta) + Len(claim) + Len(ingest) + Len(pending)
      BY Zenon, <1>0
    <3>5. Len(meta') + Len(claim') + Len(ingest')
            = Len(meta) + Len(claim) + Len(ingest) + 1
      BY Zenon, <2>2
    <3>6. calls' = Len(channel') + (Len(meta') + Len(claim') + Len(ingest')) + Len(pending')
      BY <3>1, <3>2, <3>3, <3>4, <3>5, SMTT(30)
    <3>. QED
      BY <3>2, <3>3, <3>6 DEF EveryCallIsHeld
  <2>. QED
    BY SMTT(30), <1>0, <1>3, <2>1, <2>2, <2>3 DEF Receive, TypeInv, TypeOK, PendingInTurn
<1>4. CASE Emptied
  BY Zenon, <1>4 DEF Emptied, queues, TypeInv, TypeOK, EveryCallIsHeld, PendingInTurn
<1>5. CASE HandleMeta
  <2>1. /\ Head(meta) \in Request /\ meta' \in Seq(Request)
        /\ Len(meta') = Len(meta) - 1 /\ Len(meta') \in Nat
    BY <1>0, <1>5 DEF HandleMeta
  <2>2. calls' = calls - 1 /\ calls' \in 0..Callers
    BY <1>0, <1>5, <2>1 DEF HandleMeta
  <2>3. names' \subseteq Queues
    BY Zenon, <1>5, <2>1 DEF HandleMeta, Request, Kinds, Named, TypeInv, TypeOK
  <2>4. faults' \in 0..MaxFaults
    BY Zenon, <1>a, <1>5 DEF HandleMeta
  <2>. QED
    BY SMTT(30), <1>0, <1>5, <2>1, <2>2, <2>3, <2>4
    DEF HandleMeta, TypeInv, TypeOK, EveryCallIsHeld, PendingInTurn
<1>6. CASE HandleClaim
  <2>1. /\ claim' \in Seq(Request)
        /\ Len(claim') = Len(claim) - 1 /\ Len(claim') \in Nat
    BY <1>0, <1>6 DEF HandleClaim
  <2>2. calls' = calls - 1 /\ calls' \in 0..Callers
    BY <1>0, <1>6, <2>1 DEF HandleClaim
  <2>. QED
    BY SMTT(30), <1>0, <1>6, <2>1, <2>2
    DEF HandleClaim, TypeInv, TypeOK, EveryCallIsHeld, PendingInTurn
<1>7. CASE BeginTurn
  <2>1. Taken \in 0..Len(ingest)
    BY SMTT(30), <1>0, BatchOptions DEF Taken, Lesser, Controller
  <2>2. /\ pending' \in Seq(Request) /\ ingest' \in Seq(Request)
        /\ Len(pending') + Len(ingest') = Len(ingest)
    BY Zenon, <1>0, <1>7, <2>1, TakenSplits DEF BeginTurn
  <2>3. Len(pending) = 0
    BY <1>7 DEF BeginTurn, TypeInv, PendingInTurn
  <2>4. EveryCallIsHeld'
    <3>1. /\ calls' = calls /\ channel' = channel /\ meta' = meta /\ claim' = claim
          /\ Len(pending') + Len(ingest') = Len(ingest)
          /\ Len(pending') \in Nat /\ Len(ingest') \in Nat
      BY <1>7, <2>2 DEF BeginTurn
    <3>. QED
      BY SMTT(30), <1>0, <2>3, <3>1 DEF EveryCallIsHeld
  <2>. QED
    BY Zenon, <1>0, <1>7, <2>2, <2>4 DEF BeginTurn, TypeInv, TypeOK, PendingInTurn
<1>8. CASE GatherEnqueue
  <2>1. /\ Head(channel) \in Request /\ channel' \in Seq(Request)
        /\ Len(channel') = Len(channel) - 1 /\ Len(channel') \in Nat
    BY <1>0, <1>8 DEF GatherEnqueue
  <2>2. pending' \in Seq(Request) /\ Len(pending') = Len(pending) + 1
    BY <1>0, <1>8, <2>1 DEF GatherEnqueue
  <2>. QED
    BY <1>0, <1>8, <2>1, <2>2
    DEF GatherEnqueue, Gathering, queues, TypeInv, TypeOK, EveryCallIsHeld, PendingInTurn
<1>9. CASE GatherOther
  <2>1. /\ Head(channel) \in Request /\ Tail(channel) \in Seq(Request)
        /\ Len(channel') = Len(channel) - 1 /\ Len(channel') \in Nat
    BY <1>0, <1>9 DEF GatherOther
  <2>2. /\ meta' \in Seq(Request) /\ claim' \in Seq(Request) /\ ingest' \in Seq(Request)
        /\ Len(meta') + Len(claim') + Len(ingest')
             = Len(meta) + Len(claim) + Len(ingest) + 1
    BY Zenon, <1>0, <1>9, <2>1, PushOne DEF GatherOther
  <2>3. EveryCallIsHeld'
    <3>1. calls' = calls /\ pending' = pending
      BY Zenon, <1>9 DEF GatherOther
    <3>2. /\ Len(meta') \in Nat /\ Len(claim') \in Nat /\ Len(ingest') \in Nat
          /\ Len(meta) \in Nat /\ Len(claim) \in Nat /\ Len(ingest) \in Nat
          /\ Len(channel) \in Nat /\ Len(pending) \in Nat
      BY SMTT(30), <1>0, <2>2
    <3>3. Len(channel') = Len(channel) - 1 /\ Len(pending') = Len(pending)
      BY Zenon, <2>1, <3>1
    <3>4. calls = Len(channel) + Len(meta) + Len(claim) + Len(ingest) + Len(pending)
      BY Zenon, <1>0
    <3>5. Len(meta') + Len(claim') + Len(ingest')
            = Len(meta) + Len(claim) + Len(ingest) + 1
      BY Zenon, <2>2
    <3>6. calls' = Len(channel') + (Len(meta') + Len(claim') + Len(ingest')) + Len(pending')
      BY SMTT(30), <3>1, <3>2, <3>3, <3>4, <3>5
    <3>. QED
      BY <3>2, <3>3, <3>6 DEF EveryCallIsHeld
  <2>. QED
    BY SMTT(30), <1>0, <1>9, <2>1, <2>2, <2>3
    DEF GatherOther, Gathering, TypeInv, TypeOK, PendingInTurn
<1>10. CASE Disconnected
  BY Zenon, <1>10 DEF Disconnected, queues, TypeInv, TypeOK, EveryCallIsHeld, PendingInTurn
<1>11. CASE Commit
  <2>1. /\ channel' \in Seq(Request) /\ meta' \in Seq(Request) /\ claim' \in Seq(Request)
        /\ Len(channel') = Len(channel) /\ Len(meta') = Len(meta)
        /\ Len(claim') = Len(claim)
    BY Zenon, <1>0, <1>11, PassedSeq DEF Commit
  <2>2. /\ pending' = <<>> /\ ingest' = ingest
        /\ calls' = calls - Len(pending) /\ calls' \in 0..Callers
    BY <1>0, <1>11 DEF Commit
  <2>3. Cardinality(Inserted) \in Nat
    <3>1. IsFiniteSet(1..Len(pending)) /\ DOMAIN pending = 1..Len(pending)
      BY <1>0, FS_Interval
    <3>2. IsFiniteSet(Inserted)
      BY Zenon, <3>1, FS_Subset DEF Inserted
    <3>. QED
      BY Zenon, <3>2, FS_CardinalityType
  <2>4. controller' \in Controller /\ faults' \in 0..MaxFaults
    <3>1. Len(channel) \in Nat /\ (Len(pending) < controller.size) \in BOOLEAN
      BY <1>0
    <3>2. \A queueing, demand \in BOOLEAN :
            RecordCommit(controller, Cardinality(Inserted), Len(channel),
                         Len(pending) < controller.size, queueing, demand) \in Controller
      BY Zenon, <1>0, <2>3, <3>1, RecordCommitType
    <3>. QED
      BY Zenon, <1>0, <1>a, <1>11, <3>2 DEF Commit
  <2>5. line' \in Seq(Request)
    <3>1. Len(pending) \in Nat /\ line \in Seq(Request)
      BY <1>0 DEF TypeInv, TypeOK
    <3>. QED
      BY <1>11, <3>1, RestOfLine, Zenon DEF Commit
  <2>. QED
    BY SMTT(30), <1>0, <1>11, <2>1, <2>2, <2>4, <2>5
    DEF Commit, TypeInv, TypeOK, EveryCallIsHeld, PendingInTurn
<1>12. CASE Drain
  <2>1. calls' \in 0..Callers
    BY SMTT(30), <1>0, <1>12 DEF Drain
  <2>2. line' \in Seq(Request)
    <3>1. Len(ingest) \in Nat /\ line \in Seq(Request)
      BY <1>0 DEF TypeInv, TypeOK
    <3>. QED
      BY <1>12, <3>1, RestOfLine, Zenon DEF Drain
  <2>. QED
    BY <1>0, <1>12, <2>1, <2>2 DEF Drain, TypeInv, TypeOK, EveryCallIsHeld, PendingInTurn
<1>13. CASE Stop
  BY Zenon, <1>13 DEF Stop, queues, TypeInv, TypeOK, EveryCallIsHeld, PendingInTurn
<1>14. CASE UNCHANGED vars
  BY Zenon, <1>14 DEF vars, queues, TypeInv, TypeOK, EveryCallIsHeld, PendingInTurn
<1>. QED
  BY Zenon, <1>1, <1>2, <1>3, <1>4, <1>5, <1>6, <1>7, <1>8, <1>9, <1>10, <1>11, <1>12,
     <1>13, <1>14 DEF Next, Writer

\* Every variable of the writer keeps its type, and the batch size its limits.
THEOREM IngestTypes == Spec => []TypeOK
<1>1. TypeInv => TypeOK
  BY Zenon DEF TypeInv
<1>. QED
  BY <1>1, TypeInvInit, TypeInvStep, PTL DEF Spec

\* The writer drops no call and answers none twice, through preemption, failing
\* transactions and both ways the loop ends.
THEOREM CallsAreHeld == Spec => []EveryCallIsHeld
<1>1. TypeInv => EveryCallIsHeld
  BY Zenon DEF TypeInv
<1>. QED
  BY <1>1, TypeInvInit, TypeInvStep, PTL DEF Spec

-----------------------------------------------------------------------------
(***************************************************************************)
(* A batch overtakes a request at most once                                *)
(***************************************************************************)
\* No batch has overtaken a request of s.
Fresh(s) == \A i \in DOMAIN s : s[i].passed = 0

\* At most one batch has.
AtMostOnce(s) == \A i \in DOMAIN s : s[i].passed <= 1

\* A turn begins only when the channel was found empty and no meta request and
\* no claim is queued, so all that is met by its commit arrived during the turn.
OvertakeInv ==
    /\ AtMostOnce(channel) /\ AtMostOnce(meta) /\ AtMostOnce(claim)
    /\ phase \in {"serve", "gather", "flush", "last"} => Fresh(channel)
    /\ phase \in {"gather", "flush", "last"} => Fresh(meta) /\ Fresh(claim)

LEMMA FreshOnce ==
    ASSUME NEW s \in Seq(Request), Fresh(s)
    PROVE  AtMostOnce(s) /\ AtMostOnce(Passed(s))
  BY DEF Fresh, AtMostOnce, Passed, Request

LEMMA TailElements ==
    ASSUME NEW s \in Seq(Request), s # <<>>
    PROVE  /\ 1 \in DOMAIN s /\ Head(s) = s[1]
           /\ \A i \in DOMAIN Tail(s) : i + 1 \in DOMAIN s /\ Tail(s)[i] = s[i + 1]
           /\ \A i \in DOMAIN s : i = 1 \/ (i - 1 \in DOMAIN Tail(s) /\ Tail(s)[i - 1] = s[i])
  OBVIOUS

LEMMA AppendElements ==
    ASSUME NEW s \in Seq(Request), NEW r \in Request
    PROVE  /\ DOMAIN Append(s, r) = DOMAIN s \cup {Len(s) + 1}
           /\ \A i \in DOMAIN s : Append(s, r)[i] = s[i] /\ i <= Len(s) /\ i \in Nat \ {0}
           /\ Append(s, r)[Len(s) + 1] = r
  OBVIOUS

\* Removing the head and adding a fresh request keep both predicates.
LEMMA FreshSeqs ==
    ASSUME NEW s \in Seq(Request)
    PROVE  /\ s # <<>> => /\ AtMostOnce(s) => Head(s).passed <= 1 /\ AtMostOnce(Tail(s))
                          /\ Fresh(s) => Head(s).passed = 0 /\ Fresh(Tail(s))
           /\ \A r \in Request :
                /\ AtMostOnce(s) /\ r.passed <= 1 => AtMostOnce(Append(s, r))
                /\ Fresh(s) /\ r.passed = 0 => Fresh(Append(s, r))
<1>1. ASSUME s # <<>>
      PROVE  /\ AtMostOnce(s) => Head(s).passed <= 1 /\ AtMostOnce(Tail(s))
             /\ Fresh(s) => Head(s).passed = 0 /\ Fresh(Tail(s))
  BY <1>1, TailElements DEF AtMostOnce, Fresh
<1>2. ASSUME NEW r \in Request
      PROVE  /\ AtMostOnce(s) /\ r.passed <= 1 => AtMostOnce(Append(s, r))
             /\ Fresh(s) /\ r.passed = 0 => Fresh(Append(s, r))
  BY AppendElements DEF AtMostOnce, Fresh
<1>. QED
  BY Zenon, <1>1, <1>2

\* Pushing a request the predicates hold of.
LEMMA PushKeeps ==
    ASSUME NEW r \in Request, Push(r), meta \in Seq(Request), claim \in Seq(Request)
    PROVE  /\ /\ AtMostOnce(meta) /\ AtMostOnce(claim) /\ r.passed <= 1
              => AtMostOnce(meta') /\ AtMostOnce(claim')
           /\ /\ Fresh(meta) /\ Fresh(claim) /\ r.passed = 0
              => Fresh(meta') /\ Fresh(claim')
<1>1. meta' \in {meta, Append(meta, r)} /\ claim' \in {claim, Append(claim, r)}
  BY Zenon DEF Push
<1>2. ASSUME AtMostOnce(meta), AtMostOnce(claim), r.passed <= 1
      PROVE  AtMostOnce(meta') /\ AtMostOnce(claim')
  <2>1. AtMostOnce(Append(meta, r)) /\ AtMostOnce(Append(claim, r))
    BY Zenon, <1>2, FreshSeqs
  <2>. QED
    BY Zenon, <1>1, <1>2, <2>1
<1>3. ASSUME Fresh(meta), Fresh(claim), r.passed = 0
      PROVE  Fresh(meta') /\ Fresh(claim')
  <2>1. Fresh(Append(meta, r)) /\ Fresh(Append(claim, r))
    BY Zenon, <1>3, FreshSeqs
  <2>. QED
    BY Zenon, <1>1, <1>3, <2>1
<1>. QED
  BY Zenon, <1>2, <1>3

LEMMA OvertakeStep == TypeInv /\ OvertakeInv /\ [Next]_vars => OvertakeInv'
<1> SUFFICES ASSUME TypeInv, OvertakeInv, [Next]_vars PROVE OvertakeInv'
  BY Zenon
<1>0. /\ channel \in Seq(Request) /\ meta \in Seq(Request) /\ claim \in Seq(Request)
  BY Zenon DEF TypeInv, TypeOK
<1>1. ASSUME NEW kind, NEW q, Call(kind, q),
             \/ kind \in Named /\ q \in Queues
             \/ kind \in Kinds \ Named /\ q = NoQueue
      PROVE  OvertakeInv'
  <2> DEFINE r == [kind |-> kind, queue |-> q, passed |-> 0,
                   after |-> kind = "enqueue" /\ q \in announced]
  <2>1. r \in Request /\ r.passed = 0 /\ r.passed <= 1
    BY <1>1 DEF Request
  <2>2. /\ channel' = Append(channel, r) /\ meta' = meta /\ claim' = claim
        /\ phase' = phase
    BY Zenon, <1>1 DEF Call, queues
  <2> HIDE DEF r
  <2>3. /\ AtMostOnce(channel) => AtMostOnce(channel')
        /\ Fresh(channel) => Fresh(channel')
    BY Zenon, <1>0, <2>1, <2>2, FreshSeqs
  <2>. QED
    BY Zenon, <2>2, <2>3 DEF OvertakeInv
<1>2. CASE Receive
  <2>1. /\ Head(channel) \in Request /\ Push(Head(channel))
        /\ channel' = Tail(channel) /\ phase' = "receive"
    BY <1>0, <1>2 DEF Receive
  <2>2. Head(channel).passed <= 1 /\ AtMostOnce(Tail(channel))
    BY Zenon, <1>0, <1>2, FreshSeqs DEF Receive, OvertakeInv
  <2>3. AtMostOnce(meta') /\ AtMostOnce(claim')
    BY Zenon, <1>0, <2>1, <2>2, PushKeeps DEF OvertakeInv
  <2>. QED
    BY Zenon, <2>1, <2>2, <2>3 DEF OvertakeInv
<1>3. CASE Emptied
  BY <1>3 DEF Emptied, queues, OvertakeInv, Fresh
<1>4. CASE HandleMeta
  <2>1. AtMostOnce(Tail(meta))
    BY Zenon, <1>0, <1>4, FreshSeqs DEF HandleMeta, OvertakeInv
  <2>. QED
    BY Zenon, <1>4, <2>1 DEF HandleMeta, OvertakeInv
<1>5. CASE HandleClaim
  <2>1. AtMostOnce(Tail(claim))
    BY Zenon, <1>0, <1>5, FreshSeqs DEF HandleClaim, OvertakeInv
  <2>. QED
    BY Zenon, <1>5, <2>1 DEF HandleClaim, OvertakeInv
<1>6. CASE BeginTurn
  BY <1>6 DEF BeginTurn, OvertakeInv, Fresh
<1>7. CASE GatherEnqueue
  <2>1. AtMostOnce(Tail(channel)) /\ Fresh(Tail(channel))
    BY Zenon, <1>0, <1>7, FreshSeqs DEF GatherEnqueue, Gathering, OvertakeInv
  <2>. QED
    BY Zenon, <1>7, <2>1 DEF GatherEnqueue, queues, OvertakeInv
<1>8. CASE GatherOther
  <2>1. /\ Head(channel) \in Request /\ Push(Head(channel))
        /\ channel' = Tail(channel) /\ phase' \in {"gather", "flush"}
        /\ phase = "gather" /\ channel # <<>>
    BY <1>0, <1>8 DEF GatherOther, Gathering
  <2>2. /\ Head(channel).passed = 0 /\ Head(channel).passed <= 1
        /\ AtMostOnce(Tail(channel)) /\ Fresh(Tail(channel))
    BY Zenon, <1>0, <2>1, FreshSeqs DEF OvertakeInv
  <2>3. /\ AtMostOnce(meta') /\ AtMostOnce(claim')
        /\ Fresh(meta') /\ Fresh(claim')
    BY Zenon, <1>0, <2>1, <2>2, PushKeeps DEF OvertakeInv
  <2>. QED
    BY Zenon, <2>1, <2>2, <2>3 DEF OvertakeInv
<1>9. CASE Commit
  <2>1. /\ AtMostOnce(Passed(channel)) /\ AtMostOnce(Passed(meta))
        /\ AtMostOnce(Passed(claim))
    BY Zenon, <1>0, <1>9, FreshOnce DEF Commit, OvertakeInv
  <2>. QED
    BY Zenon, <1>9, <2>1 DEF Commit, OvertakeInv
<1>10. CASE Drain
  BY <1>10 DEF Drain, OvertakeInv, AtMostOnce, Fresh
<1>11. CASE Close \/ Disconnected \/ Stop \/ UNCHANGED vars
  BY Zenon, <1>11 DEF Close, Disconnected, Gathering, Stop, vars, queues, OvertakeInv
<1>. QED
  BY Zenon, <1>1, <1>2, <1>3, <1>4, <1>5, <1>6, <1>7, <1>8, <1>9, <1>10, <1>11
  DEF Next, Writer

\* A claim, repend, upsert or cleanup waits for at most one batch of enqueues,
\* however many enqueues arrive and however large the batches become.
THEOREM OvertakenAtMostOnce == Spec => []OvertakenOnce
<1>1. Init => TypeInv /\ OvertakeInv
  BY TypeInvInit DEF Init, OvertakeInv, AtMostOnce, Fresh
<1>2. TypeInv /\ OvertakeInv /\ [Next]_vars => (TypeInv /\ OvertakeInv)'
  BY Zenon, TypeInvStep, OvertakeStep
<1>3. OvertakeInv => OvertakenOnce
  BY Zenon DEF OvertakeInv, OvertakenOnce, AtMostOnce
<1>. QED
  BY <1>1, <1>2, <1>3, PTL DEF Spec

-----------------------------------------------------------------------------
(***************************************************************************)
(* An upsert is served before the enqueues that follow it                  *)
(***************************************************************************)
IsUpsert(r, q) == r.kind = "upsert" /\ r.queue = q

\* Queue q is known, or will be before the next turn begins.
Coming(q) == q \in names \/ \E k \in DOMAIN meta : IsUpsert(meta[k], q)

\* The upsert of every announced queue is done, queued or in the channel.
AnnouncedComing ==
    open => \A q \in announced : Coming(q) \/ \E k \in DOMAIN channel :
                                                IsUpsert(channel[k], q)

\* That of an enqueue in the channel is not behind it.
ChannelComing ==
    \A i \in DOMAIN channel : channel[i].after =>
        \/ Coming(channel[i].queue)
        \/ \E k \in DOMAIN channel : k < i /\ IsUpsert(channel[k], channel[i].queue)

\* That of a queued enqueue is done or queued.
IngestComing == \A i \in DOMAIN ingest : ingest[i].after => Coming(ingest[i].queue)

\* That of an enqueue in the batch is done.
PendingKnown == \A i \in DOMAIN pending : pending[i].after => pending[i].queue \in names

\* While a batch is open no upsert is queued: it would have closed the batch.
NoUpsertInTurn == phase = "gather" => \A k \in DOMAIN meta : meta[k].kind # "upsert"

UpsertInv ==
    /\ phase \in {"last", "drain"} => channel = <<>> /\ ~open
    /\ NoUpsertInTurn
    /\ faults = 0 => AnnouncedComing /\ ChannelComing /\ IngestComing /\ PendingKnown

\* A pushed request keeps what was coming, and comes itself if it is an upsert.
LEMMA PushComing ==
    ASSUME NEW r \in Request, Push(r), meta \in Seq(Request), names' = names
    PROVE  /\ \A q : Coming(q) => Coming(q)'
           /\ \A q : IsUpsert(r, q) => Coming(q)'
<1>1. CASE meta' = meta
  <2>1. r.kind # "upsert"
    BY <1>1, AppendElements DEF Push, Meta
  <2>. QED
    BY Zenon, <1>1, <2>1 DEF Coming, IsUpsert
<1>2. CASE meta' = Append(meta, r)
  <2>1. /\ \A k \in DOMAIN meta : k \in DOMAIN meta' /\ meta'[k] = meta[k]
        /\ Len(meta) + 1 \in DOMAIN meta' /\ meta'[Len(meta) + 1] = r
    BY <1>2, AppendElements
  <2>. QED
    BY Zenon, <2>1 DEF Coming, IsUpsert
<1>. QED
  BY Zenon, <1>1, <1>2 DEF Push

\* Taking the head of the channel, once the head is taken care of.
LEMMA TailComing ==
    ASSUME channel \in Seq(Request), channel # <<>>, channel' = Tail(channel),
           open' = open, announced' = announced,
           \A q : Coming(q) => Coming(q)',
           \A q : IsUpsert(Head(channel), q) => Coming(q)',
           AnnouncedComing, ChannelComing
    PROVE  /\ AnnouncedComing' /\ ChannelComing'
           /\ Head(channel).after => Coming(Head(channel).queue)
<1>1. /\ 1 \in DOMAIN channel /\ Head(channel) = channel[1]
      /\ \A i \in DOMAIN channel' : i + 1 \in DOMAIN channel /\ channel'[i] = channel[i + 1]
      /\ \A i \in DOMAIN channel : i \in Nat \ {0}
      /\ \A i \in DOMAIN channel :
           i = 1 \/ (i - 1 \in DOMAIN channel' /\ channel'[i - 1] = channel[i])
  BY TailElements
<1>2. ASSUME NEW k \in DOMAIN channel, NEW q, IsUpsert(channel[k], q)
      PROVE  \/ Coming(q)'
             \/ k - 1 \in DOMAIN channel' /\ IsUpsert(channel'[k - 1], q)
  <2>1. CASE k = 1
    <3>1. IsUpsert(Head(channel), q)
      BY Zenon, <1>1, <1>2, <2>1
    <3>. QED
      BY Zenon, <3>1
  <2>2. CASE k # 1
    <3>1. k - 1 \in DOMAIN channel' /\ channel'[k - 1] = channel[k]
      BY Zenon, <1>1, <2>2
    <3>. QED
      BY Zenon, <1>2, <3>1 DEF IsUpsert
  <2>. QED
    BY Zenon, <2>1, <2>2
<1>3. AnnouncedComing'
  <2> SUFFICES ASSUME open, NEW q \in announced
               PROVE  Coming(q)' \/ \E k \in DOMAIN channel' : IsUpsert(channel'[k], q)
    BY Zenon DEF AnnouncedComing, IsUpsert
  <2>1. Coming(q) \/ \E k \in DOMAIN channel : IsUpsert(channel[k], q)
    BY Zenon DEF AnnouncedComing
  <2>. QED
    BY Zenon, <1>2, <2>1
<1>4. ChannelComing'
  <2> SUFFICES ASSUME NEW i \in DOMAIN channel', channel'[i].after
               PROVE  \/ Coming(channel[i].queue)'
                      \/ \E k \in DOMAIN channel' :
                           k < i /\ IsUpsert(channel'[k], channel'[i].queue)
    BY Zenon DEF ChannelComing, IsUpsert
  <2>0. i + 1 \in DOMAIN channel /\ channel'[i] = channel[i + 1] /\ i \in Nat
    BY <1>1
  <2> SUFFICES ASSUME NEW q, q = channel[i + 1].queue
               PROVE  \/ Coming(q)'
                      \/ \E k \in DOMAIN channel' : k < i /\ IsUpsert(channel'[k], q)
    BY Zenon, <2>0 DEF Coming, IsUpsert
  <2>1. CASE Coming(q)
    BY Zenon, <2>1
  <2>2. CASE \E k \in DOMAIN channel : k < i + 1 /\ IsUpsert(channel[k], q)
    <3>1. PICK k \in DOMAIN channel : k < i + 1 /\ IsUpsert(channel[k], q)
      BY Zenon, <2>2
    <3>2. k - 1 < i
      BY <1>1, <2>0, <3>1
    <3>. QED
      BY Zenon, <1>2, <3>1, <3>2
  <2>. QED
    BY Zenon, <2>0, <2>1, <2>2 DEF ChannelComing
<1>5. Head(channel).after => Coming(Head(channel).queue)
  BY <1>1 DEF ChannelComing
<1>. QED
  BY Zenon, <1>3, <1>4, <1>5

\* Nothing that UpsertInv speaks of changes, except the phase.
LEMMA UpsertUnchanged ==
    ASSUME UpsertInv,
           UNCHANGED <<channel, meta, ingest, pending, names, announced>>,
           faults' = 0 => faults = 0, open' => open,
           phase' = "gather" => phase = "gather",
           phase' \in {"last", "drain"} =>
               phase \in {"last", "drain"} \/ (channel = <<>> /\ ~open)
    PROVE  UpsertInv'
<1>1. NoUpsertInTurn'
  BY Zenon DEF UpsertInv, NoUpsertInTurn
<1>2. AnnouncedComing => AnnouncedComing'
  BY Zenon DEF AnnouncedComing, Coming, IsUpsert
<1>3. ChannelComing => ChannelComing'
  BY Zenon DEF ChannelComing, Coming, IsUpsert
<1>4. IngestComing => IngestComing'
  BY Zenon DEF IngestComing, Coming, IsUpsert
<1>5. PendingKnown => PendingKnown'
  BY Zenon DEF PendingKnown
<1>. QED
  BY Zenon, <1>1, <1>2, <1>3, <1>4, <1>5 DEF UpsertInv

\* Passed changes nothing else of a request.
LEMMA PassedElements ==
    ASSUME NEW s \in Seq(Request), NEW i \in DOMAIN s
    PROVE  /\ Passed(s)[i].kind = s[i].kind /\ Passed(s)[i].queue = s[i].queue
           /\ Passed(s)[i].after = s[i].after
<1>1. s[i] \in Request
  OBVIOUS
<1>. QED
  BY Zenon, <1>1 DEF Passed, Request

LEMMA UpsertStep == TypeInv /\ UpsertInv /\ [Next]_vars => UpsertInv'
<1> SUFFICES ASSUME TypeInv, UpsertInv, [Next]_vars PROVE UpsertInv'
  BY Zenon
<1>0. /\ channel \in Seq(Request) /\ meta \in Seq(Request) /\ claim \in Seq(Request)
      /\ ingest \in Seq(Request) /\ pending \in Seq(Request)
      /\ faults \in Nat /\ (Fault => faults' # 0)
  BY DEF TypeInv, TypeOK, Fault
<1>1. ASSUME NEW kind, NEW q, Call(kind, q),
             \/ kind \in Named /\ q \in Queues
             \/ kind \in Kinds \ Named /\ q = NoQueue
      PROVE  UpsertInv'
  <2> DEFINE r == [kind |-> kind, queue |-> q, passed |-> 0,
                   after |-> kind = "enqueue" /\ q \in announced]
  <2>1. /\ r \in Request /\ r.kind = kind /\ r.queue = q
        /\ r.after => q \in announced
    BY Zenon, <1>1 DEF Request
  <2>2. /\ channel' = Append(channel, r) /\ open /\ open' = open
        /\ UNCHANGED <<meta, ingest, pending, names, phase, faults>>
        /\ announced' = IF kind = "upsert" THEN announced \cup {q} ELSE announced
    BY Zenon, <1>1 DEF Call, queues
  <2> HIDE DEF r
  <2>3. /\ DOMAIN channel' = DOMAIN channel \cup {Len(channel) + 1}
        /\ \A i \in DOMAIN channel : channel'[i] = channel[i] /\ i < Len(channel) + 1
        /\ channel'[Len(channel) + 1] = r
    BY <1>0, <2>1, <2>2, AppendElements
  <2>4. \A p : Coming(p)' <=> Coming(p)
    BY Zenon, <2>2 DEF Coming
  <2>5. ASSUME AnnouncedComing PROVE AnnouncedComing'
    <3> SUFFICES ASSUME NEW p \in announced'
                 PROVE  Coming(p)' \/ \E k \in DOMAIN channel' : IsUpsert(channel'[k], p)
      BY Zenon DEF AnnouncedComing, IsUpsert
    <3>1. CASE p \in announced
      <4>1. Coming(p) \/ \E k \in DOMAIN channel : IsUpsert(channel[k], p)
        BY Zenon, <2>2, <2>5, <3>1 DEF AnnouncedComing
      <4>. QED
        BY Zenon, <2>3, <2>4, <4>1
    <3>2. CASE kind = "upsert" /\ p = q
      BY Zenon, <2>1, <2>3, <3>2 DEF IsUpsert
    <3>. QED
      BY Zenon, <2>2, <3>1, <3>2
  <2>6. ASSUME AnnouncedComing, ChannelComing PROVE ChannelComing'
    <3> SUFFICES ASSUME NEW i \in DOMAIN channel', channel'[i].after,
                        NEW p, p = channel'[i].queue
                 PROVE  \/ Coming(p)'
                        \/ \E k \in DOMAIN channel' : k < i /\ IsUpsert(channel'[k], p)
      BY Zenon DEF ChannelComing, Coming, IsUpsert
    <3>1. CASE i \in DOMAIN channel
      <4>1. Coming(p) \/ \E k \in DOMAIN channel : k < i /\ IsUpsert(channel[k], p)
        BY Zenon, <2>3, <2>6, <3>1 DEF ChannelComing
      <4>. QED
        BY Zenon, <2>3, <2>4, <4>1
    <3>2. CASE i = Len(channel) + 1
      <4>1. Coming(p) \/ \E k \in DOMAIN channel : IsUpsert(channel[k], p)
        BY Zenon, <2>1, <2>2, <2>3, <2>6, <3>2 DEF AnnouncedComing
      <4>. QED
        BY Zenon, <2>3, <2>4, <3>2, <4>1
    <3>. QED
      BY Zenon, <2>3, <3>1, <3>2
  <2>7. IngestComing => IngestComing'
    BY Zenon, <2>2, <2>4 DEF IngestComing, Coming
  <2>8. PendingKnown => PendingKnown'
    BY Zenon, <2>2 DEF PendingKnown
  <2>9. NoUpsertInTurn' /\ ~(phase' \in {"last", "drain"})
    BY Zenon, <2>2 DEF NoUpsertInTurn, UpsertInv
  <2>. QED
    BY Zenon, <2>2, <2>5, <2>6, <2>7, <2>8, <2>9 DEF UpsertInv
<1>2. CASE Receive
  <2>1. /\ Head(channel) \in Request /\ Push(Head(channel))
        /\ channel' = Tail(channel) /\ channel # <<>> /\ phase' = "receive"
        /\ UNCHANGED <<pending, names, open, faults, announced>>
    BY <1>0, <1>2 DEF Receive
  <2>2. /\ \A p : Coming(p) => Coming(p)'
        /\ \A p : IsUpsert(Head(channel), p) => Coming(p)'
    BY Zenon, <1>0, <2>1, PushComing
  <2>3. ASSUME AnnouncedComing, ChannelComing
        PROVE  /\ AnnouncedComing' /\ ChannelComing'
               /\ Head(channel).after => Coming(Head(channel).queue)
    BY Zenon, <1>0, <2>1, <2>2, <2>3, TailComing
  <2>4. ASSUME IngestComing, Head(channel).after => Coming(Head(channel).queue)
        PROVE  IngestComing'
    <3> SUFFICES ASSUME NEW i \in DOMAIN ingest', ingest'[i].after,
                        NEW p, p = ingest'[i].queue
                 PROVE  Coming(p)'
      BY Zenon DEF IngestComing, Coming, IsUpsert
    <3>1. \/ i \in DOMAIN ingest /\ ingest'[i] = ingest[i]
          \/ ingest'[i] = Head(channel)
      BY SMTT(30), <1>0, <2>1, AppendElements DEF Push
    <3>2. Coming(p)
      BY Zenon, <2>4, <3>1 DEF IngestComing
    <3>. QED
      BY Zenon, <2>2, <3>2
  <2>5. PendingKnown => PendingKnown'
    BY Zenon, <2>1 DEF PendingKnown
  <2>. QED
    BY Zenon, <2>1, <2>3, <2>4, <2>5 DEF UpsertInv, NoUpsertInTurn
<1>3. CASE HandleMeta
  <2>1. /\ meta # <<>> /\ meta' = Tail(meta) /\ phase' = "receive"
        /\ UNCHANGED <<channel, ingest, pending, open, announced>>
    BY Zenon, <1>3 DEF HandleMeta
  <2>2. ASSUME faults' = 0
        PROVE  /\ faults = 0
               /\ names' = IF Head(meta).kind = "upsert"
                           THEN names \cup {Head(meta).queue} ELSE names
    BY Zenon, <1>0, <1>3, <2>2 DEF HandleMeta
  <2>3. ASSUME faults' = 0, NEW p, Coming(p) PROVE Coming(p)'
    <3>1. CASE p \in names
      BY Zenon, <2>2, <2>3, <3>1 DEF Coming
    <3>2. CASE \E k \in DOMAIN meta : IsUpsert(meta[k], p)
      <4>1. PICK k \in DOMAIN meta : IsUpsert(meta[k], p)
        BY Zenon, <3>2
      <4>2. CASE k = 1
        <5>1. Head(meta).kind = "upsert" /\ Head(meta).queue = p
          BY <1>0, <2>1, <4>1, <4>2 DEF IsUpsert
        <5>. QED
          BY Zenon, <2>2, <2>3, <5>1 DEF Coming
      <4>3. CASE k # 1
        <5>1. k - 1 \in DOMAIN meta' /\ meta'[k - 1] = meta[k]
          BY Zenon, <1>0, <2>1, <4>3, TailElements
        <5>. QED
          BY Zenon, <4>1, <5>1 DEF Coming, IsUpsert
      <4>. QED
        BY Zenon, <4>2, <4>3
    <3>. QED
      BY Zenon, <2>3, <3>1, <3>2 DEF Coming
  <2>4. ASSUME faults' = 0
        PROVE  AnnouncedComing' /\ ChannelComing' /\ IngestComing' /\ PendingKnown'
    <3>1. AnnouncedComing /\ ChannelComing /\ IngestComing /\ PendingKnown
      BY Zenon, <2>2, <2>4 DEF UpsertInv
    <3>2. \A p : Coming(p) => Coming(p)'
      BY Zenon, <2>3, <2>4
    <3>3. AnnouncedComing'
      BY Zenon, <2>1, <3>1, <3>2 DEF AnnouncedComing, IsUpsert
    <3>4. ASSUME NEW i \in DOMAIN channel, channel[i].after, NEW p, p = channel[i].queue
          PROVE  Coming(p)' \/ \E k \in DOMAIN channel : k < i /\ IsUpsert(channel[k], p)
      BY Zenon, <3>1, <3>2, <3>4 DEF ChannelComing
    <3>5. ChannelComing'
      BY <2>1, <3>4 DEF ChannelComing, Coming, IsUpsert
    <3>6. ASSUME NEW i \in DOMAIN ingest, ingest[i].after, NEW p, p = ingest[i].queue
          PROVE  Coming(p)'
      BY Zenon, <3>1, <3>2, <3>6 DEF IngestComing
    <3>7. IngestComing'
      BY Zenon, <2>1, <3>6 DEF IngestComing, Coming
    <3>8. PendingKnown'
      BY Zenon, <2>1, <2>2, <2>4, <3>1 DEF PendingKnown
    <3>. QED
      BY Zenon, <3>3, <3>5, <3>7, <3>8
  <2>. QED
    BY Zenon, <2>1, <2>4 DEF UpsertInv, NoUpsertInTurn
<1>4. CASE BeginTurn
  <2>1. /\ meta = <<>> /\ phase' = "gather"
        /\ UNCHANGED <<channel, meta, names, open, faults, announced>>
        /\ pending' = SubSeq(ingest, 1, Taken)
        /\ ingest' = SubSeq(ingest, Taken + 1, Len(ingest))
    BY Zenon, <1>4 DEF BeginTurn
  <2>2. Taken \in 0..Len(ingest)
    BY <1>0, BatchOptions DEF Taken, Lesser, Controller, TypeInv, TypeOK
  <2>3. /\ \A i \in DOMAIN pending' : i \in DOMAIN ingest /\ pending'[i] = ingest[i]
        /\ \A i \in DOMAIN ingest' :
             Taken + i \in DOMAIN ingest /\ ingest'[i] = ingest[Taken + i]
    BY Zenon, <1>0, <2>1, <2>2, TakenSplits
  <2>4. \A p : (Coming(p) <=> p \in names) /\ (Coming(p)' <=> p \in names)
    BY <2>1 DEF Coming
  <2>5. IngestComing => PendingKnown'
    BY Zenon, <2>1, <2>3, <2>4 DEF IngestComing, PendingKnown
  <2>6. IngestComing => IngestComing'
    BY ZenonT(40), <2>1, <2>3, <2>4 DEF IngestComing, Coming
  <2>7. (AnnouncedComing => AnnouncedComing') /\ (ChannelComing => ChannelComing')
    BY Zenon, <2>1 DEF AnnouncedComing, ChannelComing, Coming, IsUpsert
  <2>. QED
    BY <2>1, <2>5, <2>6, <2>7 DEF UpsertInv, NoUpsertInTurn
<1>5. CASE GatherEnqueue
  <2>1. /\ Head(channel) \in Request /\ Head(channel).kind = "enqueue"
        /\ channel' = Tail(channel) /\ channel # <<>> /\ phase = "gather"
        /\ pending' = Append(pending, Head(channel))
        /\ UNCHANGED <<meta, ingest, names, open, faults, announced, phase>>
    BY <1>0, <1>5 DEF GatherEnqueue, Gathering, queues
  <2>2. /\ \A p : Coming(p) => Coming(p)'
        /\ \A p : IsUpsert(Head(channel), p) => Coming(p)'
    BY Zenon, <2>1 DEF Coming, IsUpsert
  <2>3. ASSUME AnnouncedComing, ChannelComing
        PROVE  /\ AnnouncedComing' /\ ChannelComing'
               /\ Head(channel).after => Coming(Head(channel).queue)
    BY Zenon, <1>0, <2>1, <2>2, <2>3, TailComing
  <2>4. \A p : Coming(p) => p \in names
    BY Zenon, <2>1 DEF Coming, IsUpsert, UpsertInv, NoUpsertInTurn
  <2>5. ASSUME PendingKnown, Head(channel).after => Coming(Head(channel).queue)
        PROVE  PendingKnown'
    <3>1. \A i \in DOMAIN pending' :
            \/ i \in DOMAIN pending /\ pending'[i] = pending[i]
            \/ pending'[i] = Head(channel)
      BY <1>0, <2>1, AppendElements
    <3>. QED
      BY Zenon, <2>1, <2>4, <2>5, <3>1 DEF PendingKnown
  <2>6. IngestComing => IngestComing'
    BY Zenon, <2>1 DEF IngestComing, Coming, IsUpsert
  <2>. QED
    BY Zenon, <2>1, <2>3, <2>5, <2>6 DEF UpsertInv, NoUpsertInTurn
<1>6. CASE GatherOther
  <2>1. /\ Head(channel) \in Request /\ Head(channel).kind # "enqueue"
        /\ Push(Head(channel)) /\ phase = "gather"
        /\ channel' = Tail(channel) /\ channel # <<>>
        /\ phase' = IF Preempts(Head(channel).kind) THEN "flush" ELSE "gather"
        /\ UNCHANGED <<pending, names, open, faults, announced>>
    BY <1>0, <1>6 DEF GatherOther, Gathering
  <2>2. /\ \A p : Coming(p) => Coming(p)'
        /\ \A p : IsUpsert(Head(channel), p) => Coming(p)'
    BY Zenon, <1>0, <2>1, PushComing
  <2>3. ASSUME AnnouncedComing, ChannelComing
        PROVE  AnnouncedComing' /\ ChannelComing'
    BY Zenon, <1>0, <2>1, <2>2, <2>3, TailComing
  <2>4. ASSUME IngestComing PROVE IngestComing'
    <3>1. ingest' = ingest
      BY Zenon, <2>1 DEF Push
    <3>2. ASSUME NEW i \in DOMAIN ingest, ingest[i].after, NEW p, p = ingest[i].queue
          PROVE  Coming(p)'
      BY Zenon, <2>2, <2>4, <3>2 DEF IngestComing
    <3>. QED
      BY Zenon, <3>1, <3>2 DEF IngestComing, Coming
  <2>5. PendingKnown => PendingKnown'
    BY Zenon, <2>1 DEF PendingKnown
  <2>6. NoUpsertInTurn'
    <3>1. CASE Head(channel).kind = "upsert"
      BY Zenon, <2>1, <3>1 DEF Preempts, NoUpsertInTurn
    <3>2. CASE Head(channel).kind # "upsert"
      <4>1. \A k \in DOMAIN meta' :
              \/ k \in DOMAIN meta /\ meta'[k] = meta[k]
              \/ meta'[k] = Head(channel)
        BY SMTT(30), <1>0, <2>1, AppendElements DEF Push
      <4>. QED
        BY Zenon, <2>1, <3>2, <4>1 DEF UpsertInv, NoUpsertInTurn
    <3>. QED
      BY Zenon, <3>1, <3>2
  <2>. QED
    BY Zenon, <2>1, <2>3, <2>4, <2>5, <2>6 DEF UpsertInv
<1>7. CASE Commit
  <2>1. /\ channel' = Passed(channel) /\ meta' = Passed(meta) /\ pending' = <<>>
        /\ UNCHANGED <<ingest, names, open, announced>>
        /\ phase' = IF phase = "last" THEN "drain" ELSE "receive"
        /\ faults' = 0 => faults = 0
    BY Zenon, <1>0, <1>7 DEF Commit
  <2>2. /\ DOMAIN channel' = DOMAIN channel /\ DOMAIN meta' = DOMAIN meta
        /\ Len(channel') = Len(channel) /\ channel' \in Seq(Request)
    BY Zenon, <1>0, <2>1, PassedSeq
  <2>3. /\ \A i \in DOMAIN channel : /\ channel'[i].queue = channel[i].queue
                                     /\ channel'[i].kind = channel[i].kind
                                     /\ channel'[i].after = channel[i].after
        /\ \A i \in DOMAIN meta : /\ meta'[i].queue = meta[i].queue
                                  /\ meta'[i].kind = meta[i].kind
    BY Zenon, <1>0, <2>1, PassedElements
  <2>4. \A p : Coming(p)' <=> Coming(p)
    BY Zenon, <2>1, <2>2, <2>3 DEF Coming, IsUpsert
  <2>5. ASSUME AnnouncedComing PROVE AnnouncedComing'
    <3> SUFFICES ASSUME open, NEW p \in announced
                 PROVE  Coming(p)' \/ \E k \in DOMAIN channel' : IsUpsert(channel'[k], p)
      BY Zenon, <2>1 DEF AnnouncedComing, IsUpsert
    <3>1. Coming(p) \/ \E k \in DOMAIN channel : IsUpsert(channel[k], p)
      BY Zenon, <2>5 DEF AnnouncedComing
    <3>. QED
      BY Zenon, <2>2, <2>3, <2>4, <3>1 DEF IsUpsert
  <2>6. ASSUME ChannelComing PROVE ChannelComing'
    <3> SUFFICES ASSUME NEW i \in DOMAIN channel', channel'[i].after,
                        NEW p, p = channel'[i].queue
                 PROVE  \/ Coming(p)'
                        \/ \E k \in DOMAIN channel' : k < i /\ IsUpsert(channel'[k], p)
      BY Zenon DEF ChannelComing, Coming, IsUpsert
    <3>1. Coming(p) \/ \E k \in DOMAIN channel : k < i /\ IsUpsert(channel[k], p)
      BY Zenon, <2>2, <2>3, <2>6 DEF ChannelComing
    <3>. QED
      BY Zenon, <2>2, <2>3, <2>4, <3>1 DEF IsUpsert
  <2>7. ASSUME IngestComing PROVE IngestComing'
    <3>1. ASSUME NEW i \in DOMAIN ingest, ingest[i].after, NEW p, p = ingest[i].queue
          PROVE  Coming(p)'
      BY Zenon, <2>4, <2>7, <3>1 DEF IngestComing
    <3>. QED
      BY Zenon, <2>1, <3>1 DEF IngestComing, Coming
  <2>8. PendingKnown'
    BY <2>1 DEF PendingKnown
  <2>9. phase = "last" => channel' = <<>>
    BY SMTT(30), <1>0, <2>2 DEF UpsertInv
  <2>. QED
    BY Zenon, <2>1, <2>5, <2>6, <2>7, <2>8, <2>9 DEF UpsertInv, NoUpsertInTurn
<1>8. CASE Drain
  <2>1. /\ channel' = <<>> /\ ~open' /\ ingest' = <<>> /\ pending' = <<>>
        /\ phase' = "stopped"
    BY Zenon, <1>8 DEF Drain, UpsertInv, TypeInv, PendingInTurn
  <2>. QED
    BY <2>1 DEF UpsertInv, NoUpsertInTurn, AnnouncedComing, ChannelComing, IngestComing,
         PendingKnown
<1>9. CASE Close
  BY Zenon, <1>9, UpsertUnchanged DEF Close, queues
<1>10. CASE Emptied
  BY Zenon, <1>10, UpsertUnchanged DEF Emptied, queues
<1>11. CASE HandleClaim
  BY Zenon, <1>11, UpsertUnchanged DEF HandleClaim
<1>12. CASE Disconnected
  BY Zenon, <1>12, UpsertUnchanged DEF Disconnected, Gathering, queues
<1>13. CASE Stop
  BY Zenon, <1>13, UpsertUnchanged DEF Stop, queues
<1>14. CASE UNCHANGED vars
  BY Zenon, <1>14, UpsertUnchanged DEF vars, queues
<1>. QED
  BY Zenon, <1>1, <1>2, <1>3, <1>4, <1>5, <1>6, <1>7, <1>8, <1>9, <1>10, <1>11, <1>12,
     <1>13, <1>14 DEF Next, Writer

\* An enqueue sent after the upsert of its queue is not answered QueueNotFound,
\* unless a transaction has failed.
THEOREM UpsertsComeFirst == Spec => []UpsertedBeforeEnqueue
<1>1. Init => TypeInv /\ UpsertInv
  <2> SUFFICES ASSUME Init PROVE UpsertInv
    BY Zenon, TypeInvInit
  <2>1. /\ phase = "receive" /\ announced = names
        /\ channel = <<>> /\ ingest = <<>> /\ pending = <<>>
    BY Zenon DEF Init
  <2>2. AnnouncedComing
    BY Zenon, <2>1 DEF AnnouncedComing, Coming
  <2>3. ChannelComing /\ IngestComing /\ PendingKnown
    BY <2>1 DEF ChannelComing, IngestComing, PendingKnown
  <2>. QED
    BY Zenon, <2>1, <2>2, <2>3 DEF UpsertInv, NoUpsertInTurn
<1>2. TypeInv /\ UpsertInv /\ [Next]_vars => (TypeInv /\ UpsertInv)'
  BY Zenon, TypeInvStep, UpsertStep
<1>3. UpsertInv => UpsertedBeforeEnqueue
  BY Zenon DEF UpsertInv, UpsertedBeforeEnqueue, PendingKnown
<1>. QED
  BY <1>1, <1>2, <1>3, PTL DEF Spec

-----------------------------------------------------------------------------
(***************************************************************************)
(* Enqueues stay in order                                                  *)
(***************************************************************************)
\* The enqueues among the first i requests of s.
Enqueues(s, i) == {j \in 1..i : s[j].kind = "enqueue"}

LEMMA RankType ==
    ASSUME NEW s, NEW i \in Nat
    PROVE  IsFiniteSet(Enqueues(s, i)) /\ Rank(s, i) \in Nat
           /\ Rank(s, i) = Cardinality(Enqueues(s, i))
<1>1. IsFiniteSet(1..i)
  BY FS_Interval
<1>2. Enqueues(s, i) \in SUBSET (1..i)
  BY Zenon DEF Enqueues
<1>3. IsFiniteSet(Enqueues(s, i))
  BY <1>1, <1>2, FS_Subset, Zenon
<1>4. Rank(s, i) = Cardinality(Enqueues(s, i))
  BY Zenon DEF Rank, Enqueues
<1>. QED
  BY <1>3, <1>4, FS_CardinalityType, Zenon

\* The rank depends on the kinds alone.
LEMMA RankOfKinds ==
    ASSUME NEW s, NEW t, NEW i \in Nat, \A j \in 1..i : t[j].kind = s[j].kind
    PROVE  Rank(t, i) = Rank(s, i)
<1>1. Enqueues(t, i) = Enqueues(s, i)
  BY Zenon DEF Enqueues
<1>. QED
  BY <1>1, RankType, Zenon

LEMMA RankZero ==
    ASSUME NEW s
    PROVE  Rank(s, 0) = 0
<1>1. Enqueues(s, 0) = {}
  BY SMT DEF Enqueues
<1>. QED
  BY <1>1, RankType, FS_EmptySet

LEMMA RankNext ==
    ASSUME NEW s, NEW i \in Nat
    PROVE  Rank(s, i + 1) = IF s[i + 1].kind = "enqueue" THEN Rank(s, i) + 1 ELSE Rank(s, i)
<1>1. i + 1 \in Nat /\ i + 1 \notin Enqueues(s, i)
  BY DEF Enqueues
<1>2. CASE s[i + 1].kind = "enqueue"
  <2>1. Enqueues(s, i + 1) = Enqueues(s, i) \cup {i + 1}
    BY <1>2 DEF Enqueues
  <2>2. IsFiniteSet(Enqueues(s, i)) /\ Rank(s, i) = Cardinality(Enqueues(s, i))
    BY RankType, Zenon
  <2>3. Cardinality(Enqueues(s, i) \cup {i + 1}) = Cardinality(Enqueues(s, i)) + 1
    BY <1>1, <2>2, FS_AddElement, Zenon
  <2>4. Rank(s, i + 1) = Cardinality(Enqueues(s, i + 1))
    BY <1>1, RankType, Zenon
  <2>. QED
    BY <1>2, <2>1, <2>2, <2>3, <2>4, Zenon
<1>3. CASE s[i + 1].kind # "enqueue"
  <2>1. Enqueues(s, i + 1) = Enqueues(s, i)
    BY <1>3 DEF Enqueues
  <2>. QED
    BY <1>1, <1>3, <2>1, RankType, Zenon
<1>. QED
  BY <1>2, <1>3, Zenon

\* The rank grows with the position, and an enqueue has a positive one.
LEMMA RankGrows ==
    ASSUME NEW s, NEW n \in Nat, NEW i \in 1..n
    PROVE  Rank(s, i) <= Rank(s, n) /\ (s[i].kind = "enqueue" => 1 <= Rank(s, i))
<1>1. i \in Nat
  OBVIOUS
<1>2. Enqueues(s, i) \in SUBSET Enqueues(s, n)
  BY DEF Enqueues
<1>3. Rank(s, i) <= Rank(s, n)
  <2>1. IsFiniteSet(Enqueues(s, n)) /\ Rank(s, n) = Cardinality(Enqueues(s, n))
    BY RankType, Zenon
  <2>2. Cardinality(Enqueues(s, i)) <= Cardinality(Enqueues(s, n))
    BY <1>2, <2>1, FS_Subset, Zenon
  <2>3. Rank(s, i) = Cardinality(Enqueues(s, i))
    BY <1>1, RankType, Zenon
  <2>. QED
    BY <2>1, <2>2, <2>3, Zenon
<1>4. ASSUME s[i].kind = "enqueue" PROVE 1 <= Rank(s, i)
  <2>1. i \in Enqueues(s, i)
    BY <1>1, <1>4 DEF Enqueues
  <2>2. Enqueues(s, i) # {}
    BY <2>1, Zenon
  <2>3. Rank(s, i) \in Nat /\ Rank(s, i) # 0
    BY <1>1, <2>2, RankType, FS_EmptySet, Zenon
  <2>. QED
    BY <2>3
<1>. QED
  BY Zenon, <1>3, <1>4

\* A position of the tail, counted in the whole.
LEMMA RankTail ==
    ASSUME NEW s \in Seq(Request), s # <<>>, NEW i \in Nat, i + 1 <= Len(s)
    PROVE  Rank(s, i + 1) = Rank(Tail(s), i) + (IF Head(s).kind = "enqueue" THEN 1 ELSE 0)
<1> DEFINE A == Enqueues(Tail(s), i)
           B == {j \in 2..(i + 1) : s[j].kind = "enqueue"}
<1>1. i + 1 \in Nat /\ \A j \in 1..i : j \in DOMAIN Tail(s)
  OBVIOUS
<1>2. \A j \in 1..i : Tail(s)[j] = s[j + 1]
  BY Zenon, <1>1, TailElements
<1>3. ExistsBijection(A, B)
  <2> DEFINE f == [j \in A |-> j + 1]
  <2>1. \A j \in A : j \in Nat /\ j + 1 \in B
    BY <1>2 DEF Enqueues
  <2>2. f \in [A -> B]
    BY <2>1, Zenon
  <2>3. \A j, k \in A : f[j] = f[k] => j = k
    BY <2>1
  <2>4. \A k \in B : k - 1 \in A /\ k = (k - 1) + 1
    <3> SUFFICES ASSUME NEW k \in B PROVE k - 1 \in A /\ k = (k - 1) + 1
      BY Zenon
    <3>1. k \in 2..(i + 1) /\ s[k].kind = "enqueue"
      BY Zenon
    <3>2. k - 1 \in 1..i /\ (k - 1) + 1 = k
      BY <3>1
    <3>3. Tail(s)[k - 1] = s[k]
      BY <1>2, <3>2, Zenon
    <3>. QED
      BY <3>1, <3>2, <3>3, Zenon DEF Enqueues
  <2>5. \A k \in B : \E j \in A : f[j] = k
    BY <2>4, Zenon
  <2>6. f \in Bijection(A, B)
    BY <2>2, <2>3, <2>5, Zenon DEF Bijection, Injection, Surjection, IsInjective
  <2>. QED
    BY <2>6, Zenon DEF ExistsBijection
<1>4. IsFiniteSet(B) /\ Cardinality(B) = Rank(Tail(s), i) /\ Rank(Tail(s), i) \in Nat
  <2>1. IsFiniteSet(A) /\ Cardinality(A) = Rank(Tail(s), i) /\ Rank(Tail(s), i) \in Nat
    BY RankType, Zenon
  <2>. QED
    BY <1>3, <2>1, FS_Bijection, Zenon
<1>5. 1 \notin B /\ Head(s) = s[1]
  OBVIOUS
<1>6. CASE Head(s).kind = "enqueue"
  <2>1. Enqueues(s, i + 1) = B \cup {1}
    BY <1>5, <1>6 DEF Enqueues
  <2>2. Cardinality(B \cup {1}) = Cardinality(B) + 1
    BY <1>4, <1>5, FS_AddElement, Zenon
  <2>. QED
    BY <1>1, <1>4, <1>6, <2>1, <2>2, RankType, Zenon
<1>7. CASE Head(s).kind # "enqueue"
  <2>1. Enqueues(s, i + 1) = B
    BY <1>5, <1>7 DEF Enqueues
  <2>2. Rank(s, i + 1) = Rank(Tail(s), i)
    BY <1>1, <1>4, <2>1, RankType, Zenon
  <2>. QED
    BY <1>4, <1>7, <2>2
<1>. QED
  BY <1>6, <1>7, Zenon

\* l is the line of the enqueues of the batch p, the queue g and the channel c.
InLine(l, p, g, c) ==
    /\ Len(l) = Len(p) + Len(g) + Rank(c, Len(c))
    /\ \A i \in DOMAIN p : p[i] = l[i]
    /\ \A i \in DOMAIN g : g[i] = l[Len(p) + i]
    /\ \A i \in DOMAIN c :
         c[i].kind = "enqueue" => c[i] = l[Len(p) + Len(g) + Rank(c, i)]

\* The ranks of a channel to which a request is added.
LEMMA RankAppend ==
    ASSUME NEW c \in Seq(Request), NEW e \in Request
    PROVE  /\ \A i \in 0..Len(c) : Rank(Append(c, e), i) = Rank(c, i)
           /\ Len(Append(c, e)) = Len(c) + 1
           /\ Rank(Append(c, e), Len(c) + 1)
                = IF e.kind = "enqueue" THEN Rank(c, Len(c)) + 1 ELSE Rank(c, Len(c))
<1>0. /\ Len(c) \in Nat /\ Len(Append(c, e)) = Len(c) + 1
      /\ Append(c, e)[Len(c) + 1] = e
      /\ \A j \in 1..Len(c) : Append(c, e)[j] = c[j]
  OBVIOUS
<1>1. ASSUME NEW i \in 0..Len(c) PROVE Rank(Append(c, e), i) = Rank(c, i)
  <2>1. i \in Nat /\ \A j \in 1..i : j \in 1..Len(c)
    BY <1>0
  <2>2. \A j \in 1..i : Append(c, e)[j].kind = c[j].kind
    BY <1>0, <2>1, Zenon
  <2>. QED
    BY <2>1, <2>2, RankOfKinds, Zenon
<1>2. Len(c) \in 0..Len(c)
  BY <1>0
<1>3. Rank(Append(c, e), Len(c)) = Rank(c, Len(c))
  BY <1>1, <1>2, Zenon
<1>4. Rank(Append(c, e), Len(c) + 1)
        = IF Append(c, e)[Len(c) + 1].kind = "enqueue"
          THEN Rank(Append(c, e), Len(c)) + 1 ELSE Rank(Append(c, e), Len(c))
  BY <1>0, RankNext, Zenon
<1>. QED
  BY <1>0, <1>1, <1>3, <1>4, Zenon

\* The ranks of a channel whose first request is taken.
LEMMA RankTaken ==
    ASSUME NEW c \in Seq(Request), c # <<>>
    PROVE  LET h == IF Head(c).kind = "enqueue" THEN 1 ELSE 0 IN
           /\ Tail(c) \in Seq(Request) /\ Head(c) \in Request /\ Head(c) = c[1]
           /\ 1 \in DOMAIN c /\ Rank(c, 1) = h
           /\ Rank(c, Len(c)) = Rank(Tail(c), Len(Tail(c))) + h
           /\ \A i \in DOMAIN Tail(c) : /\ i + 1 \in DOMAIN c /\ Tail(c)[i] = c[i + 1]
                                        /\ Rank(c, i + 1) = Rank(Tail(c), i) + h
<1> DEFINE h == IF Head(c).kind = "enqueue" THEN 1 ELSE 0
<1>1. /\ Tail(c) \in Seq(Request) /\ Head(c) \in Request /\ Head(c) = c[1]
      /\ Len(Tail(c)) \in Nat /\ Len(Tail(c)) + 1 = Len(c) /\ 1 \in DOMAIN c
      /\ DOMAIN Tail(c) = 1..Len(Tail(c))
  OBVIOUS
<1>2. ASSUME NEW i \in 0..Len(Tail(c)) PROVE Rank(c, i + 1) = Rank(Tail(c), i) + h
  <2>1. i \in Nat /\ i + 1 <= Len(c)
    BY <1>1
  <2>. QED
    BY <2>1, RankTail, Zenon
<1>3. Rank(c, Len(c)) = Rank(Tail(c), Len(Tail(c))) + h
  <2>1. Len(Tail(c)) \in 0..Len(Tail(c))
    BY <1>1
  <2>. QED
    BY <1>1, <1>2, <2>1, Zenon
<1>4. Rank(c, 1) = h
  <2>1. 0 \in 0..Len(Tail(c)) /\ 0 + 1 = 1 /\ 0 + h = h
    BY <1>1
  <2>2. Rank(c, 0 + 1) = 0 + h
    BY <1>2, <2>1, RankZero, Zenon
  <2>. QED
    BY Zenon, <2>1, <2>2
<1>5. \A i \in DOMAIN Tail(c) : i \in 0..Len(Tail(c))
  BY <1>1
<1>6. \A i \in DOMAIN Tail(c) : i + 1 \in DOMAIN c /\ Tail(c)[i] = c[i + 1]
  BY TailElements, Zenon
<1>. QED
  BY <1>1, <1>2, <1>3, <1>4, <1>5, <1>6, Zenon

\* A call enters at the end of the line.
LEMMA LineCall ==
    ASSUME NEW l \in Seq(Request), NEW p \in Seq(Request), NEW g \in Seq(Request),
           NEW c \in Seq(Request), InLine(l, p, g, c), NEW e \in Request
    PROVE  InLine(IF e.kind = "enqueue" THEN Append(l, e) ELSE l, p, g, Append(c, e))
<1> DEFINE m == IF e.kind = "enqueue" THEN Append(l, e) ELSE l
           d == Append(c, e)
           n == Len(p) + Len(g)
<1>0. /\ Len(l) \in Nat /\ Len(p) \in Nat /\ Len(g) \in Nat /\ Len(c) \in Nat /\ n \in Nat
      /\ DOMAIN p = 1..Len(p) /\ DOMAIN g = 1..Len(g) /\ DOMAIN c = 1..Len(c)
      /\ DOMAIN d = 1..(Len(c) + 1) /\ \A i \in 1..Len(c) : d[i] = c[i]
      /\ d[Len(c) + 1] = e
  OBVIOUS
<1>1. Rank(c, Len(c)) \in Nat
  BY <1>0, RankType, Zenon
<1>2. Len(l) = n + Rank(c, Len(c))
  BY Zenon DEF InLine
<1>3. \A i \in 1..Len(l) : m[i] = l[i]
  OBVIOUS
<1>4. Len(m) = n + Rank(d, Len(d))
  <2>1. Len(m) = IF e.kind = "enqueue" THEN Len(l) + 1 ELSE Len(l)
    OBVIOUS
  <2>2. /\ Len(d) = Len(c) + 1
        /\ Rank(d, Len(c) + 1)
             = IF e.kind = "enqueue" THEN Rank(c, Len(c)) + 1 ELSE Rank(c, Len(c))
    BY RankAppend, Zenon
  <2>3. Rank(d, Len(d))
          = IF e.kind = "enqueue" THEN Rank(c, Len(c)) + 1 ELSE Rank(c, Len(c))
    BY <2>2, Zenon
  <2> DEFINE a == Rank(c, Len(c))
             b == Rank(d, Len(d))
             k == Len(m)
             o == Len(l)
  <2>4. a \in Nat /\ o \in Nat /\ o = n + a
        /\ k = (IF e.kind = "enqueue" THEN o + 1 ELSE o)
        /\ b = (IF e.kind = "enqueue" THEN a + 1 ELSE a)
    BY <1>0, <1>1, <1>2, <2>1, <2>3, Zenon
  <2>5. n \in Nat
    BY Zenon, <1>0
  <2> HIDE DEF a, b, k, o, n
  <2>6. k = n + b
    BY <2>4, <2>5
  <2>. QED
    BY <2>6, Zenon DEF b, k, n
<1>5. \A i \in DOMAIN p : p[i] = m[i]
  <2>1. \A i \in DOMAIN p : i \in 1..Len(l)
    BY <1>0, <1>1, <1>2
  <2>2. \A i \in DOMAIN p : p[i] = l[i]
    BY Zenon DEF InLine
  <2>. QED
    BY <1>3, <2>1, <2>2, Zenon
<1>6. \A i \in DOMAIN g : g[i] = m[Len(p) + i]
  <2>1. \A i \in DOMAIN g : Len(p) + i \in 1..Len(l)
    BY <1>0, <1>1, <1>2
  <2>2. \A i \in DOMAIN g : g[i] = l[Len(p) + i]
    BY Zenon DEF InLine
  <2>. QED
    BY <1>3, <2>1, <2>2, Zenon
<1>7. ASSUME NEW i \in DOMAIN d, d[i].kind = "enqueue" PROVE d[i] = m[n + Rank(d, i)]
  <2>1. CASE i \in 1..Len(c)
    <3>1. d[i] = c[i] /\ i \in Nat /\ i \in 0..Len(c) /\ i \in DOMAIN c
      BY <1>0, <2>1
    <3>2. Rank(d, i) = Rank(c, i) /\ Rank(c, i) \in Nat
      BY <3>1, RankAppend, RankType, Zenon
    <3>3. c[i].kind = "enqueue"
      BY <1>7, <3>1, Zenon
    <3>4. Rank(c, i) <= Rank(c, Len(c)) /\ 1 <= Rank(c, i)
      BY <1>0, <2>1, <3>3, RankGrows, Zenon
    <3>5. n + Rank(c, i) \in 1..Len(l)
      <4> DEFINE a == Rank(c, i)
                 b == Rank(c, Len(c))
                 o == Len(l)
      <4>1. a \in Nat /\ b \in Nat /\ a <= b /\ 1 <= a /\ o = n + b
        BY <1>1, <1>2, <3>2, <3>4, Zenon
      <4>2. n \in Nat
        BY Zenon, <1>0
      <4> HIDE DEF a, b, o, n
      <4>3. n + a \in 1..o
        BY <4>1, <4>2
      <4>. QED
        BY <4>3, Zenon DEF a, o
    <3>6. c[i] = l[n + Rank(c, i)]
      BY <3>1, <3>3, Zenon DEF InLine
    <3>. QED
      BY <1>3, <3>1, <3>2, <3>5, <3>6, Zenon
  <2>2. CASE i = Len(c) + 1
    <3>1. e.kind = "enqueue" /\ d[i] = e
      BY <1>0, <1>7, <2>2, Zenon
    <3>2. Rank(d, i) = Rank(c, Len(c)) + 1
      BY <2>2, <3>1, RankAppend, Zenon
    <3>3. n + Rank(d, i) = Len(l) + 1
      BY SMTT(30), <1>0, <1>1, <1>2, <3>2
    <3>4. m[Len(l) + 1] = e
      BY <3>1
    <3>. QED
      BY <3>1, <3>3, <3>4, Zenon
  <2>3. i \in 1..Len(c) \/ i = Len(c) + 1
    BY <1>0
  <2>. QED
    BY <2>1, <2>2, <2>3, Zenon
<1>. QED
  BY <1>4, <1>5, <1>6, <1>7, Zenon DEF InLine

\* The writer takes an enqueue from the channel to the end of the queue.
LEMMA LineQueued ==
    ASSUME NEW l \in Seq(Request), NEW p \in Seq(Request), NEW g \in Seq(Request),
           NEW c \in Seq(Request), InLine(l, p, g, c), c # <<>>, Head(c).kind = "enqueue"
    PROVE  InLine(l, p, Append(g, Head(c)), Tail(c))
<1> DEFINE h == Append(g, Head(c))
           t == Tail(c)
<1>0. /\ Len(l) \in Nat /\ Len(p) \in Nat /\ Len(g) \in Nat /\ Len(c) \in Nat
      /\ Len(t) \in Nat /\ DOMAIN t = 1..Len(t)
      /\ Len(h) = Len(g) + 1 /\ \A i \in DOMAIN h : i \in DOMAIN g \/ i = Len(g) + 1
      /\ \A i \in DOMAIN g : h[i] = g[i]
      /\ h[Len(g) + 1] = Head(c)
  OBVIOUS
<1>1. /\ 1 \in DOMAIN c /\ Head(c) = c[1] /\ Rank(c, 1) = 1
      /\ Rank(c, Len(c)) = Rank(t, Len(t)) + 1
      /\ \A i \in DOMAIN t : i + 1 \in DOMAIN c /\ t[i] = c[i + 1]
                             /\ Rank(c, i + 1) = Rank(t, i) + 1
  BY RankTaken, Zenon
<1>2. \A i \in 0..Len(t) : Rank(t, i) \in Nat
  <2>1. \A i \in 0..Len(t) : i \in Nat
    BY SMTT(30), <1>0
  <2>. QED
    BY <2>1, RankType, Zenon
<1>3. \A r \in Nat : Len(p) + Len(g) + (r + 1) = Len(p) + Len(h) + r
  BY <1>0
<1>4. Len(l) = Len(p) + Len(h) + Rank(t, Len(t))
  <2>1. Len(l) = Len(p) + Len(g) + Rank(c, Len(c))
    BY Zenon DEF InLine
  <2>2. Len(t) \in 0..Len(t)
    BY <1>0
  <2>. QED
    BY <1>1, <1>2, <1>3, <2>1, <2>2, Zenon
<1>5. \A i \in DOMAIN h : h[i] = l[Len(p) + i]
  <2>1. \A i \in DOMAIN g : g[i] = l[Len(p) + i]
    BY Zenon DEF InLine
  <2>2. c[1] = l[Len(p) + Len(g) + 1]
    BY <1>1, Zenon DEF InLine
  <2>3. Len(p) + Len(g) + 1 = Len(p) + (Len(g) + 1)
    BY <1>0
  <2>. QED
    BY <1>0, <1>1, <2>1, <2>2, <2>3, Zenon
<1>6. ASSUME NEW i \in DOMAIN t, t[i].kind = "enqueue"
      PROVE  t[i] = l[Len(p) + Len(h) + Rank(t, i)]
  <2>1. i + 1 \in DOMAIN c /\ t[i] = c[i + 1] /\ Rank(c, i + 1) = Rank(t, i) + 1
    BY <1>1, Zenon
  <2>2. c[i + 1] = l[Len(p) + Len(g) + Rank(c, i + 1)]
    BY <1>6, <2>1, Zenon DEF InLine
  <2>3. i \in 0..Len(t)
    BY <1>0
  <2>. QED
    BY <1>2, <1>3, <2>1, <2>2, <2>3, Zenon
<1>7. \A i \in DOMAIN p : p[i] = l[i]
  BY Zenon DEF InLine
<1>. QED
  BY <1>4, <1>5, <1>6, <1>7, Zenon DEF InLine

\* While the queue is empty, an enqueue from the channel may join the batch.
LEMMA LineGathered ==
    ASSUME NEW l \in Seq(Request), NEW p \in Seq(Request), NEW c \in Seq(Request),
           InLine(l, p, <<>>, c), c # <<>>, Head(c).kind = "enqueue"
    PROVE  InLine(l, Append(p, Head(c)), <<>>, Tail(c))
<1> DEFINE h == Append(p, Head(c))
           t == Tail(c)
<1>0. /\ Len(l) \in Nat /\ Len(p) \in Nat /\ Len(<<>>) = 0 /\ Len(c) \in Nat
      /\ Len(t) \in Nat /\ DOMAIN t = 1..Len(t) /\ DOMAIN <<>> = {}
      /\ Len(h) = Len(p) + 1 /\ \A i \in DOMAIN h : i \in DOMAIN p \/ i = Len(p) + 1
      /\ \A i \in DOMAIN p : h[i] = p[i]
      /\ h[Len(p) + 1] = Head(c)
  OBVIOUS
<1>1. /\ 1 \in DOMAIN c /\ Head(c) = c[1] /\ Rank(c, 1) = 1
      /\ Rank(c, Len(c)) = Rank(t, Len(t)) + 1
      /\ \A i \in DOMAIN t : i + 1 \in DOMAIN c /\ t[i] = c[i + 1]
                             /\ Rank(c, i + 1) = Rank(t, i) + 1
  BY RankTaken, Zenon
<1>2. \A i \in 0..Len(t) : Rank(t, i) \in Nat
  <2>1. \A i \in 0..Len(t) : i \in Nat
    BY <1>0
  <2>. QED
    BY <2>1, RankType, Zenon
<1>3. \A r \in Nat : Len(p) + Len(<<>>) + (r + 1) = Len(h) + Len(<<>>) + r
  BY <1>0
<1>4. Len(l) = Len(h) + Len(<<>>) + Rank(t, Len(t))
  <2>1. Len(l) = Len(p) + Len(<<>>) + Rank(c, Len(c))
    BY Zenon DEF InLine
  <2>2. Len(t) \in 0..Len(t)
    BY <1>0
  <2>. QED
    BY <1>1, <1>2, <1>3, <2>1, <2>2, Zenon
<1>5. \A i \in DOMAIN h : h[i] = l[i]
  <2>1. \A i \in DOMAIN p : p[i] = l[i]
    BY Zenon DEF InLine
  <2>2. c[1] = l[Len(p) + Len(<<>>) + 1]
    BY <1>1, Zenon DEF InLine
  <2>3. Len(p) + Len(<<>>) + 1 = Len(p) + 1
    BY <1>0
  <2>. QED
    BY <1>0, <1>1, <2>1, <2>2, <2>3, Zenon
<1>6. ASSUME NEW i \in DOMAIN t, t[i].kind = "enqueue"
      PROVE  t[i] = l[Len(h) + Len(<<>>) + Rank(t, i)]
  <2>1. i + 1 \in DOMAIN c /\ t[i] = c[i + 1] /\ Rank(c, i + 1) = Rank(t, i) + 1
    BY <1>1, Zenon
  <2>2. c[i + 1] = l[Len(p) + Len(<<>>) + Rank(c, i + 1)]
    BY <1>6, <2>1, Zenon DEF InLine
  <2>3. i \in 0..Len(t)
    BY <1>0
  <2>. QED
    BY <1>2, <1>3, <2>1, <2>2, <2>3, Zenon
<1>7. \A i \in DOMAIN <<>> : <<>>[i] = l[Len(h) + i]
  BY <1>0, Zenon
<1>. QED
  BY <1>4, <1>5, <1>6, <1>7, Zenon DEF InLine

\* Another request leaves the channel, and no enqueue moves.
LEMMA LineOther ==
    ASSUME NEW l \in Seq(Request), NEW p \in Seq(Request), NEW g \in Seq(Request),
           NEW c \in Seq(Request), InLine(l, p, g, c), c # <<>>, Head(c).kind # "enqueue"
    PROVE  InLine(l, p, g, Tail(c))
<1> DEFINE t == Tail(c)
<1>0. Len(t) \in Nat /\ DOMAIN t = 1..Len(t)
  OBVIOUS
<1>1. /\ Rank(c, Len(c)) = Rank(t, Len(t)) + 0
      /\ \A i \in DOMAIN t : i + 1 \in DOMAIN c /\ t[i] = c[i + 1]
                             /\ Rank(c, i + 1) = Rank(t, i) + 0
  BY RankTaken, Zenon
<1>2. \A i \in 0..Len(t) : Rank(t, i) \in Nat
  <2>1. \A i \in 0..Len(t) : i \in Nat
    BY <1>0
  <2>. QED
    BY <2>1, RankType, Zenon
<1>3. \A r \in Nat : r + 0 = r
  OBVIOUS
<1>4. Rank(c, Len(c)) = Rank(t, Len(t))
  <2>1. Len(t) \in 0..Len(t)
    BY <1>0
  <2>. QED
    BY <1>1, <1>2, <1>3, <2>1, Zenon
<1>5. \A i \in DOMAIN t : i + 1 \in DOMAIN c /\ t[i] = c[i + 1] /\ Rank(c, i + 1) = Rank(t, i)
  <2>1. \A i \in DOMAIN t : i \in 0..Len(t)
    BY <1>0
  <2>. QED
    BY <1>1, <1>2, <1>3, <2>1, Zenon
<1>. QED
  BY <1>4, <1>5, Zenon DEF InLine

\* The batch is the front of the queue, and follows no other batch.
LEMMA LineBegun ==
    ASSUME NEW l \in Seq(Request), NEW g \in Seq(Request), NEW c \in Seq(Request),
           InLine(l, <<>>, g, c), NEW k \in 0..Len(g)
    PROVE  InLine(l, SubSeq(g, 1, k), SubSeq(g, k + 1, Len(g)), c)
<1> DEFINE a == SubSeq(g, 1, k)
           b == SubSeq(g, k + 1, Len(g))
<1>0. /\ Len(g) \in Nat /\ k \in Nat /\ Len(<<>>) = 0 /\ DOMAIN g = 1..Len(g)
      /\ Len(c) \in Nat /\ DOMAIN c = 1..Len(c)
  OBVIOUS
<1>1. Len(a) = k
  OBVIOUS
<1>2. /\ a \in Seq(Request) /\ b \in Seq(Request) /\ Len(a) + Len(b) = Len(g)
      /\ \A i \in DOMAIN a : a[i] = g[i] /\ i \in DOMAIN g
      /\ \A i \in DOMAIN b : b[i] = g[k + i] /\ k + i \in DOMAIN g
  BY TakenSplits, Zenon
<1>3. \A i \in DOMAIN g : g[i] = l[i]
  <2>1. \A i \in DOMAIN g : g[i] = l[Len(<<>>) + i]
    BY Zenon DEF InLine
  <2>2. \A i \in DOMAIN g : Len(<<>>) + i = i
    BY <1>0
  <2>. QED
    BY <2>1, <2>2, Zenon
<1>4. Len(<<>>) + Len(g) = Len(a) + Len(b)
  <2>1. 0 + Len(g) = Len(g)
    BY <1>0
  <2>. QED
    BY <1>0, <1>2, <2>1, Zenon
<1>5. /\ Len(l) = Len(<<>>) + Len(g) + Rank(c, Len(c))
      /\ \A i \in DOMAIN c :
           c[i].kind = "enqueue" => c[i] = l[Len(<<>>) + Len(g) + Rank(c, i)]
  BY Zenon DEF InLine
<1>6. /\ Len(l) = Len(a) + Len(b) + Rank(c, Len(c))
      /\ \A i \in DOMAIN c :
           c[i].kind = "enqueue" => c[i] = l[Len(a) + Len(b) + Rank(c, i)]
  BY <1>4, <1>5, Zenon
<1>7. \A i \in DOMAIN b : b[i] = l[Len(a) + i]
  BY <1>1, <1>2, <1>3, Zenon
<1>8. \A i \in DOMAIN a : a[i] = l[i]
  BY <1>2, <1>3, Zenon
<1>. QED
  BY <1>6, <1>7, <1>8, Zenon DEF InLine

\* The batch is answered and leaves the line.
LEMMA LineServed ==
    ASSUME NEW l \in Seq(Request), NEW p \in Seq(Request), NEW g \in Seq(Request),
           NEW c \in Seq(Request), InLine(l, p, g, c)
    PROVE  InLine(SubSeq(l, Len(p) + 1, Len(l)), <<>>, g, c)
<1> DEFINE m == SubSeq(l, Len(p) + 1, Len(l))
<1>0. /\ Len(l) \in Nat /\ Len(p) \in Nat /\ Len(g) \in Nat /\ Len(c) \in Nat
      /\ Len(<<>>) = 0 /\ DOMAIN <<>> = {}
      /\ DOMAIN g = 1..Len(g) /\ DOMAIN c = 1..Len(c)
  OBVIOUS
<1>1. Rank(c, Len(c)) \in Nat /\ Len(l) = Len(p) + Len(g) + Rank(c, Len(c))
  BY <1>0, RankType, Zenon DEF InLine
<1>2. Len(p) \in 0..Len(l) /\ Len(l) - Len(p) = Len(g) + Rank(c, Len(c))
  BY SMTT(30), <1>0, <1>1
<1>3. /\ Len(m) = Len(l) - Len(p)
      /\ \A i \in 1..(Len(l) - Len(p)) : m[i] = l[Len(p) + i]
  <2>1. \A i \in (Len(p) + 1)..Len(l) : l[i] \in Request
    BY SMTT(30), <1>0
  <2>. QED
    BY SMTT(30), <1>0, <1>2, <2>1, SubSeqProperties
<1>4. Len(m) = Len(<<>>) + Len(g) + Rank(c, Len(c))
  BY <1>0, <1>1, <1>2, <1>3
<1>5. ASSUME NEW i \in DOMAIN g PROVE g[i] = m[Len(<<>>) + i]
  <2>1. i \in 1..(Len(l) - Len(p)) /\ Len(<<>>) + i = i
    BY <1>0, <1>1, <1>2
  <2>2. g[i] = l[Len(p) + i]
    BY Zenon DEF InLine
  <2>. QED
    BY <1>3, <2>1, <2>2, Zenon
<1>6. ASSUME NEW i \in DOMAIN c, c[i].kind = "enqueue"
      PROVE  c[i] = m[Len(<<>>) + Len(g) + Rank(c, i)]
  <2>1. i \in 1..Len(c) /\ i \in Nat
    BY <1>0
  <2>2. Rank(c, i) \in Nat /\ Rank(c, i) <= Rank(c, Len(c)) /\ 1 <= Rank(c, i)
    BY <1>0, <1>6, <2>1, RankGrows, RankType, Zenon
  <2>3. c[i] = l[Len(p) + Len(g) + Rank(c, i)]
    BY <1>6, Zenon DEF InLine
  <2>4. /\ Len(g) + Rank(c, i) \in 1..(Len(l) - Len(p))
        /\ Len(p) + (Len(g) + Rank(c, i)) = Len(p) + Len(g) + Rank(c, i)
        /\ Len(<<>>) + Len(g) + Rank(c, i) = Len(g) + Rank(c, i)
    BY SMTT(30), <1>0, <1>1, <1>2, <2>2
  <2>. QED
    BY <1>3, <2>3, <2>4, Zenon
<1>7. \A i \in DOMAIN <<>> : <<>>[i] = m[i]
  BY <1>0, Zenon
<1>. QED
  BY <1>4, <1>5, <1>6, <1>7, Zenon DEF InLine

\* Being overtaken moves no enqueue.
LEMMA LinePassed ==
    ASSUME NEW l \in Seq(Request), NEW p \in Seq(Request), NEW g \in Seq(Request),
           NEW c \in Seq(Request), InLine(l, p, g, c)
    PROVE  InLine(l, p, g, Passed(c))
<1>0. Len(c) \in Nat /\ DOMAIN c = 1..Len(c)
  OBVIOUS
<1>1. Len(Passed(c)) = Len(c) /\ DOMAIN Passed(c) = DOMAIN c
  BY PassedSeq, Zenon
<1>2. \A i \in DOMAIN c : /\ Passed(c)[i].kind = c[i].kind
                          /\ c[i].kind = "enqueue" => Passed(c)[i] = c[i]
  <2>1. \A i \in DOMAIN c : c[i] \in Request
    OBVIOUS
  <2>2. \A r \in Request : [r EXCEPT !.passed = @ + 1].kind = r.kind
    BY Zenon DEF Request
  <2>3. \A i \in DOMAIN c :
          Passed(c)[i] = IF c[i].kind = "enqueue" THEN c[i] ELSE [c[i] EXCEPT !.passed = @ + 1]
    BY Zenon DEF Passed
  <2>. QED
    BY <2>1, <2>2, <2>3, Zenon
<1>3. ASSUME NEW i \in 0..Len(c) PROVE Rank(Passed(c), i) = Rank(c, i)
  <2>1. i \in Nat /\ \A j \in 1..i : j \in DOMAIN c
    BY <1>0
  <2>. QED
    BY <1>2, <2>1, RankOfKinds, Zenon
<1>4. Len(c) \in 0..Len(c) /\ \A i \in DOMAIN c : i \in 0..Len(c)
  BY <1>0
<1>5. Rank(Passed(c), Len(Passed(c))) = Rank(c, Len(c))
  BY <1>1, <1>3, <1>4, Zenon
<1>6. \A i \in DOMAIN c : Rank(Passed(c), i) = Rank(c, i)
  BY <1>3, <1>4, Zenon
<1>. QED
  BY <1>1, <1>2, <1>5, <1>6, Zenon DEF InLine

\* A queue that follows no batch is itself the front of the line.
LEMMA LineDrained ==
    ASSUME NEW l \in Seq(Request), NEW g \in Seq(Request), NEW c \in Seq(Request),
           InLine(l, <<>>, g, c)
    PROVE  InLine(SubSeq(l, Len(g) + 1, Len(l)), <<>>, <<>>, c)
<1>0. Len(g) \in Nat /\ DOMAIN g = 1..Len(g) /\ Len(g) \in 0..Len(g) /\ <<>> \in Seq(Request)
  OBVIOUS
<1>1. SubSeq(g, 1, Len(g)) = g /\ SubSeq(g, Len(g) + 1, Len(g)) = <<>>
  OBVIOUS
<1>2. InLine(l, SubSeq(g, 1, Len(g)), SubSeq(g, Len(g) + 1, Len(g)), c)
  BY <1>0, LineBegun, Zenon
<1>3. InLine(l, g, <<>>, c)
  BY <1>1, <1>2, Zenon
<1>. QED
  BY <1>0, <1>3, LineServed, Zenon

\* A batch that is still open to the channel has left nothing in the queue:
\* what is taken from the channel does not overtake the queue.
QueueTaken == Gathering => ingest = <<>>

OrderInv == EnqueuesInOrder /\ QueueTaken

LEMMA InOrderIsInLine == EnqueuesInOrder <=> InLine(line, pending, ingest, channel)
  BY Zenon DEF EnqueuesInOrder, InLine

LEMMA InOrderIsInLineNext ==
    EnqueuesInOrder' <=> InLine(line', pending', ingest', channel')
  BY Zenon DEF EnqueuesInOrder, InLine, Rank

LEMMA OrderStep == TypeInv /\ OrderInv /\ [Next]_vars => OrderInv'
<1> SUFFICES ASSUME TypeInv, OrderInv, [Next]_vars PROVE OrderInv'
  BY Zenon
<1>0. /\ line \in Seq(Request) /\ pending \in Seq(Request) /\ ingest \in Seq(Request)
      /\ channel \in Seq(Request)
  BY Zenon DEF TypeInv, TypeOK
<1>a. InLine(line, pending, ingest, channel)
  BY InOrderIsInLine, Zenon DEF OrderInv
<1>b. SUFFICES InLine(line', pending', ingest', channel') /\ QueueTaken'
  BY InOrderIsInLineNext, Zenon DEF OrderInv
<1>c. Gathering => ingest = <<>>
  BY Zenon DEF OrderInv, QueueTaken
<1>d. /\ phase # "gather" => ~Gathering
      /\ phase' # "gather" => ~Gathering'
      /\ phase' = phase /\ pending' = pending /\ controller' = controller
           => (Gathering' <=> Gathering)
  BY Zenon DEF Gathering
<1>1. ASSUME NEW kind, NEW q, Call(kind, q),
             \/ kind \in Named /\ q \in Queues
             \/ kind \in Kinds \ Named /\ q = NoQueue
      PROVE  InLine(line', pending', ingest', channel') /\ QueueTaken'
  <2> DEFINE e == [kind |-> kind, queue |-> q, passed |-> 0,
                   after |-> kind = "enqueue" /\ q \in announced]
  <2>1. e \in Request /\ e.kind = kind
    BY Zenon, <1>1 DEF Request
  <2>2. /\ channel' = Append(channel, e)
        /\ line' = IF kind = "enqueue" THEN Append(line, e) ELSE line
        /\ pending' = pending /\ ingest' = ingest
        /\ phase' = phase /\ controller' = controller
    BY <1>1, Zenon DEF Call, queues
  <2> HIDE DEF e
  <2>3. InLine(IF e.kind = "enqueue" THEN Append(line, e) ELSE line, pending, ingest,
               Append(channel, e))
    BY <1>0, <1>a, <2>1, LineCall, Zenon
  <2>. QED
    BY <1>c, <1>d, <2>1, <2>2, <2>3, ZenonT(40) DEF QueueTaken
<1>2. CASE /\ line' = line /\ pending' = pending /\ ingest' = ingest /\ channel' = channel
           /\ phase' # "gather" \/ (phase' = phase /\ controller' = controller)
  BY <1>2, <1>a, <1>c, <1>d, Zenon DEF QueueTaken
<1>3. CASE Receive
  <2>1. /\ channel # <<>> /\ Push(Head(channel)) /\ channel' = Tail(channel)
        /\ line' = line /\ pending' = pending /\ phase' = phase /\ phase = "receive"
    BY <1>3, Zenon DEF Receive
  <2>2. QueueTaken'
    BY Zenon, <1>d, <2>1 DEF QueueTaken
  <2>3. CASE Head(channel).kind = "enqueue"
    <3>1. ingest' = Append(ingest, Head(channel))
      BY <2>1, <2>3, Zenon DEF Push
    <3>. QED
      BY <1>0, <1>a, <2>1, <2>2, <2>3, <3>1, LineQueued, Zenon
  <2>4. CASE Head(channel).kind # "enqueue"
    <3>1. ingest' = ingest
      BY <2>1, <2>4, Zenon DEF Push
    <3>. QED
      BY <1>0, <1>a, <2>1, <2>2, <2>4, <3>1, LineOther, Zenon
  <2>. QED
    BY <2>3, <2>4, Zenon
<1>7. CASE BeginTurn
  <2>1. Taken \in 0..Len(ingest)
    BY SMTT(30), <1>0, BatchOptions DEF TypeInv, TypeOK, Taken, Lesser, Controller
  <2>2. /\ phase = "serve" /\ line' = line /\ channel' = channel
        /\ pending' = SubSeq(ingest, 1, Taken)
        /\ ingest' = SubSeq(ingest, Taken + 1, Len(ingest))
        /\ controller' = controller
    BY <1>7, Zenon DEF BeginTurn
  <2>3. pending = <<>>
    BY Zenon, <2>2 DEF TypeInv, PendingInTurn
  <2>4. InLine(line', pending', ingest', channel')
    BY <1>0, <1>a, <2>1, <2>2, <2>3, LineBegun, Zenon
  <2>5. ASSUME Gathering' PROVE ingest' = <<>>
    <3>1. Len(pending') = Taken
      BY <1>0, <2>1, <2>2
    <3>2. Taken < controller.size
      BY <2>2, <2>5, <3>1, Zenon DEF Gathering
    <3>3. controller.size \in Nat /\ Len(ingest) \in Nat
      BY <1>0, BatchOptions DEF TypeInv, TypeOK, Controller
    <3>4. Taken = Len(ingest)
      BY <3>2, <3>3 DEF Taken, Lesser
    <3>5. SubSeq(ingest, Len(ingest) + 1, Len(ingest)) = <<>>
      BY <1>0
    <3>. QED
      BY <2>2, <3>4, <3>5, Zenon
  <2>. QED
    BY <2>4, <2>5, Zenon DEF QueueTaken
<1>8. CASE GatherEnqueue
  <2>1. /\ channel # <<>> /\ Head(channel).kind = "enqueue" /\ Gathering
        /\ channel' = Tail(channel) /\ pending' = Append(pending, Head(channel))
        /\ line' = line /\ ingest' = ingest
    BY <1>8, Zenon DEF GatherEnqueue, queues
  <2>2. ingest = <<>>
    BY <1>c, <2>1, Zenon
  <2>. QED
    BY <1>0, <1>a, <2>1, <2>2, LineGathered, Zenon DEF QueueTaken
<1>9. CASE GatherOther
  <2>1. /\ channel # <<>> /\ Head(channel).kind # "enqueue" /\ Gathering
        /\ channel' = Tail(channel) /\ Push(Head(channel))
        /\ line' = line /\ pending' = pending
    BY <1>9, Zenon DEF GatherOther
  <2>2. ingest' = ingest
    BY <2>1, Zenon DEF Push
  <2>. QED
    BY <1>0, <1>a, <1>c, <2>1, <2>2, LineOther, Zenon DEF QueueTaken
<1>11. CASE Commit
  <2>1. /\ channel' = Passed(channel) /\ pending' = <<>> /\ ingest' = ingest
        /\ line' = SubSeq(line, Len(pending) + 1, Len(line))
        /\ phase' = IF phase = "last" THEN "drain" ELSE "receive"
    BY <1>11, Zenon DEF Commit
  <2>2. phase' # "gather"
    BY Zenon, <2>1
  <2>3. InLine(line, pending, ingest, Passed(channel)) /\ Passed(channel) \in Seq(Request)
    BY <1>0, <1>a, LinePassed, PassedSeq, Zenon
  <2>4. InLine(SubSeq(line, Len(pending) + 1, Len(line)), <<>>, ingest, Passed(channel))
    BY <1>0, <2>3, LineServed, Zenon
  <2>. QED
    BY <1>d, <2>1, <2>2, <2>4, Zenon DEF QueueTaken
<1>12. CASE Drain
  <2>1. /\ phase = "drain" /\ channel' = channel /\ pending' = pending /\ ingest' = <<>>
        /\ line' = SubSeq(line, Len(ingest) + 1, Len(line))
    BY <1>12, Zenon DEF Drain
  <2>2. pending = <<>>
    BY Zenon, <2>1 DEF TypeInv, PendingInTurn
  <2>. QED
    BY <1>0, <1>a, <2>1, <2>2, LineDrained, Zenon DEF QueueTaken
<1>4. CASE Close \/ Emptied \/ Disconnected \/ Stop
  <2>1. /\ line' = line /\ pending' = pending /\ ingest' = ingest /\ channel' = channel
        /\ controller' = controller
        /\ phase' \in {phase, "serve", "last", "stopped"}
    BY Zenon, <1>4 DEF Close, Emptied, Disconnected, Stop, queues
  <2>. QED
    BY Zenon, <1>2, <2>1
<1>5. CASE HandleMeta \/ HandleClaim
  <2>1. /\ line' = line /\ pending' = pending /\ ingest' = ingest /\ channel' = channel
        /\ phase' = "receive"
    BY <1>5, Zenon DEF HandleMeta, HandleClaim
  <2>. QED
    BY Zenon, <1>2, <2>1
<1>14. CASE UNCHANGED vars
  <2>1. /\ line' = line /\ pending' = pending /\ ingest' = ingest /\ channel' = channel
        /\ controller' = controller /\ phase' = phase
    BY <1>14, Zenon DEF vars, queues
  <2>. QED
    BY <1>2, <2>1, Zenon
<1>. QED
  BY <1>1, <1>3, <1>4, <1>5, <1>7, <1>8, <1>9, <1>11, <1>12, <1>14, Zenon DEF Next, Writer

\* Enqueues are committed and answered in the order in which they entered the
\* channel, through preemption, batches of any size, failing transactions and
\* both ways the loop ends.
THEOREM EnqueuesStayInOrder == Spec => []EnqueuesInOrder
<1>1. Init => TypeInv /\ OrderInv
  <2> SUFFICES ASSUME Init PROVE OrderInv
    BY Zenon, TypeInvInit
  <2>1. /\ line = <<>> /\ pending = <<>> /\ ingest = <<>> /\ channel = <<>>
        /\ phase = "receive"
    BY Zenon DEF Init
  <2>2. Len(<<>>) = 0 /\ DOMAIN <<>> = {} /\ 0 = 0 + 0 + 0
    OBVIOUS
  <2>3. InLine(<<>>, <<>>, <<>>, <<>>)
    BY <2>2, RankZero, Zenon DEF InLine
  <2>4. ~Gathering
    BY Zenon, <2>1 DEF Gathering
  <2>. QED
    BY <2>1, <2>3, <2>4, InOrderIsInLine, Zenon DEF OrderInv, QueueTaken
<1>2. TypeInv /\ OrderInv /\ [Next]_vars => (TypeInv /\ OrderInv)'
  BY Zenon, TypeInvStep, OrderStep
<1>3. OrderInv => EnqueuesInOrder
  BY Zenon DEF OrderInv
<1>. QED
  BY <1>1, <1>2, <1>3, PTL DEF Spec
=============================================================================
