---------------------------- MODULE SchedulerProof ----------------------------
(***************************************************************************)
(* The scheduler for any number of queues, budgets, batch sizes, jobs,     *)
(* worker slots and faults: its types, the single place of a scheduled     *)
(* queue, that no queue is forgotten, and that no path loses or doubles a  *)
(* worker slot or a permit of the delivery budget.                         *)
(*                                                                         *)
(* The argument is in two parts that hardly meet.  WakeInv is about where  *)
(* the queues are: between passes none is in the pass, and every name of   *)
(* idle_set has its entry in the deque, although schedule_queue leaves     *)
(* entries behind.  PermitInv is about the permits: only queues of the     *)
(* pass have reservations or permits, and the claim that is served is      *)
(* covered by those of its queue.  Every step but dispatcher.reserve moves *)
(* one unit: SlotMoves and ShareMoves list where from and where to.        *)
(***************************************************************************)
EXTENDS Scheduler, FiniteSetTheorems, SequenceTheorems, TLAPS

Counts == [Queues -> Nat]
Phases == {"select", "reserve", "acquire", "serve"}
Outcomes == {"active", "idle", "retry"}

-----------------------------------------------------------------------------
(***************************************************************************)
(* Sums                                                                    *)
(***************************************************************************)
LEMMA ConstantTypes ==
    /\ IsFiniteSet(Queues)
    /\ MaxInFlight \in Nat \ {0} /\ BatchMax \in Nat \ {0} /\ ProbeBatch \in Nat \ {0}
    /\ MaxJobs \in Nat /\ MaxSlots \in Nat /\ MaxFaults \in Nat
BY Zenon, SchedulerAssumption

\* The n units of a queue that follow the first m.
Block(q, m, n) == {q} \X ((m + 1)..(m + n))

LEMMA BlockSize ==
    ASSUME NEW q, NEW m \in Nat, NEW n \in Nat
    PROVE  IsFiniteSet(Block(q, m, n)) /\ Cardinality(Block(q, m, n)) = n
<1>1. IsFiniteSet({q}) /\ Cardinality({q}) = 1
    BY Zenon, FS_Singleton
<1>2. /\ IsFiniteSet((m + 1)..(m + n))
      /\ Cardinality((m + 1)..(m + n)) = n
    <2>1. m + 1 \in Int /\ m + n \in Int
        OBVIOUS
    <2>2. /\ IsFiniteSet((m + 1)..(m + n))
          /\ Cardinality((m + 1)..(m + n))
               = IF m + 1 > m + n THEN 0 ELSE (m + n) - (m + 1) + 1
        BY Zenon, <2>1, FS_Interval
    <2>3. (IF m + 1 > m + n THEN 0 ELSE (m + n) - (m + 1) + 1) = n
        OBVIOUS
    <2> QED BY <2>2, <2>3
<1> DEFINE T == (m + 1)..(m + n)
<1> HIDE DEF T
<1>3. /\ IsFiniteSet({q} \X T)
      /\ Cardinality({q} \X T) = Cardinality({q}) * Cardinality(T)
    BY Zenon, <1>1, <1>2, FS_Product DEF T
<1>4. Cardinality({q}) * Cardinality(T) = n
    BY <1>1, <1>2 DEF T
<1> QED BY Zenon, <1>3, <1>4, Zenon DEF Block, T

\* The units of a count are finitely many.
LEMMA TotalType ==
    ASSUME NEW f \in Counts
    PROVE  IsFiniteSet(Units(f)) /\ Total(f) \in Nat
<1> DEFINE Of(q) == {q} \X (1..f[q])
<1>1. \A q \in Queues : IsFiniteSet(Of(q))
    <2> SUFFICES ASSUME NEW q \in Queues PROVE IsFiniteSet(Of(q))
        BY Zenon
    <2>1. IsFiniteSet(Block(q, 0, f[q]))
        BY Zenon, BlockSize DEF Counts
    <2>2. (0 + 1)..(0 + f[q]) = 1..f[q]
        BY DEF Counts
    <2> QED BY Zenon, <2>1, <2>2 DEF Block
<1> DEFINE B == {Of(q) : q \in Queues}
           F == [q \in Queues |-> Of(q)]
<1>2. IsFiniteSet(B)
    <2>1. F \in Surjection(Queues, B)
        BY Zenon DEF Surjection
    <2> QED BY Zenon, <2>1, ConstantTypes, FS_Surjection DEF ExistsSurjection
<1>3. IsFiniteSet(UNION {Of(q) : q \in Queues})
    BY Zenon, <1>1, <1>2, FS_UNION
<1>4. IsFiniteSet(Units(f))
    BY Zenon, <1>3 DEF Units
<1> QED BY Zenon, <1>4, FS_CardinalityType DEF Total

\* Raising the count of one queue raises the sum as much.
LEMMA TotalAdd ==
    ASSUME NEW f \in Counts, NEW g \in Counts, NEW q \in Queues, NEW n \in Nat,
           g[q] = f[q] + n, \A p \in Queues \ {q} : g[p] = f[p]
    PROVE  Total(g) = Total(f) + n
<1>1. f[q] \in Nat
    BY Zenon DEF Counts
<1> DEFINE New == Block(q, f[q], n)
<1>2. IsFiniteSet(New) /\ Cardinality(New) = n
    BY Zenon, <1>1, BlockSize
<1>3. IsFiniteSet(Units(f)) /\ Total(f) \in Nat
    BY Zenon, TotalType
<1>4. Units(g) = Units(f) \cup New
    <2>1. \A p \in Queues : p # q => g[p] = f[p]
        BY Zenon
    <2>2. 1..g[q] = (1..f[q]) \cup ((f[q] + 1)..(f[q] + n))
        BY <1>1 DEF Counts
    <2>3. ASSUME NEW u \in Units(g) PROVE u \in Units(f) \cup New
        <3>1. PICK p \in Queues : u \in {p} \X (1..g[p])
            BY Zenon DEF Units
        <3>2. CASE p # q
            BY Zenon, <2>1, <3>1, <3>2 DEF Units
        <3>3. CASE p = q
            BY <2>2, <3>1, <3>3 DEF Units, Block
        <3> QED BY Zenon, <3>2, <3>3
    <2>4. ASSUME NEW u \in Units(f) PROVE u \in Units(g)
        <3>1. PICK p \in Queues : u \in {p} \X (1..f[p])
            BY Zenon DEF Units
        <3>2. CASE p # q
            BY Zenon, <2>1, <3>1, <3>2 DEF Units
        <3>3. CASE p = q
            BY <2>2, <3>1, <3>3 DEF Units, Block
        <3> QED BY Zenon, <3>2, <3>3
    <2>5. ASSUME NEW u \in New PROVE u \in Units(g)
        BY <2>2 DEF Units, Block
    <2> QED BY Zenon, <2>3, <2>4, <2>5
<1>5. Units(f) \cap New = {}
    <2> SUFFICES ASSUME NEW u \in Units(f), u \in New PROVE FALSE
        BY Zenon
    <2>1. PICK p \in Queues : u \in {p} \X (1..f[p])
        BY Zenon DEF Units
    <2>2. u[1] = q /\ u[2] \in (f[q] + 1)..(f[q] + n)
        BY Zenon DEF Block
    <2>3. u[1] = p /\ u[2] \in 1..f[p]
        BY Zenon, <2>1
    <2> QED BY <1>1, <2>2, <2>3
<1>6. Cardinality(Units(f) \cup New)
        = Cardinality(Units(f)) + Cardinality(New) - Cardinality(Units(f) \cap New)
    BY Zenon, <1>2, <1>3, FS_Union
<1>7. Cardinality(Units(f) \cap New) = 0
    BY Zenon, <1>5, FS_EmptySet
<1>8. Total(g) = Total(f) + n
    <2>1. Total(g) = Total(f) + n - 0
        BY Zenon, <1>2, <1>4, <1>6, <1>7 DEF Total
    <2> QED BY <1>3, <2>1
<1> QED BY Zenon, <1>8

\* The counts of one queue set back.
LEMMA TotalDrop ==
    ASSUME NEW f \in Counts, NEW q \in Queues
    PROVE  /\ [f EXCEPT ![q] = 0] \in Counts
           /\ Total(f) = Total([f EXCEPT ![q] = 0]) + f[q]
<1> DEFINE g == [f EXCEPT ![q] = 0]
<1>1. g \in Counts /\ f[q] \in Nat /\ f[q] = g[q] + f[q]
    BY DEF Counts
<1>2. \A p \in Queues \ {q} : f[p] = g[p]
    BY Zenon DEF Counts
<1> HIDE DEF g
<1>3. Total(f) = Total(g) + f[q]
    BY Zenon, <1>1, <1>2, TotalAdd
<1> QED BY Zenon, <1>1, <1>3 DEF g

\* One more or one less of one queue.
LEMMA TotalInc ==
    ASSUME NEW f \in Counts, NEW q \in Queues
    PROVE  /\ Inc(f, q) \in Counts /\ Total(Inc(f, q)) = Total(f) + 1
           /\ f[q] > 0 => Dec(f, q) \in Counts /\ Total(Dec(f, q)) = Total(f) - 1
<1> DEFINE g == Inc(f, q)
           h == Dec(f, q)
<1>1. g \in Counts /\ g[q] = f[q] + 1 /\ \A p \in Queues \ {q} : g[p] = f[p]
    BY DEF Inc, Counts
<1>2. ASSUME f[q] > 0
      PROVE  h \in Counts /\ f[q] = h[q] + 1 /\ \A p \in Queues \ {q} : f[p] = h[p]
    BY <1>2 DEF Dec, Counts
<1> HIDE DEF g, h
<1>3. Total(g) = Total(f) + 1
    BY Zenon, <1>1, TotalAdd
<1>4. ASSUME f[q] > 0 PROVE Total(h) = Total(f) - 1
    <2>1. Total(f) = Total(h) + 1
        BY Zenon, <1>2, <1>4, TotalAdd
    <2>2. Total(h) \in Nat
        BY Zenon, <1>2, <1>4, TotalType
    <2> DEFINE m == Total(f)
               n == Total(h)
    <2>3. m = n + 1 /\ n \in Nat
        BY Zenon, <2>1, <2>2
    <2> HIDE DEF m, n
    <2>4. n = m - 1
        BY <2>3
    <2> QED BY Zenon, <2>4 DEF m, n
<1> QED BY Zenon, <1>1, <1>2, <1>3, <1>4 DEF g, h

LEMMA TotalNone == None \in Counts /\ Total(None) = 0
<1>1. None \in Counts
    BY Zenon DEF None, Counts
<1>2. Units(None) = {}
    <2> SUFFICES ASSUME NEW u \in Units(None) PROVE FALSE
        BY Zenon
    <2>1. PICK q \in Queues : u \in {q} \X (1..None[q])
        BY Zenon DEF Units
    <2>2. 1..None[q] = {}
        BY DEF None
    <2> QED BY Zenon, <2>1, <2>2
<1> QED BY Zenon, <1>1, <1>2, FS_EmptySet DEF Total

\* A count that is one of the terms of a sum of counts does not exceed it.
LEMMA TotalBounds ==
    ASSUME NEW f \in Counts, NEW q \in Queues
    PROVE  f[q] <= Total(f)
<1>1. [f EXCEPT ![q] = 0] \in Counts /\ Total(f) = Total([f EXCEPT ![q] = 0]) + f[q]
    BY Zenon, TotalDrop
<1>2. Total([f EXCEPT ![q] = 0]) \in Nat /\ f[q] \in Nat
    BY Zenon, <1>1, TotalType DEF Counts
<1> QED BY <1>1, <1>2

-----------------------------------------------------------------------------
(***************************************************************************)
(* Where the queues are                                                    *)
(***************************************************************************)
WakeTypes ==
    /\ scheduled \subseteq Queues /\ rerun \subseteq Queues
    /\ idle \in Seq(Queues) /\ idleSet \subseteq Queues
    /\ seeded \in {"no", "yes", "failed"}
    /\ phase \in Phases /\ todo \subseteq Queues
    /\ channel \in Counts /\ retrying \in Counts

\* Between passes no queue is in the pass.
NoPass == phase = "select" => todo = {}

\* idle_set has no name without an entry.
IdleHasEntry == idleSet \subseteq Range(idle)

WakeInv == WakeTypes /\ NoPass /\ IdleHasEntry /\ OneToken /\ NoQueueForgotten

\* A claim is sent for a queue of the pass.
ClaimsServed == \A c \in claim : phase = "serve" /\ c.queue \in todo

wakeVars == <<scheduled, rerun, channel, idleSet, idle, retrying, seeded, phase, todo>>

\* Entering queues in the deque.
LEMMA EnteredRange ==
    ASSUME idle \in Seq(Queues), NEW S \in SUBSET Queues, NEW order \in Orders(S)
    PROVE  idle \o order \in Seq(Queues) /\ Range(idle \o order) = Range(idle) \cup S
<1>1. IsFiniteSet(S) /\ Cardinality(S) \in Nat
    BY Zenon, ConstantTypes, FS_Subset, FS_CardinalityType
<1>2. order \in [1..Cardinality(S) -> S] /\ \A q \in S : \E i \in 1..Cardinality(S) : order[i] = q
    BY Zenon DEF Orders, Bijection, Injection, Surjection
<1>3. order \in Seq(Queues)
    BY <1>1, <1>2
<1>4. Range(order) = S
    BY Zenon, <1>2 DEF Range
<1> QED BY <1>3, <1>4, ConcatProperties, RangeConcatenation

LEMMA WakeUnchanged == WakeInv /\ UNCHANGED wakeVars => WakeInv'
BY Zenon DEF WakeInv, wakeVars, WakeTypes, NoPass, IdleHasEntry, OneToken, Tokens,
       NoQueueForgotten

\* schedule_queue keeps the places: a queue that is scheduled already is only
\* marked, another one is sent.
LEMMA ScheduleKeeps ==
    ASSUME WakeInv, NEW S \in SUBSET Queues, ScheduleQueues(S),
           UNCHANGED <<idle, retrying, seeded, phase, todo>>
    PROVE  WakeInv'
<1>1. WakeTypes'
    BY DEF WakeInv, WakeTypes, ScheduleQueues, Counts
<1>2. NoPass' /\ IdleHasEntry' /\ NoQueueForgotten'
    BY Zenon DEF WakeInv, WakeTypes, NoPass, IdleHasEntry, NoQueueForgotten, ScheduleQueues, Range
<1>3. OneToken'
    <2> SUFFICES ASSUME NEW q \in Queues
                 PROVE  Tokens(q)' = IF q \in scheduled' THEN 1 ELSE 0
        BY Zenon DEF OneToken
    <2>1. Tokens(q) = IF q \in scheduled THEN 1 ELSE 0
        BY Zenon DEF WakeInv, OneToken
    <2>2. channel[q] \in Nat /\ retrying[q] \in Nat
        BY Zenon DEF WakeInv, WakeTypes, Counts
    <2>3. channel'[q] = channel[q] + IF q \in S \ scheduled THEN 1 ELSE 0
        BY Zenon DEF ScheduleQueues
    <2>4. scheduled' = scheduled \cup S
        BY Zenon DEF ScheduleQueues
    <2> QED BY <2>1, <2>2, <2>3, <2>4 DEF Tokens
<1> QED BY Zenon, <1>1, <1>2, <1>3 DEF WakeInv

\* finish_pass keeps the places: each queue of S has been taken out of the
\* channel or the pass, and is sent again, sleeps or is parked.
LEMMA FinishKeeps ==
    ASSUME WakeInv, NEW S \in SUBSET scheduled, NEW again \in SUBSET S,
           NEW later \in SUBSET S, again \cap later = {}, NEW sent \in Counts,
           FinishPass(S, again, later, sent),
           seeded' = seeded, todo' \subseteq Queues,
           phase' \in Phases, NoPass',
           \A q \in Queues : sent[q] + retrying[q] + (IF q \in todo' THEN 1 ELSE 0)
                               = IF q \in scheduled \ S THEN 1 ELSE 0
    PROVE  WakeInv'
<1> DEFINE parked == (S \ later) \ again
<1>1. /\ scheduled' = scheduled \ parked
      /\ rerun' = rerun \ S
      /\ channel' = [q \in Queues |-> sent[q] + IF q \in again THEN 1 ELSE 0]
      /\ retrying' = [q \in Queues |-> retrying[q] + IF q \in later THEN 1 ELSE 0]
      /\ idleSet' = idleSet \cup parked
      /\ \E order \in Orders(parked \ idleSet) : idle' = idle \o order
    BY Zenon DEF FinishPass, Parked, Entered
<1>2. /\ scheduled \subseteq Queues /\ idle \in Seq(Queues)
      /\ channel \in Counts /\ retrying \in Counts
    BY Zenon DEF WakeInv, WakeTypes
<1>3. parked \subseteq Queues
    BY Zenon, <1>2
<1> HIDE DEF parked
<1>4. idle' \in Seq(Queues) /\ Range(idle') = Range(idle) \cup (parked \ idleSet)
    BY Zenon, <1>1, <1>2, <1>3, EnteredRange
<1>5. WakeTypes'
    BY <1>1, <1>2, <1>3, <1>4 DEF WakeInv, WakeTypes, Counts
<1>6. IdleHasEntry'
    BY Zenon, <1>1, <1>4 DEF WakeInv, IdleHasEntry
<1>7. NoQueueForgotten'
    <2>1. parked \subseteq Range(idle')
        BY Zenon, <1>4 DEF WakeInv, IdleHasEntry
    <2>2. scheduled' \subseteq Queues /\ Range(idle') \subseteq Queues
        BY Zenon, <1>4, <1>5, RangeOfSeq DEF WakeTypes
    <2>3. seeded' = "yes" => scheduled \cup Range(idle) = Queues
        BY Zenon DEF WakeInv, NoQueueForgotten
    <2> QED BY Zenon, <1>1, <1>4, <2>1, <2>2, <2>3 DEF NoQueueForgotten
<1>8. OneToken'
    <2> SUFFICES ASSUME NEW q \in Queues
                 PROVE  Tokens(q)' = IF q \in scheduled' THEN 1 ELSE 0
        BY Zenon DEF OneToken
    <2>1. sent[q] \in Nat /\ retrying[q] \in Nat
        BY Zenon, <1>2 DEF Counts
    <2>2. /\ channel'[q] = sent[q] + IF q \in again THEN 1 ELSE 0
          /\ retrying'[q] = retrying[q] + IF q \in later THEN 1 ELSE 0
        BY Zenon, <1>1
    <2>3. sent[q] + retrying[q] + (IF q \in todo' THEN 1 ELSE 0)
            = IF q \in scheduled \ S THEN 1 ELSE 0
        BY Zenon
    <2>4. q \in scheduled' <=> \/ q \in scheduled \ S
                               \/ q \in again
                               \/ q \in later
        BY Zenon, <1>1 DEF parked
    <2>5. ~(q \in scheduled \ S /\ (q \in again \/ q \in later)) /\ ~(q \in again /\ q \in later)
        BY Zenon
    <2> QED BY <2>1, <2>2, <2>3, <2>4, <2>5 DEF Tokens
<1> QED BY Zenon, <1>5, <1>6, <1>7, <1>8 DEF WakeInv

\* What OneToken says of one queue.
LEMMA TokenOf ==
    ASSUME WakeInv, NEW q \in Queues
    PROVE  /\ channel[q] \in Nat /\ retrying[q] \in Nat
           /\ channel[q] + retrying[q] + (IF q \in todo THEN 1 ELSE 0)
                = IF q \in scheduled THEN 1 ELSE 0
           /\ channel[q] > 0 \/ retrying[q] > 0 \/ q \in todo => q \in scheduled
<1>1. channel[q] \in Nat /\ retrying[q] \in Nat
    BY Zenon DEF WakeInv, WakeTypes, Counts
<1>2. channel[q] + retrying[q] + (IF q \in todo THEN 1 ELSE 0)
        = IF q \in scheduled THEN 1 ELSE 0
    BY Zenon DEF WakeInv, OneToken, Tokens
<1> QED BY SMTT(60), <1>1, <1>2

\* A probe schedules what it takes, or it is scheduled (probe_idle_queues).
LEMMA ProbeKeeps ==
    ASSUME WakeInv, Probe
    PROVE  WakeInv'
<1>0. idle \in Seq(Queues) /\ scheduled \subseteq Queues /\ Len(idle) \in Nat
    BY DEF WakeInv, WakeTypes
<1>1. PICK n \in 1..Len(idle) :
        /\ idle' = SubSeq(idle, n + 1, Len(idle))
        /\ idleSet' = idleSet \ {idle[i] : i \in 1..n}
        /\ scheduled' = scheduled \cup ProbedQueues(n)
        /\ rerun' = rerun \cup {q \in ProbedQueues(n) :
                       \E i, k \in 1..n : i # k /\ idle[i] = q /\ idle[k] = q}
        /\ channel' = [q \in Queues |->
                         channel[q] + IF q \in ProbedQueues(n) THEN 1 ELSE 0]
    BY Zenon DEF Probe
<1>2. retrying' = retrying /\ seeded' = seeded /\ phase' = phase /\ todo' = todo
    BY Zenon DEF Probe, pass
<1>3. \A i \in 1..Len(idle) : idle[i] \in Queues
    BY <1>0
<1>4. ProbedQueues(n) \subseteq Queues \ scheduled
    BY <1>3 DEF ProbedQueues, Unscheduled
<1>5. idle' \in Seq(Queues) /\ Range(idle') = {idle[i] : i \in (n + 1)..Len(idle)}
    <2>1. \A i \in (n + 1)..Len(idle) : idle[i] \in Queues
        BY <1>3
    <2>2. /\ idle' \in Seq(Queues) /\ Len(idle') = Len(idle) - n
          /\ \A i \in 1..(Len(idle) - n) : idle'[i] = idle[n + i]
        BY <1>0, <1>1, <2>1, SubSeqProperties
    <2>3. DOMAIN idle' = 1..(Len(idle) - n)
        BY <2>2
    <2>4. ASSUME NEW q \in Range(idle') PROVE q \in {idle[i] : i \in (n + 1)..Len(idle)}
        <3>1. PICK i \in 1..(Len(idle) - n) : q = idle'[i]
            BY Zenon, <2>3 DEF Range
        <3>2. q = idle[n + i] /\ n + i \in (n + 1)..Len(idle)
            BY <1>0, <2>2, <3>1
        <3> QED BY Zenon, <3>2
    <2>5. ASSUME NEW i \in (n + 1)..Len(idle) PROVE idle[i] \in Range(idle')
        <3>1. i - n \in 1..(Len(idle) - n) /\ n + (i - n) = i
            BY <1>0
        <3>2. idle'[i - n] = idle[i]
            BY Zenon, <2>2, <3>1
        <3> QED BY Zenon, <2>3, <3>1, <3>2 DEF Range
    <2> QED BY Zenon, <2>2, <2>4, <2>5
<1>6. Range(idle) = {idle[i] : i \in 1..n} \cup Range(idle')
    <2>1. DOMAIN idle = (1..n) \cup ((n + 1)..Len(idle))
        <3>1. \A l \in Nat : \A k \in 1..l : 1..l = (1..k) \cup ((k + 1)..l)
            OBVIOUS
        <3>2. 1..Len(idle) = (1..n) \cup ((n + 1)..Len(idle))
            BY Zenon, <1>0, <3>1, Zenon
        <3> QED BY Zenon, <1>0, <3>2, LenProperties
    <2>2. Range(idle) = {idle[i] : i \in DOMAIN idle}
        BY Zenon DEF Range
    <2> QED BY Zenon, <1>5, <2>1, <2>2
<1>7. WakeTypes'
    BY SMTT(60), <1>1, <1>2, <1>4, <1>5 DEF WakeInv, WakeTypes, Counts
<1>8. NoPass' /\ IdleHasEntry'
    BY Zenon, <1>1, <1>2, <1>6 DEF WakeInv, NoPass, IdleHasEntry
<1>9. NoQueueForgotten'
    <2>1. {idle[i] : i \in 1..n} \subseteq scheduled'
        BY Zenon, <1>1 DEF ProbedQueues, Unscheduled
    <2>2. Range(idle') \subseteq Queues
        BY Zenon, <1>5, RangeOfSeq
    <2>3. scheduled \subseteq scheduled' /\ scheduled' \subseteq Queues
        BY Zenon, <1>1, <1>7 DEF WakeTypes
    <2> QED BY Zenon, <1>2, <1>6, <2>1, <2>2, <2>3 DEF WakeInv, NoQueueForgotten
<1>10. OneToken'
    <2> SUFFICES ASSUME NEW q \in Queues
                 PROVE  Tokens(q)' = IF q \in scheduled' THEN 1 ELSE 0
        BY Zenon DEF OneToken
    <2>1. channel'[q] = channel[q] + IF q \in ProbedQueues(n) THEN 1 ELSE 0
        BY Zenon, <1>1
    <2> QED BY <1>1, <1>2, <1>4, <2>1, TokenOf DEF Tokens
<1> QED BY Zenon, <1>7, <1>8, <1>9, <1>10 DEF WakeInv

LEMMA WakeInit == Init => WakeInv
<1> SUFFICES ASSUME Init PROVE WakeInv
    BY Zenon
<1>1. WakeTypes
    BY Zenon, EmptySeq DEF Init, WakeTypes, None, Counts, Phases
<1>2. NoPass /\ IdleHasEntry /\ NoQueueForgotten
    BY Zenon DEF Init, NoPass, IdleHasEntry, NoQueueForgotten
<1>3. OneToken
    BY DEF Init, OneToken, Tokens, None
<1> QED BY Zenon, <1>1, <1>2, <1>3 DEF WakeInv

\* The queue of a pass that is done with it.
LEMMA DoneKeeps ==
    ASSUME WakeInv, NEW q \in todo, QueueDone(q), phase = "serve", seeded' = seeded,
           NEW again \in SUBSET {q}, NEW later \in SUBSET {q}, again \cap later = {},
           FinishPass({q}, again, later, channel)
    PROVE  WakeInv'
<1>1. q \in Queues /\ todo \subseteq Queues /\ channel \in Counts
    BY Zenon DEF WakeInv, WakeTypes
<1>2. {q} \subseteq scheduled
    BY Zenon, <1>1, TokenOf
<1>3. /\ todo' = todo \ {q} /\ todo' \subseteq Queues
      /\ phase' \in Phases /\ NoPass'
    BY Zenon, <1>1 DEF QueueDone, NoPass, Phases
<1>4. ASSUME NEW p \in Queues
      PROVE  channel[p] + retrying[p] + (IF p \in todo' THEN 1 ELSE 0)
               = IF p \in scheduled \ {q} THEN 1 ELSE 0
    BY <1>2, <1>3, TokenOf
<1> QED BY Zenon, <1>1, <1>2, <1>3, <1>4, FinishKeeps

LEMMA WakeNext == WakeInv /\ ClaimsServed /\ [Next]_vars => WakeInv'
<1> SUFFICES ASSUME WakeInv, ClaimsServed, [Next]_vars PROVE WakeInv'
    BY Zenon
<1>0. /\ scheduled \subseteq Queues /\ todo \subseteq Queues
      /\ channel \in Counts /\ retrying \in Counts /\ idle \in Seq(Queues)
      /\ None \in Counts
    BY Zenon, TotalNone DEF WakeInv, WakeTypes
<1>1. CASE Seed
    <2>1. /\ seeded' = "yes" /\ idleSet' = idleSet \cup Queues
          /\ \E order \in Orders(Queues \ idleSet) : idle' = idle \o order
          /\ UNCHANGED <<scheduled, rerun, channel, retrying, phase, todo>>
        BY SMTT(60), <1>1 DEF Seed, pass
    <2>2. idle' \in Seq(Queues) /\ Range(idle') = Range(idle) \cup (Queues \ idleSet)
        BY Zenon, <1>0, <2>1, EnteredRange
    <2>3. Range(idle') = Queues
        BY Zenon, <1>0, <2>2, RangeOfSeq DEF WakeInv, IdleHasEntry
    <2> QED BY Zenon, <1>0, <2>1, <2>2, <2>3
            DEF WakeInv, WakeTypes, NoPass, IdleHasEntry, OneToken, Tokens, NoQueueForgotten
<1>2. CASE SeedFails
    BY Zenon, <1>2 DEF SeedFails, wakeups, pass, WakeInv, WakeTypes, NoPass, IdleHasEntry,
                OneToken, Tokens, NoQueueForgotten
<1>3. CASE Probe
    BY Zenon, <1>3, ProbeKeeps
<1>4. CASE Recover
    <2>1. UNCHANGED <<idle, retrying, seeded, phase, todo>>
        BY Zenon, <1>4 DEF Recover, pass
    <2>2. \/ \E S \in SUBSET Queues : ScheduleQueues(S)
          \/ UNCHANGED wakeups
        BY Zenon, <1>4 DEF Recover
    <2> QED BY Zenon, <2>1, <2>2, ScheduleKeeps, WakeUnchanged DEF wakeups, wakeVars
<1>5. CASE PassBlocked
    <2>1. todo = {} /\ todo' = todo /\ phase' = phase /\ seeded' = seeded
        BY Zenon, <1>5 DEF PassBlocked, Selecting, pass, WakeInv, NoPass
    <2>2. Received \subseteq scheduled
        BY Zenon, TokenOf DEF Received
    <2>3. ASSUME NEW q \in Queues
          PROVE  None[q] + retrying[q] + (IF q \in todo' THEN 1 ELSE 0)
                   = IF q \in scheduled \ Received THEN 1 ELSE 0
        <3>1. None[q] = 0 /\ q \notin todo /\ q \notin todo'
            BY Zenon, <2>1 DEF None
        <3>2. q \in Received <=> channel[q] > 0
            BY Zenon DEF Received
        <3> QED BY <3>1, <3>2, TokenOf
    <2>4. FinishPass(Received, Received \cap rerun, {}, None)
        BY Zenon, <1>5 DEF PassBlocked
    <2>5. NoPass' /\ phase' \in Phases
        BY Zenon, <2>1 DEF WakeInv, WakeTypes, NoPass
    <2> QED BY Zenon, <1>0, <2>1, <2>2, <2>3, <2>4, <2>5, FinishKeeps
<1>6. CASE PassStarts
    <2>1. /\ todo = {} /\ todo' = Received /\ phase' = "reserve" /\ channel' = None
          /\ UNCHANGED <<scheduled, rerun, idleSet, idle, retrying, seeded>>
        BY Zenon, <1>6 DEF PassStarts, Selecting, WakeInv, NoPass
    <2>2. OneToken'
        <3> SUFFICES ASSUME NEW q \in Queues
                     PROVE  Tokens(q)' = IF q \in scheduled' THEN 1 ELSE 0
            BY Zenon DEF OneToken
        <3>1. channel'[q] = 0 /\ q \notin todo
            BY Zenon, <2>1 DEF None
        <3>2. q \in todo' <=> channel[q] > 0
            BY Zenon, <2>1 DEF Received
        <3> QED BY <2>1, <3>1, <3>2, TokenOf DEF Tokens
    <2>3. Received \subseteq Queues
        BY Zenon DEF Received
    <2> QED BY Zenon, <1>0, <2>1, <2>2, <2>3
            DEF WakeInv, WakeTypes, NoPass, IdleHasEntry, NoQueueForgotten, Phases
<1>7. CASE ReserveFails
    <2>1. /\ todo' = {} /\ phase' = "select" /\ seeded' = seeded
          /\ FinishPass(todo, {}, todo, channel)
        BY Zenon, <1>7 DEF ReserveFails
    <2>2. todo \subseteq scheduled
        BY Zenon, <1>0, TokenOf
    <2>3. ASSUME NEW q \in Queues
          PROVE  channel[q] + retrying[q] + (IF q \in todo' THEN 1 ELSE 0)
                   = IF q \in scheduled \ todo THEN 1 ELSE 0
        BY <2>1, TokenOf
    <2>4. NoPass' /\ phase' \in Phases
        BY Zenon, <2>1 DEF NoPass, Phases
    <2> QED BY Zenon, <1>0, <2>1, <2>2, <2>3, <2>4, FinishKeeps
<1>8. ASSUME NEW q \in Queues, Reserve(q) \/ Acquire(q) PROVE WakeInv'
    <2>1. phase' \in {"acquire", "serve"}
          /\ UNCHANGED <<scheduled, rerun, channel, idleSet, idle, retrying, seeded, todo>>
        BY Zenon, <1>8 DEF Reserve, Acquire, wakeups
    <2>2. phase' \in Phases /\ phase' # "select"
        BY <2>1 DEF Phases
    <2> QED BY Zenon, <2>1, <2>2 DEF WakeInv, WakeTypes, NoPass, IdleHasEntry, OneToken, Tokens,
                        NoQueueForgotten
<1>9. ASSUME NEW c \in claim, Send(c) \/ ReleaseUnused(c) PROVE WakeInv'
    <2>1. c.queue \in Queues /\ UNCHANGED <<idle, retrying, seeded, phase, todo>>
        BY Zenon, <1>0, <1>9 DEF ClaimsServed, Send, ReleaseUnused
    <2>2. ScheduleQueues({c.queue}) \/ UNCHANGED wakeups
        BY Zenon, <1>9 DEF Send, ReleaseUnused
    <2> QED BY Zenon, <2>1, <2>2, ScheduleKeeps, WakeUnchanged DEF wakeups, wakeVars
<1>16. ASSUME NEW c \in claim, FinishQueue(c) PROVE WakeInv'
    <2> DEFINE q == c.queue
               later == IF c.outcome = "retry" THEN {q} ELSE {}
               again == IF c.outcome = "active" THEN {q} ELSE ({q} \cap rerun) \ later
    <2>0. q \in todo /\ phase = "serve"
        BY Zenon DEF ClaimsServed
    <2>1. FinishPass({q}, again, later, channel) /\ QueueDone(q) /\ seeded' = seeded
        BY Zenon, <1>16 DEF FinishQueue
    <2>2. again \in SUBSET {q} /\ later \in SUBSET {q} /\ again \cap later = {}
        OBVIOUS
    <2> HIDE DEF q, later, again
    <2> QED BY Zenon, <2>0, <2>1, <2>2, DoneKeeps
<1>10. ASSUME NEW q \in Queues, ResumeRetry(q) PROVE WakeInv'
    <2>1. q \in scheduled
        BY Zenon, <1>10, TokenOf DEF ResumeRetry
    <2>2. /\ retrying[q] > 0 /\ retrying' = Dec(retrying, q) /\ channel' = Inc(channel, q)
          /\ UNCHANGED <<scheduled, rerun, idleSet, idle, seeded, phase, todo>>
        BY Zenon, <1>10, <2>1 DEF ResumeRetry, Resumed, pass
    <2>3. channel' \in Counts /\ retrying' \in Counts
        BY Zenon, <1>0, <2>2, TotalInc
    <2>4. OneToken'
        <3> SUFFICES ASSUME NEW p \in Queues
                     PROVE  Tokens(p)' = IF p \in scheduled' THEN 1 ELSE 0
            BY Zenon DEF OneToken
        <3>1. /\ channel'[p] = IF p = q THEN channel[p] + 1 ELSE channel[p]
              /\ retrying'[p] = IF p = q THEN retrying[p] - 1 ELSE retrying[p]
            BY Zenon, <1>0, <2>2 DEF Inc, Dec, Counts
        <3> QED BY <2>2, <3>1, TokenOf DEF Tokens
    <2> QED BY Zenon, <2>2, <2>3, <2>4
            DEF WakeInv, WakeTypes, NoPass, IdleHasEntry, NoQueueForgotten
<1>11. ASSUME NEW q \in Queues, Blocked(q) PROVE WakeInv'
    <2>1. /\ q \in todo /\ phase = "serve" /\ QueueDone(q) /\ seeded' = seeded
          /\ FinishPass({q}, {q} \cap rerun, {}, channel)
        BY Zenon, <1>11 DEF Blocked
    <2> QED BY <2>1, DoneKeeps
<1>13. ASSUME NEW q \in Queues, WakeDelivered(q) \/ Wake(q) PROVE WakeInv'
    <2>1. ScheduleQueues({q}) /\ UNCHANGED <<idle, retrying, seeded, phase, todo>>
        BY Zenon, <1>13 DEF WakeDelivered, Wake, pass
    <2> QED BY Zenon, <2>1, ScheduleKeeps
<1>14. ASSUME NEW q \in Queues,
              \/ Claim(q) \/ ClaimFails(q) \/ Pump(q) \/ Delivered(q) \/ DeliveryFails(q)
              \/ ReleaseClaim(q) \/ DropBudget(q) \/ Submit(q) \/ WorkerRegisters(q)
              \/ Result(q) \/ ResultLost(q) \/ WorkerLost(q) \/ Complete(q)
       PROVE  WakeInv'
    <2>1. UNCHANGED wakeVars
        BY Zenon, <1>14 DEF Claim, ClaimFails, Pump, Delivered, DeliveryFails, ReleaseClaim,
                     DropBudget, Submit, WorkerRegisters, Result, ResultLost, WorkerLost,
                     Complete, wakeups, pass, wakeVars
    <2> QED BY Zenon, <2>1, WakeUnchanged
<1>15. CASE UNCHANGED vars
    BY Zenon, <1>15, WakeUnchanged DEF vars, wakeups, pass, wakeVars
<1> QED BY Zenon, <1>1, <1>2, <1>3, <1>4, <1>5, <1>6, <1>7, <1>8, <1>9, <1>10, <1>11,
           <1>13, <1>14, <1>15, <1>16 DEF Next

-----------------------------------------------------------------------------
(***************************************************************************)
(* Where the permits are                                                   *)
(***************************************************************************)
PassTypes ==
    /\ phase \in Phases /\ todo \subseteq Queues /\ perQueue \in Nat
    /\ taking \subseteq Queues /\ reserved \in Counts /\ held \in Counts
    /\ claim \subseteq [queue: Queues, jobs: Nat, outcome: Outcomes]

PermitTypes ==
    /\ PassTypes /\ budget \in Nat
    /\ slots \in Counts /\ queued \in Counts /\ delivering \in Counts
    /\ undelivered \in Counts /\ returning \in Counts /\ finishing \in Counts
    /\ executing \in Counts /\ registered \in Counts

\* Only queues of a pass that is under way have reservations or hold permits, and
\* there is one claim at most, which the permits of its queue cover.
PassHolds ==
    /\ \A q \in Queues : held[q] > 0 => phase \in {"acquire", "serve"} /\ q \in todo
    /\ \A q \in Queues : reserved[q] > 0 => phase = "acquire" /\ q \in todo
    /\ ClaimsServed
    /\ \A c \in claim : c.jobs <= held[c.queue]
    /\ \A c, d \in claim : c = d

PermitInv == PermitTypes /\ PassHolds /\ PermitsConserved

permitVars == <<pass, budget, slots, deliveries, executing, registered>>

\* The slots of one queue and the budget, apart.
SlotsOf(q) ==
    slots[q] + reserved[q] + held[q] + queued[q] + delivering[q] + executing[q]
      = registered[q]
BudgetKept ==
    budget + Total(held) + Total(queued) + Total(delivering) + Total(undelivered)
           + Total(returning) + Total(finishing) = MaxInFlight

LEMMA Conserved == PermitsConserved <=> BudgetKept /\ \A q \in Queues : SlotsOf(q)
BY Zenon DEF PermitsConserved, BudgetKept, SlotsOf

LEMMA ConservedNext ==
    ASSUME PermitTypes', PassHolds', BudgetKept', \A q \in Queues : SlotsOf(q)'
    PROVE  PermitInv'
BY Zenon DEF PermitInv, PermitsConserved, BudgetKept, SlotsOf

LEMMA PermitFacts ==
    ASSUME PermitInv
    PROVE  /\ PermitTypes /\ PassTypes /\ PassHolds /\ BudgetKept
           /\ budget \in Nat
           /\ Total(held) \in Nat /\ Total(queued) \in Nat /\ Total(delivering) \in Nat
           /\ Total(undelivered) \in Nat /\ Total(returning) \in Nat
           /\ Total(finishing) \in Nat
           /\ \A q \in Queues :
                /\ SlotsOf(q)
                /\ slots[q] \in Nat /\ reserved[q] \in Nat /\ held[q] \in Nat
                /\ queued[q] \in Nat /\ delivering[q] \in Nat
                /\ executing[q] \in Nat /\ registered[q] \in Nat
<1>1. PermitTypes /\ PassTypes /\ PassHolds /\ BudgetKept /\ \A q \in Queues : SlotsOf(q)
    BY Zenon, Conserved DEF PermitInv, PermitTypes
<1>2. /\ Total(held) \in Nat /\ Total(queued) \in Nat /\ Total(delivering) \in Nat
      /\ Total(undelivered) \in Nat /\ Total(returning) \in Nat /\ Total(finishing) \in Nat
    BY Zenon, <1>1, TotalType DEF PermitTypes, PassTypes
<1> QED BY Zenon, <1>1, <1>2 DEF PermitTypes, PassTypes, Counts

LEMMA PermitUnchanged == PermitInv /\ UNCHANGED permitVars => PermitInv'
BY Zenon DEF PermitInv, permitVars, pass, deliveries, PermitTypes, PassTypes, PassHolds,
             ClaimsServed, PermitsConserved

\* One unit more or less of one queue, as a new count.
One(p, q) == IF p = q THEN 1 ELSE 0

LEMMA IncCount ==
    ASSUME NEW f \in Counts, NEW q \in Queues, NEW p \in Queues
    PROVE  /\ Inc(f, q)[p] = f[p] + One(p, q)
           /\ Dec(f, q)[p] = f[p] - One(p, q)
           /\ One(p, q) \in Nat
BY DEF Inc, Dec, Counts, One

\* The places of a slot.
Places(a, v, h, k, d, e) == a + v + h + k + d + e

\* The ways n units move between the places of a slot, come or go.
SlotMoves(a, v, h, k, d, e, r, n) ==
    /\ Places(a - n, v + n, h, k, d, e) = r
    /\ Places(a, v - n, h + n, k, d, e) = r
    /\ Places(a + n, v - n, h, k, d, e) = r
    /\ Places(a, v, h - n, k + n, d, e) = r
    /\ Places(a + n, v, h - n, k, d, e) = r
    /\ Places(a, v, h, k - n, d + n, e) = r
    /\ Places(a, v, h, k, d - n, e + n) = r
    /\ Places(a + n, v, h, k, d - n, e) = r
    /\ Places(a + n, v, h, k, d, e - n) = r
    /\ Places(a + n, v, h, k, d, e) = r + n
    /\ Places(a - n, v, h, k, d, e) = r - n
    /\ Places(a, v, h, k, d, e - n) = r - n

LEMMA SlotMoved ==
    ASSUME NEW a \in Nat, NEW v \in Nat, NEW h \in Nat, NEW k \in Nat, NEW d \in Nat,
           NEW e \in Nat, NEW r \in Nat, NEW n \in Nat, Places(a, v, h, k, d, e) = r
    PROVE  SlotMoves(a, v, h, k, d, e, r, n)
BY DEF Places, SlotMoves

\* What SlotMoved says of the slots of a queue.
Moves(p, n) == SlotMoves(slots[p], reserved[p], held[p], queued[p], delivering[p],
                         executing[p], registered[p], n)

LEMMA SlotsMove ==
    ASSUME PermitInv, NEW p \in Queues, NEW n \in Nat
    PROVE  Moves(p, n)
<1>1. /\ slots[p] \in Nat /\ reserved[p] \in Nat /\ held[p] \in Nat /\ queued[p] \in Nat
      /\ delivering[p] \in Nat /\ executing[p] \in Nat /\ registered[p] \in Nat
      /\ Places(slots[p], reserved[p], held[p], queued[p], delivering[p], executing[p])
           = registered[p]
    BY Zenon, PermitFacts DEF SlotsOf, Places
<1> QED BY Zenon, <1>1, SlotMoved DEF Moves

LEMMA PlacesNext ==
    ASSUME NEW p, Places(slots'[p], reserved'[p], held'[p], queued'[p], delivering'[p],
                         executing'[p]) = registered'[p]
    PROVE  SlotsOf(p)'
BY Zenon DEF Places, SlotsOf

\* The places of a permit of the budget, and how one moves between them.
Shares(b, h, k, d, u, t, f) == b + h + k + d + u + t + f

ShareMoves(b, h, k, d, u, t, f, m) ==
    /\ Shares(b - 1, h + 1, k, d, u, t, f) = m
    /\ Shares(b + 1, h - 1, k, d, u, t, f) = m
    /\ Shares(b, h - 1, k + 1, d, u, t, f) = m
    /\ Shares(b, h, k - 1, d + 1, u, t, f) = m
    /\ Shares(b, h, k, d - 1, u, t + 1, f) = m
    /\ Shares(b, h, k, d - 1, u + 1, t, f) = m
    /\ Shares(b, h, k, d, u - 1, t + 1, f) = m
    /\ Shares(b, h, k, d, u, t - 1, f + 1) = m
    /\ Shares(b + 1, h, k, d, u, t, f - 1) = m

LEMMA ShareMoved ==
    ASSUME NEW b \in Nat, NEW h \in Nat, NEW k \in Nat, NEW d \in Nat, NEW u \in Nat,
           NEW t \in Nat, NEW f \in Nat, NEW m \in Nat, Shares(b, h, k, d, u, t, f) = m
    PROVE  ShareMoves(b, h, k, d, u, t, f, m)
BY DEF Shares, ShareMoves

BudgetMoves == ShareMoves(budget, Total(held), Total(queued), Total(delivering),
                          Total(undelivered), Total(returning), Total(finishing),
                          MaxInFlight)

LEMMA BudgetMove ==
    ASSUME PermitInv
    PROVE  BudgetMoves
<1>1. /\ Shares(budget, Total(held), Total(queued), Total(delivering), Total(undelivered),
                Total(returning), Total(finishing)) = MaxInFlight
      /\ MaxInFlight \in Nat
    BY Zenon, PermitFacts, ConstantTypes DEF BudgetKept, Shares
<1> QED BY Zenon, <1>1, PermitFacts, ShareMoved DEF BudgetMoves

LEMMA SharesNext ==
    ASSUME Shares(budget', Total(held'), Total(queued'), Total(delivering'),
                  Total(undelivered'), Total(returning'), Total(finishing')) = MaxInFlight
    PROVE  BudgetKept'
BY Zenon DEF Shares, BudgetKept

LEMMA PermitInit == Init => PermitInv
<1> SUFFICES ASSUME Init PROVE PermitInv
    BY Zenon
<1>1. PermitTypes
    BY Zenon, TotalNone, ConstantTypes DEF Init, PermitTypes, PassTypes, Phases
<1>2. PassHolds
    BY DEF Init, PassHolds, ClaimsServed, None
<1>3. BudgetKept
    <2>1. MaxInFlight + 0 + 0 + 0 + 0 + 0 + 0 = MaxInFlight
        BY ConstantTypes
    <2> QED BY Zenon, <2>1, TotalNone DEF Init, BudgetKept
<1>4. \A q \in Queues : SlotsOf(q)
    BY DEF Init, SlotsOf, None
<1> QED BY Zenon, <1>1, <1>2, <1>3, <1>4, Conserved DEF PermitInv

\* Every claim fits the delivery channel: try_send refuses nothing.
LEMMA ClaimFits ==
    ASSUME PermitInv, NEW c \in claim
    PROVE  /\ c.queue \in Queues /\ c.jobs \in Nat /\ c.jobs <= held[c.queue]
           /\ c.jobs <= MaxInFlight - Total(queued)
           /\ c.jobs > 0 => Total(queued) < MaxInFlight /\ held[c.queue] > 0
<1>1. c.queue \in Queues /\ c.jobs \in Nat /\ c.jobs <= held[c.queue]
    BY Zenon DEF PermitInv, PermitTypes, PassTypes, PassHolds
<1>2. held[c.queue] <= Total(held) /\ held[c.queue] \in Nat
    BY Zenon, <1>1, TotalBounds, PermitFacts DEF PassTypes
<1>3. Total(held) \in Nat /\ Total(queued) \in Nat /\ MaxInFlight \in Nat
    BY Zenon, PermitFacts, ConstantTypes
<1>4. Total(held) + Total(queued) <= MaxInFlight
    <2> DEFINE b == budget
               h == Total(held)
               k == Total(queued)
               d == Total(delivering)
               u == Total(undelivered)
               t == Total(returning)
               f == Total(finishing)
    <2>1. /\ b \in Nat /\ h \in Nat /\ k \in Nat /\ d \in Nat /\ u \in Nat /\ t \in Nat
          /\ f \in Nat /\ b + h + k + d + u + t + f = MaxInFlight
        BY Zenon, PermitFacts DEF BudgetKept
    <2> HIDE DEF b, h, k, d, u, t, f
    <2>2. h + k <= MaxInFlight
        BY <1>3, <2>1
    <2> QED BY Zenon, <2>2 DEF h, k
<1> DEFINE j == c.jobs
           g == held[c.queue]
           l == Total(held)
           k == Total(queued)
<1>5. /\ j \in Nat /\ g \in Nat /\ l \in Nat /\ k \in Nat /\ j <= g /\ g <= l
      /\ l + k <= MaxInFlight
    BY Zenon, <1>1, <1>2, <1>3, <1>4
<1> HIDE DEF j, g, l, k
<1>6. j <= MaxInFlight - k /\ (j > 0 => k < MaxInFlight /\ g > 0)
    BY <1>3, <1>5
<1> QED BY Zenon, <1>1, <1>6 DEF j, g, k

\* A pass that holds nothing.
LEMMA HoldsNone ==
    ASSUME PermitInv, phase \in {"select", "reserve"}
    PROVE  /\ claim = {} /\ \A q \in Queues : held[q] = 0 /\ reserved[q] = 0
<1>1. phase # "acquire" /\ phase # "serve"
    OBVIOUS
<1>2. \A q \in Queues : /\ held[q] \in Nat /\ ~(held[q] > 0)
                        /\ reserved[q] \in Nat /\ ~(reserved[q] > 0)
    BY Zenon, <1>1, PermitFacts DEF PassHolds
<1>3. \A q \in Queues : held[q] = 0 /\ reserved[q] = 0
    BY <1>2
<1>4. claim = {}
    BY Zenon, <1>1 DEF PermitInv, PassHolds, ClaimsServed
<1> QED BY Zenon, <1>3, <1>4

\* The dispatcher reserves free slots for the queues of the pass.
LEMMA ReserveKeeps ==
    ASSUME PermitInv, NEW q \in Queues, Reserve(q)
    PROVE  PermitInv'
<1>1. /\ phase = "reserve" /\ q \in todo
      /\ reserved' = Grants
      /\ slots' = [p \in Queues |-> slots[p] - Granted(p)]
      /\ \/ Grants = None /\ phase' = "serve" /\ taking' = {}
         \/ phase' = "acquire" /\ taking' = {q}
      /\ UNCHANGED <<todo, perQueue, held, claim, budget, queued, delivering, undelivered,
                     returning, finishing, executing, registered>>
    BY Zenon DEF Reserve, deliveries, bounds
<1>2. claim = {} /\ \A p \in Queues : held[p] = 0 /\ reserved[p] = 0
    BY Zenon, <1>1, HoldsNone
<1>3. \A p \in Queues : /\ Granted(p) \in Nat /\ slots[p] - Granted(p) \in Nat
                        /\ Granted(p) > 0 => p \in todo
    <2> SUFFICES ASSUME NEW p \in Queues
                 PROVE  /\ Granted(p) \in Nat /\ slots[p] - Granted(p) \in Nat
                        /\ Granted(p) > 0 => p \in todo
        BY Zenon
    <2>1. slots[p] \in Nat /\ perQueue \in Nat
        BY Zenon, PermitFacts DEF PassTypes
    <2> QED BY <2>1 DEF Granted, Lesser
<1>4. reserved' \in Counts /\ slots' \in Counts
    BY Zenon, <1>1, <1>3 DEF Grants, Counts
<1>5. PermitTypes'
    <2>1. phase' \in Phases /\ taking' \subseteq Queues
        BY Zenon, <1>1 DEF Phases
    <2> QED BY Zenon, <1>1, <1>4, <2>1 DEF PermitInv, PermitTypes, PassTypes
<1>6. PassHolds'
    <2>1. \A p \in Queues : ~(held'[p] > 0)
        BY <1>1, <1>2
    <2>2. ASSUME NEW p \in Queues, reserved'[p] > 0 PROVE phase' = "acquire" /\ p \in todo'
        <3>1. Granted(p) > 0
            BY Zenon, <1>1, <2>2 DEF Grants
        <3>2. Grants # None
            BY <1>1, <2>2 DEF None
        <3> QED BY Zenon, <1>1, <1>3, <3>1, <3>2
    <2> QED BY Zenon, <1>1, <1>2, <2>1, <2>2 DEF PassHolds, ClaimsServed
<1>7. BudgetKept'
    BY Zenon, <1>1, PermitFacts DEF BudgetKept
<1>8. ASSUME NEW p \in Queues PROVE SlotsOf(p)'
    <2>1. slots'[p] = slots[p] - Granted(p)
        BY Zenon, <1>1
    <2>2. reserved'[p] = reserved[p] + Granted(p)
        <3>1. reserved'[p] = Granted(p) /\ reserved[p] = 0
            BY Zenon, <1>1, <1>2 DEF Grants
        <3> QED BY <1>3, <3>1
    <2>3. Moves(p, Granted(p))
        BY Zenon, <1>3, SlotsMove
    <2> QED BY Zenon, <1>1, <2>1, <2>2, <2>3, PlacesNext DEF Moves, SlotMoves
<1> QED BY Zenon, <1>5, <1>6, <1>7, <1>8, ConservedNext

\* A reservation gets a budget, or its slot is released.
LEMMA AcquireKeeps ==
    ASSUME PermitInv, NEW q \in Queues, Acquire(q)
    PROVE  PermitInv'
<1>1. /\ phase = "acquire" /\ reserved[q] > 0 /\ reserved' = Dec(reserved, q)
      /\ \/ budget > 0 /\ held' = Inc(held, q) /\ budget' = budget - 1 /\ slots' = slots
         \/ slots' = Inc(slots, q) /\ held' = held /\ budget' = budget
      /\ \/ reserved' = None /\ phase' = "serve" /\ taking' = {}
         \/ phase' = "acquire" /\ taking' = {q}
      /\ UNCHANGED <<todo, perQueue, claim, queued, delivering, undelivered,
                     returning, finishing, executing, registered>>
    BY Zenon DEF Acquire, Budgeted, Released, deliveries, bounds
<1>2. reserved \in Counts /\ held \in Counts /\ slots \in Counts /\ budget \in Nat
    BY Zenon, PermitFacts DEF PermitTypes, PassTypes
<1>3. /\ reserved' \in Counts /\ held' \in Counts /\ slots' \in Counts
      /\ Total(held') = Total(held) \/ Total(held') = Total(held) + 1
      /\ held' = held => Total(held') = Total(held)
      /\ held' = Inc(held, q) => Total(held') = Total(held) + 1
    BY Zenon, <1>1, <1>2, TotalInc
<1>4. PermitTypes'
    <2>1. phase' \in Phases /\ taking' \subseteq Queues
        BY Zenon, <1>1 DEF Phases
    <2>2. budget' \in Nat
        BY <1>1, <1>2
    <2> QED BY Zenon, <1>1, <1>3, <2>1, <2>2 DEF PermitInv, PermitTypes, PassTypes
<1>5. PassHolds'
    <2>0. /\ q \in todo /\ claim = {} /\ phase' \in {"acquire", "serve"}
          /\ \A p \in Queues : held[p] > 0 => p \in todo
          /\ \A p \in Queues : reserved[p] > 0 => p \in todo
        <3>1. phase # "serve"
            BY <1>1
        <3> QED BY Zenon, <1>1, <3>1 DEF PermitInv, PassHolds, ClaimsServed
    <2>1. ASSUME NEW p \in Queues, held'[p] > 0
          PROVE  phase' \in {"acquire", "serve"} /\ p \in todo'
        <3>1. CASE p = q
            BY Zenon, <1>1, <2>0, <3>1
        <3>2. CASE p # q
            <4>1. held'[p] = held[p]
                BY Zenon, <1>1, <1>2, <3>2 DEF Inc, Counts
            <4> QED BY Zenon, <1>1, <2>0, <2>1, <4>1
        <3> QED BY Zenon, <3>1, <3>2
    <2>2. ASSUME NEW p \in Queues, reserved'[p] > 0 PROVE phase' = "acquire" /\ p \in todo'
        <3>1. reserved' # None
            BY <2>2 DEF None
        <3>2. CASE p = q
            BY Zenon, <1>1, <2>0, <3>1, <3>2
        <3>3. CASE p # q
            <4>1. reserved'[p] = reserved[p]
                BY Zenon, <1>1, <1>2, <3>3 DEF Dec, Counts
            <4> QED BY Zenon, <1>1, <2>0, <2>2, <3>1, <4>1
        <3> QED BY Zenon, <3>2, <3>3
    <2> QED BY Zenon, <1>1, <2>0, <2>1, <2>2 DEF PassHolds, ClaimsServed
<1>6. BudgetKept'
    <2>1. CASE held' = Inc(held, q) /\ budget' = budget - 1
        BY Zenon, <1>1, <1>3, <2>1, BudgetMove, SharesNext DEF BudgetMoves, ShareMoves
    <2>2. CASE held' = held /\ budget' = budget
        BY Zenon, <1>1, <2>2, PermitFacts DEF BudgetKept
    <2> QED BY Zenon, <1>1, <2>1, <2>2
<1>7. ASSUME NEW p \in Queues PROVE SlotsOf(p)'
    <2>1. /\ reserved'[p] = reserved[p] - One(p, q)
          /\ Inc(held, q)[p] = held[p] + One(p, q)
          /\ Inc(slots, q)[p] = slots[p] + One(p, q) /\ One(p, q) \in Nat
        BY Zenon, <1>1, <1>2, IncCount
    <2>2. Moves(p, One(p, q))
        BY Zenon, <2>1, SlotsMove
    <2>3. CASE held' = Inc(held, q) /\ slots' = slots
        BY Zenon, <1>1, <2>1, <2>2, <2>3, PlacesNext DEF Moves, SlotMoves
    <2>4. CASE slots' = Inc(slots, q) /\ held' = held
        BY Zenon, <1>1, <2>1, <2>2, <2>4, PlacesNext DEF Moves, SlotMoves
    <2> QED BY Zenon, <1>1, <2>3, <2>4
<1> QED BY Zenon, <1>4, <1>5, <1>6, <1>7, ConservedNext

\* The queue of a pass is done, and its permits are gone.
LEMMA DoneHolds ==
    ASSUME PermitInv, NEW q \in Queues, QueueDone(q), phase = "serve", held[q] = 0,
           claim' = {}, held' = held, reserved' = reserved
    PROVE  PassHolds' /\ phase' \in Phases /\ todo' \subseteq Queues
<1>1. todo' = todo \ {q} /\ phase' = IF todo = {q} THEN "select" ELSE "serve"
    BY Zenon DEF QueueDone
<1>2. ASSUME NEW p \in Queues, held'[p] > 0
      PROVE  phase' \in {"acquire", "serve"} /\ p \in todo'
    <2>1. p # q
        BY <1>2
    <2>2. p \in todo
        BY Zenon, <1>2, <2>1 DEF PermitInv, PassHolds
    <2> QED BY Zenon, <1>1, <2>1, <2>2
<1>3. \A p \in Queues : ~(reserved'[p] > 0)
    <2>1. phase # "acquire"
        OBVIOUS
    <2> QED BY Zenon, <2>1 DEF PermitInv, PassHolds
<1>4. phase' \in Phases /\ todo' \subseteq Queues
    BY Zenon, <1>1 DEF Phases, PermitInv, PermitTypes, PassTypes
<1> QED BY Zenon, <1>2, <1>3, <1>4 DEF PassHolds, ClaimsServed

\* A permit of the queue that is served goes, and what is left of its claim is
\* still covered.
LEMMA ServeHolds ==
    ASSUME PermitInv, NEW c \in claim, NEW n \in Nat,
           held' = Dec(held, c.queue), n <= held[c.queue] - 1, held[c.queue] > 0,
           claim' = {[c EXCEPT !.jobs = n]},
           UNCHANGED <<phase, todo, perQueue, reserved, taking>>
    PROVE  PassTypes' /\ PassHolds'
<1> DEFINE q == c.queue
           d == [c EXCEPT !.jobs = n]
<1>1. /\ q \in Queues /\ phase = "serve" /\ q \in todo /\ held \in Counts
      /\ c \in [queue: Queues, jobs: Nat, outcome: Outcomes]
    BY Zenon, PermitFacts DEF PermitInv, PermitTypes, PassTypes, PassHolds, ClaimsServed
<1>2. d \in [queue: Queues, jobs: Nat, outcome: Outcomes] /\ d.queue = q /\ d.jobs = n
    BY <1>1
<1>3. held' \in Counts
    BY Zenon, <1>1, TotalInc
<1>4. PassTypes'
    BY Zenon, <1>2, <1>3 DEF PermitInv, PermitTypes, PassTypes
<1>5. held'[q] = held[q] - 1 /\ \A p \in Queues \ {q} : held'[p] = held[p]
    BY Zenon, <1>1 DEF Dec, Counts
<1>6. \A p \in Queues : held'[p] > 0 => phase' \in {"acquire", "serve"} /\ p \in todo'
    BY Zenon, <1>1, <1>5 DEF PermitInv, PassHolds
<1>7. \A b \in claim' : b.queue = q /\ b.jobs = n /\ b = d
    BY Zenon, <1>2
<1> HIDE DEF d, q
<1>8. \A b \in claim' : /\ phase' = "serve" /\ b.queue \in todo'
                        /\ b.jobs <= held'[b.queue]
    BY Zenon, <1>1, <1>5, <1>7 DEF q
<1> QED BY Zenon, <1>4, <1>6, <1>7, <1>8 DEF PermitInv, PassHolds, ClaimsServed

\* A job that was claimed is sent with its permit.
LEMMA SendKeeps ==
    ASSUME PermitInv, NEW c \in claim, Send(c)
    PROVE  PermitInv'
<1> DEFINE q == c.queue
           n == c.jobs - 1
<1>1. /\ q \in Queues /\ c.jobs \in Nat /\ c.jobs > 0 /\ c.jobs <= held[q]
      /\ Total(queued) < MaxInFlight /\ held[q] > 0
    BY Zenon, ClaimFits DEF Send
<1>2. /\ claim' = {[c EXCEPT !.jobs = n]} /\ held' = Dec(held, q)
      /\ queued' = Inc(queued, q)
      /\ UNCHANGED <<phase, todo, perQueue, reserved, taking, budget, slots, delivering,
                     undelivered, returning, finishing, executing, registered>>
    BY Zenon, <1>1 DEF Send, bounds
<1>3. held \in Counts /\ queued \in Counts /\ held[q] \in Nat
    BY Zenon, <1>1, PermitFacts DEF PermitTypes, PassTypes
<1>4. n \in Nat /\ n <= held[q] - 1
    <2> DEFINE j == c.jobs
               g == held[q]
    <2>1. j \in Nat /\ g \in Nat /\ j > 0 /\ j <= g
        BY Zenon, <1>1, <1>3
    <2> HIDE DEF j, g
    <2>2. j - 1 \in Nat /\ j - 1 <= g - 1
        BY <2>1
    <2> QED BY Zenon, <2>2 DEF j, g
<1> HIDE DEF q, n
<1>5. PassTypes' /\ PassHolds'
    BY Zenon, <1>1, <1>2, <1>4, ServeHolds DEF q
<1>6. /\ held' \in Counts /\ Total(held') = Total(held) - 1
      /\ queued' \in Counts /\ Total(queued') = Total(queued) + 1
    BY Zenon, <1>1, <1>2, <1>3, TotalInc
<1>7. PermitTypes'
    BY Zenon, <1>2, <1>5, <1>6 DEF PermitInv, PermitTypes
<1>8. BudgetKept'
    BY Zenon, <1>2, <1>6, BudgetMove, SharesNext DEF BudgetMoves, ShareMoves
<1>9. ASSUME NEW p \in Queues PROVE SlotsOf(p)'
    <2>1. /\ held'[p] = held[p] - One(p, q) /\ queued'[p] = queued[p] + One(p, q)
          /\ One(p, q) \in Nat
        BY Zenon, <1>1, <1>2, <1>3, IncCount
    <2>2. Moves(p, One(p, q))
        BY Zenon, <2>1, SlotsMove
    <2> QED BY Zenon, <1>2, <2>1, <2>2, PlacesNext DEF Moves, SlotMoves
<1> QED BY Zenon, <1>5, <1>7, <1>8, <1>9, ConservedNext

\* A permit that no job was claimed for is released.
LEMMA ReleaseKeeps ==
    ASSUME PermitInv, NEW c \in claim, ReleaseUnused(c)
    PROVE  PermitInv'
<1> DEFINE q == c.queue
<1>1. /\ q \in Queues /\ c.jobs = 0 /\ held[q] > 0
      /\ held' = Dec(held, q) /\ slots' = Inc(slots, q) /\ budget' = budget + 1
      /\ UNCHANGED <<phase, todo, perQueue, reserved, taking, claim, queued, delivering,
                     undelivered, returning, finishing, executing, registered>>
    BY Zenon, ClaimFits DEF ReleaseUnused, Released, deliveries, bounds
<1>2. held \in Counts /\ slots \in Counts /\ held[q] \in Nat
    BY Zenon, <1>1, PermitFacts DEF PermitTypes, PassTypes
<1>3. claim' = {[c EXCEPT !.jobs = 0]}
    <2>1. c \in [queue: Queues, jobs: Nat, outcome: Outcomes]
        BY Zenon, PermitFacts DEF PassTypes
    <2>2. [c EXCEPT !.jobs = 0] = c
        BY <1>1, <2>1
    <2> QED BY Zenon, <1>1, <2>2 DEF PermitInv, PassHolds
<1> HIDE DEF q
<1>4. 0 <= held[q] - 1 /\ budget' \in Nat /\ 0 \in Nat
    BY <1>1, <1>2, PermitFacts
<1>5. PassTypes' /\ PassHolds'
    BY Zenon, <1>1, <1>3, <1>4, ServeHolds DEF q
<1>6. /\ held' \in Counts /\ Total(held') = Total(held) - 1 /\ slots' \in Counts
    BY Zenon, <1>1, <1>2, TotalInc
<1>7. PermitTypes'
    BY Zenon, <1>1, <1>4, <1>5, <1>6 DEF PermitInv, PermitTypes
<1>8. BudgetKept'
    BY Zenon, <1>1, <1>6, BudgetMove, SharesNext DEF BudgetMoves, ShareMoves
<1>9. ASSUME NEW p \in Queues PROVE SlotsOf(p)'
    <2>1. /\ held'[p] = held[p] - One(p, q) /\ slots'[p] = slots[p] + One(p, q)
          /\ One(p, q) \in Nat
        BY Zenon, <1>1, <1>2, IncCount
    <2>2. Moves(p, One(p, q))
        BY Zenon, <2>1, SlotsMove
    <2> QED BY Zenon, <1>1, <2>1, <2>2, PlacesNext DEF Moves, SlotMoves
<1> QED BY Zenon, <1>5, <1>7, <1>8, <1>9, ConservedNext

\* Steps that leave the pass alone only have to balance.
LEMMA BalanceKeeps ==
    ASSUME PermitInv, UNCHANGED pass,
           slots' \in Counts, queued' \in Counts, delivering' \in Counts,
           undelivered' \in Counts, returning' \in Counts, finishing' \in Counts,
           executing' \in Counts, registered' \in Counts, budget' \in Nat, BudgetKept',
           \A q \in Queues : SlotsOf(q)'
    PROVE  PermitInv'
<1>1. PermitTypes'
    BY Zenon DEF PermitInv, PermitTypes, PassTypes, pass
<1>2. PassHolds'
    BY Zenon DEF PermitInv, PassHolds, ClaimsServed, pass
<1> QED BY Zenon, <1>1, <1>2, ConservedNext

\* The steps of a delivery and of a worker move one unit.
LEMMA MoveKeeps ==
    ASSUME PermitInv, NEW q \in Queues,
           \/ Pump(q) \/ Delivered(q) \/ DeliveryFails(q) \/ ReleaseClaim(q)
           \/ WakeDelivered(q) \/ DropBudget(q) \/ WorkerRegisters(q) \/ Result(q)
           \/ ResultLost(q) \/ WorkerLost(q)
    PROVE  PermitInv'
<1>0. /\ slots \in Counts /\ queued \in Counts /\ delivering \in Counts
      /\ undelivered \in Counts /\ returning \in Counts /\ finishing \in Counts
      /\ executing \in Counts /\ registered \in Counts
    BY Zenon DEF PermitInv, PermitTypes
<1>e. UNCHANGED pass
    BY Zenon DEF Pump, Delivered, DeliveryFails, ReleaseClaim, WakeDelivered, DropBudget,
                 WorkerRegisters, Result, ResultLost, WorkerLost
<1>a. UNCHANGED <<held, reserved>> /\ UNCHANGED pass
    BY Zenon, <1>e DEF pass
<1>b. budget \in Nat /\ BudgetKept /\ BudgetMoves
    BY Zenon, PermitFacts, BudgetMove
<1>c. \A p \in Queues : SlotsOf(p)
    BY Zenon, PermitFacts
<1>d. ASSUME NEW p \in Queues PROVE Moves(p, One(p, q))
    <2>1. One(p, q) \in Nat
        BY Zenon, <1>0, IncCount
    <2> QED BY Zenon, <2>1, SlotsMove
<1>1. CASE Pump(q)
    <2>1. /\ queued[q] > 0 /\ queued' = Dec(queued, q)
          /\ delivering' = Inc(delivering, q)
          /\ UNCHANGED <<slots, undelivered, returning, finishing, executing, registered, budget>>
        BY Zenon, <1>1 DEF Pump, bounds
    <2>2. queued' \in Counts /\ delivering' \in Counts
        BY Zenon, <1>0, <2>1, TotalInc
    <2>3. Total(queued') = Total(queued) - 1 /\ Total(delivering') = Total(delivering) + 1
        BY Zenon, <1>0, <2>1, TotalInc
    <2>4. budget' \in Nat /\ BudgetKept'
        BY Zenon, <1>a, <1>b, <2>1, <2>3, SharesNext DEF BudgetMoves, ShareMoves
    <2>5. ASSUME NEW p \in Queues PROVE SlotsOf(p)'
        <3>1. queued'[p] = queued[p] - One(p, q) /\ delivering'[p] = delivering[p] + One(p, q)
            BY ZenonT(40), <1>0, <2>1, IncCount
        <3> QED BY Zenon, <1>a, <1>d, <2>1, <3>1, PlacesNext DEF Moves, SlotMoves
    <2> QED BY Zenon, <1>0, <1>a, <2>1, <2>2, <2>4, <2>5, BalanceKeeps
<1>2. CASE Delivered(q)
    <2>1. /\ delivering[q] > 0 /\ delivering' = Dec(delivering, q)
          /\ executing' = Inc(executing, q)
          /\ returning' = Inc(returning, q)
          /\ UNCHANGED <<slots, queued, undelivered, finishing, registered, budget>>
        BY Zenon, <1>2 DEF Delivered, bounds
    <2>2. delivering' \in Counts /\ executing' \in Counts /\ returning' \in Counts
        BY Zenon, <1>0, <2>1, TotalInc
    <2>3. Total(delivering') = Total(delivering) - 1 /\ Total(returning') = Total(returning) + 1
        BY Zenon, <1>0, <2>1, TotalInc
    <2>4. budget' \in Nat /\ BudgetKept'
        BY Zenon, <1>a, <1>b, <2>1, <2>3, SharesNext DEF BudgetMoves, ShareMoves
    <2>5. ASSUME NEW p \in Queues PROVE SlotsOf(p)'
        <3>1. delivering'[p] = delivering[p] - One(p, q) /\ executing'[p] = executing[p] + One(p, q)
            BY ZenonT(40), <1>0, <2>1, IncCount
        <3> QED BY Zenon, <1>a, <1>d, <2>1, <3>1, PlacesNext DEF Moves, SlotMoves
    <2> QED BY Zenon, <1>0, <1>a, <2>1, <2>2, <2>4, <2>5, BalanceKeeps
<1>3. CASE DeliveryFails(q)
    <2>1. /\ delivering[q] > 0 /\ delivering' = Dec(delivering, q)
          /\ undelivered' = Inc(undelivered, q)
          /\ slots' = Inc(slots, q)
          /\ UNCHANGED <<queued, returning, finishing, executing, registered, budget>>
        BY Zenon, <1>3 DEF DeliveryFails
    <2>2. delivering' \in Counts /\ undelivered' \in Counts /\ slots' \in Counts
        BY Zenon, <1>0, <2>1, TotalInc
    <2>3. Total(delivering') = Total(delivering) - 1 /\ Total(undelivered') = Total(undelivered) + 1
        BY Zenon, <1>0, <2>1, TotalInc
    <2>4. budget' \in Nat /\ BudgetKept'
        BY Zenon, <1>a, <1>b, <2>1, <2>3, SharesNext DEF BudgetMoves, ShareMoves
    <2>5. ASSUME NEW p \in Queues PROVE SlotsOf(p)'
        <3>1. delivering'[p] = delivering[p] - One(p, q) /\ slots'[p] = slots[p] + One(p, q)
            BY ZenonT(40), <1>0, <2>1, IncCount
        <3> QED BY Zenon, <1>a, <1>d, <2>1, <3>1, PlacesNext DEF Moves, SlotMoves
    <2> QED BY Zenon, <1>0, <1>a, <2>1, <2>2, <2>4, <2>5, BalanceKeeps
<1>4. CASE ReleaseClaim(q)
    <2>1. /\ undelivered[q] > 0 /\ undelivered' = Dec(undelivered, q)
          /\ returning' = Inc(returning, q)
          /\ UNCHANGED <<slots, queued, delivering, finishing, executing, registered, budget>>
        BY Zenon, <1>4 DEF ReleaseClaim, bounds
    <2>2. undelivered' \in Counts /\ returning' \in Counts
        BY Zenon, <1>0, <2>1, TotalInc
    <2>3. Total(undelivered') = Total(undelivered) - 1 /\ Total(returning') = Total(returning) + 1
        BY Zenon, <1>0, <2>1, TotalInc
    <2>4. budget' \in Nat /\ BudgetKept'
        BY Zenon, <1>a, <1>b, <2>1, <2>3, SharesNext DEF BudgetMoves, ShareMoves
    <2>5. ASSUME NEW p \in Queues PROVE SlotsOf(p)'
        BY Zenon, <1>a, <1>c, <2>1 DEF SlotsOf
    <2> QED BY Zenon, <1>0, <1>a, <2>1, <2>2, <2>4, <2>5, BalanceKeeps
<1>5. CASE WakeDelivered(q)
    <2>1. /\ returning[q] > 0 /\ returning' = Dec(returning, q)
          /\ finishing' = Inc(finishing, q)
          /\ UNCHANGED <<slots, queued, delivering, undelivered, executing, registered, budget>>
        BY Zenon, <1>5 DEF WakeDelivered, bounds
    <2>2. returning' \in Counts /\ finishing' \in Counts
        BY Zenon, <1>0, <2>1, TotalInc
    <2>3. Total(returning') = Total(returning) - 1 /\ Total(finishing') = Total(finishing) + 1
        BY Zenon, <1>0, <2>1, TotalInc
    <2>4. budget' \in Nat /\ BudgetKept'
        BY Zenon, <1>a, <1>b, <2>1, <2>3, SharesNext DEF BudgetMoves, ShareMoves
    <2>5. ASSUME NEW p \in Queues PROVE SlotsOf(p)'
        BY Zenon, <1>a, <1>c, <2>1 DEF SlotsOf
    <2> QED BY Zenon, <1>0, <1>a, <2>1, <2>2, <2>4, <2>5, BalanceKeeps
<1>6. CASE DropBudget(q)
    <2>1. /\ finishing[q] > 0 /\ finishing' = Dec(finishing, q)
          /\ budget' = budget + 1
          /\ UNCHANGED <<slots, queued, delivering, undelivered, returning, executing, registered>>
        BY Zenon, <1>6 DEF DropBudget, bounds
    <2>2. finishing' \in Counts
        BY Zenon, <1>0, <2>1, TotalInc
    <2>3. Total(finishing') = Total(finishing) - 1
        BY Zenon, <1>0, <2>1, TotalInc
    <2>4. budget' \in Nat /\ BudgetKept'
        <3>1. budget' \in Nat
            BY <1>b, <2>1
        <3> QED BY Zenon, <1>a, <1>b, <2>1, <2>3, <3>1, SharesNext DEF BudgetMoves, ShareMoves
    <2>5. ASSUME NEW p \in Queues PROVE SlotsOf(p)'
        BY Zenon, <1>a, <1>c, <2>1 DEF SlotsOf
    <2> QED BY Zenon, <1>0, <1>a, <2>1, <2>2, <2>4, <2>5, BalanceKeeps
<1>7. CASE WorkerRegisters(q)
    <2>1. /\ registered' = Inc(registered, q)
          /\ slots' = Inc(slots, q)
          /\ UNCHANGED <<queued, delivering, undelivered, returning, finishing, executing, budget>>
        BY Zenon, <1>7 DEF WorkerRegisters, deliveries
    <2>2. registered' \in Counts /\ slots' \in Counts
        BY Zenon, <1>0, <2>1, TotalInc
    <2>4. budget' \in Nat /\ BudgetKept'
        BY Zenon, <1>a, <1>b, <2>1 DEF BudgetKept
    <2>5. ASSUME NEW p \in Queues PROVE SlotsOf(p)'
        <3>1. registered'[p] = registered[p] + One(p, q) /\ slots'[p] = slots[p] + One(p, q)
            BY ZenonT(40), <1>0, <2>1, IncCount
        <3> QED BY Zenon, <1>a, <1>d, <2>1, <3>1, PlacesNext DEF Moves, SlotMoves
    <2> QED BY Zenon, <1>0, <1>a, <2>1, <2>2, <2>4, <2>5, BalanceKeeps
<1>8. CASE Result(q)
    <2>1. /\ executing[q] > 0 /\ executing' = Dec(executing, q)
          /\ slots' = Inc(slots, q)
          /\ UNCHANGED <<queued, delivering, undelivered, returning, finishing, registered, budget>>
        BY Zenon, <1>8 DEF Result, deliveries, bounds
    <2>2. executing' \in Counts /\ slots' \in Counts
        BY Zenon, <1>0, <2>1, TotalInc
    <2>4. budget' \in Nat /\ BudgetKept'
        BY Zenon, <1>a, <1>b, <2>1 DEF BudgetKept
    <2>5. ASSUME NEW p \in Queues PROVE SlotsOf(p)'
        <3>1. executing'[p] = executing[p] - One(p, q) /\ slots'[p] = slots[p] + One(p, q)
            BY ZenonT(40), <1>0, <2>1, IncCount
        <3> QED BY Zenon, <1>a, <1>d, <2>1, <3>1, PlacesNext DEF Moves, SlotMoves
    <2> QED BY Zenon, <1>0, <1>a, <2>1, <2>2, <2>4, <2>5, BalanceKeeps
<1>9. CASE ResultLost(q)
    <2>1. /\ executing[q] > 0 /\ executing' = Dec(executing, q)
          /\ slots' = Inc(slots, q)
          /\ UNCHANGED <<queued, delivering, undelivered, returning, finishing, registered, budget>>
        BY Zenon, <1>9 DEF ResultLost, deliveries
    <2>2. executing' \in Counts /\ slots' \in Counts
        BY Zenon, <1>0, <2>1, TotalInc
    <2>4. budget' \in Nat /\ BudgetKept'
        BY Zenon, <1>a, <1>b, <2>1 DEF BudgetKept
    <2>5. ASSUME NEW p \in Queues PROVE SlotsOf(p)'
        <3>1. executing'[p] = executing[p] - One(p, q) /\ slots'[p] = slots[p] + One(p, q)
            BY ZenonT(40), <1>0, <2>1, IncCount
        <3> QED BY Zenon, <1>a, <1>d, <2>1, <3>1, PlacesNext DEF Moves, SlotMoves
    <2> QED BY Zenon, <1>0, <1>a, <2>1, <2>2, <2>4, <2>5, BalanceKeeps
<1>10. CASE WorkerLost(q)
    <2>1. /\ registered' = Dec(registered, q)
          /\ \/ executing[q] > 0 /\ executing' = Dec(executing, q) /\ UNCHANGED slots
             \/ slots[q] > 0 /\ slots' = Dec(slots, q) /\ UNCHANGED executing
          /\ UNCHANGED <<queued, delivering, undelivered, returning, finishing, budget>>
        BY Zenon, <1>10 DEF WorkerLost, deliveries
    <2>2. registered[q] > 0
        <3> DEFINE a == slots[q]
                   v == reserved[q]
                   h == held[q]
                   k == queued[q]
                   d == delivering[q]
                   e == executing[q]
                   r == registered[q]
        <3>1. /\ a \in Nat /\ v \in Nat /\ h \in Nat /\ k \in Nat /\ d \in Nat /\ e \in Nat
              /\ a + v + h + k + d + e = r /\ (e > 0 \/ a > 0)
            BY Zenon, <2>1, PermitFacts DEF SlotsOf
        <3> HIDE DEF a, v, h, k, d, e, r
        <3>2. r > 0
            BY <3>1
        <3> QED BY Zenon, <3>2 DEF r
    <2>3. registered' \in Counts /\ executing' \in Counts /\ slots' \in Counts
        BY Zenon, <1>0, <2>1, <2>2, TotalInc
    <2>4. budget' \in Nat /\ BudgetKept'
        BY Zenon, <1>a, <1>b, <2>1 DEF BudgetKept
    <2>5. ASSUME NEW p \in Queues PROVE SlotsOf(p)'
        <3>1. /\ registered'[p] = registered[p] - One(p, q)
              /\ Dec(executing, q)[p] = executing[p] - One(p, q)
              /\ Dec(slots, q)[p] = slots[p] - One(p, q)
            BY Zenon, <1>0, <2>1, IncCount
        <3>3. CASE executing' = Dec(executing, q) /\ UNCHANGED slots
            BY Zenon, <1>a, <1>d, <2>1, <3>1, <3>3, PlacesNext DEF Moves, SlotMoves
        <3>4. CASE slots' = Dec(slots, q) /\ UNCHANGED executing
            BY Zenon, <1>a, <1>d, <2>1, <3>1, <3>4, PlacesNext DEF Moves, SlotMoves
        <3> QED BY Zenon, <2>1, <3>3, <3>4
    <2> QED BY Zenon, <1>0, <1>a, <2>1, <2>3, <2>4, <2>5, BalanceKeeps
<1> QED BY Zenon, <1>1, <1>2, <1>3, <1>4, <1>5, <1>6, <1>7, <1>8, <1>9, <1>10

\* The types of what neither part is about.
RestTypes ==
    /\ pending \in Counts /\ waking \in Counts /\ completing \in Counts /\ stale \in Counts
    /\ submitted \in Nat /\ faults \in Nat

LEMMA PermitNext == PermitInv /\ RestTypes /\ [Next]_vars => PermitInv'
<1> SUFFICES ASSUME PermitInv, RestTypes, [Next]_vars PROVE PermitInv'
    BY Zenon
<1>1. CASE Seed \/ SeedFails \/ Probe \/ Recover \/ PassBlocked \/ UNCHANGED vars
    <2>1. UNCHANGED permitVars
        BY Zenon, <1>1 DEF Seed, SeedFails, Probe, Recover, PassBlocked, vars, bounds, permitVars
    <2> QED BY Zenon, <2>1, PermitUnchanged
<1>2. ASSUME NEW q \in Queues, ResumeRetry(q) \/ Submit(q) \/ Wake(q) \/ Complete(q)
      PROVE  PermitInv'
    <2>1. UNCHANGED permitVars
        BY Zenon, <1>2 DEF ResumeRetry, Submit, Wake, Complete, bounds, permitVars
    <2> QED BY Zenon, <2>1, PermitUnchanged
<1>3. CASE PassStarts
    <2>1. /\ phase = "select" /\ phase' = "reserve" /\ todo' = Received
          /\ perQueue' = Lesser(Greater(budget \div Cardinality(Received), 1), BatchMax)
          /\ budget > 0 /\ Received # {}
          /\ UNCHANGED <<reserved, taking, held, claim, budget, slots, queued, delivering,
                         undelivered, returning, finishing, executing, registered>>
        BY Zenon, <1>3 DEF PassStarts, Selecting, deliveries, bounds
    <2>2. claim = {} /\ \A q \in Queues : held[q] = 0 /\ reserved[q] = 0
        BY Zenon, <2>1, HoldsNone
    <2>3. perQueue' \in Nat
        <3>1. IsFiniteSet(Received)
            BY Zenon, ConstantTypes, FS_Subset DEF Received
        <3>2. Cardinality(Received) \in Nat /\ Cardinality(Received) # 0
            BY Zenon, <2>1, <3>1, FS_CardinalityType, FS_EmptySet
        <3>3. \A b \in Nat, n \in Nat : n # 0 => b \div n \in Nat
            OBVIOUS
        <3>4. budget \div Cardinality(Received) \in Nat
            BY Zenon, <3>2, <3>3, PermitFacts
        <3> QED BY Zenon, <2>1, <3>4, ConstantTypes DEF Lesser, Greater
    <2>4. PermitTypes'
        BY Zenon, <2>1, <2>3 DEF PermitInv, PermitTypes, PassTypes, Phases, Received
    <2>5. \A q \in Queues : ~(held'[q] > 0) /\ ~(reserved'[q] > 0)
        BY <2>1, <2>2
    <2>6. PassHolds'
        BY Zenon, <2>1, <2>2, <2>5 DEF PassHolds, ClaimsServed
    <2> QED BY Zenon, <2>1, <2>4, <2>6 DEF PermitInv, PermitsConserved
<1>4. CASE ReserveFails
    <2>1. /\ phase = "reserve" /\ phase' = "select" /\ todo' = {}
          /\ UNCHANGED <<perQueue, reserved, taking, held, claim, budget, slots, queued,
                         delivering, undelivered, returning, finishing, executing,
                         registered>>
        BY Zenon, <1>4 DEF ReserveFails, deliveries
    <2>2. claim = {} /\ \A q \in Queues : held[q] = 0 /\ reserved[q] = 0
        BY Zenon, <2>1, HoldsNone
    <2>3. \A q \in Queues : ~(held'[q] > 0) /\ ~(reserved'[q] > 0)
        BY <2>1, <2>2
    <2>4. PermitTypes'
        BY Zenon, <2>1 DEF PermitInv, PermitTypes, PassTypes, Phases
    <2>5. PassHolds'
        BY Zenon, <2>1, <2>2, <2>3 DEF PassHolds, ClaimsServed
    <2> QED BY Zenon, <2>1, <2>4, <2>5 DEF PermitInv, PermitsConserved
<1>5. ASSUME NEW q \in Queues, Blocked(q) PROVE PermitInv'
    <2>1. /\ phase = "serve" /\ claim = {} /\ held[q] = 0 /\ QueueDone(q)
          /\ UNCHANGED <<perQueue, reserved, taking, held, claim, budget, slots, queued,
                         delivering, undelivered, returning, finishing, executing,
                         registered>>
        BY Zenon, <1>5 DEF Blocked, deliveries, bounds
    <2>2. PassHolds' /\ phase' \in Phases /\ todo' \subseteq Queues
        BY Zenon, <2>1, DoneHolds
    <2>3. PermitTypes'
        BY Zenon, <2>1, <2>2 DEF PermitInv, PermitTypes, PassTypes
    <2> QED BY Zenon, <2>1, <2>2, <2>3 DEF PermitInv, PermitsConserved
<1>6. ASSUME NEW q \in Queues, Claim(q) \/ ClaimFails(q) PROVE PermitInv'
    <2>1. PICK n \in Nat, o \in Outcomes :
            claim' = {[queue |-> q, jobs |-> n, outcome |-> o]} /\ n <= held[q]
        <3>1. held[q] \in Nat /\ pending[q] \in Nat
            BY Zenon, PermitFacts DEF RestTypes, Counts
        <3>2. 0 \in Nat /\ 0 <= held[q]
            BY <3>1
        <3> DEFINE l == Lesser(held[q], pending[q])
        <3>3. l \in Nat /\ l <= held[q]
            BY <3>1 DEF Lesser
        <3>4. CASE ClaimFails(q)
            BY Zenon, <3>2, <3>4 DEF ClaimFails, Outcomes
        <3>5. CASE Claim(q)
            <4> DEFINE x == IF l = held[q] THEN "active" ELSE "idle"
            <4>1. claim' = {[queue |-> q, jobs |-> l, outcome |-> x]}
                BY Zenon, <3>5 DEF Claim
            <4>2. x \in Outcomes
                BY Zenon DEF Outcomes
            <4> HIDE DEF l, x
            <4> QED BY Zenon, <3>3, <4>1, <4>2
        <3> QED BY Zenon, <1>6, <3>4, <3>5
    <2>2. /\ phase = "serve" /\ q \in todo
          /\ UNCHANGED <<phase, todo, perQueue, reserved, taking, held, budget, slots, queued,
                         delivering, undelivered, returning, finishing, executing,
                         registered>>
        BY Zenon, <1>6 DEF Claim, ClaimFails, deliveries, bounds
    <2> DEFINE d == [queue |-> q, jobs |-> n, outcome |-> o]
    <2>3. d \in [queue: Queues, jobs: Nat, outcome: Outcomes] /\ d.queue = q /\ d.jobs = n
        OBVIOUS
    <2>4. claim' = {d}
        BY Zenon, <2>1
    <2> HIDE DEF d
    <2>5. PermitTypes'
        BY Zenon, <2>2, <2>3, <2>4 DEF PermitInv, PermitTypes, PassTypes
    <2>6. \A c \in claim' : c = d
        BY Zenon, <2>4
    <2>7. PassHolds'
        BY Zenon, <2>1, <2>2, <2>3, <2>6 DEF PermitInv, PassHolds, ClaimsServed
    <2> QED BY Zenon, <2>2, <2>5, <2>7 DEF PermitInv, PermitsConserved
<1>7. ASSUME NEW c \in claim, FinishQueue(c) PROVE PermitInv'
    <2>1. /\ phase = "serve" /\ c.queue \in Queues
        BY Zenon, ClaimFits DEF PermitInv, PassHolds, ClaimsServed
    <2>2. /\ held[c.queue] = 0 /\ claim' = {} /\ QueueDone(c.queue)
          /\ UNCHANGED <<perQueue, reserved, taking, held, budget, slots, queued,
                         delivering, undelivered, returning, finishing, executing,
                         registered>>
        BY Zenon, <1>7 DEF FinishQueue, deliveries, bounds
    <2>3. PassHolds' /\ phase' \in Phases /\ todo' \subseteq Queues
        BY Zenon, <2>1, <2>2, DoneHolds
    <2>4. PermitTypes'
        BY Zenon, <2>2, <2>3 DEF PermitInv, PermitTypes, PassTypes
    <2> QED BY Zenon, <2>2, <2>3, <2>4 DEF PermitInv, PermitsConserved
<1>8. ASSUME NEW c \in claim, Send(c) \/ ReleaseUnused(c) PROVE PermitInv'
    BY Zenon, <1>8, SendKeeps, ReleaseKeeps
<1>9. ASSUME NEW q \in Queues, Reserve(q) \/ Acquire(q) PROVE PermitInv'
    BY Zenon, <1>9, ReserveKeeps, AcquireKeeps
<1>10. ASSUME NEW q \in Queues,
              \/ Pump(q) \/ Delivered(q) \/ DeliveryFails(q) \/ ReleaseClaim(q)
              \/ WakeDelivered(q) \/ DropBudget(q) \/ WorkerRegisters(q) \/ Result(q)
              \/ ResultLost(q) \/ WorkerLost(q)
       PROVE  PermitInv'
    BY Zenon, <1>10, MoveKeeps
<1> QED BY Zenon, <1>1, <1>2, <1>3, <1>4, <1>5, <1>6, <1>7, <1>8, <1>9, <1>10 DEF Next

LEMMA RestNext == RestTypes /\ PermitInv /\ [Next]_vars => RestTypes'
<1> SUFFICES ASSUME RestTypes, PermitInv, [Next]_vars PROVE RestTypes'
    BY Zenon
<1>0. /\ pending \in Counts /\ waking \in Counts /\ completing \in Counts /\ stale \in Counts
      /\ submitted \in Nat /\ faults \in Nat
      /\ faults + 1 \in Nat /\ submitted + 1 \in Nat
    BY DEF RestTypes
<1>a. \A kind : Fault(kind) => faults' = faults + 1
    BY Zenon DEF Fault
<1>1. CASE Seed \/ SeedFails \/ Probe \/ PassBlocked \/ PassStarts \/ UNCHANGED vars
    BY Zenon, <1>0, <1>1 DEF Seed, SeedFails, Probe, PassBlocked, PassStarts, vars, bounds,
                             RestTypes
<1>2. CASE ReserveFails
    BY Zenon, <1>0, <1>a, <1>2 DEF ReserveFails, RestTypes
<1>3. CASE Recover
    <2>1. PICK back \in [Queues -> 0..MaxJobs] :
            pending' = [q \in Queues |-> pending[q] + back[q]]
        BY Zenon, <1>3 DEF Recover
    <2>2. pending' \in Counts
        <3>1. \A q \in Queues : pending[q] \in Nat /\ back[q] \in Nat
            BY <1>0, ConstantTypes DEF Counts
        <3>2. \A q \in Queues : pending[q] + back[q] \in Nat
            BY <3>1
        <3> QED BY Zenon, <2>1, <3>2 DEF Counts
    <2>3. stale' = None /\ UNCHANGED <<waking, completing, submitted, faults>>
        BY Zenon, <1>3 DEF Recover, bounds
    <2> QED BY Zenon, <1>0, <2>2, <2>3, TotalNone DEF RestTypes
<1>4. ASSUME NEW q \in Queues, Reserve(q) \/ Acquire(q) PROVE RestTypes'
    BY Zenon, <1>0, <1>4 DEF Reserve, Acquire, bounds, RestTypes
<1>5. ASSUME NEW c \in claim, Send(c) \/ ReleaseUnused(c) \/ FinishQueue(c) PROVE RestTypes'
    <2>1. /\ pending' \in {pending, Inc(pending, c.queue)}
          /\ UNCHANGED <<waking, completing, stale, submitted, faults>>
        BY Zenon, <1>5 DEF Send, ReleaseUnused, FinishQueue, bounds
    <2>2. Inc(pending, c.queue) \in Counts
        BY Zenon, <1>0, ClaimFits, TotalInc
    <2> QED BY Zenon, <1>0, <2>1, <2>2 DEF RestTypes
<1>6. ASSUME NEW q \in Queues, Claim(q) PROVE RestTypes'
    <2> DEFINE n == Lesser(held[q], pending[q])
    <2>1. /\ pending' = [pending EXCEPT ![q] = @ - n]
          /\ UNCHANGED <<waking, completing, stale, submitted, faults>>
        BY Zenon, <1>6 DEF Claim, bounds
    <2>2. pending[q] \in Nat /\ n \in Nat /\ n <= pending[q]
        <3>1. held[q] \in Nat /\ pending[q] \in Nat
            BY Zenon, <1>0, PermitFacts DEF Counts
        <3> QED BY <3>1 DEF Lesser
    <2> HIDE DEF n
    <2>3. pending' \in Counts
        BY <1>0, <2>1, <2>2 DEF Counts
    <2> QED BY Zenon, <1>0, <2>1, <2>3 DEF RestTypes
<1>7. ASSUME NEW q \in Queues,
             \/ ResumeRetry(q) \/ Blocked(q) \/ ClaimFails(q) \/ Pump(q) \/ Delivered(q)
             \/ DeliveryFails(q) \/ WakeDelivered(q) \/ DropBudget(q)
      PROVE  RestTypes'
    <2>1. /\ UNCHANGED <<pending, waking, completing, stale, submitted>>
          /\ faults' = faults \/ faults' = faults + 1
        BY Zenon, <1>a, <1>7 DEF ResumeRetry, Blocked, ClaimFails, Pump, Delivered,
                    DeliveryFails, WakeDelivered, DropBudget, bounds
    <2> QED BY Zenon, <1>0, <2>1 DEF RestTypes
<1>8. ASSUME NEW q \in Queues, Submit(q) \/ Wake(q) PROVE RestTypes'
    <2>1. /\ pending' \in {pending, Inc(pending, q)} /\ submitted' \in {submitted, submitted + 1}
          /\ \/ waking' \in {waking, Inc(waking, q)}
             \/ waking[q] > 0 /\ waking' = Dec(waking, q)
          /\ UNCHANGED <<completing, stale, faults>>
        BY Zenon, <1>8 DEF Submit, Wake, bounds
    <2> QED BY Zenon, <1>0, <2>1, TotalInc DEF RestTypes
<1>9. ASSUME NEW q \in Queues,
             ReleaseClaim(q) \/ WorkerRegisters(q) \/ ResultLost(q) \/ WorkerLost(q) \/ Result(q)
      PROVE  RestTypes'
    <2>1. /\ pending' \in {pending, Inc(pending, q)} /\ waking' \in {waking, Inc(waking, q)}
          /\ stale' \in {stale, Inc(stale, q)} /\ completing' \in {completing, Inc(completing, q)}
          /\ faults' = faults \/ faults' = faults + 1
          /\ UNCHANGED submitted
        BY Zenon, <1>a, <1>9 DEF ReleaseClaim, WorkerRegisters, ResultLost, WorkerLost, Result,
                    bounds
    <2> QED BY Zenon, <1>0, <2>1, TotalInc DEF RestTypes
<1>10. ASSUME NEW q \in Queues, Complete(q) PROVE RestTypes'
    <2>1. /\ completing[q] > 0 /\ completing' = Dec(completing, q)
          /\ pending' \in {pending, Inc(pending, q)} /\ waking' \in {waking, Inc(waking, q)}
          /\ stale' \in {stale, Inc(stale, q)}
          /\ faults' = faults \/ faults' = faults + 1
          /\ UNCHANGED submitted
        BY Zenon, <1>a, <1>10 DEF Complete
    <2> QED BY Zenon, <1>0, <2>1, TotalInc DEF RestTypes
<1> QED BY Zenon, <1>1, <1>2, <1>3, <1>4, <1>5, <1>6, <1>7, <1>8, <1>9, <1>10 DEF Next

-----------------------------------------------------------------------------
(***************************************************************************)
(* Theorems                                                                *)
(***************************************************************************)
SchedulerInv == WakeInv /\ PermitInv /\ RestTypes

LEMMA SchedulerInvariant == Spec => []SchedulerInv
<1>1. Init => SchedulerInv
    <2>1. Init => RestTypes
        BY TotalNone DEF Init, RestTypes
    <2> QED BY Zenon, <2>1, WakeInit, PermitInit DEF SchedulerInv
<1>2. SchedulerInv /\ [Next]_vars => SchedulerInv'
    BY Zenon, WakeNext, PermitNext, RestNext DEF SchedulerInv, PermitInv, PassHolds
<1> QED BY <1>1, <1>2, PTL DEF Spec

\* Every variable of the scheduler has its type: no count goes below zero.
THEOREM SchedulerTypes == Spec => []TypeOK
<1>1. SchedulerInv => TypeOK
    BY Zenon DEF SchedulerInv, WakeInv, WakeTypes, PermitInv, PermitTypes,
                 PassTypes, RestTypes, TypeOK, Counts, Phases, Outcomes
<1> QED BY <1>1, SchedulerInvariant, PTL

\* A scheduled queue is in exactly one place - the channel, the pass or a sleeping
\* retry - and a queue that is not scheduled in none: schedule_queue, finish_pass,
\* probe_idle_queues and resume_retry neither lose nor double a wakeup.
THEOREM ScheduledOnce == Spec => []OneToken
<1>1. SchedulerInv => OneToken
    BY Zenon DEF SchedulerInv, WakeInv
<1> QED BY <1>1, SchedulerInvariant, PTL

\* Once seed_idle_queues has succeeded every queue is scheduled or has an entry
\* that a probe finds.
THEOREM QueuesAreRemembered == Spec => []NoQueueForgotten
<1>1. SchedulerInv => NoQueueForgotten
    BY Zenon DEF SchedulerInv, WakeInv
<1> QED BY <1>1, SchedulerInvariant, PTL

\* No path of drain_pass or of a delivery loses or doubles a worker slot or a
\* permit of delivery_budget.
THEOREM PermitsAreConserved == Spec => []PermitsConserved
<1>1. SchedulerInv => PermitsConserved
    BY Zenon DEF SchedulerInv, PermitInv
<1> QED BY <1>1, SchedulerInvariant, PTL

\* The delivery channel, whose capacity is max_delivery_in_flight, has room for
\* every job a pass has claimed: try_send never fails in drain_pass, and the
\* branch that releases the claim again is not taken while the pump lives.
THEOREM ClaimsFitChannel ==
    Spec => [](\A c \in claim : c.jobs <= MaxInFlight - Total(queued))
<1>1. ASSUME PermitInv, NEW c \in claim PROVE c.jobs <= MaxInFlight - Total(queued)
    BY Zenon, <1>1, ClaimFits
<1>2. SchedulerInv => \A c \in claim : c.jobs <= MaxInFlight - Total(queued)
    BY Zenon, <1>1 DEF SchedulerInv
<1> QED BY <1>2, SchedulerInvariant, PTL
=============================================================================
