------------------------- MODULE WorkerSessionsProof -------------------------
(***************************************************************************)
(* What holds of the registry, the wire and the worker session for every   *)
(* set of workers, every concurrency and every number of dispatches.       *)
(*                                                                         *)
(* The frames of a connection that the worker has not read are one         *)
(* sequence, Wire: the writer task moves a frame within it, a dispatch     *)
(* appends to it and the worker takes its head.  The argument is that a    *)
(* dispatch id is in one place only (Placed): on the wire, in the worker's *)
(* JoinSet, in a report or in a result.  So a result, or a failed write,   *)
(* takes out of in_flight_dispatches an id the worker no longer has, the   *)
(* registry's set covers what the worker has (Covered), and the bound the  *)
(* registry keeps on its set bounds the worker.                            *)
(***************************************************************************)
EXTENDS WorkerSessions, FiniteSetTheorems, SequenceTheorems, TLAPS

Wire(w) == down[w] \o outbound[w]

\* The dispatch ids in a sequence of frames, in reports and in results.
JobsIn(s) == {id \in DispatchIds : InFrames(s, id)}
ReportIds(R) == {r.id : r \in R}
ResultIds(u) ==
    {id \in DispatchIds : \E i \in 1..Len(u) : u[i].type = "result" /\ u[i].id = id}

\* What the worker has or can still be given.
Has(s, J, R) == JobsIn(s) \cup J \cup ReportIds(R)

\* No two reports of one dispatch.
OneEach(R) == \A p, q \in R : p.id = q.id => p = q

\* The reports Q are those of R and one more, of dispatch x.
OneMore(Q, R, x) == ReportIds(Q) = ReportIds(R) \cup {x} /\ OneEach(Q)

\* No dispatch is sent twice.
Distinct(s) ==
    \A i, k \in 1..Len(s) : \A id \in DispatchIds :
        i < k /\ s[i] = Job(id) => s[k] # Job(id)

\* An id that was given out is in one place.
Placed(s, J, R, u, n) ==
    /\ Distinct(s)
    /\ JobsIn(s) \cap J = {}
    /\ JobsIn(s) \cap ReportIds(R) = {}
    /\ JobsIn(s) \cap ResultIds(u) = {}
    /\ J \cap ReportIds(R) = {}
    /\ J \cap ResultIds(u) = {}
    /\ ReportIds(R) \cap ResultIds(u) = {}
    /\ \A r, q \in R : r.id = q.id => r = q
    /\ \A id \in Has(s, J, R) \cup ResultIds(u) : id < n

Drains(s) == \E i \in 1..Len(s) : s[i] = Draining

\* No dispatch follows `draining`.
Closed(s) ==
    \A i, k \in 1..Len(s) : s[i] = Draining /\ i < k => s[k].type # "job"

\* A worker that has not connected has left no trace.
Fresh(w) ==
    sdk[w] = "none" =>
        /\ w \notin DOMAIN registry /\ permits[w] = 0
        /\ Wire(w) = <<>> /\ up[w] = <<>>
        /\ jobs[w] = {} /\ reporting[w] = {} /\ accepted[w] = {}

Booked(w) ==
    w \in DOMAIN registry =>
        /\ registry[w].reserved = permits[w]
        /\ permits[w] + Cardinality(registry[w].inflight) <= Concurrency[w]

PlacedAt(w) == Placed(Wire(w), jobs[w], reporting[w], up[w], nextId)

\* What the registry's set covers, and what backs it.
Covered(w) ==
    w \in DOMAIN registry =>
        Has(Wire(w), jobs[w], reporting[w]) \subseteq registry[w].inflight

Backed(w) ==
    w \in DOMAIN registry /\ Alive(w) /\ w \notin broken =>
        registry[w].inflight
            \subseteq Has(Wire(w), jobs[w], reporting[w]) \cup ResultIds(up[w])

Fits(w) == Cardinality(Has(Wire(w), jobs[w], reporting[w])) <= Concurrency[w]

\* Every snapshot leaves the slot of the job that reports it.
Snapshot(w) ==
    /\ \A r \in reporting[w] : r.running < Concurrency[w]
    /\ \A i \in 1..Len(up[w]) :
         up[w][i].type = "result" => up[w][i].running < Concurrency[w]
    /\ w \in DOMAIN registry => registry[w].running < Concurrency[w]

Reported(w) ==
    /\ sdk[w] # "stopped" =>
         accepted[w] \subseteq jobs[w] \cup ReportIds(reporting[w])
                                 \cup ResultIds(up[w]) \cup answered
    /\ sdk[w] = "done" => jobs[w] = {} /\ reporting[w] = {}

Ended(w) ==
    /\ Closed(Wire(w))
    /\ sdk[w] = "draining" => JobsIn(Wire(w)) = {}
    /\ w \in DOMAIN registry /\ (Drains(Wire(w)) \/ sdk[w] = "draining")
         => registry[w].draining = TRUE

\* A dispatch call that waits has its frame in the channel of the writer task,
\* and the worker never gets the frame of one that is told of a failure.
Waits(d) ==
    /\ d.id < nextId
    /\ d.ack = "wait" => InFrames(outbound[d.worker], d.id)
    /\ d.ack = "err" =>
         d.id \notin Has(Wire(d.worker), jobs[d.worker], reporting[d.worker])

WorkerInv(w) ==
    /\ Fresh(w) /\ Booked(w) /\ PlacedAt(w) /\ Covered(w) /\ Backed(w)
    /\ Fits(w) /\ Snapshot(w) /\ Reported(w) /\ Ended(w)

\* Only a worker that has connected has a handler.
Known == \A w \in Workers : handler[w] # "none" => sdk[w] # "none"

SessionInv ==
    /\ TypeOK /\ Known
    /\ \A w \in Workers : WorkerInv(w)
    /\ \A d \in dispatching : Waits(d)

-----------------------------------------------------------------------------
(***************************************************************************)
(* Frames                                                                  *)
(***************************************************************************)
\* The ids are natural numbers, in their order.
LEMMA IdTypes == \A i \in DispatchIds : i \in Nat
BY SessionAssumption DEF DispatchIds

LEMMA IdOrder ==
    /\ \A m \in Nat : m <= m
    /\ \A i, m \in Nat : i < m => i # m /\ i < m + 1
OBVIOUS

LEMMA FrameTypes ==
    /\ Registered \in ToWorker /\ Draining \in ToWorker /\ Drain \in ToServer
    /\ \A id \in DispatchIds :
        /\ Job(id) \in ToWorker /\ Job(id).type = "job"
        /\ Job(id) # Registered /\ Job(id) # Draining
        /\ \A q \in DispatchIds : Job(id) = Job(q) => id = q
    /\ \A f \in ToWorker : f.type = "job" <=> \E id \in DispatchIds : f = Job(id)
    /\ Registered # Draining /\ Draining.type # "job" /\ Registered.type # "job"
    /\ Drain.type # "result"
<1>1. /\ Registered \in ToWorker /\ Draining \in ToWorker /\ Drain \in ToServer
      /\ Registered # Draining /\ Draining.type # "job" /\ Registered.type # "job"
      /\ Drain.type # "result"
    BY Zenon DEF Registered, Draining, Drain, ToWorker, ToServer
<1>2. ASSUME NEW id \in DispatchIds
      PROVE  /\ Job(id) \in ToWorker /\ Job(id).type = "job" /\ Job(id).id = id
             /\ Job(id) # Registered /\ Job(id) # Draining
    BY Zenon DEF Job, ToWorker, Registered, Draining
<1>3. ASSUME NEW f \in ToWorker, f.type = "job" PROVE \E id \in DispatchIds : f = Job(id)
    <2>1. f \in [type: {"job"}, id: DispatchIds]
        BY Zenon, <1>3 DEF ToWorker
    <2> QED BY Zenon, <2>1 DEF Job
<1> QED BY Zenon, <1>1, <1>2, <1>3

\* A sequence that is not empty is its head before its tail.
LEMMA HeadThenTail ==
    ASSUME NEW S, NEW s \in Seq(S), s # <<>>
    PROVE  /\ Head(s) \in S /\ Tail(s) \in Seq(S) /\ <<Head(s)>> \in Seq(S)
           /\ s = <<Head(s)>> \o Tail(s)
<1>1. Len(s) \in Nat \ {0} /\ 1 \in 1..Len(s) /\ Len(s) \in 1..Len(s)
    BY EmptySeq
<1>2. SubSeq(s, 1, Len(s)) = <<s[1]>> \o SubSeq(s, 1 + 1, Len(s))
    BY Zenon, <1>1, SubSeqRecursiveFirst
<1>3. SubSeq(s, 1, Len(s)) = s /\ Tail(s) = SubSeq(s, 2, Len(s)) /\ Head(s) = s[1]
    BY SubSeqFull, TailIsSubSeq
<1>4. Head(s) \in S /\ Tail(s) \in Seq(S)
    BY Zenon, HeadTailProperties
<1> QED BY <1>2, <1>3, <1>4

LEMMA JoinedEmpty ==
    ASSUME NEW s \in Seq(ToWorker), NEW t \in Seq(ToWorker), s \o t = <<>>
    PROVE  t = <<>>
BY ConcatEqualIffEmpty

LEMMA JoinedAppend ==
    ASSUME NEW S, NEW s \in Seq(S), NEW t \in Seq(S), NEW e \in S
    PROVE  s \o Append(t, e) = Append(s \o t, e)
<1>1. <<e>> \in Seq(S) /\ s \o t \in Seq(S)
    BY ConcatProperties
<1>2. Append(t, e) = t \o <<e>> /\ Append(s \o t, e) = (s \o t) \o <<e>>
    BY Zenon, <1>1, AppendIsConcat
<1> QED BY <1>1, <1>2, ConcatAssociative

\* The writer task moves the head of its channel to the wire.
LEMMA JoinedWrite ==
    ASSUME NEW S, NEW s \in Seq(S), NEW t \in Seq(S), t # <<>>
    PROVE  Append(s, Head(t)) \o Tail(t) = s \o t
<1> DEFINE e == Head(t)
           r == Tail(t)
<1>1. e \in S /\ r \in Seq(S) /\ <<e>> \in Seq(S) /\ t = <<e>> \o r
    BY Zenon, HeadThenTail
<1> HIDE DEF e, r
<1>2. Append(s, e) = s \o <<e>>
    BY Zenon, <1>1, AppendIsConcat
<1>3. Append(s, e) \o r = s \o t
    BY <1>1, <1>2, ConcatAssociative
<1> QED BY Zenon, <1>3 DEF e, r

\* The worker reads the head of the wire.
LEMMA JoinedRead ==
    ASSUME NEW S, NEW s \in Seq(S), NEW t \in Seq(S), s # <<>>
    PROVE  /\ s \o t # <<>> /\ Head(s \o t) = Head(s)
           /\ Tail(s \o t) = Tail(s) \o t
<1> DEFINE e == Head(s)
           r == Tail(s)
           a == s \o t
           c == Tail(a)
<1>1. e \in S /\ r \in Seq(S) /\ <<e>> \in Seq(S) /\ s = <<e>> \o r /\ Len(s) \in Nat \ {0}
      /\ Len(t) \in Nat /\ e = s[1]
    BY HeadThenTail, EmptySeq, LenProperties
<1>2. /\ a \in Seq(S) /\ Len(a) = Len(s) + Len(t) /\ a[1] = s[1]
    <2>1. 1 \in 1..(Len(s) + Len(t)) /\ 1 <= Len(s)
        BY <1>1
    <2> QED BY <2>1, ConcatProperties
<1> HIDE DEF e, r
<1>3. a = <<e>> \o (r \o t) /\ r \o t \in Seq(S)
    BY <1>1, ConcatAssociative, ConcatProperties
<1> HIDE DEF a
<1>4. a # <<>>
    BY <1>1, <1>2
<1>5. Head(a) = e
    BY <1>1, <1>2, <1>4
<1>6. a = <<e>> \o c /\ c \in Seq(S)
    BY Zenon, <1>2, <1>4, <1>5, HeadThenTail
<1> HIDE DEF c
<1>7. c = r \o t
    BY Zenon, <1>1, <1>3, <1>6, ConcatSimplifications
<1> QED BY Zenon, <1>4, <1>5, <1>7 DEF a, c, e, r

LEMMA AppendFrame ==
    ASSUME NEW s \in Seq(ToWorker), NEW e \in ToWorker
    PROVE  /\ Append(s, e) \in Seq(ToWorker)
           /\ JobsIn(Append(s, e)) = JobsIn(s) \cup {id \in DispatchIds : e = Job(id)}
           /\ Drains(Append(s, e)) <=> Drains(s) \/ e = Draining
           /\ Distinct(s) /\ (\A id \in JobsIn(s) : e # Job(id)) => Distinct(Append(s, e))
           /\ Closed(s) /\ (Drains(s) => e.type # "job") => Closed(Append(s, e))
<1> DEFINE a == Append(s, e)
<1>1. /\ a \in Seq(ToWorker) /\ Len(s) \in Nat /\ Len(a) = Len(s) + 1
      /\ \A i \in 1..Len(s) : a[i] = s[i]
      /\ a[Len(s) + 1] = e
    BY AppendProperties, LenProperties
<1> HIDE DEF a
<1>2. \A i \in 1..Len(a) : i \in 1..Len(s) \/ i = Len(s) + 1
    BY <1>1
<1>3. 1..Len(s) \subseteq 1..Len(a) /\ Len(s) + 1 \in 1..Len(a)
    BY <1>1
<1>4. JobsIn(a) = JobsIn(s) \cup {id \in DispatchIds : e = Job(id)}
    BY Zenon, <1>1, <1>2, <1>3 DEF JobsIn, InFrames
<1>5. Drains(a) <=> Drains(s) \/ e = Draining
    BY Zenon, <1>1, <1>2, <1>3 DEF Drains
<1>6. ASSUME NEW i \in 1..Len(a), NEW k \in 1..Len(a), i < k
      PROVE  i \in 1..Len(s) /\ a[i] = s[i] /\ ((k \in 1..Len(s) /\ a[k] = s[k]) \/ a[k] = e)
    BY <1>1, <1>2, <1>6
<1>7. ASSUME Distinct(s), \A id \in JobsIn(s) : e # Job(id) PROVE Distinct(a)
    <2> SUFFICES ASSUME NEW i \in 1..Len(a), NEW k \in 1..Len(a), NEW id \in DispatchIds,
                        i < k, a[i] = Job(id)
                 PROVE  a[k] # Job(id)
        BY Zenon DEF Distinct
    <2>1. id \in JobsIn(s)
        BY Zenon, <1>6 DEF JobsIn, InFrames
    <2> QED BY Zenon, <1>6, <1>7, <2>1 DEF Distinct
<1>8. ASSUME Closed(s), Drains(s) => e.type # "job" PROVE Closed(a)
    <2> SUFFICES ASSUME NEW i \in 1..Len(a), NEW k \in 1..Len(a), i < k, a[i] = Draining
                 PROVE  a[k].type # "job"
        BY Zenon DEF Closed
    <2>1. Drains(s)
        BY Zenon, <1>6 DEF Drains
    <2> QED BY Zenon, <1>6, <1>8, <2>1 DEF Closed
<1> QED BY Zenon, <1>1, <1>4, <1>5, <1>7, <1>8 DEF a

LEMMA ReadFrame ==
    ASSUME NEW s \in Seq(ToWorker), s # <<>>
    PROVE  /\ Head(s) \in ToWorker /\ Tail(s) \in Seq(ToWorker)
           /\ JobsIn(s) = JobsIn(Tail(s)) \cup {id \in DispatchIds : Head(s) = Job(id)}
           /\ Drains(Tail(s)) => Drains(s)
           /\ Head(s) = Draining => Drains(s)
           /\ Distinct(s) => Distinct(Tail(s)) /\ \A id \in JobsIn(Tail(s)) : Head(s) # Job(id)
           /\ Closed(s) => Closed(Tail(s)) /\ (Head(s) = Draining => JobsIn(Tail(s)) = {})
<1> DEFINE e == Head(s)
           r == Tail(s)
<1>1. /\ e \in ToWorker /\ r \in Seq(ToWorker) /\ Len(s) \in Nat \ {0} /\ Len(r) = Len(s) - 1
      /\ \A i \in 1..Len(r) : r[i] = s[i + 1]
      /\ e = s[1]
    BY HeadTailProperties, EmptySeq
<1> HIDE DEF e, r
<1>2. /\ \A i \in 1..Len(r) : i + 1 \in 1..Len(s) /\ 1 < i + 1 /\ r[i] = s[i + 1]
      /\ \A i \in 1..Len(s) : i = 1 \/ (i - 1 \in 1..Len(r) /\ r[i - 1] = s[i])
      /\ 1 \in 1..Len(s) /\ s[1] = e
      /\ \A i, k \in 1..Len(r) : i < k => i + 1 < k + 1
    <2>1. ASSUME NEW i \in 1..Len(s), i # 1 PROVE i - 1 \in 1..Len(r) /\ r[i - 1] = s[i]
        <3>1. i - 1 \in 1..Len(r) /\ (i - 1) + 1 = i
            BY <1>1, <2>1
        <3> QED BY Zenon, <1>1, <3>1
    <2> QED BY <1>1, <2>1
<1>3. JobsIn(s) = JobsIn(r) \cup {id \in DispatchIds : e = Job(id)}
    BY Zenon, <1>2 DEF JobsIn, InFrames
<1>4. (Drains(r) => Drains(s)) /\ (e = Draining => Drains(s))
    BY Zenon, <1>2 DEF Drains
<1>5. ASSUME Distinct(s) PROVE Distinct(r) /\ \A id \in JobsIn(r) : e # Job(id)
    <2>1. Distinct(r)
        <3> SUFFICES ASSUME NEW i \in 1..Len(r), NEW k \in 1..Len(r), NEW id \in DispatchIds,
                            i < k, r[i] = Job(id)
                     PROVE  r[k] # Job(id)
            BY Zenon DEF Distinct
        <3>1. /\ i + 1 \in 1..Len(s) /\ k + 1 \in 1..Len(s) /\ i + 1 < k + 1
              /\ s[i + 1] = r[i] /\ s[k + 1] = r[k]
            BY Zenon, <1>2
        <3> QED BY Zenon, <1>5, <3>1 DEF Distinct
    <2>2. ASSUME NEW id \in JobsIn(r) PROVE e # Job(id)
        <3>1. PICK i \in 1..Len(r) : r[i] = Job(id)
            BY Zenon DEF JobsIn, InFrames
        <3>2. id \in DispatchIds /\ i + 1 \in 1..Len(s) /\ 1 < i + 1 /\ s[i + 1] = Job(id)
            BY Zenon, <1>2, <3>1 DEF JobsIn
        <3> QED BY Zenon, <1>2, <1>5, <3>2 DEF Distinct
    <2> QED BY Zenon, <2>1, <2>2
<1>6. ASSUME Closed(s) PROVE Closed(r) /\ (e = Draining => JobsIn(r) = {})
    <2>1. Closed(r)
        BY Zenon, <1>2, <1>6 DEF Closed
    <2>2. ASSUME NEW id \in JobsIn(r), e = Draining PROVE FALSE
        <3>1. PICK i \in 1..Len(r) : r[i] = Job(id)
            BY Zenon DEF JobsIn, InFrames
        <3>2. id \in DispatchIds /\ i + 1 \in 1..Len(s) /\ 1 < i + 1 /\ s[i + 1] = Job(id)
            BY Zenon, <1>2, <3>1 DEF JobsIn
        <3> QED BY <1>2, <1>6, <2>2, <3>2, FrameTypes DEF Closed
    <2> QED BY Zenon, <2>1, <2>2
<1> QED BY Zenon, <1>1, <1>3, <1>4, <1>5, <1>6 DEF e, r

\* The frames that reached the wire before the writer task stopped.
LEMMA FirstFrames ==
    ASSUME NEW s \in Seq(ToWorker), NEW t \in Seq(ToWorker)
    PROVE  /\ s \o t \in Seq(ToWorker)
           /\ JobsIn(s \o t) = JobsIn(s) \cup JobsIn(t)
           /\ Drains(s) => Drains(s \o t)
           /\ Distinct(s \o t) => Distinct(s) /\ JobsIn(s) \cap JobsIn(t) = {}
           /\ Closed(s \o t) => Closed(s)
<1> DEFINE a == s \o t
<1>1. /\ a \in Seq(ToWorker) /\ Len(a) = Len(s) + Len(t) /\ Len(s) \in Nat /\ Len(t) \in Nat
      /\ \A i \in 1..(Len(s) + Len(t)) : a[i] = IF i <= Len(s) THEN s[i] ELSE t[i - Len(s)]
    BY Zenon, ConcatProperties, LenProperties
<1> HIDE DEF a
<1>2. \A i \in 1..Len(s) : i \in 1..Len(a) /\ a[i] = s[i]
    BY <1>1
<1>3. ASSUME NEW i \in 1..Len(t)
      PROVE  i + Len(s) \in 1..Len(a) /\ a[i + Len(s)] = t[i] /\ \A k \in 1..Len(s) : k < i + Len(s)
    <2>1. (i + Len(s)) - Len(s) = i /\ ~(i + Len(s) <= Len(s)) /\ i + Len(s) \in 1..(Len(s) + Len(t))
        BY <1>1
    <2> QED BY <1>1, <2>1
<1>4. ASSUME NEW i \in 1..Len(a)
      PROVE  i \in 1..Len(s) \/ (i - Len(s) \in 1..Len(t) /\ a[i] = t[i - Len(s)])
    BY <1>1
<1>5. JobsIn(a) = JobsIn(s) \cup JobsIn(t)
    BY ZenonT(60), <1>2, <1>3, <1>4 DEF JobsIn, InFrames
<1>6. Drains(s) => Drains(a)
    BY Zenon, <1>2 DEF Drains
<1>7. Closed(a) => Closed(s)
    BY SMTT(60), <1>2 DEF Closed
<1>8. Distinct(a) => Distinct(s)
    BY SMTT(60), <1>2 DEF Distinct
<1>9. ASSUME Distinct(a), NEW id \in JobsIn(s) \cap JobsIn(t) PROVE FALSE
    <2>1. PICK i \in 1..Len(s) : s[i] = Job(id)
        BY Zenon DEF JobsIn, InFrames
    <2>2. PICK k \in 1..Len(t) : t[k] = Job(id)
        BY Zenon DEF JobsIn, InFrames
    <2> QED BY SMTT(60), <1>2, <1>3, <1>9, <2>1, <2>2 DEF Distinct, JobsIn
<1> QED BY Zenon, <1>1, <1>5, <1>6, <1>7, <1>8, <1>9 DEF a

LEMMA AppendResult ==
    ASSUME NEW u \in Seq(ToServer), NEW e \in ToServer
    PROVE  /\ Append(u, e) \in Seq(ToServer)
           /\ ResultIds(Append(u, e))
                = ResultIds(u) \cup {id \in DispatchIds : e.type = "result" /\ e.id = id}
           /\ \A i \in 1..Len(Append(u, e)) :
                (\E k \in 1..Len(u) : Append(u, e)[i] = u[k]) \/ Append(u, e)[i] = e
<1> DEFINE a == Append(u, e)
<1>1. /\ a \in Seq(ToServer) /\ Len(u) \in Nat /\ Len(a) = Len(u) + 1
      /\ \A i \in 1..Len(u) : a[i] = u[i]
      /\ a[Len(u) + 1] = e
    BY AppendProperties, LenProperties
<1> HIDE DEF a
<1>2. /\ \A i \in 1..Len(a) : i \in 1..Len(u) \/ i = Len(u) + 1
      /\ 1..Len(u) \subseteq 1..Len(a) /\ Len(u) + 1 \in 1..Len(a)
    BY <1>1
<1>3. ResultIds(a) = ResultIds(u) \cup {id \in DispatchIds : e.type = "result" /\ e.id = id}
    BY Zenon, <1>1, <1>2 DEF ResultIds
<1>4. \A i \in 1..Len(a) : (\E k \in 1..Len(u) : a[i] = u[k]) \/ a[i] = e
    BY Zenon, <1>1, <1>2
<1> QED BY Zenon, <1>1, <1>3, <1>4 DEF a

LEMMA TakeResult ==
    ASSUME NEW u \in Seq(ToServer), u # <<>>
    PROVE  /\ Head(u) \in ToServer /\ Tail(u) \in Seq(ToServer)
           /\ ResultIds(u) = ResultIds(Tail(u))
                \cup {id \in DispatchIds : Head(u).type = "result" /\ Head(u).id = id}
           /\ 1 \in 1..Len(u) /\ Head(u) = u[1]
           /\ \A i \in 1..Len(Tail(u)) : \E k \in 1..Len(u) : Tail(u)[i] = u[k]
<1> DEFINE e == Head(u)
           r == Tail(u)
<1>1. /\ e \in ToServer /\ r \in Seq(ToServer) /\ Len(u) \in Nat \ {0} /\ Len(r) = Len(u) - 1
      /\ \A i \in 1..Len(r) : r[i] = u[i + 1]
      /\ e = u[1]
    BY HeadTailProperties, EmptySeq
<1> HIDE DEF e, r
<1>2. /\ \A i \in 1..Len(r) : i + 1 \in 1..Len(u) /\ r[i] = u[i + 1]
      /\ \A i \in 1..Len(u) : i = 1 \/ (i - 1 \in 1..Len(r) /\ r[i - 1] = u[i])
      /\ 1 \in 1..Len(u) /\ u[1] = e
    <2>1. ASSUME NEW i \in 1..Len(u), i # 1 PROVE i - 1 \in 1..Len(r) /\ r[i - 1] = u[i]
        <3>1. i - 1 \in 1..Len(r) /\ (i - 1) + 1 = i
            BY <1>1, <2>1
        <3> QED BY Zenon, <1>1, <3>1
    <2> QED BY <1>1, <2>1
<1>3. ResultIds(u) = ResultIds(r) \cup {id \in DispatchIds : e.type = "result" /\ e.id = id}
    BY SMTT(60), <1>2 DEF ResultIds
<1>4. \A i \in 1..Len(r) : \E k \in 1..Len(u) : r[i] = u[k]
    BY Zenon, <1>2
<1> QED BY Zenon, <1>1, <1>2, <1>3, <1>4 DEF e, r

LEMMA EmptyFrames ==
    /\ <<>> \in Seq(ToWorker) /\ <<>> \in Seq(ToServer)
    /\ JobsIn(<<>>) = {} /\ ResultIds(<<>>) = {} /\ ReportIds({}) = {}
    /\ Distinct(<<>>) /\ Closed(<<>>) /\ ~Drains(<<>>)
    /\ <<>> \o <<>> = <<>>
<1>1. <<>> \in Seq(ToWorker) /\ <<>> \in Seq(ToServer) /\ Len(<<>>) = 0 /\ 1..0 = {}
      /\ <<>> \o <<>> = <<>>
    BY EmptySeq, ConcatEmptySeq
<1> QED BY Zenon, <1>1 DEF JobsIn, InFrames, ResultIds, ReportIds, Distinct, Closed, Drains

-----------------------------------------------------------------------------
(***************************************************************************)
(* A dispatch id is in one place                                           *)
(***************************************************************************)
LEMMA PlacedLess ==
    ASSUME NEW s, NEW J, NEW R, NEW u, NEW n \in Nat, Placed(s, J, R, u, n),
           J \subseteq DispatchIds, \A r \in R : r.id \in DispatchIds,
           NEW t, NEW K \in SUBSET J, NEW Q \in SUBSET R, NEW v, NEW m \in Nat,
           Distinct(t), JobsIn(t) \subseteq JobsIn(s),
           ResultIds(v) \subseteq ResultIds(u), n <= m
    PROVE  Placed(t, K, Q, v, m)
<1>1. ReportIds(Q) \subseteq ReportIds(R)
    BY Zenon DEF ReportIds
<1>2. ASSUME NEW id \in Has(t, K, Q) \cup ResultIds(v) PROVE id < m
    <2>1. id \in Has(s, J, R) \cup ResultIds(u)
        BY Zenon, <1>1 DEF Has
    <2>2. id \in DispatchIds
        BY DEF Has, JobsIn, ReportIds, ResultIds
    <2> QED BY <2>1, <2>2, SessionAssumption DEF Placed, DispatchIds
<1> QED BY Zenon, <1>1, <1>2 DEF Placed

\* A dispatch takes the next id.
LEMMA PlacedSend ==
    ASSUME NEW s \in Seq(ToWorker), NEW J \in SUBSET DispatchIds, NEW R \in SUBSET Report,
           NEW u, NEW n \in DispatchIds, Placed(s, J, R, u, n)
    PROVE  Placed(Append(s, Job(n)), J, R, u, n + 1)
<1> DEFINE a == Append(s, Job(n))
<1>1. n \in Nat /\ Job(n) \in ToWorker
    BY FrameTypes, SessionAssumption DEF DispatchIds
<1>2. JobsIn(a) = JobsIn(s) \cup {n}
    <2>1. JobsIn(a) = JobsIn(s) \cup {id \in DispatchIds : Job(n) = Job(id)}
        BY Zenon, <1>1, AppendFrame
    <2>2. {id \in DispatchIds : Job(n) = Job(id)} = {n}
        BY Zenon, FrameTypes
    <2> QED BY Zenon, <2>1, <2>2
<1>3. \A id \in Has(s, J, R) \cup ResultIds(u) : id < n /\ id # n
    BY <1>1 DEF Placed
<1>4. Distinct(a)
    <2>1. \A id \in JobsIn(s) : Job(n) # Job(id)
        BY Zenon, <1>3, FrameTypes DEF Has, JobsIn
    <2> QED BY Zenon, <1>1, <2>1, AppendFrame DEF Placed
<1> HIDE DEF a
<1>5. \A id \in Has(a, J, R) \cup ResultIds(u) : id = n \/ id < n
    BY Zenon, <1>2, <1>3 DEF Has
<1>6. \A id \in Has(a, J, R) \cup ResultIds(u) : id < n + 1
    <2>1. \A id \in Has(a, J, R) \cup ResultIds(u) : id \in Nat
        BY <1>2, SessionAssumption DEF Has, JobsIn, ReportIds, ResultIds, Report, DispatchIds
    <2> QED BY <1>1, <1>5, <2>1
<1>7. n \notin J /\ n \notin ReportIds(R) /\ n \notin ResultIds(u)
    BY Zenon, <1>3 DEF Has
<1>8. Placed(a, J, R, u, n + 1)
    BY Zenon, <1>2, <1>4, <1>6, <1>7 DEF Placed
<1> QED BY Zenon, <1>8 DEF a

\* serve spawns the job it has read.
LEMMA PlacedRead ==
    ASSUME NEW s \in Seq(ToWorker), NEW J \in SUBSET DispatchIds, NEW R \in SUBSET Report,
           NEW u, NEW n \in Nat, Placed(s, J, R, u, n), s # <<>>,
           NEW K, K = J \cup {id \in DispatchIds : Head(s) = Job(id)}
    PROVE  /\ Placed(Tail(s), K, R, u, n)
           /\ Has(Tail(s), K, R) = Has(s, J, R)
<1>1. /\ JobsIn(s) = JobsIn(Tail(s)) \cup {id \in DispatchIds : Head(s) = Job(id)}
      /\ Distinct(Tail(s)) /\ \A id \in JobsIn(Tail(s)) : Head(s) # Job(id)
    BY Zenon, ReadFrame DEF Placed
<1>2. Has(Tail(s), K, R) = Has(s, J, R)
    BY Zenon, <1>1 DEF Has
<1> QED BY Zenon, <1>1, <1>2 DEF Placed

\* A job that ends is reported.
LEMMA PlacedFinish ==
    ASSUME NEW s, NEW J, NEW R, NEW u, NEW n, Placed(s, J, R, u, n),
           NEW x \in J, NEW Q, OneMore(Q, R, x)
    PROVE  Placed(s, J \ {x}, Q, u, n)
<1> DEFINE K == J \ {x}
<1>1. ReportIds(Q) = ReportIds(R) \cup {x} /\ OneEach(Q)
    BY Zenon DEF OneMore
<1>2. Has(s, K, Q) = Has(s, J, R)
    BY Zenon, <1>1 DEF Has
<1>3. x \notin JobsIn(s) /\ x \notin ResultIds(u)
    BY Zenon DEF Placed
<1> QED BY <1>1, <1>2, <1>3 DEF Placed, OneEach

\* A report is sent as a result.
LEMMA PlacedReport ==
    ASSUME NEW s, NEW J, NEW R, NEW u, NEW n, Placed(s, J, R, u, n),
           NEW Q \in SUBSET R, NEW x, ReportIds(R) = ReportIds(Q) \cup {x}, x \notin ReportIds(Q),
           NEW v, ResultIds(v) = ResultIds(u) \cup {x}
    PROVE  Placed(s, J, Q, v, n)
<1>1. Has(s, J, Q) \cup ResultIds(v) = Has(s, J, R) \cup ResultIds(u)
    BY Zenon DEF Has
<1>2. \A p, q \in Q : p.id = q.id => p = q
    BY Zenon DEF Placed
<1>3. /\ x \notin JobsIn(s) /\ x \notin J
      /\ JobsIn(s) \cap ResultIds(u) = {} /\ J \cap ResultIds(u) = {}
      /\ ReportIds(R) \cap ResultIds(u) = {}
      /\ JobsIn(s) \cap ReportIds(R) = {} /\ J \cap ReportIds(R) = {}
    BY Zenon DEF Placed
<1>4. /\ JobsIn(s) \cap ReportIds(Q) = {} /\ JobsIn(s) \cap ResultIds(v) = {}
      /\ J \cap ReportIds(Q) = {} /\ J \cap ResultIds(v) = {}
      /\ ReportIds(Q) \cap ResultIds(v) = {}
    BY Zenon, <1>3
<1> QED BY Zenon, <1>1, <1>2, <1>4 DEF Placed

-----------------------------------------------------------------------------
(***************************************************************************)
(* Types                                                                   *)
(***************************************************************************)
\* f is the registry with at most the row of w changed.
SameRows(f, w) ==
    /\ DOMAIN f = DOMAIN registry
    /\ \A v \in DOMAIN registry : v # w => f[v] = registry[v]

RowTypes(f) == DOMAIN f \subseteq Workers /\ \A w \in DOMAIN f : f[w] \in WorkerState

LEMMA RowFields ==
    ASSUME TypeOK, NEW w \in DOMAIN registry
    PROVE  /\ w \in Workers /\ registry[w] \in WorkerState
           /\ registry[w].reserved \in Nat /\ registry[w].running \in Nat
           /\ registry[w].inflight \subseteq DispatchIds /\ registry[w].draining \in BOOLEAN
BY Zenon DEF TypeOK, WorkerState

LEMMA FreedRows ==
    ASSUME TypeOK, NEW w \in Workers
    PROVE  /\ SameRows(Freed(w), w) /\ RowTypes(Freed(w))
           /\ w \in DOMAIN registry =>
                /\ Freed(w)[w].reserved =
                     IF registry[w].reserved > 0 THEN registry[w].reserved - 1 ELSE 0
                /\ Freed(w)[w].running = registry[w].running
                /\ Freed(w)[w].inflight = registry[w].inflight
                /\ Freed(w)[w].draining = registry[w].draining
<1>1. CASE w \notin DOMAIN registry
    BY Zenon, <1>1 DEF Freed, SameRows, RowTypes, TypeOK
<1>2. CASE w \in DOMAIN registry
    <2> DEFINE n == registry[w].reserved
               m == IF n > 0 THEN n - 1 ELSE 0
    <2>1. registry[w] \in WorkerState /\ n \in Nat
        BY Zenon, <1>2, RowFields
    <2>2. m \in Nat
        BY <2>1
    <2> HIDE DEF m
    <2>3. Freed(w) = [registry EXCEPT ![w].reserved = m]
        BY Zenon, <1>2 DEF Freed, m
    <2>4. /\ DOMAIN Freed(w) = DOMAIN registry
          /\ \A v \in DOMAIN registry : v # w => Freed(w)[v] = registry[v]
          /\ Freed(w)[w] = [registry[w] EXCEPT !.reserved = m]
        BY Zenon, <1>2, <2>3
    <2>5. /\ Freed(w)[w] \in WorkerState /\ Freed(w)[w].reserved = m
          /\ Freed(w)[w].running = registry[w].running
          /\ Freed(w)[w].inflight = registry[w].inflight
          /\ Freed(w)[w].draining = registry[w].draining
        BY Zenon, <2>1, <2>2, <2>4 DEF WorkerState
    <2> QED BY Zenon, <1>2, <2>4, <2>5 DEF SameRows, RowTypes, TypeOK, m
<1> QED BY Zenon, <1>1, <1>2

LEMMA ReleasedRows ==
    ASSUME TypeOK, NEW w \in Workers, NEW id
    PROVE  /\ SameRows(ReleaseInflight(w, id), w) /\ RowTypes(ReleaseInflight(w, id))
           /\ w \in DOMAIN registry =>
                /\ ReleaseInflight(w, id)[w].reserved = registry[w].reserved
                /\ ReleaseInflight(w, id)[w].running = registry[w].running
                /\ ReleaseInflight(w, id)[w].inflight = registry[w].inflight \ {id}
                /\ ReleaseInflight(w, id)[w].draining = registry[w].draining
<1> DEFINE f == ReleaseInflight(w, id)
<1>1. CASE w \notin DOMAIN registry
    BY Zenon, <1>1 DEF ReleaseInflight, SameRows, RowTypes, TypeOK
<1>2. CASE w \in DOMAIN registry
    <2>1. registry[w] \in WorkerState
        BY Zenon, <1>2, RowFields
    <2>2. /\ DOMAIN f = DOMAIN registry
          /\ \A v \in DOMAIN registry : v # w => f[v] = registry[v]
          /\ f[w] = [registry[w] EXCEPT !.inflight = @ \ {id}]
        BY Zenon, <1>2 DEF ReleaseInflight
    <2> HIDE DEF f
    <2>3. /\ f[w] \in WorkerState /\ f[w].reserved = registry[w].reserved
          /\ f[w].running = registry[w].running
          /\ f[w].inflight = registry[w].inflight \ {id}
          /\ f[w].draining = registry[w].draining
        BY Zenon, <2>1, <2>2 DEF WorkerState
    <2>4. SameRows(f, w) /\ RowTypes(f)
        BY Zenon, <2>2, <2>3 DEF SameRows, RowTypes, TypeOK
    <2> QED BY Zenon, <2>3, <2>4 DEF f
<1> QED BY Zenon, <1>1, <1>2

LEMMA RecordedRows ==
    ASSUME TypeOK, NEW w \in Workers, NEW e, e.running \in Nat
    PROVE  /\ SameRows(RecordWorkerResult(w, e), w) /\ RowTypes(RecordWorkerResult(w, e))
           /\ w \in DOMAIN registry =>
                /\ RecordWorkerResult(w, e)[w].reserved = registry[w].reserved
                /\ RecordWorkerResult(w, e)[w].running = e.running
                /\ RecordWorkerResult(w, e)[w].inflight = registry[w].inflight \ {e.id}
                /\ RecordWorkerResult(w, e)[w].draining = registry[w].draining
<1> DEFINE f == RecordWorkerResult(w, e)
<1>1. CASE w \notin DOMAIN registry
    BY Zenon, <1>1 DEF RecordWorkerResult, SameRows, RowTypes, TypeOK
<1>2. CASE w \in DOMAIN registry
    <2>1. registry[w] \in WorkerState
        BY Zenon, <1>2, RowFields
    <2>2. /\ DOMAIN f = DOMAIN registry
          /\ \A v \in DOMAIN registry : v # w => f[v] = registry[v]
          /\ f[w] = [registry[w] EXCEPT !.running = e.running, !.inflight = @ \ {e.id}]
        BY Zenon, <1>2 DEF RecordWorkerResult
    <2> HIDE DEF f
    <2>3. /\ f[w] \in WorkerState /\ f[w].reserved = registry[w].reserved
          /\ f[w].running = e.running
          /\ f[w].inflight = registry[w].inflight \ {e.id}
          /\ f[w].draining = registry[w].draining
        BY Zenon, <2>1, <2>2 DEF WorkerState
    <2>4. SameRows(f, w) /\ RowTypes(f)
        BY Zenon, <2>2, <2>3 DEF SameRows, RowTypes, TypeOK
    <2> QED BY Zenon, <2>3, <2>4 DEF f
<1> QED BY Zenon, <1>1, <1>2

LEMMA DispatchedRows ==
    ASSUME TypeOK, NEW w \in DOMAIN registry, NEW id \in DispatchIds,
           NEW f, f = [Freed(w) EXCEPT ![w].inflight = @ \cup {id}]
    PROVE  /\ SameRows(f, w) /\ RowTypes(f)
           /\ f[w].reserved = IF registry[w].reserved > 0 THEN registry[w].reserved - 1 ELSE 0
           /\ f[w].running = registry[w].running
           /\ f[w].inflight = registry[w].inflight \cup {id}
           /\ f[w].draining = registry[w].draining
<1> DEFINE g == Freed(w)
<1>1. /\ w \in Workers /\ SameRows(g, w) /\ RowTypes(g)
      /\ g[w].reserved = IF registry[w].reserved > 0 THEN registry[w].reserved - 1 ELSE 0
      /\ g[w].running = registry[w].running
      /\ g[w].inflight = registry[w].inflight
      /\ g[w].draining = registry[w].draining
    BY Zenon, RowFields, FreedRows
<1>2. f = [g EXCEPT ![w].inflight = @ \cup {id}]
    BY Zenon
<1> HIDE DEF g
<1>3. g[w] \in WorkerState /\ w \in DOMAIN g
    BY Zenon, <1>1 DEF SameRows, RowTypes
<1>4. /\ DOMAIN f = DOMAIN g
      /\ \A v \in DOMAIN g : v # w => f[v] = g[v]
      /\ f[w] = [g[w] EXCEPT !.inflight = @ \cup {id}]
    BY Zenon, <1>2, <1>3
<1>5. /\ f[w] \in WorkerState /\ f[w].reserved = g[w].reserved
      /\ f[w].running = g[w].running /\ f[w].draining = g[w].draining
      /\ f[w].inflight = g[w].inflight \cup {id}
    BY <1>3, <1>4 DEF WorkerState
<1> QED BY Zenon, <1>1, <1>4, <1>5 DEF SameRows, RowTypes

LEMMA DrainingRows ==
    ASSUME TypeOK, NEW w \in Workers, NEW f, f = [registry EXCEPT ![w].draining = TRUE]
    PROVE  /\ SameRows(f, w) /\ RowTypes(f)
           /\ w \in DOMAIN registry =>
                /\ f[w].reserved = registry[w].reserved /\ f[w].running = registry[w].running
                /\ f[w].inflight = registry[w].inflight /\ f[w].draining = TRUE
<1>1. CASE w \notin DOMAIN registry
    BY Zenon, <1>1 DEF SameRows, RowTypes, TypeOK
<1>2. CASE w \in DOMAIN registry
    <2>1. registry[w] \in WorkerState
        BY Zenon, <1>2, RowFields
    <2> DEFINE b == TRUE
    <2>2. b \in BOOLEAN /\ f = [registry EXCEPT ![w].draining = b]
        BY Zenon
    <2> HIDE DEF b
    <2>3. /\ DOMAIN f = DOMAIN registry
          /\ \A v \in DOMAIN registry : v # w => f[v] = registry[v]
          /\ f[w] = [registry[w] EXCEPT !.draining = b]
        BY Zenon, <1>2, <2>2
    <2>4. /\ f[w] \in WorkerState /\ f[w].reserved = registry[w].reserved
          /\ f[w].running = registry[w].running
          /\ f[w].inflight = registry[w].inflight /\ f[w].draining = b
        BY Zenon, <2>1, <2>2, <2>3 DEF WorkerState
    <2>5. f[w].draining = TRUE
        BY Zenon, <2>4, Zenon DEF b
    <2> QED BY Zenon, <2>3, <2>4, <2>5 DEF SameRows, RowTypes, TypeOK
<1> QED BY Zenon, <1>1, <1>2

LEMMA ReservedRows ==
    ASSUME TypeOK, NEW w \in DOMAIN registry,
           NEW f, f = [registry EXCEPT ![w].reserved = @ + 1]
    PROVE  /\ SameRows(f, w) /\ RowTypes(f)
           /\ f[w].reserved = registry[w].reserved + 1 /\ f[w].running = registry[w].running
           /\ f[w].inflight = registry[w].inflight /\ f[w].draining = registry[w].draining
<1> DEFINE n == registry[w].reserved + 1
<1>1. registry[w] \in WorkerState /\ n \in Nat
    BY RowFields
<1>2. f = [registry EXCEPT ![w].reserved = n]
    BY Zenon
<1> HIDE DEF n
<1>3. /\ DOMAIN f = DOMAIN registry
      /\ \A v \in DOMAIN registry : v # w => f[v] = registry[v]
      /\ f[w] = [registry[w] EXCEPT !.reserved = n]
    BY Zenon, <1>2
<1>4. /\ f[w] \in WorkerState /\ f[w].reserved = n
      /\ f[w].running = registry[w].running
      /\ f[w].inflight = registry[w].inflight /\ f[w].draining = registry[w].draining
    BY Zenon, <1>1, <1>3 DEF WorkerState
<1> QED BY Zenon, <1>3, <1>4 DEF SameRows, RowTypes, TypeOK, n

LEMMA WorkerFacts ==
    ASSUME TypeOK, NEW w \in Workers
    PROVE  /\ RowTypes(registry) /\ nextId \in Nat /\ permits[w] \in Nat
           /\ outbound[w] \in Seq(ToWorker) /\ down[w] \in Seq(ToWorker)
           /\ Wire(w) \in Seq(ToWorker) /\ up[w] \in Seq(ToServer)
           /\ jobs[w] \in SUBSET DispatchIds /\ accepted[w] \in SUBSET DispatchIds
           /\ reporting[w] \in SUBSET Report
           /\ Concurrency[w] \in Nat /\ Concurrency[w] > 0
<1>1. /\ outbound[w] \in Seq(ToWorker) /\ down[w] \in Seq(ToWorker) /\ up[w] \in Seq(ToServer)
      /\ jobs[w] \in SUBSET DispatchIds /\ accepted[w] \in SUBSET DispatchIds
      /\ reporting[w] \in SUBSET Report /\ permits[w] \in Nat /\ RowTypes(registry)
    BY Zenon DEF TypeOK, RowTypes
<1>2. nextId \in Nat
    BY SessionAssumption DEF TypeOK
<1>3. Concurrency[w] \in Nat /\ Concurrency[w] > 0
    BY SessionAssumption
<1> QED BY Zenon, <1>1, <1>2, <1>3, ConcatProperties DEF Wire

LEMMA StopTypes ==
    ASSUME TypeOK, NEW w \in Workers, Stops(w)
    PROVE  /\ jobs' \in [Workers -> SUBSET DispatchIds]
           /\ reporting' \in [Workers -> SUBSET Report] /\ partial' \subseteq Workers
           /\ sdk' \in [Workers -> {"none", "serving", "awaiting", "draining", "done",
                                    "stopped"}]
BY Zenon DEF TypeOK, Stops

LEMMA TypeInit == Init => TypeOK
<1> SUFFICES ASSUME Init PROVE TypeOK
    BY Zenon
<1>1. 1 \in 1..(MaxDispatch + 1)
    BY SessionAssumption
<1> QED BY Zenon, <1>1, EmptyFrames DEF Init, TypeOK

LEMMA TypeNext == TypeOK /\ [Next]_vars => TypeOK'
<1> SUFFICES ASSUME TypeOK, [Next]_vars PROVE TypeOK'
    BY Zenon
<1>1. CASE UNCHANGED vars
    BY Zenon, <1>1 DEF vars, engine, server, worker, TypeOK
<1>2. ASSUME NEW w \in Workers, Reserve(w) PROVE TypeOK'
    <2>1. w \in DOMAIN registry /\ permits[w] + 1 \in Nat
        BY <1>2, WorkerFacts DEF Reserve, Candidates
    <2>2. RowTypes(registry')
        BY Zenon, <1>2, <2>1, ReservedRows DEF Reserve
    <2> QED BY Zenon, <1>2, <2>1, <2>2 DEF Reserve, worker, TypeOK, RowTypes
<1>3. ASSUME NEW w \in Workers, Release(w) PROVE TypeOK'
    <2>1. RowTypes(registry') /\ permits[w] - 1 \in Nat
        BY SMTT(30), <1>3, FreedRows, WorkerFacts DEF Release
    <2> QED BY Zenon, <1>3, <2>1 DEF Release, worker, TypeOK, RowTypes
<1>4. ASSUME NEW w \in Workers, DispatchQueued(w) PROVE TypeOK'
    <2>1. w \in DOMAIN registry /\ nextId \in DispatchIds
        BY Zenon, <1>4 DEF DispatchQueued, Accepts
    <2>2. RowTypes(registry')
        BY Zenon, <1>4, <2>1, DispatchedRows DEF DispatchQueued
    <2>3. permits[w] - 1 \in Nat
        BY <1>4, WorkerFacts DEF DispatchQueued
    <2>4. nextId + 1 \in 1..(MaxDispatch + 1)
        BY <2>1, SessionAssumption DEF DispatchIds
    <2>5. Append(outbound[w], Job(nextId)) \in Seq(ToWorker)
        BY Zenon, <2>1, WorkerFacts, FrameTypes, AppendProperties
    <2>6. [worker |-> w, id |-> nextId, ack |-> "wait"] \in Dispatching
        BY Zenon, <2>1 DEF Dispatching
    <2> QED BY Zenon, <1>4, <2>2, <2>3, <2>4, <2>5, <2>6
            DEF DispatchQueued, worker, TypeOK, RowTypes
<1>5. ASSUME NEW w \in Workers, DispatchRefused(w) PROVE TypeOK'
    <2>1. RowTypes(registry') /\ permits[w] - 1 \in Nat
        BY SMTT(30), <1>5, FreedRows, WorkerFacts DEF DispatchRefused
    <2>2. nextId + 1 \in 1..(MaxDispatch + 1)
        BY <1>5, SessionAssumption DEF DispatchRefused, DispatchIds
    <2> QED BY SMTT(60), <1>5, <2>1, <2>2 DEF DispatchRefused, worker, TypeOK, RowTypes
<1>6. ASSUME NEW w \in Workers, Register(w) PROVE TypeOK'
    <2>1. [reserved |-> 0, running |-> 0, inflight |-> {}, draining |-> FALSE] \in WorkerState
        BY Zenon DEF WorkerState
    <2>2. RowTypes(registry')
        BY Zenon, <1>6, <2>1 DEF Register, TypeOK, RowTypes
    <2> QED BY Zenon, <1>6, <2>2 DEF Register, engine, TypeOK, RowTypes
<1>7. ASSUME NEW w \in Workers, Reply(w) PROVE TypeOK'
    <2>1. Append(outbound[w], Registered) \in Seq(ToWorker)
        BY Zenon, WorkerFacts, FrameTypes, AppendProperties
    <2>2. outbound' \in [Workers -> Seq(ToWorker)]
        BY Zenon, <1>7, <2>1 DEF Reply, TypeOK
    <2>3. handler' \in [Workers -> {"none", "inserted", "registering", "serving", "gone"}]
        BY Zenon, <1>7 DEF Reply, TypeOK
    <2> QED BY Zenon, <1>7, <2>2, <2>3 DEF Reply, engine, worker, TypeOK
<1>8. ASSUME NEW w \in Workers, Write(w) PROVE TypeOK'
    <2>1. Tail(outbound[w]) \in Seq(ToWorker) /\ Head(outbound[w]) \in ToWorker
        BY Zenon, <1>8, WorkerFacts, HeadTailProperties DEF Write
    <2>2. Append(down[w], Head(outbound[w])) \in Seq(ToWorker)
        BY Zenon, <2>1, WorkerFacts, AppendProperties
    <2> QED BY Zenon, <1>8, <2>1, <2>2 DEF Write, engine, worker, TypeOK
<1>9. ASSUME NEW w \in Workers, WriteFails(w) PROVE TypeOK'
    <2>1. dispatching' \subseteq Dispatching
        <3>1. \A d \in dispatching : d \in Dispatching /\ [d EXCEPT !.ack = "err"] \in Dispatching
            BY Zenon DEF TypeOK, Dispatching
        <3> QED BY Zenon, <1>9, <3>1 DEF WriteFails, AfterFailedWrite
    <2> QED BY Zenon, <1>9, <2>1, EmptyFrames DEF WriteFails, engine, worker, TypeOK
<1>10. ASSUME NEW w \in Workers, ReadResult(w) PROVE TypeOK'
    <2> DEFINE e == Head(up[w])
    <2>1. e \in ToServer /\ Tail(up[w]) \in Seq(ToServer) /\ e.type = "result"
        BY Zenon, <1>10, WorkerFacts, HeadTailProperties DEF ReadResult
    <2>2. e.running \in Nat /\ e.id \in DispatchIds
        BY Zenon, <2>1 DEF ToServer
    <2>3. RowTypes(registry')
        BY Zenon, <1>10, <2>2, RecordedRows DEF ReadResult
    <2> QED BY Zenon, <1>10, <2>1, <2>2, <2>3 DEF ReadResult, engine, worker, TypeOK, RowTypes
<1>11. ASSUME NEW w \in Workers, ReadDrain(w) PROVE TypeOK'
    <2>1. Tail(up[w]) \in Seq(ToServer)
        BY Zenon, <1>11, WorkerFacts, HeadTailProperties DEF ReadDrain
    <2>2. outbound[w] \o <<Draining>> \in Seq(ToWorker)
        BY WorkerFacts, FrameTypes, ConcatProperties
    <2>3. RowTypes([registry EXCEPT ![w].draining = TRUE])
        BY Zenon, DrainingRows
    <2>4. RowTypes(Unregistered(w))
        BY Zenon DEF Unregistered, RowTypes, TypeOK
    <2>5. RowTypes(registry')
        BY Zenon, <1>11, <2>3, <2>4 DEF ReadDrain
    <2>6. outbound' \in [Workers -> Seq(ToWorker)]
        BY Zenon, <1>11, <2>2 DEF ReadDrain, DrainReply, TypeOK
    <2>7. handler' \in [Workers -> {"none", "inserted", "registering", "serving", "gone"}]
        BY Zenon, <1>11 DEF ReadDrain, TypeOK
    <2> QED BY Zenon, <1>11, <2>1, <2>5, <2>6, <2>7
            DEF ReadDrain, engine, worker, TypeOK, RowTypes
<1>12. ASSUME NEW w \in Workers, Disconnect(w) PROVE TypeOK'
    <2>1. RowTypes(Unregistered(w))
        BY Zenon DEF Unregistered, RowTypes, TypeOK
    <2> QED BY Zenon, <1>12, <2>1 DEF Disconnect, engine, worker, TypeOK, RowTypes
<1>13. ASSUME NEW w \in Workers, Break(w) \/ SdkReadPart(w) PROVE TypeOK'
    BY Zenon, <1>13 DEF Break, SdkReadPart, engine, server, worker, TypeOK
<1>14. ASSUME NEW w \in Workers, SdkRead(w) PROVE TypeOK'
    <2>1. Tail(down[w]) \in Seq(ToWorker)
        BY Zenon, <1>14, WorkerFacts, HeadTailProperties DEF SdkRead
    <2>2. CASE Stops(w) /\ UNCHANGED accepted
        BY SMTT(60), <1>14, <2>1, <2>2, StopTypes DEF SdkRead, engine, server, TypeOK
    <2>3. CASE ~(Stops(w) /\ UNCHANGED accepted)
        <3> DEFINE K == {id \in DispatchIds : Head(down[w]) = Job(id)}
                   x == IF Head(down[w]) = Draining THEN "draining" ELSE sdk[w]
        <3>1. K \subseteq DispatchIds
            BY Zenon
        <3>2. /\ sdk' = [sdk EXCEPT ![w] = x]
              /\ jobs' = [jobs EXCEPT ![w] = @ \cup K]
              /\ accepted' = [accepted EXCEPT ![w] = @ \cup K]
              /\ partial' = partial \ {w} /\ UNCHANGED reporting
            BY Zenon, <1>14, <2>3 DEF SdkRead
        <3>3. x \in {"none", "serving", "awaiting", "draining", "done", "stopped"}
            BY Zenon DEF TypeOK
        <3> HIDE DEF K, x
        <3> QED BY Zenon, <1>14, <2>1, <3>1, <3>2, <3>3 DEF SdkRead, engine, server, TypeOK
    <2> QED BY Zenon, <2>2, <2>3
<1>15. ASSUME NEW w \in Workers, Shutdown(w) PROVE TypeOK'
    <2>1. Append(up[w], Drain) \in Seq(ToServer)
        BY Zenon, WorkerFacts, FrameTypes, AppendProperties
    <2> QED BY Zenon, <1>15, <2>1, StopTypes DEF Shutdown, engine, server, TypeOK
<1>16. ASSUME NEW w \in Workers, SdkDone(w) \/ SdkStops(w) PROVE TypeOK'
    BY Zenon, <1>16, StopTypes DEF SdkDone, SdkStops, engine, server, TypeOK
<1>17. ASSUME NEW w \in Workers, NEW id \in jobs[w], FinishJob(w, id) PROVE TypeOK'
    <2>1. PICK n \in Snapshots(w) :
            reporting' = [reporting EXCEPT ![w] = @ \cup {[id |-> id, running |-> n]}]
        BY Zenon, <1>17 DEF FinishJob
    <2>2. [id |-> id, running |-> n] \in Report
        BY <2>1, WorkerFacts DEF Snapshots, Report
    <2> QED BY SMTT(30), <1>17, <2>1, <2>2 DEF FinishJob, engine, server, TypeOK
<1>18. ASSUME NEW w \in Workers, NEW r \in reporting[w], SendResult(w, r) PROVE TypeOK'
    <2>1. [type |-> "result", id |-> r.id, running |-> r.running] \in ToServer
        BY Zenon, WorkerFacts DEF Report, ToServer
    <2>2. Append(up[w], [type |-> "result", id |-> r.id, running |-> r.running])
            \in Seq(ToServer)
        BY Zenon, <2>1, WorkerFacts, AppendProperties
    <2> QED BY ZenonT(60), <1>18, <2>2, StopTypes DEF SendResult, engine, server, TypeOK
<1>19. ASSUME NEW d \in dispatching, DispatchFailed(d) PROVE TypeOK'
    <2>1. d.worker \in Workers
        BY Zenon DEF TypeOK, Dispatching
    <2>2. RowTypes(registry')
        BY Zenon, <1>19, <2>1, ReleasedRows DEF DispatchFailed
    <2> QED BY Zenon, <1>19, <2>2 DEF DispatchFailed, engine, worker, TypeOK, RowTypes
<1> QED BY Zenon, <1>1, <1>2, <1>3, <1>4, <1>5, <1>6, <1>7, <1>8, <1>9, <1>10, <1>11, <1>12,
           <1>13, <1>14, <1>15, <1>16, <1>17, <1>18, <1>19 DEF Next

-----------------------------------------------------------------------------
(***************************************************************************)
(* What a step leaves alone                                                *)
(***************************************************************************)
LEMMA HasFacts ==
    ASSUME NEW s, NEW J \in SUBSET DispatchIds, NEW R \in SUBSET Report
    PROVE  /\ Has(s, J, R) \subseteq DispatchIds /\ ReportIds(R) \subseteq DispatchIds
           /\ J \subseteq Has(s, J, R) /\ ReportIds(R) \subseteq Has(s, J, R)
           /\ JobsIn(s) \subseteq Has(s, J, R)
BY Zenon DEF Has, JobsIn, ReportIds, Report

\* A part of a set of dispatch ids is no larger than the whole.
LEMMA PartOf ==
    ASSUME NEW X, NEW Y \in SUBSET DispatchIds, X \subseteq Y
    PROVE  /\ IsFiniteSet(X) /\ IsFiniteSet(Y) /\ Cardinality(X) \in Nat
           /\ Cardinality(Y) \in Nat /\ Cardinality(X) <= Cardinality(Y)
<1>1. IsFiniteSet(DispatchIds)
    BY FS_Interval, SessionAssumption DEF DispatchIds
<1>2. IsFiniteSet(Y)
    BY Zenon, <1>1, FS_Subset
<1> QED BY Zenon, <1>2, FS_Subset, FS_CardinalityType

\* The worker has no dispatch it did not have.
NoMore(v) ==
    Has(Wire(v)', jobs'[v], reporting'[v]) \subseteq Has(Wire(v), jobs[v], reporting[v])

\* The session of v is as it was and its row, if it is still there, has at most
\* its reservations changed.
Untouched(v) ==
    /\ sdk'[v] = sdk[v] /\ Wire(v)' = Wire(v) /\ up'[v] = up[v]
    /\ jobs'[v] = jobs[v] /\ reporting'[v] = reporting[v] /\ accepted'[v] = accepted[v]
    /\ nextId' \in {nextId, nextId + 1} /\ answered \subseteq answered'
    /\ v \in broken => v \in broken'
    /\ v \in DOMAIN registry' =>
         /\ v \in DOMAIN registry
         /\ registry'[v].inflight = registry[v].inflight
         /\ registry'[v].running = registry[v].running
         /\ registry'[v].draining = registry[v].draining

LEMMA Keeps ==
    ASSUME TypeOK, NEW v \in Workers, WorkerInv(v), Untouched(v), Booked(v)',
           sdk[v] = "none" => permits'[v] = 0
    PROVE  WorkerInv(v)' /\ NoMore(v)
<1>1. Fresh(v)'
    BY Zenon DEF WorkerInv, Fresh, Untouched
<1>2. PlacedAt(v)'
    <2>1. /\ nextId \in Nat /\ nextId' \in Nat /\ nextId <= nextId'
          /\ jobs[v] \subseteq DispatchIds /\ \A r \in reporting[v] : r.id \in DispatchIds
        BY WorkerFacts DEF Untouched, Report
    <2>2. Placed(Wire(v), jobs[v], reporting[v], up[v], nextId)
        BY Zenon DEF WorkerInv, PlacedAt
    <2>3. Distinct(Wire(v))
        BY Zenon, <2>2 DEF Placed
    <2>4. Placed(Wire(v), jobs[v], reporting[v], up[v], nextId')
        BY Zenon, <2>1, <2>2, <2>3, PlacedLess
    <2> QED BY Zenon, <2>4 DEF PlacedAt, Untouched
<1>3. Covered(v)' /\ Backed(v)' /\ Fits(v)'
    BY Zenon DEF WorkerInv, Covered, Backed, Fits, Untouched, Alive
<1>4. Snapshot(v)' /\ Reported(v)'
    BY Zenon DEF WorkerInv, Snapshot, Reported, Untouched
<1>5. Ended(v)'
    BY Zenon DEF WorkerInv, Ended, Untouched
<1>6. NoMore(v)
    BY Zenon DEF Untouched, NoMore
<1> QED BY Zenon, <1>1, <1>2, <1>3, <1>4, <1>5, <1>6 DEF WorkerInv

\* A step of another worker.
Apart(v) ==
    /\ Untouched(v) /\ permits'[v] = permits[v]
    /\ v \in DOMAIN registry' => registry'[v] = registry[v]

LEMMA ApartKeeps ==
    ASSUME TypeOK, NEW v \in Workers, WorkerInv(v), Apart(v)
    PROVE  WorkerInv(v)' /\ NoMore(v)
<1>1. Booked(v)'
    BY Zenon DEF WorkerInv, Booked, Apart, Untouched
<1>2. sdk[v] = "none" => permits'[v] = 0
    BY Zenon DEF WorkerInv, Fresh, Apart
<1> QED BY Zenon, <1>1, <1>2, Keeps DEF Apart

\* The actions of a worker touch no other worker.
WorkerStep(w) ==
    \/ Reserve(w) \/ Release(w) \/ DispatchQueued(w) \/ DispatchRefused(w)
    \/ Register(w) \/ Reply(w) \/ Write(w) \/ WriteFails(w)
    \/ ReadResult(w) \/ ReadDrain(w) \/ Disconnect(w) \/ Break(w)
    \/ SdkReadPart(w) \/ SdkRead(w) \/ Shutdown(w) \/ SdkDone(w) \/ SdkStops(w)
    \/ \E id \in jobs[w] : FinishJob(w, id)
    \/ \E r \in reporting[w] : SendResult(w, r)

LEMMA OthersApart ==
    ASSUME TypeOK, NEW w \in Workers, NEW v \in Workers, v # w, WorkerStep(w)
    PROVE  Apart(v)
<1>1. v \in DOMAIN registry' => v \in DOMAIN registry /\ registry'[v] = registry[v]
    <2>1. SameRows(Freed(w), w)
        BY Zenon, FreedRows
    <2>2. CASE Reserve(w)
        BY Zenon, <2>2, ReservedRows DEF Reserve, Candidates, SameRows
    <2>3. CASE Release(w) \/ DispatchRefused(w)
        BY Zenon, <2>1, <2>3 DEF Release, DispatchRefused, SameRows
    <2>4. CASE DispatchQueued(w)
        <3>1. SameRows(registry', w)
            BY Zenon, <2>4, DispatchedRows DEF DispatchQueued, Accepts
        <3> QED BY Zenon, <3>1 DEF SameRows
    <2>5. CASE Register(w)
        BY Zenon, <2>5 DEF Register
    <2>6. CASE ReadResult(w)
        <3>1. Head(up[w]) \in ToServer /\ Head(up[w]).type = "result"
            BY Zenon, <2>6, WorkerFacts, HeadTailProperties DEF ReadResult
        <3>2. Head(up[w]).running \in Nat
            BY Zenon, <3>1 DEF ToServer
        <3> QED BY SMTT(30), <2>6, <3>2, RecordedRows DEF ReadResult, SameRows
    <2>7. CASE ReadDrain(w)
        <3>1. SameRows([registry EXCEPT ![w].draining = TRUE], w)
            BY Zenon, DrainingRows
        <3> QED BY Zenon, <2>7, <3>1 DEF ReadDrain, Unregistered, SameRows
    <2>8. CASE Disconnect(w)
        BY Zenon, <2>8 DEF Disconnect, Unregistered
    <2>9. CASE ~(Reserve(w) \/ Release(w) \/ DispatchRefused(w) \/ DispatchQueued(w)
                  \/ Register(w) \/ ReadResult(w) \/ ReadDrain(w) \/ Disconnect(w))
        BY Zenon, <2>9 DEF WorkerStep, Reply, Write, WriteFails, Break, SdkReadPart, SdkRead,
                    Shutdown, SdkDone, SdkStops, FinishJob, SendResult, server
    <2> QED BY SMTT(30), <2>2, <2>3, <2>4, <2>5, <2>6, <2>7, <2>8, <2>9
<1>2. /\ outbound'[v] = outbound[v] /\ down'[v] = down[v] /\ up'[v] = up[v]
    BY Zenon DEF TypeOK, WorkerStep, Reserve, Release, DispatchQueued, DispatchRefused, Register,
           Reply, Write, WriteFails, ReadResult, ReadDrain, Disconnect, Break, SdkReadPart,
           SdkRead, Shutdown, SdkDone, SdkStops, FinishJob, SendResult, server
<1>3. /\ sdk'[v] = sdk[v] /\ jobs'[v] = jobs[v] /\ reporting'[v] = reporting[v]
      /\ accepted'[v] = accepted[v]
    <2>1. CASE SdkRead(w)
        BY Zenon, <2>1 DEF TypeOK, SdkRead, Stops
    <2>2. CASE Shutdown(w) \/ SdkStops(w) \/ SdkDone(w) \/ SdkReadPart(w) \/ Register(w)
        BY ZenonT(60), <2>2 DEF TypeOK, Shutdown, SdkStops, SdkDone, SdkReadPart, Register, Stops
    <2>3. CASE \E id \in jobs[w] : FinishJob(w, id)
        BY Zenon, <2>3 DEF TypeOK, FinishJob
    <2>4. CASE \E r \in reporting[w] : SendResult(w, r)
        BY SMTT(30), <2>4 DEF TypeOK, SendResult, Stops
    <2>5. CASE \/ Reserve(w) \/ Release(w) \/ DispatchQueued(w) \/ DispatchRefused(w)
               \/ Reply(w) \/ Write(w) \/ WriteFails(w) \/ ReadResult(w) \/ ReadDrain(w)
               \/ Disconnect(w) \/ Break(w)
        BY Zenon, <2>5 DEF Reserve, Release, DispatchQueued, DispatchRefused, Reply, Write,
                    WriteFails, ReadResult, ReadDrain, Disconnect, Break, worker
    <2> QED BY Zenon, <2>1, <2>2, <2>3, <2>4, <2>5 DEF WorkerStep
<1>4. /\ permits'[v] = permits[v] /\ nextId' \in {nextId, nextId + 1}
      /\ answered \subseteq answered' /\ (v \in broken => v \in broken')
    BY Zenon DEF TypeOK, WorkerStep, Reserve, Release, DispatchQueued, DispatchRefused, Register,
           Reply, Write, WriteFails, ReadResult, ReadDrain, Disconnect, Break, SdkReadPart,
           SdkRead, Shutdown, SdkDone, SdkStops, FinishJob, SendResult, server, engine
<1> QED BY Zenon, <1>1, <1>2, <1>3, <1>4 DEF Apart, Untouched, Wire

-----------------------------------------------------------------------------
(***************************************************************************)
(* The registry                                                            *)
(***************************************************************************)
LEMMA ReserveKeeps ==
    ASSUME TypeOK, NEW w \in Workers, WorkerInv(w), Reserve(w)
    PROVE  WorkerInv(w)' /\ NoMore(w)
<1> DEFINE c == Cardinality(registry[w].inflight)
           p == permits[w]
           r == registry[w].running
           m == Concurrency[w]
<1>1. w \in DOMAIN registry
    BY Zenon DEF Reserve, Candidates
<1>2. p \in Nat /\ r \in Nat /\ m \in Nat /\ c \in Nat
    BY Zenon, <1>1, RowFields, PartOf, WorkerFacts
<1>3. registry[w].reserved = p
    BY Zenon, <1>1 DEF WorkerInv, Booked
<1>4. m - (p + Greater(r, c)) > 0
    BY Zenon, <1>3 DEF Reserve, Candidates, AvailableSlots, UsedSlots
<1> HIDE DEF c, p, r, m
<1>5. p + 1 + c <= m /\ p + 1 \in Nat
    BY <1>2, <1>4 DEF Greater
<1>6. /\ SameRows(registry', w)
      /\ registry'[w].reserved = registry[w].reserved + 1
      /\ registry'[w].running = registry[w].running
      /\ registry'[w].inflight = registry[w].inflight
      /\ registry'[w].draining = registry[w].draining
    BY Zenon, <1>1, ReservedRows DEF Reserve
<1>7. permits'[w] = p + 1
    BY Zenon DEF Reserve, TypeOK, p
<1>8. Booked(w)'
    BY Zenon, <1>3, <1>5, <1>6, <1>7 DEF Booked, c, m
<1>9. sdk[w] # "none"
    BY Zenon, <1>1 DEF WorkerInv, Fresh
<1>10. Untouched(w)
    BY Zenon, <1>1, <1>6 DEF Untouched, Reserve, worker, Wire
<1> QED BY Zenon, <1>8, <1>9, <1>10, Keeps

LEMMA ReleaseKeeps ==
    ASSUME TypeOK, NEW w \in Workers, WorkerInv(w), Release(w) \/ DispatchRefused(w)
    PROVE  WorkerInv(w)' /\ NoMore(w)
<1> DEFINE c == Cardinality(registry[w].inflight)
           p == permits[w]
           m == Concurrency[w]
<1>1. /\ p > 0 /\ permits'[w] = p - 1 /\ registry' = Freed(w)
      /\ UNCHANGED <<outbound, answered, worker, down, up, broken>>
      /\ nextId' \in {nextId, nextId + 1}
    BY Zenon DEF Release, DispatchRefused, TypeOK
<1>2. /\ SameRows(registry', w)
      /\ w \in DOMAIN registry =>
           /\ registry'[w].reserved =
                IF registry[w].reserved > 0 THEN registry[w].reserved - 1 ELSE 0
           /\ registry'[w].running = registry[w].running
           /\ registry'[w].inflight = registry[w].inflight
           /\ registry'[w].draining = registry[w].draining
    BY Zenon, <1>1, FreedRows
<1>3. Booked(w)'
    <2> SUFFICES ASSUME w \in DOMAIN registry PROVE Booked(w)'
        BY Zenon, <1>2 DEF Booked, SameRows
    <2>1. p \in Nat /\ m \in Nat /\ c \in Nat
        BY Zenon, RowFields, PartOf, WorkerFacts
    <2>2. registry[w].reserved = p /\ p + c <= m
        BY Zenon DEF WorkerInv, Booked
    <2>3. registry'[w].reserved = p - 1
        BY Zenon, <1>1, <1>2, <2>2
    <2> HIDE DEF c, p, m
    <2>4. p - 1 + c <= m
        BY SMTT(30), <2>1, <2>2
    <2> QED BY Zenon, <1>1, <1>2, <2>3, <2>4 DEF Booked, c, m
<1>4. sdk[w] # "none"
    BY SMTT(60), <1>1 DEF WorkerInv, Fresh
<1>5. Untouched(w)
    BY Zenon, <1>1, <1>2 DEF Untouched, worker, Wire, SameRows
<1> QED BY Zenon, <1>3, <1>4, <1>5, Keeps

\* The writer task moves a frame, the reader ends, the network fails or half a
\* frame is read: the worker's frames are the same.
LEMMA QuietKeeps ==
    ASSUME TypeOK, NEW w \in Workers, WorkerInv(w),
           Write(w) \/ Disconnect(w) \/ Break(w) \/ SdkReadPart(w) \/ (Reply(w) /\ ~writer[w])
    PROVE  WorkerInv(w)' /\ NoMore(w)
<1>1. Wire(w)' = Wire(w)
    <2>1. CASE Write(w)
        <3>1. outbound[w] # <<>> /\ outbound'[w] = Tail(outbound[w])
              /\ down'[w] = Append(down[w], Head(outbound[w]))
            BY Zenon, <2>1 DEF Write, TypeOK
        <3> QED BY Zenon, <3>1, WorkerFacts, JoinedWrite DEF Wire
    <2>2. CASE ~Write(w)
        BY Zenon, <2>2 DEF Disconnect, Break, SdkReadPart, Reply, Wire, server
    <2> QED BY Zenon, <2>1, <2>2
<1>2. /\ UNCHANGED <<permits, nextId, answered, up, sdk, jobs, reporting, accepted>>
      /\ broken \subseteq broken'
    BY Zenon DEF Write, Disconnect, Break, SdkReadPart, Reply, worker, engine, server
<1>3. w \in DOMAIN registry' => w \in DOMAIN registry /\ registry'[w] = registry[w]
    BY Zenon DEF Write, Disconnect, Break, SdkReadPart, Reply, server, Unregistered
<1>4. Apart(w)
    BY Zenon, <1>1, <1>2, <1>3 DEF Apart, Untouched
<1> QED BY Zenon, <1>4, ApartKeeps

LEMMA RegisterKeeps ==
    ASSUME TypeOK, NEW w \in Workers, WorkerInv(w), Register(w)
    PROVE  WorkerInv(w)' /\ NoMore(w)
<1>1. /\ permits'[w] = 0 /\ Wire(w)' = <<>> /\ up'[w] = <<>> /\ jobs'[w] = {}
      /\ reporting'[w] = {} /\ accepted'[w] = {}
    BY Zenon DEF Register, WorkerInv, Fresh, engine, Wire
<1>2. /\ sdk'[w] = "serving" /\ UNCHANGED nextId
      /\ registry'[w] = [reserved |-> 0, running |-> 0, inflight |-> {}, draining |-> FALSE]
    BY Zenon DEF Register, TypeOK, engine
<1>3. /\ registry'[w].reserved = 0 /\ registry'[w].running = 0 /\ registry'[w].inflight = {}
    BY SMTT(60), <1>2
<1>4. /\ Concurrency[w] \in Nat /\ Concurrency[w] > 0 /\ Cardinality({}) = 0
    BY Zenon, WorkerFacts, FS_EmptySet
<1>5. Has(<<>>, {}, {}) = {}
    BY Zenon, EmptyFrames DEF Has
<1>6. Booked(w)' /\ Fits(w)'
    <2>1. 0 + 0 <= Concurrency[w] /\ 0 <= Concurrency[w]
        BY <1>4
    <2>2. Booked(w)'
        BY Zenon, <1>1, <1>3, <1>4, <2>1 DEF Booked
    <2>3. Fits(w)'
        BY Zenon, <1>1, <1>4, <1>5, <2>1 DEF Fits
    <2> QED BY Zenon, <2>2, <2>3
<1>7. PlacedAt(w)'
    BY Zenon, <1>1, <1>5, EmptyFrames DEF PlacedAt, Placed
<1>8. Covered(w)' /\ Backed(w)'
    BY Zenon, <1>1, <1>3, <1>5 DEF Covered, Backed
<1>9. Snapshot(w)'
    <2>1. Len(<<>>) = 0 /\ 1..0 = {}
        BY EmptySeq
    <2> QED BY Zenon, <1>1, <1>3, <1>4, <2>1 DEF Snapshot
<1>10. Fresh(w)' /\ Reported(w)' /\ Ended(w)'
    BY Zenon, <1>1, <1>2, EmptyFrames DEF Fresh, Reported, Ended
<1>11. NoMore(w)
    BY Zenon, <1>1, <1>5 DEF NoMore
<1> QED BY Zenon, <1>6, <1>7, <1>8, <1>9, <1>10, <1>11 DEF WorkerInv

LEMMA DispatchKeeps ==
    ASSUME TypeOK, NEW w \in Workers, WorkerInv(w), DispatchQueued(w)
    PROVE  /\ WorkerInv(w)'
           /\ Has(Wire(w)', jobs'[w], reporting'[w])
                = Has(Wire(w), jobs[w], reporting[w]) \cup {nextId}
<1> DEFINE n == nextId
           s == Wire(w)
           t == Append(s, Job(n))
           J == jobs[w]
           R == reporting[w]
           X == registry[w].inflight
           p == permits[w]
           m == Concurrency[w]
<1>1. /\ w \in DOMAIN registry /\ ~registry[w].draining /\ n \in DispatchIds /\ p > 0
      /\ permits'[w] = p - 1 /\ nextId' = n + 1
      /\ UNCHANGED <<answered, sdk, jobs, reporting, accepted, up, down, broken>>
    BY Zenon DEF DispatchQueued, Accepts, TypeOK, worker
<1>2. /\ SameRows(registry', w)
      /\ registry'[w].reserved =
           IF registry[w].reserved > 0 THEN registry[w].reserved - 1 ELSE 0
      /\ registry'[w].running = registry[w].running
      /\ registry'[w].inflight = X \cup {n}
      /\ registry'[w].draining = registry[w].draining
    <2>1. registry' = [Freed(w) EXCEPT ![w].inflight = @ \cup {n}]
        BY Zenon DEF DispatchQueued
    <2> HIDE DEF n
    <2> QED BY ZenonT(60), <1>1, <2>1, DispatchedRows
<1>3. /\ s \in Seq(ToWorker) /\ J \in SUBSET DispatchIds /\ R \in SUBSET Report
      /\ p \in Nat /\ m \in Nat /\ X \in SUBSET DispatchIds /\ Job(n) \in ToWorker
    BY Zenon, <1>1, WorkerFacts, RowFields, FrameTypes
<1>4. Wire(w)' = t
    <2>1. outbound'[w] = Append(outbound[w], Job(n))
        BY Zenon DEF DispatchQueued, TypeOK
    <2>2. down[w] \o Append(outbound[w], Job(n)) = Append(down[w] \o outbound[w], Job(n))
        <3> DEFINE a == down[w]
                   b == outbound[w]
                   e == Job(n)
        <3>1. a \in Seq(ToWorker) /\ b \in Seq(ToWorker) /\ e \in ToWorker
            BY Zenon, <1>3, WorkerFacts
        <3> HIDE DEF a, b, e
        <3>2. a \o Append(b, e) = Append(a \o b, e)
            BY <3>1, JoinedAppend
        <3> QED BY Zenon, <3>2 DEF a, b, e
    <2> QED BY Zenon, <1>1, <2>1, <2>2 DEF Wire
<1>5. JobsIn(t) = JobsIn(s) \cup {n}
    <2>1. JobsIn(t) = JobsIn(s) \cup {id \in DispatchIds : Job(n) = Job(id)}
        BY Zenon, <1>3, AppendFrame
    <2>2. {id \in DispatchIds : Job(n) = Job(id)} = {n}
        BY Zenon, <1>1, FrameTypes
    <2> QED BY Zenon, <2>1, <2>2
<1>6. Placed(t, J, R, up[w], n + 1)
    BY Zenon, <1>1, <1>3, PlacedSend DEF WorkerInv, PlacedAt
<1>7. sdk[w] # "none"
    BY Zenon, <1>1 DEF WorkerInv, Fresh
<1>8. ~Drains(s) /\ sdk[w] # "draining"
    <2>1. registry[w].draining # TRUE
        BY Zenon, <1>1
    <2> QED BY Zenon, <1>1, <2>1 DEF WorkerInv, Ended
<1>9. Closed(t) /\ ~Drains(t)
    BY Zenon, <1>1, <1>3, <1>8, AppendFrame, FrameTypes DEF WorkerInv, Ended
<1> HIDE DEF n, s, t, J, R, X, p, m
<1>10. Has(t, J, R) = Has(s, J, R) \cup {n}
    BY Zenon, <1>5 DEF Has
<1>11. Has(s, J, R) \subseteq X
    BY Zenon, <1>1 DEF WorkerInv, Covered, s, J, R, X
<1>12. Booked(w)'
    <2>1. registry[w].reserved = p /\ p + Cardinality(X) <= m
        BY Zenon, <1>1 DEF WorkerInv, Booked, p, m, X
    <2>2. IsFiniteSet(X) /\ Cardinality(X) \in Nat
        BY Zenon, <1>3, PartOf
    <2>3. Cardinality(X \cup {n}) <= Cardinality(X) + 1 /\ Cardinality(X \cup {n}) \in Nat
        BY SMTT(60), <2>2, FS_AddElement, FS_CardinalityType
    <2>4. (p - 1) + Cardinality(X \cup {n}) <= m
        BY SMTT(30), <1>3, <2>1, <2>2, <2>3
    <2>5. registry'[w].reserved = p - 1
        BY Zenon, <1>1, <1>2, <2>1
    <2> QED BY Zenon, <1>1, <1>2, <2>4, <2>5 DEF Booked, m
<1>13. Covered(w)'
    BY Zenon, <1>1, <1>2, <1>4, <1>10, <1>11 DEF Covered, J, R
<1>14. Backed(w)'
    <2> SUFFICES ASSUME Alive(w), w \notin broken PROVE Backed(w)'
        BY Zenon, <1>1 DEF Backed, Alive
    <2>1. X \subseteq Has(s, J, R) \cup ResultIds(up[w])
        BY Zenon, <1>1 DEF WorkerInv, Backed, s, J, R, X
    <2> QED BY Zenon, <1>1, <1>2, <1>4, <1>10, <2>1 DEF Backed, J, R
<1>15. Fits(w)'
    <2>1. X \cup {n} \in SUBSET DispatchIds /\ Has(t, J, R) \subseteq X \cup {n}
        BY Zenon, <1>1, <1>3, <1>10, <1>11
    <2>2. /\ Cardinality(Has(t, J, R)) \in Nat /\ Cardinality(X \cup {n}) \in Nat
          /\ Cardinality(Has(t, J, R)) <= Cardinality(X \cup {n})
        BY Zenon, <2>1, PartOf
    <2>3. permits'[w] + Cardinality(X \cup {n}) <= m /\ permits'[w] \in Nat
        BY SMTT(30), <1>1, <1>2, <1>3, <1>12 DEF Booked, SameRows, m
    <2>4. Cardinality(Has(t, J, R)) <= m
        BY SMTT(30), <1>3, <2>2, <2>3
    <2> QED BY Zenon, <1>1, <1>4, <2>4 DEF Fits, J, R, m
<1>16. PlacedAt(w)'
    BY Zenon, <1>1, <1>4, <1>6 DEF PlacedAt, J, R
<1>17. Fresh(w)' /\ Reported(w)' /\ Snapshot(w)'
    BY Zenon, <1>1, <1>2, <1>7 DEF WorkerInv, Fresh, Reported, Snapshot
<1>18. Ended(w)'
    BY Zenon, <1>1, <1>4, <1>8, <1>9 DEF Ended
<1>19. Has(Wire(w)', jobs'[w], reporting'[w]) = Has(s, J, R) \cup {n}
    BY Zenon, <1>1, <1>4, <1>10 DEF J, R
<1> QED BY Zenon, <1>12, <1>13, <1>14, <1>15, <1>16, <1>17, <1>18, <1>19 DEF WorkerInv, s, J, R, n

\* release_dispatched takes out an id the worker does not have.
LEMMA FailedKeeps ==
    ASSUME TypeOK, NEW d \in dispatching, Waits(d), WorkerInv(d.worker), DispatchFailed(d)
    PROVE  WorkerInv(d.worker)' /\ NoMore(d.worker)
<1> DEFINE w == d.worker
           X == registry[w].inflight
<1>1. w \in Workers
    BY Zenon DEF TypeOK, Dispatching
<1>2. /\ d.ack = "err" /\ registry' = ReleaseInflight(w, d.id)
      /\ UNCHANGED <<permits, nextId, answered, sdk, jobs, reporting, accepted, up, down,
                     outbound, broken>>
    BY Zenon DEF DispatchFailed, engine, worker
<1>3. /\ SameRows(registry', w)
      /\ w \in DOMAIN registry =>
           /\ registry'[w].reserved = registry[w].reserved
           /\ registry'[w].running = registry[w].running
           /\ registry'[w].inflight = X \ {d.id}
           /\ registry'[w].draining = registry[w].draining
    BY Zenon, <1>1, <1>2, ReleasedRows
<1>4. d.id \notin Has(Wire(w), jobs[w], reporting[w])
    BY Zenon, <1>2 DEF Waits
<1>5. WorkerInv(w)
    BY Zenon
<1> HIDE DEF w
<1>6. Booked(w)'
    <2> SUFFICES ASSUME w \in DOMAIN registry PROVE Booked(w)'
        BY Zenon, <1>3 DEF Booked, SameRows
    <2>1. /\ Cardinality(X) \in Nat /\ Cardinality(X \ {d.id}) \in Nat
          /\ Cardinality(X \ {d.id}) <= Cardinality(X)
        BY Zenon, RowFields, PartOf
    <2>2. registry[w].reserved = permits[w] /\ permits[w] + Cardinality(X) <= Concurrency[w]
        BY Zenon, <1>5 DEF WorkerInv, Booked
    <2>3. permits[w] \in Nat /\ Concurrency[w] \in Nat
        BY Zenon, <1>1, WorkerFacts
    <2>4. permits[w] + Cardinality(X \ {d.id}) <= Concurrency[w]
        BY SMTT(30), <2>1, <2>2, <2>3
    <2> QED BY Zenon, <1>2, <1>3, <2>2, <2>4 DEF Booked
<1>7. Wire(w)' = Wire(w)
    BY Zenon, <1>2 DEF Wire
<1>8. Covered(w)' /\ Backed(w)' /\ Fits(w)'
    BY Zenon, <1>2, <1>3, <1>4, <1>5, <1>7 DEF WorkerInv, Covered, Backed, Fits, SameRows, Alive
<1>9. Snapshot(w)' /\ Reported(w)' /\ PlacedAt(w)'
    BY Zenon, <1>2, <1>3, <1>5, <1>7 DEF WorkerInv, Snapshot, Reported, PlacedAt, SameRows
<1>10. Fresh(w)' /\ Ended(w)'
    BY Zenon, <1>2, <1>3, <1>5, <1>7 DEF WorkerInv, Fresh, Ended, SameRows
<1>11. NoMore(w)
    BY Zenon, <1>2, <1>7 DEF NoMore
<1> QED BY Zenon, <1>6, <1>8, <1>9, <1>10, <1>11 DEF WorkerInv, w

-----------------------------------------------------------------------------
(***************************************************************************)
(* The wire and the session                                                *)
(***************************************************************************)
\* A step after which the worker has no dispatch it did not have.
Shrinks(v) ==
    /\ sdk'[v] # "none" /\ Distinct(Wire(v)')
    /\ JobsIn(Wire(v)') \subseteq JobsIn(Wire(v))
    /\ jobs'[v] \subseteq jobs[v] /\ reporting'[v] \subseteq reporting[v]
    /\ ResultIds(up'[v]) \subseteq ResultIds(up[v])
    /\ \A i \in 1..Len(up'[v]) :
         up'[v][i].type = "result" => up'[v][i].running < Concurrency[v]
    /\ permits'[v] = permits[v] /\ nextId' = nextId
    /\ v \in DOMAIN registry' =>
         /\ v \in DOMAIN registry
         /\ registry'[v].reserved = registry[v].reserved
         /\ registry'[v].inflight = registry[v].inflight
         /\ registry'[v].running = registry[v].running

LEMMA ShrinksKeeps ==
    ASSUME TypeOK, NEW v \in Workers, WorkerInv(v), Shrinks(v),
           Backed(v)', Reported(v)', Ended(v)'
    PROVE  WorkerInv(v)' /\ NoMore(v)
<1> DEFINE s == Wire(v)
           J == jobs[v]
           R == reporting[v]
           t == Wire(v)'
           K == jobs'[v]
           Q == reporting'[v]
<1>1. /\ s \in Seq(ToWorker) /\ J \in SUBSET DispatchIds /\ R \in SUBSET Report
      /\ nextId \in Nat /\ Concurrency[v] \in Nat
    BY Zenon, WorkerFacts
<1>2. /\ JobsIn(t) \subseteq JobsIn(s) /\ K \subseteq J /\ Q \subseteq R /\ Distinct(t)
      /\ ResultIds(up'[v]) \subseteq ResultIds(up[v]) /\ nextId' = nextId
    BY Zenon DEF Shrinks
<1>3. Placed(s, J, R, up[v], nextId)
    BY Zenon DEF WorkerInv, PlacedAt
<1>4. \A r \in R : r.id \in DispatchIds
    BY Zenon, <1>1 DEF Report
<1> HIDE DEF s, J, R, t, K, Q
<1>5. nextId <= nextId
    BY <1>1
<1>6. Placed(t, K, Q, up'[v], nextId)
    BY ZenonT(60), <1>1, <1>2, <1>3, <1>4, <1>5, PlacedLess
<1>7. PlacedAt(v)'
    BY Zenon, <1>2, <1>6 DEF PlacedAt, t, K, Q
<1>8. Has(t, K, Q) \subseteq Has(s, J, R)
    BY Zenon, <1>2 DEF Has, ReportIds
<1>9. Covered(v)'
    BY Zenon, <1>8 DEF WorkerInv, Covered, Shrinks, s, J, R, t, K, Q
<1>10. Fits(v)'
    <2>1. Has(s, J, R) \subseteq DispatchIds
        BY Zenon, <1>1, HasFacts
    <2>2. /\ Cardinality(Has(t, K, Q)) \in Nat /\ Cardinality(Has(s, J, R)) \in Nat
          /\ Cardinality(Has(t, K, Q)) <= Cardinality(Has(s, J, R))
        BY Zenon, <1>8, <2>1, PartOf
    <2>3. Cardinality(Has(s, J, R)) <= Concurrency[v]
        BY Zenon DEF WorkerInv, Fits, s, J, R
    <2>4. Cardinality(Has(t, K, Q)) <= Concurrency[v]
        BY SMTT(30), <1>1, <2>2, <2>3
    <2> QED BY Zenon, <2>4 DEF Fits, t, K, Q
<1>11. Booked(v)' /\ Fresh(v)'
    BY Zenon DEF WorkerInv, Booked, Fresh, Shrinks
<1>12. Snapshot(v)'
    BY Zenon DEF WorkerInv, Snapshot, Shrinks
<1>13. NoMore(v)
    BY Zenon, <1>8 DEF NoMore, s, J, R, t, K, Q
<1> QED BY Zenon, <1>7, <1>9, <1>10, <1>11, <1>12, <1>13 DEF WorkerInv

\* A frame that is not a dispatch.
LEMMA ControlFrame ==
    ASSUME NEW s \in Seq(ToWorker), NEW e \in ToWorker, e.type # "job"
    PROVE  /\ JobsIn(Append(s, e)) = JobsIn(s)
           /\ Distinct(s) => Distinct(Append(s, e))
           /\ Closed(s) => Closed(Append(s, e))
           /\ Drains(Append(s, e)) <=> Drains(s) \/ e = Draining
<1>1. \A id \in DispatchIds : e # Job(id)
    BY Zenon, FrameTypes
<1>2. {id \in DispatchIds : e = Job(id)} = {} /\ \A id \in JobsIn(s) : e # Job(id)
    BY Zenon, <1>1 DEF JobsIn
<1> QED BY Zenon, <1>2, AppendFrame

LEMMA AppendWire ==
    ASSUME TypeOK, NEW w \in Workers, NEW e \in ToWorker,
           outbound'[w] = Append(outbound[w], e), down'[w] = down[w]
    PROVE  Wire(w)' = Append(Wire(w), e)
<1> DEFINE a == down[w]
           b == outbound[w]
<1>1. a \in Seq(ToWorker) /\ b \in Seq(ToWorker)
    BY Zenon, WorkerFacts
<1>2. outbound'[w] = Append(b, e) /\ down'[w] = a
    BY Zenon
<1> HIDE DEF a, b
<1>3. a \o Append(b, e) = Append(a \o b, e)
    BY SMTT(30), <1>1, JoinedAppend
<1> QED BY Zenon, <1>2, <1>3 DEF Wire, a, b

LEMMA ReplyKeeps ==
    ASSUME TypeOK, NEW w \in Workers, WorkerInv(w), Reply(w), writer[w], sdk[w] # "none"
    PROVE  WorkerInv(w)' /\ NoMore(w)
<1> DEFINE s == Wire(w)
           t == Append(s, Registered)
<1>1. /\ outbound'[w] = Append(outbound[w], Registered)
      /\ UNCHANGED <<permits, nextId, registry, answered, sdk, jobs, reporting, accepted, up,
                     down, broken>>
    BY Zenon DEF Reply, TypeOK, engine, worker
<1>2. Registered \in ToWorker /\ Registered.type # "job" /\ Registered # Draining
    BY Zenon, FrameTypes
<1>3. Wire(w)' = t
    BY Zenon, <1>1, <1>2, AppendWire
<1>4. s \in Seq(ToWorker)
    BY Zenon, WorkerFacts
<1>5. Distinct(s) /\ Closed(s)
    BY Zenon DEF WorkerInv, PlacedAt, Placed, Ended
<1>6. JobsIn(t) = JobsIn(s) /\ Distinct(t) /\ Closed(t) /\ (Drains(t) <=> Drains(s))
    BY Zenon, <1>2, <1>4, <1>5, ControlFrame
<1> HIDE DEF s, t
<1>7. Shrinks(w)
    BY Zenon, <1>1, <1>3, <1>6 DEF Shrinks, WorkerInv, Snapshot, s
<1>8. Has(t, jobs[w], reporting[w]) = Has(s, jobs[w], reporting[w])
    BY Zenon, <1>6 DEF Has
<1>9. Backed(w)' /\ Reported(w)'
    BY Zenon, <1>1, <1>3, <1>8 DEF WorkerInv, Backed, Reported, Alive, s
<1>10. Ended(w)'
    BY Zenon, <1>1, <1>3, <1>6 DEF WorkerInv, Ended, s
<1> QED BY Zenon, <1>7, <1>9, <1>10, ShrinksKeeps

LEMMA WriteFailsKeeps ==
    ASSUME TypeOK, NEW w \in Workers, WorkerInv(w), WriteFails(w)
    PROVE  WorkerInv(w)' /\ NoMore(w) /\ Wire(w)' = down[w]
<1> DEFINE s == Wire(w)
           t == down[w]
<1>1. /\ outbound'[w] = <<>> /\ Lost(w) /\ outbound[w] # <<>>
      /\ UNCHANGED <<permits, nextId, registry, answered, sdk, jobs, reporting, accepted, up,
                     down, broken>>
    BY Zenon DEF WriteFails, TypeOK, engine, worker
<1>2. t \in Seq(ToWorker) /\ outbound[w] \in Seq(ToWorker)
    BY Zenon, WorkerFacts
<1>3. Wire(w)' = t
    BY Zenon, <1>1, <1>2, ConcatEmptySeq DEF Wire
<1>4. Distinct(s) /\ Closed(s)
    BY Zenon DEF WorkerInv, PlacedAt, Placed, Ended
<1>5. JobsIn(t) \subseteq JobsIn(s) /\ Distinct(t) /\ Closed(t) /\ (Drains(t) => Drains(s))
    <2>1. Wire(w) = down[w] \o outbound[w]
        BY Zenon DEF Wire
    <2> HIDE DEF t
    <2>2. s = t \o outbound[w]
        BY Zenon, <2>1 DEF t
    <2> HIDE DEF s
    <2> DEFINE o == outbound[w]
    <2> HIDE DEF o
    <2>3. o \in Seq(ToWorker) /\ s = t \o o
        BY Zenon, <1>2, <2>2 DEF o
    <2>4. /\ JobsIn(t \o o) = JobsIn(t) \cup JobsIn(o)
          /\ Drains(t) => Drains(t \o o)
          /\ Distinct(t \o o) => Distinct(t)
          /\ Closed(t \o o) => Closed(t)
        BY Zenon, <1>2, <2>3, FirstFrames
    <2>5. JobsIn(s) = JobsIn(t) \cup JobsIn(o)
        BY Zenon, <2>3, <2>4
    <2>6. Distinct(t) /\ Closed(t) /\ (Drains(t) => Drains(s))
        BY Zenon, <1>4, <2>3, <2>4
    <2> QED BY Zenon, <2>5, <2>6
<1>6. sdk[w] # "none"
    BY SMTT(30), <1>1, <1>2, ConcatEqualIffEmpty DEF WorkerInv, Fresh, Wire
<1> HIDE DEF s, t
<1>7. Shrinks(w)
    BY Zenon, <1>1, <1>3, <1>5, <1>6 DEF Shrinks, WorkerInv, Snapshot, s
<1>8. Backed(w)' /\ Reported(w)'
    BY Zenon, <1>1 DEF WorkerInv, Backed, Reported, Alive, Lost
<1>9. Ended(w)'
    BY Zenon, <1>1, <1>3, <1>5 DEF WorkerInv, Ended, s
<1> QED BY Zenon, <1>3, <1>7, <1>8, <1>9, ShrinksKeeps DEF t

\* A frame has reached handle_worker.
LEMMA ReadUp ==
    ASSUME TypeOK, NEW w \in Workers, WorkerInv(w), up[w] # <<>>, up'[w] = Tail(up[w])
    PROVE  /\ sdk[w] # "none" /\ Head(up[w]) \in ToServer
           /\ ResultIds(up[w]) = ResultIds(up'[w])
                \cup {id \in DispatchIds : Head(up[w]).type = "result" /\ Head(up[w]).id = id}
           /\ Head(up[w]).type = "result" => Head(up[w]).running < Concurrency[w]
           /\ \A i \in 1..Len(up'[w]) :
                up'[w][i].type = "result" => up'[w][i].running < Concurrency[w]
<1>1. up[w] \in Seq(ToServer)
    BY Zenon, WorkerFacts
<1> DEFINE u == up[w]
           v == Tail(u)
<1>2. /\ Head(u) \in ToServer
      /\ ResultIds(u) = ResultIds(v)
           \cup {id \in DispatchIds : Head(u).type = "result" /\ Head(u).id = id}
      /\ 1 \in 1..Len(u) /\ Head(u) = u[1]
      /\ \A i \in 1..Len(v) : \E k \in 1..Len(u) : v[i] = u[k]
    BY Zenon, <1>1, TakeResult
<1>3. \A i \in 1..Len(u) : u[i].type = "result" => u[i].running < Concurrency[w]
    BY Zenon DEF WorkerInv, Snapshot
<1>4. sdk[w] # "none"
    BY Zenon DEF WorkerInv, Fresh
<1>5. up'[w] = v
    BY Zenon
<1> HIDE DEF u, v
<1>6. \A i \in 1..Len(v) : v[i].type = "result" => v[i].running < Concurrency[w]
    BY Zenon, <1>2, <1>3
<1>7. Head(u).type = "result" => Head(u).running < Concurrency[w]
    BY Zenon, <1>2, <1>3
<1> QED BY Zenon, <1>2, <1>4, <1>5, <1>6, <1>7 DEF u

LEMMA ReadDrainKeeps ==
    ASSUME TypeOK, NEW w \in Workers, WorkerInv(w), ReadDrain(w)
    PROVE  WorkerInv(w)' /\ NoMore(w)
<1> DEFINE s == Wire(w)
           t == Append(s, Draining)
<1>1. /\ up[w] # <<>> /\ up'[w] = Tail(up[w]) /\ Head(up[w]) = Drain
      /\ UNCHANGED <<permits, nextId, answered, sdk, jobs, reporting, accepted, down, broken>>
    BY Zenon DEF ReadDrain, TypeOK, engine, worker
<1>2. /\ sdk[w] # "none" /\ ResultIds(up[w]) = ResultIds(up'[w])
      /\ \A i \in 1..Len(up'[w]) :
           up'[w][i].type = "result" => up'[w][i].running < Concurrency[w]
    BY ZenonT(60), <1>1, ReadUp, FrameTypes
<1>3. Reported(w)'
    BY Zenon, <1>1, <1>2 DEF WorkerInv, Reported
<1>4. s \in Seq(ToWorker) /\ Distinct(s) /\ Closed(s)
    BY Zenon, WorkerFacts DEF WorkerInv, PlacedAt, Placed, Ended
<1>5. CASE writer[w]
    <2>1. registry' = [registry EXCEPT ![w].draining = TRUE]
          /\ outbound'[w] = outbound[w] \o <<Draining>>
        BY Zenon, <1>5 DEF ReadDrain, DrainReply, TypeOK
    <2>2. /\ SameRows(registry', w)
          /\ w \in DOMAIN registry =>
               /\ registry'[w].reserved = registry[w].reserved
               /\ registry'[w].running = registry[w].running
               /\ registry'[w].inflight = registry[w].inflight
               /\ registry'[w].draining = TRUE
        BY Zenon, <2>1, DrainingRows
    <2>3. Draining \in ToWorker /\ Draining.type # "job"
        BY Zenon, FrameTypes
    <2>4. outbound'[w] = Append(outbound[w], Draining)
        <3> DEFINE e == Draining
                   b == outbound[w]
        <3>1. b \in Seq(ToWorker) /\ e \in ToWorker
            BY Zenon, <2>3, WorkerFacts
        <3> HIDE DEF e, b
        <3>2. Append(b, e) = b \o <<e>>
            BY Zenon, <3>1, AppendIsConcat
        <3> QED BY Zenon, <2>1, <3>2 DEF e, b
    <2>5. Wire(w)' = t
        BY Zenon, <1>1, <2>3, <2>4, AppendWire
    <2>6. JobsIn(t) = JobsIn(s) /\ Distinct(t) /\ Closed(t)
        BY Zenon, <1>4, <2>3, ControlFrame
    <2> HIDE DEF s, t
    <2>7. Shrinks(w)
        BY Zenon, <1>1, <1>2, <2>2, <2>5, <2>6 DEF Shrinks, SameRows, s
    <2>8. Has(t, jobs[w], reporting[w]) = Has(s, jobs[w], reporting[w])
        BY Zenon, <2>6 DEF Has
    <2>9. Backed(w)'
        BY Zenon, <1>1, <1>2, <2>2, <2>5, <2>8 DEF WorkerInv, Backed, Alive, SameRows, s
    <2>10. Ended(w)'
        BY Zenon, <1>1, <2>2, <2>5, <2>6 DEF WorkerInv, Ended, SameRows, s
    <2> QED BY Zenon, <1>3, <2>7, <2>9, <2>10, ShrinksKeeps
<1>6. CASE ~writer[w]
    <2>1. w \notin DOMAIN registry' /\ outbound' = outbound
        BY Zenon, <1>6 DEF ReadDrain, Unregistered
    <2>2. Wire(w)' = Wire(w)
        BY Zenon, <1>1, <2>1 DEF Wire
    <2>3. Shrinks(w)
        BY Zenon, <1>1, <1>2, <1>4, <2>1, <2>2 DEF Shrinks
    <2>4. Backed(w)' /\ Ended(w)'
        BY Zenon, <1>1, <2>1, <2>2 DEF WorkerInv, Backed, Ended
    <2> QED BY Zenon, <1>3, <2>3, <2>4, ShrinksKeeps
<1> QED BY Zenon, <1>5, <1>6

LEMMA ReadResultKeeps ==
    ASSUME TypeOK, NEW w \in Workers, WorkerInv(w), ReadResult(w)
    PROVE  WorkerInv(w)' /\ NoMore(w)
<1> DEFINE e == Head(up[w])
           X == registry[w].inflight
           H == Has(Wire(w), jobs[w], reporting[w])
<1>1. /\ up[w] # <<>> /\ up'[w] = Tail(up[w]) /\ e.type = "result"
      /\ answered' = answered \cup {e.id} /\ registry' = RecordWorkerResult(w, e)
      /\ UNCHANGED <<permits, nextId, outbound, sdk, jobs, reporting, accepted, down, broken>>
    BY Zenon DEF ReadResult, TypeOK, engine, worker
<1>2. /\ sdk[w] # "none" /\ e \in ToServer /\ e.running < Concurrency[w]
      /\ ResultIds(up[w]) = ResultIds(up'[w]) \cup {id \in DispatchIds : e.id = id}
      /\ \A i \in 1..Len(up'[w]) :
           up'[w][i].type = "result" => up'[w][i].running < Concurrency[w]
    BY Zenon, <1>1, ReadUp
<1>3. e.running \in Nat /\ e.id \in DispatchIds
    BY Zenon, <1>1, <1>2 DEF ToServer
<1>4. /\ SameRows(registry', w)
      /\ w \in DOMAIN registry =>
           /\ registry'[w].reserved = registry[w].reserved
           /\ registry'[w].running = e.running
           /\ registry'[w].inflight = X \ {e.id}
           /\ registry'[w].draining = registry[w].draining
    BY Zenon, <1>1, <1>3, RecordedRows
<1>5. Wire(w)' = Wire(w)
    BY Zenon, <1>1 DEF Wire
<1>6. Placed(Wire(w), jobs[w], reporting[w], up[w], nextId)
    BY Zenon DEF WorkerInv, PlacedAt
<1> HIDE DEF e
<1>7. ResultIds(up[w]) = ResultIds(up'[w]) \cup {e.id}
    BY Zenon, <1>2, <1>3
<1>8. e.id \notin H
    BY Zenon, <1>6, <1>7 DEF Placed, Has
<1>9. PlacedAt(w)'
    <2>1. /\ jobs[w] \subseteq DispatchIds /\ \A r \in reporting[w] : r.id \in DispatchIds
          /\ nextId \in Nat /\ nextId <= nextId
        BY SMTT(30), WorkerFacts DEF Report
    <2>2. Distinct(Wire(w)) /\ ResultIds(up'[w]) \subseteq ResultIds(up[w])
        BY Zenon, <1>6, <1>7 DEF Placed
    <2>3. Placed(Wire(w), jobs[w], reporting[w], up'[w], nextId)
        BY Zenon, <1>6, <2>1, <2>2, PlacedLess
    <2> QED BY ZenonT(40), <1>1, <1>5, <2>3 DEF PlacedAt
<1>10. Booked(w)'
    <2> SUFFICES ASSUME w \in DOMAIN registry PROVE Booked(w)'
        BY Zenon, <1>4 DEF Booked, SameRows
    <2>1. /\ Cardinality(X) \in Nat /\ Cardinality(X \ {e.id}) \in Nat
          /\ Cardinality(X \ {e.id}) <= Cardinality(X)
        BY Zenon, RowFields, PartOf
    <2>2. registry[w].reserved = permits[w] /\ permits[w] + Cardinality(X) <= Concurrency[w]
        BY Zenon DEF WorkerInv, Booked
    <2>3. permits[w] \in Nat /\ Concurrency[w] \in Nat
        BY Zenon, WorkerFacts
    <2>4. permits[w] + Cardinality(X \ {e.id}) <= Concurrency[w]
        BY SMTT(30), <2>1, <2>2, <2>3
    <2> QED BY Zenon, <1>1, <1>4, <2>2, <2>4 DEF Booked
<1>11. Covered(w)' /\ Fits(w)'
    BY Zenon, <1>1, <1>4, <1>5, <1>8 DEF WorkerInv, Covered, Fits, SameRows
<1>12. Backed(w)'
    BY Zenon, <1>1, <1>4, <1>5, <1>7 DEF WorkerInv, Backed, SameRows, Alive
<1>13. Snapshot(w)'
    BY Zenon, <1>1, <1>2, <1>4 DEF WorkerInv, Snapshot, SameRows
<1>14. Fresh(w)' /\ Reported(w)'
    BY Zenon, <1>1, <1>2, <1>7 DEF WorkerInv, Fresh, Reported
<1>15. Ended(w)'
    BY Zenon, <1>1, <1>4, <1>5 DEF WorkerInv, Ended, SameRows
<1>16. NoMore(w)
    BY Zenon, <1>1, <1>5 DEF NoMore
<1> QED BY SMTT(30), <1>9, <1>10, <1>11, <1>12, <1>13, <1>14, <1>15, <1>16 DEF WorkerInv

LEMMA WireFacts ==
    ASSUME TypeOK, NEW w \in Workers, WorkerInv(w)
    PROVE  /\ Wire(w) \in Seq(ToWorker) /\ Distinct(Wire(w)) /\ Closed(Wire(w))
           /\ \A i \in 1..Len(up[w]) :
                up[w][i].type = "result" => up[w][i].running < Concurrency[w]
BY Zenon, WorkerFacts DEF WorkerInv, PlacedAt, Placed, Ended, Snapshot

\* The session ends and its jobs with it.
LEMMA StopKeeps ==
    ASSUME TypeOK, NEW w \in Workers, WorkerInv(w), Stops(w),
           UNCHANGED <<permits, nextId, registry>>,
           Distinct(Wire(w)'), Closed(Wire(w)'), JobsIn(Wire(w)') \subseteq JobsIn(Wire(w)),
           Drains(Wire(w)') => Drains(Wire(w)),
           ResultIds(up'[w]) \subseteq ResultIds(up[w]),
           \A i \in 1..Len(up'[w]) :
             up'[w][i].type = "result" => up'[w][i].running < Concurrency[w]
    PROVE  WorkerInv(w)' /\ NoMore(w)
<1>1. sdk'[w] = "stopped" /\ jobs'[w] = {} /\ reporting'[w] = {}
    BY Zenon DEF Stops, TypeOK
<1>2. Shrinks(w)
    BY Zenon, <1>1 DEF Shrinks
<1>3. Backed(w)' /\ Reported(w)'
    BY Zenon, <1>1 DEF Backed, Reported, Alive
<1>4. Ended(w)'
    BY Zenon, <1>1 DEF WorkerInv, Ended
<1> QED BY Zenon, <1>2, <1>3, <1>4, ShrinksKeeps

LEMMA EndKeeps ==
    ASSUME TypeOK, NEW w \in Workers, WorkerInv(w), SdkStops(w) \/ SdkDone(w)
    PROVE  WorkerInv(w)' /\ NoMore(w)
<1>1. /\ UNCHANGED <<permits, nextId, registry, outbound, down, up, answered, accepted>>
      /\ Wire(w)' = Wire(w)
    BY Zenon DEF SdkStops, SdkDone, engine, server, Wire
<1>2. CASE SdkStops(w)
    BY Zenon, <1>1, <1>2, WireFacts, StopKeeps DEF SdkStops
<1>3. CASE SdkDone(w)
    <2>1. /\ sdk'[w] = "done" /\ sdk[w] = "draining" /\ UNCHANGED <<jobs, reporting>>
          /\ jobs[w] = {} /\ reporting[w] = {}
        BY Zenon, <1>3 DEF SdkDone, Drained, TypeOK
    <2>2. Shrinks(w)
        BY Zenon, <1>1, <2>1, WireFacts DEF Shrinks
    <2>3. Backed(w)' /\ Reported(w)'
        BY Zenon, <1>1, <2>1 DEF WorkerInv, Backed, Reported, Alive
    <2>4. Ended(w)'
        BY Zenon, <1>1, <2>1 DEF WorkerInv, Ended
    <2> QED BY Zenon, <2>2, <2>3, <2>4, ShrinksKeeps
<1> QED BY Zenon, <1>2, <1>3

LEMMA ShutdownKeeps ==
    ASSUME TypeOK, NEW w \in Workers, WorkerInv(w), Shutdown(w)
    PROVE  WorkerInv(w)' /\ NoMore(w)
<1>1. /\ UNCHANGED <<permits, nextId, registry, outbound, down, answered, accepted, broken>>
      /\ Wire(w)' = Wire(w) /\ sdk[w] = "serving"
      /\ up'[w] = Append(up[w], Drain)
    BY Zenon DEF Shutdown, TypeOK, engine, server, Wire
<1>2. /\ ResultIds(up'[w]) = ResultIds(up[w])
      /\ \A i \in 1..Len(up'[w]) :
           up'[w][i].type = "result" => up'[w][i].running < Concurrency[w]
    <2> DEFINE u == up[w]
               v == Append(u, Drain)
    <2>1. u \in Seq(ToServer) /\ Drain \in ToServer /\ Drain.type # "result"
        BY Zenon, WorkerFacts, FrameTypes
    <2>2. /\ ResultIds(v)
               = ResultIds(u) \cup {id \in DispatchIds : Drain.type = "result" /\ Drain.id = id}
          /\ \A i \in 1..Len(v) : (\E k \in 1..Len(u) : v[i] = u[k]) \/ v[i] = Drain
        BY Zenon, <2>1, AppendResult
    <2>3. \A i \in 1..Len(u) : u[i].type = "result" => u[i].running < Concurrency[w]
        BY Zenon, WireFacts
    <2>4. up'[w] = v
        BY Zenon, <1>1
    <2> HIDE DEF u, v
    <2>5. ResultIds(v) = ResultIds(u)
        BY Zenon, <2>1, <2>2
    <2>6. \A i \in 1..Len(v) : v[i].type = "result" => v[i].running < Concurrency[w]
        BY Zenon, <2>1, <2>2, <2>3
    <2> QED BY Zenon, <2>4, <2>5, <2>6 DEF u
<1>3. CASE w \in partial
    BY Zenon, <1>1, <1>2, <1>3, WireFacts, StopKeeps DEF Shutdown
<1>4. CASE w \notin partial
    <2>1. sdk'[w] = "awaiting" /\ UNCHANGED <<jobs, reporting>>
        BY Zenon, <1>4 DEF Shutdown, TypeOK
    <2>2. Shrinks(w)
        BY Zenon, <1>1, <1>2, <2>1, WireFacts DEF Shrinks
    <2>3. Backed(w)' /\ Reported(w)'
        BY Zenon, <1>1, <1>2, <2>1 DEF WorkerInv, Backed, Reported, Alive
    <2>4. Ended(w)'
        BY Zenon, <1>1, <2>1 DEF WorkerInv, Ended
    <2> QED BY Zenon, <2>2, <2>3, <2>4, ShrinksKeeps
<1> QED BY Zenon, <1>3, <1>4

LEMMA ReadKeeps ==
    ASSUME TypeOK, NEW w \in Workers, WorkerInv(w), SdkRead(w)
    PROVE  WorkerInv(w)' /\ NoMore(w)
<1> DEFINE s == Wire(w)
           e == Head(s)
           t == Tail(s)
           N == {id \in DispatchIds : e = Job(id)}
           J == jobs[w]
           R == reporting[w]
<1>1. /\ UNCHANGED <<permits, nextId, registry, outbound, up, answered, broken>>
      /\ down[w] # <<>> /\ down'[w] = Tail(down[w]) /\ Alive(w)
    BY Zenon DEF SdkRead, TypeOK, engine, server
<1>2. s # <<>> /\ e = Head(down[w]) /\ t = Tail(down[w]) \o outbound[w]
    <2> DEFINE a == down[w]
               b == outbound[w]
    <2>1. a \in Seq(ToWorker) /\ b \in Seq(ToWorker) /\ a # <<>>
        BY Zenon, <1>1, WorkerFacts
    <2> HIDE DEF a, b
    <2>2. a \o b # <<>> /\ Head(a \o b) = Head(a) /\ Tail(a \o b) = Tail(a) \o b
        BY Zenon, <2>1, JoinedRead
    <2> QED BY Zenon, <2>2 DEF Wire, a, b
<1>3. Wire(w)' = t
    BY Zenon, <1>1, <1>2 DEF Wire
<1>4. s \in Seq(ToWorker) /\ Distinct(s) /\ Closed(s)
    BY Zenon, WireFacts
<1>5. /\ e \in ToWorker /\ t \in Seq(ToWorker)
      /\ JobsIn(s) = JobsIn(t) \cup N
      /\ Drains(t) => Drains(s)
      /\ e = Draining => Drains(s) /\ JobsIn(t) = {}
      /\ Distinct(t) /\ Closed(t)
    BY Zenon, <1>2, <1>4, ReadFrame
<1>6. J \in SUBSET DispatchIds /\ R \in SUBSET Report /\ nextId \in Nat
    BY Zenon, WorkerFacts
<1>7. Placed(s, J, R, up[w], nextId)
    BY Zenon DEF WorkerInv, PlacedAt
<1>8. Placed(t, J \cup N, R, up[w], nextId) /\ Has(t, J \cup N, R) = Has(s, J, R)
    BY ZenonT(60), <1>2, <1>4, <1>6, <1>7, PlacedRead
<1>9. CASE e.type = "job" /\ sdk[w] = "draining"
    <2>1. Stops(w)
        BY Zenon, <1>2, <1>9 DEF SdkRead
    <2> HIDE DEF s, t, e, N, J, R
    <2>2. ResultIds(up'[w]) \subseteq ResultIds(up[w])
          /\ \A i \in 1..Len(up'[w]) :
               up'[w][i].type = "result" => up'[w][i].running < Concurrency[w]
        BY Zenon, <1>1, WireFacts
    <2>3. Distinct(Wire(w)') /\ Closed(Wire(w)') /\ JobsIn(Wire(w)') \subseteq JobsIn(Wire(w))
          /\ (Drains(Wire(w)') => Drains(Wire(w)))
        BY Zenon, <1>3, <1>5 DEF s
    <2> QED BY Zenon, <1>1, <2>1, <2>2, <2>3, StopKeeps
<1>10. CASE ~(e.type = "job" /\ sdk[w] = "draining")
    <2>1. /\ sdk'[w] = IF e = Draining THEN "draining" ELSE sdk[w]
          /\ jobs'[w] = J \cup N /\ accepted'[w] = accepted[w] \cup N /\ UNCHANGED reporting
        BY SMTT(30), <1>2, <1>10 DEF SdkRead, TypeOK
    <2> HIDE DEF s, t, e, N, J, R
    <2>2. PlacedAt(w)'
        BY Zenon, <1>1, <1>3, <1>8, <2>1 DEF PlacedAt, R
    <2>3. Covered(w)' /\ Fits(w)'
        BY Zenon, <1>1, <1>3, <1>8, <2>1 DEF WorkerInv, Covered, Fits, s, J, R
    <2>4. Backed(w)'
        BY Zenon, <1>1, <1>3, <1>8, <2>1 DEF WorkerInv, Backed, s, J, R
    <2>5. sdk[w] # "none" /\ sdk'[w] # "none" /\ sdk[w] # "stopped" /\ sdk'[w] # "done"
        BY Zenon, <1>1, <2>1 DEF Alive
    <2>6. Fresh(w)' /\ Booked(w)'
        BY Zenon, <1>1, <2>5 DEF WorkerInv, Fresh, Booked
    <2>7. Snapshot(w)' /\ Reported(w)'
        BY Zenon, <1>1, <2>1, <2>5 DEF WorkerInv, Snapshot, Reported, J
    <2>8. Ended(w)'
        <3>1. sdk'[w] = "draining" => JobsIn(t) = {}
            BY Zenon, <1>5, <2>1 DEF WorkerInv, Ended, s
        <3>2. Drains(t) \/ sdk'[w] = "draining" => Drains(s) \/ sdk[w] = "draining"
            BY Zenon, <1>5, <2>1
        <3> QED BY Zenon, <1>1, <1>3, <1>5, <3>1, <3>2 DEF WorkerInv, Ended, s
    <2>9. NoMore(w)
        BY Zenon, <1>3, <1>8, <2>1 DEF NoMore, s, J, R
    <2> QED BY SMTT(30), <2>2, <2>3, <2>4, <2>6, <2>7, <2>8, <2>9 DEF WorkerInv
<1> QED BY Zenon, <1>9, <1>10

LEMMA FinishKeeps ==
    ASSUME TypeOK, NEW w \in Workers, WorkerInv(w), NEW id \in jobs[w], FinishJob(w, id)
    PROVE  WorkerInv(w)' /\ NoMore(w)
<1> DEFINE s == Wire(w)
           J == jobs[w]
           R == reporting[w]
           K == J \ {id}
<1>1. /\ UNCHANGED <<permits, nextId, registry, outbound, down, up, answered, accepted, sdk,
                     broken>>
      /\ Wire(w)' = s /\ jobs'[w] = K
    BY Zenon DEF FinishJob, TypeOK, engine, server, Wire
<1>2. PICK n \in Snapshots(w) :
        reporting' = [reporting EXCEPT ![w] = @ \cup {[id |-> id, running |-> n]}]
    BY Zenon DEF FinishJob
<1> DEFINE r == [id |-> id, running |-> n]
           Q == R \cup {r}
<1>3. reporting'[w] = Q /\ r.id = id /\ r.running = n
    BY Zenon, <1>2 DEF TypeOK
<1>4. /\ s \in Seq(ToWorker) /\ J \in SUBSET DispatchIds /\ R \in SUBSET Report
      /\ nextId \in Nat /\ Concurrency[w] \in Nat
    BY Zenon, WorkerFacts
<1>5. Placed(s, J, R, up[w], nextId)
    BY Zenon DEF WorkerInv, PlacedAt
<1>6. n < Concurrency[w]
    <2>1. Has(s, J, R) \subseteq DispatchIds /\ J \subseteq Has(s, J, R)
        BY Zenon, <1>4, HasFacts
    <2>2. /\ Cardinality(J) \in Nat /\ Cardinality(Has(s, J, R)) \in Nat
          /\ Cardinality(J) <= Cardinality(Has(s, J, R))
        BY Zenon, <2>1, PartOf
    <2>3. Cardinality(Has(s, J, R)) <= Concurrency[w]
        BY Zenon DEF WorkerInv, Fits
    <2>4. n \in 0..Concurrency[w] /\ n < Cardinality(J)
        BY Zenon, <1>2 DEF Snapshots
    <2> DEFINE j == Cardinality(J)
               h == Cardinality(Has(s, J, R))
               c == Concurrency[w]
    <2> HIDE DEF j, h, c
    <2>5. j \in Nat /\ h \in Nat /\ c \in Nat /\ n \in 0..c /\ n < j /\ j <= h /\ h <= c
        BY Zenon, <1>4, <2>2, <2>3, <2>4 DEF j, h, c
    <2>6. n < c
        BY <2>5
    <2> QED BY Zenon, <2>6 DEF c
<1> HIDE DEF r, s, J, R
<1>7. /\ Placed(s, K, Q, up[w], nextId) /\ Has(s, K, Q) = Has(s, J, R)
      /\ ReportIds(Q) = ReportIds(R) \cup {id}
    <2>1. id \in J /\ id \notin ReportIds(R)
        BY Zenon, <1>5 DEF J, Placed
    <2>2. ReportIds(Q) = ReportIds(R) \cup {id}
        BY Zenon, <1>3 DEF ReportIds
    <2>3. \A p, q \in R : p.id = q.id => p = q
        BY Zenon, <1>5 DEF Placed
    <2>4. \A p \in R : p.id # id
        BY Zenon, <2>1 DEF ReportIds
    <2>5. OneEach(Q)
        BY Zenon, <1>3, <2>3, <2>4 DEF OneEach
    <2> HIDE DEF Q
    <2>6. OneMore(Q, R, id)
        BY Zenon, <2>2, <2>5 DEF OneMore
    <2>7. Placed(s, J \ {id}, Q, up[w], nextId)
        BY Zenon, <1>5, <2>1, <2>6, PlacedFinish
    <2>8. Has(s, J \ {id}, Q) = Has(s, J, R)
        BY Zenon, <2>1, <2>2 DEF Has
    <2> QED BY Zenon, <2>2, <2>7, <2>8
<1> HIDE DEF K, Q
<1>8. PlacedAt(w)'
    BY Zenon, <1>1, <1>3, <1>7 DEF PlacedAt
<1>9. Covered(w)' /\ Fits(w)'
    BY Zenon, <1>1, <1>3, <1>7 DEF WorkerInv, Covered, Fits, s, J, R
<1>10. Backed(w)'
    BY Zenon, <1>1, <1>3, <1>7 DEF WorkerInv, Backed, Alive, s, J, R
<1>11. Snapshot(w)'
    BY Zenon, <1>1, <1>3, <1>6 DEF WorkerInv, Snapshot, R, Q
<1>12. Reported(w)'
    BY Zenon, <1>1, <1>3, <1>7 DEF WorkerInv, Reported, J, K, R
<1>13. Booked(w)' /\ Ended(w)'
    BY Zenon, <1>1 DEF WorkerInv, Booked, Ended, s
<1>14. Fresh(w)'
    BY Zenon, <1>1 DEF WorkerInv, Fresh
<1>15. NoMore(w)
    BY Zenon, <1>1, <1>3, <1>7 DEF NoMore, s, J, R
<1> QED BY Zenon, <1>8, <1>9, <1>10, <1>11, <1>12, <1>13, <1>14, <1>15 DEF WorkerInv

LEMMA SendKeeps ==
    ASSUME TypeOK, NEW w \in Workers, WorkerInv(w), NEW r \in reporting[w], SendResult(w, r)
    PROVE  WorkerInv(w)' /\ NoMore(w)
<1> DEFINE s == Wire(w)
           J == jobs[w]
           R == reporting[w]
           u == up[w]
           e == [type |-> "result", id |-> r.id, running |-> r.running]
           v == Append(u, e)
           Q == R \ {r}
<1>1. /\ UNCHANGED <<permits, nextId, registry, outbound, down, answered, accepted, broken>>
      /\ Wire(w)' = s /\ up'[w] = v
    BY Zenon DEF SendResult, TypeOK, engine, server, Wire
<1>2. /\ s \in Seq(ToWorker) /\ J \in SUBSET DispatchIds /\ R \in SUBSET Report
      /\ u \in Seq(ToServer) /\ nextId \in Nat /\ Concurrency[w] \in Nat
    BY Zenon, WorkerFacts
<1>3. Placed(s, J, R, u, nextId)
    BY Zenon DEF WorkerInv, PlacedAt
<1>4. /\ Placed(s, J, Q, v, nextId) /\ ReportIds(R) = ReportIds(Q) \cup {r.id}
      /\ ResultIds(v) = ResultIds(u) \cup {r.id}
    <2>1. /\ e.type = "result" /\ e.id = r.id /\ e \in ToServer
          /\ r \in R /\ r.id \in DispatchIds
        BY Zenon, <1>2 DEF ToServer, Report
    <2>2. ReportIds(R) = ReportIds(Q) \cup {r.id} /\ r.id \notin ReportIds(Q)
        BY Zenon, <1>3, <2>1 DEF ReportIds, Placed
    <2> HIDE DEF s, J, R, u, e
    <2>3. ResultIds(v)
            = ResultIds(u) \cup {id \in DispatchIds : e.type = "result" /\ e.id = id}
        BY Zenon, <1>2, <2>1, AppendResult
    <2> DEFINE x == r.id
    <2>4. x \in DispatchIds /\ e.id = x /\ ReportIds(R) = ReportIds(Q) \cup {x}
          /\ x \notin ReportIds(Q)
        BY Zenon, <2>1, <2>2
    <2> HIDE DEF x, v
    <2>5. ResultIds(v) = ResultIds(u) \cup {x}
        BY Zenon, <2>1, <2>3, <2>4
    <2>6. Q \in SUBSET R
        BY Zenon
    <2> HIDE DEF Q
    <2>7. Placed(s, J, Q, v, nextId)
        BY Zenon, <1>3, <2>4, <2>5, <2>6, PlacedReport
    <2> QED BY Zenon, <2>4, <2>5, <2>7 DEF x
<1>5. e \in ToServer /\ e.running = r.running /\ r.running < Concurrency[w]
    BY Zenon, <1>2 DEF Report, ToServer, WorkerInv, Snapshot
<1>6. \A i \in 1..Len(v) : (\E k \in 1..Len(u) : v[i] = u[k]) \/ v[i] = e
    BY Zenon, <1>2, <1>5, AppendResult
<1>7. sdk[w] # "none"
    BY Zenon DEF WorkerInv, Fresh
<1>8. \A i \in 1..Len(u) : u[i].type = "result" => u[i].running < Concurrency[w]
    BY Zenon, WireFacts
<1> HIDE DEF e, v
<1>9. \A i \in 1..Len(v) : v[i].type = "result" => v[i].running < Concurrency[w]
    BY Zenon, <1>5, <1>6, <1>8
<1>10. CASE w \notin partial
    <2>1. UNCHANGED <<sdk, jobs>> /\ reporting'[w] = Q
        BY Zenon, <1>10 DEF SendResult, TypeOK
    <2> HIDE DEF s, J, R, u, Q
    <2>2. PlacedAt(w)'
        BY Zenon, <1>1, <1>4, <2>1 DEF PlacedAt, J
    <2>3. /\ Has(s, J, Q) \subseteq Has(s, J, R)
          /\ Has(s, J, R) \cup ResultIds(u) = Has(s, J, Q) \cup ResultIds(v)
        BY Zenon, <1>4 DEF Has
    <2>4. Covered(w)'
        BY Zenon, <1>1, <2>1, <2>3 DEF WorkerInv, Covered, s, J, R
    <2>5. Backed(w)'
        <3> SUFFICES ASSUME w \in DOMAIN registry, Alive(w), w \notin broken PROVE Backed(w)'
            BY Zenon, <1>1, <2>1 DEF Backed, Alive
        <3>1. registry[w].inflight \subseteq Has(s, J, R) \cup ResultIds(u)
            BY Zenon DEF WorkerInv, Backed, s, J, R, u
        <3>2. registry[w].inflight \subseteq Has(s, J, Q) \cup ResultIds(v)
            BY Zenon, <2>3, <3>1
        <3> QED BY Zenon, <1>1, <2>1, <3>2 DEF Backed, J
    <2>6. Fits(w)'
        <3>1. Has(s, J, R) \subseteq DispatchIds
            BY Zenon, <1>2, HasFacts
        <3>2. /\ Cardinality(Has(s, J, Q)) \in Nat /\ Cardinality(Has(s, J, R)) \in Nat
              /\ Cardinality(Has(s, J, Q)) <= Cardinality(Has(s, J, R))
            BY Zenon, <2>3, <3>1, PartOf
        <3>3. Cardinality(Has(s, J, R)) <= Concurrency[w]
            BY Zenon DEF WorkerInv, Fits, s, J, R
        <3>4. Cardinality(Has(s, J, Q)) <= Concurrency[w]
            BY SMTT(30), <1>2, <3>2, <3>3
        <3> QED BY Zenon, <1>1, <2>1, <3>4 DEF Fits, J
    <2>7. Snapshot(w)'
        BY Zenon, <1>1, <1>9, <2>1 DEF WorkerInv, Snapshot, R, Q
    <2>8. Reported(w)'
        BY Zenon, <1>1, <1>4, <2>1 DEF WorkerInv, Reported, R, u
    <2>9. Booked(w)' /\ Ended(w)' /\ Fresh(w)'
        BY Zenon, <1>1, <1>7, <2>1 DEF WorkerInv, Booked, Ended, Fresh, s
    <2>10. NoMore(w)
        BY Zenon, <1>1, <2>1, <2>3 DEF NoMore, s, J, R
    <2> QED BY Zenon, <2>2, <2>4, <2>5, <2>6, <2>7, <2>8, <2>9, <2>10 DEF WorkerInv
<1>11. CASE w \in partial
    <2>1. sdk'[w] = "stopped" /\ jobs'[w] = {} /\ reporting'[w] = {}
        BY <1>11 DEF SendResult, Stops, TypeOK
    <2>2. Placed(s, {}, {}, v, nextId)
        <3>1. \A q \in Q : q.id \in DispatchIds
            BY Zenon, <1>2 DEF Report
        <3>2. Distinct(s) /\ nextId <= nextId
            BY Zenon, <1>2, <1>3, IdOrder DEF Placed
        <3> HIDE DEF s, J, Q
        <3> QED BY Zenon, <1>2, <1>4, <3>1, <3>2, PlacedLess
    <2>3. Has(s, {}, {}) \subseteq Has(s, J, R)
        BY Zenon DEF Has, ReportIds
    <2> HIDE DEF s, J, R, u, Q
    <2>4. PlacedAt(w)'
        BY Zenon, <1>1, <2>1, <2>2 DEF PlacedAt
    <2>5. Covered(w)'
        BY Zenon, <1>1, <2>1, <2>3 DEF WorkerInv, Covered, s, J, R
    <2>6. Fits(w)'
        <3>1. Has(s, J, R) \subseteq DispatchIds
            BY Zenon, <1>2, HasFacts
        <3>2. /\ Cardinality(Has(s, {}, {})) \in Nat /\ Cardinality(Has(s, J, R)) \in Nat
              /\ Cardinality(Has(s, {}, {})) <= Cardinality(Has(s, J, R))
            BY Zenon, <2>3, <3>1, PartOf
        <3>3. Cardinality(Has(s, J, R)) <= Concurrency[w]
            BY Zenon DEF WorkerInv, Fits, s, J, R
        <3>4. Cardinality(Has(s, {}, {})) <= Concurrency[w]
            BY SMTT(60), <1>2, <3>2, <3>3
        <3> QED BY Zenon, <1>1, <2>1, <3>4 DEF Fits
    <2>7. Snapshot(w)' /\ Backed(w)' /\ Reported(w)'
        BY Zenon, <1>1, <1>9, <2>1 DEF WorkerInv, Snapshot, Backed, Reported, Alive
    <2>8. Booked(w)' /\ Ended(w)' /\ Fresh(w)'
        BY Zenon, <1>1, <2>1 DEF WorkerInv, Booked, Ended, Fresh, s
    <2>9. NoMore(w)
        BY Zenon, <1>1, <2>1, <2>3 DEF NoMore, s, J, R
    <2> QED BY ZenonT(40), <2>4, <2>5, <2>6, <2>7, <2>8, <2>9 DEF WorkerInv
<1> QED BY Zenon, <1>10, <1>11

-----------------------------------------------------------------------------
(***************************************************************************)
(* The inductive step                                                      *)
(***************************************************************************)
\* A step of w other than a dispatch.
LEMMA StepKeeps ==
    ASSUME TypeOK, Known, NEW w \in Workers, WorkerInv(w), WorkerStep(w), ~DispatchQueued(w)
    PROVE  WorkerInv(w)' /\ NoMore(w)
<1>1. CASE Reserve(w) \/ Release(w) \/ DispatchRefused(w) \/ Register(w)
    BY Zenon, <1>1, ReserveKeeps, ReleaseKeeps, RegisterKeeps
<1>2. CASE Reply(w)
    <2>1. sdk[w] # "none"
        BY Zenon, <1>2 DEF Reply, Known
    <2> QED BY Zenon, <1>2, <2>1, ReplyKeeps, QuietKeeps
<1>3. CASE Write(w) \/ WriteFails(w) \/ Disconnect(w) \/ Break(w) \/ SdkReadPart(w)
    BY Zenon, <1>3, QuietKeeps, WriteFailsKeeps
<1>4. CASE ReadResult(w) \/ ReadDrain(w) \/ SdkRead(w)
    BY Zenon, <1>4, ReadResultKeeps, ReadDrainKeeps, ReadKeeps
<1>5. CASE Shutdown(w) \/ SdkDone(w) \/ SdkStops(w)
    BY Zenon, <1>5, ShutdownKeeps, EndKeeps
<1>6. CASE \E id \in jobs[w] : FinishJob(w, id)
    BY Zenon, <1>6, FinishKeeps
<1>7. CASE \E r \in reporting[w] : SendResult(w, r)
    BY Zenon, <1>7, SendKeeps
<1> QED BY Zenon, <1>1, <1>2, <1>3, <1>4, <1>5, <1>6, <1>7 DEF WorkerStep

LEMMA KnownNext ==
    ASSUME TypeOK, Known, NEW w \in Workers, WorkerInv(w), WorkerStep(w)
    PROVE  Known'
<1>1. CASE Write(w)
    <2>1. sdk[w] # "none"
        <3>1. outbound[w] # <<>> /\ Fresh(w)
            BY Zenon, <1>1 DEF Write, WorkerInv
        <3>2. down[w] \in Seq(ToWorker) /\ outbound[w] \in Seq(ToWorker)
            BY Zenon, WorkerFacts
        <3>3. Wire(w) # <<>>
            BY Zenon, <3>1, <3>2, JoinedEmpty DEF Wire
        <3> QED BY Zenon, <3>1, <3>3 DEF Fresh
    <2> QED BY Zenon, <1>1, <2>1 DEF Write, Known, TypeOK, worker
<1>2. CASE Register(w) \/ Reply(w) \/ WriteFails(w) \/ ReadDrain(w) \/ Disconnect(w)
    BY ZenonT(40), <1>2 DEF Register, Reply, WriteFails, ReadDrain, Disconnect, Known, TypeOK, worker
<1>3. CASE SdkRead(w)
    BY ZenonT(40), <1>3 DEF SdkRead, Stops, Alive, Known, TypeOK, server
<1>4. CASE Shutdown(w) \/ SdkDone(w) \/ SdkStops(w)
    BY SMTT(30), <1>4 DEF Shutdown, SdkDone, SdkStops, Stops, Alive, Known, TypeOK, server
<1>5. CASE \E r \in reporting[w] : SendResult(w, r)
    BY <1>5 DEF SendResult, Stops, Known, TypeOK, server
<1>6. CASE \E id \in jobs[w] : FinishJob(w, id)
    BY Zenon, <1>6 DEF FinishJob, Known, server
<1>7. CASE \/ Reserve(w) \/ Release(w) \/ DispatchQueued(w) \/ DispatchRefused(w)
           \/ ReadResult(w) \/ Break(w) \/ SdkReadPart(w)
    BY Zenon, <1>7 DEF Reserve, Release, DispatchQueued, DispatchRefused, ReadResult, Break,
                SdkReadPart, Known, server, worker
<1> QED BY Zenon, <1>1, <1>2, <1>3, <1>4, <1>5, <1>6, <1>7 DEF WorkerStep

\* A dispatch call is as before when its frame is still in the channel and the
\* worker has nothing new but the dispatch of this step.
LEMMA WaitsKept ==
    ASSUME TypeOK, NEW d \in Dispatching, Waits(d),
           Has(Wire(d.worker)', jobs'[d.worker], reporting'[d.worker])
             \subseteq Has(Wire(d.worker), jobs[d.worker], reporting[d.worker]) \cup {nextId},
           nextId' \in {nextId, nextId + 1},
           d.ack = "wait" => InFrames(outbound'[d.worker], d.id)
    PROVE  Waits(d)'
<1>1. d.id \in Nat /\ nextId \in Nat /\ d.id < nextId
    <2>1. d.id \in DispatchIds /\ d.worker \in Workers
        BY Zenon DEF Dispatching
    <2>2. d.id < nextId
        BY Zenon DEF Waits
    <2>3. nextId \in Nat
        BY Zenon, <2>1, WorkerFacts
    <2> QED BY Zenon, <2>1, <2>2, <2>3, IdTypes
<1>2. d.id # nextId /\ d.id < nextId'
    BY ZenonT(40), <1>1, IdOrder
<1> QED BY Zenon, <1>2 DEF Waits

LEMMA WaitsNext ==
    ASSUME TypeOK, NEW w \in Workers, WorkerInv(w), WorkerStep(w),
           \A d \in dispatching : Waits(d),
           \A v \in Workers :
             Has(Wire(v)', jobs'[v], reporting'[v])
               \subseteq Has(Wire(v), jobs[v], reporting[v]) \cup {nextId}
    PROVE  \A d \in dispatching' : Waits(d)'
<1>1. nextId' \in {nextId, nextId + 1}
    BY Zenon DEF WorkerStep, Reserve, Release, DispatchQueued, DispatchRefused, Register,
           Reply, Write, WriteFails, ReadResult, ReadDrain, Disconnect, Break, SdkReadPart,
           SdkRead, Shutdown, SdkDone, SdkStops, FinishJob, SendResult, engine
<1>2. ASSUME NEW d \in dispatching
      PROVE  d \in Dispatching /\ d.worker \in Workers /\ d.id \in DispatchIds /\ Waits(d)
    BY Zenon, <1>2 DEF TypeOK, Dispatching
<1>3. ASSUME NEW d \in dispatching, d.ack = "wait" => InFrames(outbound'[d.worker], d.id)
      PROVE  Waits(d)'
    BY Zenon, <1>1, <1>2, <1>3, WaitsKept
<1>4. outbound[w] \in Seq(ToWorker) /\ down[w] \in Seq(ToWorker)
    BY Zenon, WorkerFacts
<1>5. ASSUME NEW e \in ToWorker, outbound' = [outbound EXCEPT ![w] = Append(@, e)],
             NEW d \in dispatching
      PROVE  Waits(d)'
    <2> SUFFICES ASSUME d.ack = "wait" PROVE InFrames(outbound'[d.worker], d.id)
        BY Zenon, <1>3
    <2>1. InFrames(outbound[d.worker], d.id)
        BY Zenon, <1>2 DEF Waits
    <2>2. CASE d.worker = w
        <3>1. JobsIn(outbound[w]) \subseteq JobsIn(Append(outbound[w], e))
            BY Zenon, <1>4, <1>5, AppendFrame
        <3>2. outbound'[w] = Append(outbound[w], e)
            BY Zenon, <1>5 DEF TypeOK
        <3> QED BY Zenon, <1>2, <2>1, <2>2, <3>1, <3>2 DEF JobsIn
    <2>3. CASE d.worker # w
        BY Zenon, <1>2, <1>5, <2>1, <2>3 DEF TypeOK
    <2> QED BY Zenon, <2>2, <2>3
<1>6. CASE DispatchQueued(w)
    <2>0. PICK f : f = [worker |-> w, id |-> nextId, ack |-> "wait"]
        BY Zenon
    <2>1. /\ dispatching' = dispatching \cup {f} /\ nextId \in DispatchIds /\ nextId' = nextId + 1
          /\ outbound' = [outbound EXCEPT ![w] = Append(@, Job(nextId))]
        BY Zenon, <1>6, <2>0 DEF DispatchQueued
    <2>2. Job(nextId) \in ToWorker
        BY Zenon, <2>1, FrameTypes
    <2>3. ASSUME NEW d \in dispatching PROVE Waits(d)'
        BY Zenon, <1>5, <2>1, <2>2
    <2>4. InFrames(outbound'[w], nextId)
        <3>1. outbound'[w] = Append(outbound[w], Job(nextId))
            BY ZenonT(40), <2>1 DEF TypeOK
        <3>2. /\ Len(outbound'[w]) = Len(outbound[w]) + 1 /\ Len(outbound[w]) \in Nat
              /\ outbound'[w][Len(outbound[w]) + 1] = Job(nextId)
            BY SMTT(60), <1>4, <2>2, <3>1, AppendProperties, LenProperties
        <3>3. Len(outbound[w]) + 1 \in 1..Len(outbound'[w])
            BY SMTT(60), <3>2
        <3> QED BY Zenon, <3>2, <3>3 DEF InFrames
    <2>5. f.worker = w /\ f.id = nextId /\ f.ack = "wait" /\ nextId < nextId + 1
        BY SMTT(60), <2>0, <2>1, SessionAssumption DEF DispatchIds
    <2>6. Waits(f)'
        BY Zenon, <2>1, <2>4, <2>5 DEF Waits
    <2> QED BY Zenon, <2>1, <2>3, <2>6
<1>7. CASE Reply(w)
    <2>1. dispatching' = dispatching
          /\ (outbound' = outbound \/ outbound' = [outbound EXCEPT ![w] = Append(@, Registered)])
        BY Zenon, <1>7 DEF Reply
    <2>2. ASSUME outbound' = outbound, NEW d \in dispatching PROVE Waits(d)'
        BY Zenon, <1>2, <1>3, <2>2 DEF Waits
    <2> QED BY Zenon, <1>5, <2>1, <2>2, FrameTypes
<1>8. CASE ReadDrain(w)
    <2>1. dispatching' = dispatching
          /\ (outbound' = outbound \/ outbound' = [outbound EXCEPT ![w] = @ \o <<Draining>>])
        BY Zenon, <1>8 DEF ReadDrain, DrainReply
    <2>2. ASSUME outbound' = outbound, NEW d \in dispatching PROVE Waits(d)'
        BY Zenon, <1>2, <1>3, <2>2 DEF Waits
    <2>3. outbound[w] \o <<Draining>> = Append(outbound[w], Draining)
        <3> DEFINE e == Draining
                   b == outbound[w]
        <3>1. b \in Seq(ToWorker) /\ e \in ToWorker
            BY Zenon, <1>4, FrameTypes
        <3> HIDE DEF e, b
        <3>2. Append(b, e) = b \o <<e>>
            BY Zenon, <3>1, AppendIsConcat
        <3> QED BY Zenon, <3>2 DEF e, b
    <2> QED BY Zenon, <1>5, <2>1, <2>2, <2>3, FrameTypes
<1>9. CASE Write(w)
    <2> DEFINE o == outbound[w]
    <2>1. /\ o # <<>> /\ outbound' = [outbound EXCEPT ![w] = Tail(@)]
          /\ dispatching' = {d \in dispatching : ~(d.worker = w /\ Head(o) = Job(d.id))}
        BY Zenon, <1>9 DEF Write
    <2>2. JobsIn(o) = JobsIn(Tail(o)) \cup {id \in DispatchIds : Head(o) = Job(id)}
        BY Zenon, <1>4, <2>1, ReadFrame
    <2> SUFFICES ASSUME NEW d \in dispatching, ~(d.worker = w /\ Head(o) = Job(d.id)),
                        d.ack = "wait"
                 PROVE  InFrames(outbound'[d.worker], d.id)
        BY Zenon, <1>3, <2>1
    <2>3. InFrames(outbound[d.worker], d.id)
        BY Zenon, <1>2 DEF Waits
    <2>4. CASE d.worker = w
        <3>1. outbound'[w] = Tail(o)
            BY Zenon, <2>1 DEF TypeOK
        <3>2. d.id \in JobsIn(o)
            BY Zenon, <1>2, <2>3, <2>4 DEF JobsIn
        <3>3. d.id \in JobsIn(Tail(o))
            BY Zenon, <2>2, <2>4, <3>2
        <3> QED BY Zenon, <2>4, <3>1, <3>3 DEF JobsIn
    <2>5. CASE d.worker # w
        BY Zenon, <1>2, <2>1, <2>3, <2>5 DEF TypeOK
    <2> QED BY Zenon, <2>4, <2>5
<1>10. CASE WriteFails(w)
    <2>1. /\ outbound' = [outbound EXCEPT ![w] = <<>>] /\ UNCHANGED <<jobs, reporting, nextId>>
          /\ dispatching' = AfterFailedWrite(w) /\ Wire(w)' = down[w]
        BY Zenon, <1>10, WriteFailsKeeps DEF WriteFails, worker, engine
    <2>2. ASSUME NEW d \in dispatching, d.worker # w PROVE Waits(d)'
        BY Zenon, <1>2, <1>3, <2>1, <2>2 DEF Waits, TypeOK
    <2>3. ASSUME NEW d \in dispatching, d.worker = w PROVE Waits([d EXCEPT !.ack = "err"])'
        <3> DEFINE f == [d EXCEPT !.ack = "err"]
        <3>1. f.worker = w /\ f.id = d.id /\ f.ack = "err"
            BY Zenon, <1>2, <2>3 DEF Dispatching
        <3>2. d.id < nextId'
            BY Zenon, <2>1, <1>2 DEF Waits
        <3>3. d.ack \in {"wait", "err"}
            BY Zenon, <1>2 DEF Dispatching
        <3>4. d.id \notin Has(down[w], jobs[w], reporting[w])
            <4>1. Placed(Wire(w), jobs[w], reporting[w], up[w], nextId)
                BY Zenon DEF WorkerInv, PlacedAt
            <4>2. JobsIn(Wire(w)) = JobsIn(down[w]) \cup JobsIn(outbound[w])
                  /\ JobsIn(down[w]) \cap JobsIn(outbound[w]) = {}
                BY Zenon, <1>4, <4>1, FirstFrames DEF Wire, Placed
            <4>3. CASE d.ack = "err"
                BY Zenon, <1>2, <2>3, <4>2, <4>3 DEF Waits, Has
            <4>4. CASE d.ack = "wait"
                <5>1. d.id \in JobsIn(outbound[w])
                    BY Zenon, <1>2, <2>3, <4>4 DEF Waits, JobsIn
                <5>2. d.id \notin JobsIn(down[w]) /\ d.id \in JobsIn(Wire(w))
                    BY Zenon, <4>2, <5>1
                <5> QED BY Zenon, <4>1, <5>2 DEF Placed, Has
            <4> QED BY Zenon, <3>3, <4>3, <4>4
        <3> HIDE DEF f
        <3>5. Waits(f)'
            BY Zenon, <2>1, <3>1, <3>2, <3>4 DEF Waits
        <3> QED BY Zenon, <3>5 DEF f
    <2> QED BY Zenon, <2>1, <2>2, <2>3 DEF AfterFailedWrite
<1>11. CASE ~(DispatchQueued(w) \/ Reply(w) \/ ReadDrain(w) \/ Write(w) \/ WriteFails(w))
    <2>1. UNCHANGED <<dispatching, outbound>>
        BY Zenon, <1>11 DEF WorkerStep, Reserve, Release, DispatchRefused, Register, ReadResult,
                     Disconnect, Break, SdkReadPart, SdkRead, Shutdown, SdkDone, SdkStops,
                     FinishJob, SendResult, server
    <2> QED BY Zenon, <1>2, <1>3, <2>1 DEF Waits
<1> QED BY Zenon, <1>6, <1>7, <1>8, <1>9, <1>10, <1>11

LEMMA SessionInit == Init => SessionInv
<1> SUFFICES ASSUME Init PROVE SessionInv
    BY Zenon
<1>1. TypeOK
    BY Zenon, TypeInit
<1>2. Known /\ \A d \in dispatching : Waits(d)
    BY Zenon DEF Init, Known
<1>3. ASSUME NEW w \in Workers PROVE WorkerInv(w)
    <2>1. /\ w \notin DOMAIN registry /\ permits[w] = 0 /\ Wire(w) = <<>> /\ up[w] = <<>>
          /\ jobs[w] = {} /\ reporting[w] = {} /\ accepted[w] = {} /\ sdk[w] = "none"
        BY Zenon, EmptyFrames DEF Init, Wire
    <2>2. Has(<<>>, {}, {}) = {}
        BY Zenon, EmptyFrames DEF Has
    <2>3. Concurrency[w] \in Nat /\ Cardinality({}) = 0 /\ 0 <= Concurrency[w]
        BY SMTT(30), <1>1, WorkerFacts, FS_EmptySet
    <2>4. Fits(w)
        BY Zenon, <2>1, <2>2, <2>3 DEF Fits
    <2>5. PlacedAt(w)
        BY Zenon, <2>1, <2>2, EmptyFrames DEF PlacedAt, Placed
    <2>6. Snapshot(w)
        <3>1. Len(<<>>) = 0 /\ 1..0 = {}
            BY EmptySeq
        <3> QED BY Zenon, <2>1, <3>1 DEF Snapshot
    <2>7. Fresh(w) /\ Booked(w) /\ Covered(w) /\ Backed(w) /\ Reported(w)
        BY Zenon, <2>1 DEF Fresh, Booked, Covered, Backed, Reported
    <2>8. Ended(w)
        BY Zenon, <2>1, EmptyFrames DEF Ended
    <2> QED BY Zenon, <2>4, <2>5, <2>6, <2>7, <2>8 DEF WorkerInv
<1> QED BY Zenon, <1>1, <1>2, <1>3 DEF SessionInv

LEMMA SessionNext == SessionInv /\ [Next]_vars => SessionInv'
<1> SUFFICES ASSUME SessionInv, [Next]_vars PROVE SessionInv'
    BY Zenon
<1>1. TypeOK /\ TypeOK' /\ Known /\ \A d \in dispatching : Waits(d)
    BY Zenon, TypeNext DEF SessionInv
<1>2. \A v \in Workers : WorkerInv(v)
    BY Zenon DEF SessionInv
<1>3. ASSUME NEW v \in Workers, Apart(v)
      PROVE  WorkerInv(v)' /\ NoMore(v)
    BY Zenon, <1>1, <1>2, <1>3, ApartKeeps
<1>4. ASSUME NEW w \in Workers, WorkerStep(w) PROVE SessionInv'
    <2>1. ASSUME NEW v \in Workers, v # w PROVE WorkerInv(v)' /\ NoMore(v)
        BY Zenon, <1>1, <1>3, <1>4, <2>1, OthersApart
    <2>2. /\ WorkerInv(w)'
          /\ Has(Wire(w)', jobs'[w], reporting'[w])
               \subseteq Has(Wire(w), jobs[w], reporting[w]) \cup {nextId}
        <3>1. CASE DispatchQueued(w)
            BY Zenon, <1>1, <1>2, <3>1, DispatchKeeps
        <3>2. CASE ~DispatchQueued(w)
            BY Zenon, <1>1, <1>2, <1>4, <3>2, StepKeeps DEF NoMore
        <3> QED BY Zenon, <3>1, <3>2
    <2>3. \A v \in Workers :
            Has(Wire(v)', jobs'[v], reporting'[v])
              \subseteq Has(Wire(v), jobs[v], reporting[v]) \cup {nextId}
        BY Zenon, <2>1, <2>2 DEF NoMore
    <2>4. \A d \in dispatching' : Waits(d)'
        BY Zenon, <1>1, <1>2, <1>4, <2>3, WaitsNext
    <2>5. Known'
        BY Zenon, <1>1, <1>2, <1>4, KnownNext
    <2>6. \A v \in Workers : WorkerInv(v)'
        BY Zenon, <2>1, <2>2
    <2> QED BY Zenon, <1>1, <2>4, <2>5, <2>6 DEF SessionInv
<1>5. ASSUME NEW d \in dispatching, DispatchFailed(d) PROVE SessionInv'
    <2>1. d.worker \in Workers /\ \A f \in dispatching : f \in Dispatching /\ f.worker \in Workers
        BY Zenon, <1>1 DEF TypeOK, Dispatching
    <2>2. /\ registry' = ReleaseInflight(d.worker, d.id) /\ dispatching' = dispatching \ {d}
          /\ UNCHANGED <<permits, nextId, handler, answered, sdk, jobs, reporting, accepted, up,
                         down, outbound, broken>>
        BY Zenon, <1>5 DEF DispatchFailed, engine, worker
    <2>3. SameRows(registry', d.worker)
        BY Zenon, <1>1, <2>1, <2>2, ReleasedRows
    <2>4. ASSUME NEW v \in Workers, v # d.worker PROVE WorkerInv(v)'
        <3>1. Apart(v)
            BY Zenon, <2>2, <2>3, <2>4 DEF Apart, Untouched, SameRows, Wire
        <3> QED BY Zenon, <1>3, <3>1
    <2>5. WorkerInv(d.worker)'
        BY SMTT(30), <1>1, <1>2, <1>5, <2>1, FailedKeeps
    <2>6. ASSUME NEW f \in dispatching' PROVE Waits(f)'
        <3>1. Waits(f)
            BY Zenon, <1>1, <2>2
        <3> QED BY Zenon, <2>2, <3>1 DEF Waits, Wire
    <2>7. Known'
        BY Zenon, <1>1, <2>2 DEF Known
    <2> QED BY Zenon, <1>1, <2>4, <2>5, <2>6, <2>7 DEF SessionInv
<1>6. CASE UNCHANGED vars
    <2>1. UNCHANGED <<registry, permits, nextId, handler, dispatching, answered, sdk, jobs,
                      reporting, accepted, up, down, outbound, broken>>
        BY Zenon, <1>6 DEF vars, engine, server, worker
    <2>2. ASSUME NEW v \in Workers PROVE WorkerInv(v)'
        <3>1. Apart(v)
            BY Zenon, <2>1 DEF Apart, Untouched, Wire
        <3> QED BY Zenon, <1>3, <3>1
    <2>3. ASSUME NEW f \in dispatching' PROVE Waits(f)'
        <3>1. Waits(f)
            BY Zenon, <1>1, <2>1
        <3> QED BY Zenon, <2>1, <3>1 DEF Waits, Wire
    <2> QED BY Zenon, <1>1, <2>1, <2>2, <2>3 DEF SessionInv, Known
<1> QED BY Zenon, <1>4, <1>5, <1>6 DEF Next, WorkerStep

-----------------------------------------------------------------------------
(***************************************************************************)
(* Theorems                                                                *)
(***************************************************************************)
LEMMA SessionInvariant == Spec => []SessionInv
BY SessionInit, SessionNext, PTL DEF Spec

\* Every variable has its type: reserved_slots and running_jobs stay natural
\* numbers and every frame is one of the protocol.
THEOREM SessionTypes == Spec => []TypeOK
<1>1. SessionInv => TypeOK
    BY Zenon DEF SessionInv
<1> QED BY <1>1, SessionInvariant, PTL

\* reserved_slots is the number of permits the engine holds, and permits and
\* unanswered dispatches together never exceed the slots of the worker.
THEOREM WorkersAreNeverOverbooked == Spec => []NeverOverbooked
<1>1. SessionInv => NeverOverbooked
    BY Zenon DEF SessionInv, WorkerInv, Booked, NeverOverbooked, TypeOK
<1> QED BY <1>1, SessionInvariant, PTL

\* in_flight_dispatches holds every dispatch the worker has or can still get,
\* and while the connection is sound nothing else.
THEOREM InFlightStaysExact == Spec => []InFlightIsExact
<1>1. ASSUME SessionInv, NEW w \in DOMAIN registry, NEW id \in DispatchIds, Alive(w)
      PROVE  /\ AtWorker(w, id) => id \in registry[w].inflight
             /\ id \in registry[w].inflight /\ w \notin broken
                  => AtWorker(w, id) \/ ResultOnWire(w, id)
    <2>1. w \in Workers /\ WorkerInv(w) /\ TypeOK
        BY Zenon, <1>1 DEF SessionInv, TypeOK
    <2>2. AtWorker(w, id) <=> id \in Has(Wire(w), jobs[w], reporting[w])
        <3>1. JobsIn(Wire(w)) = JobsIn(down[w]) \cup JobsIn(outbound[w])
            BY Zenon, <2>1, WorkerFacts, FirstFrames DEF Wire
        <3>2. id \in JobsIn(down[w]) \cup JobsIn(outbound[w])
                <=> InFrames(down[w], id) \/ InFrames(outbound[w], id)
            BY Zenon DEF JobsIn
        <3>3. id \in ReportIds(reporting[w]) <=> \E r \in reporting[w] : r.id = id
            BY Zenon DEF ReportIds
        <3> QED BY Zenon, <3>1, <3>2, <3>3 DEF AtWorker, Has
    <2>3. ResultOnWire(w, id) <=> id \in ResultIds(up[w])
        BY Zenon DEF ResultOnWire, ResultIds
    <2> QED BY Zenon, <1>1, <2>1, <2>2, <2>3 DEF WorkerInv, Covered, Backed
<1>2. SessionInv => InFlightIsExact
    BY Zenon, <1>1 DEF InFlightIsExact
<1> QED BY <1>2, SessionInvariant, PTL

\* A worker never has more jobs than slots in its semaphore.
THEOREM JobsNeverWaitForSlot == Spec => []WorkerWithinConcurrency
<1>1. ASSUME SessionInv, NEW w \in Workers PROVE Cardinality(jobs[w]) <= Concurrency[w]
    <2> DEFINE H == Has(Wire(w), jobs[w], reporting[w])
    <2>1. WorkerInv(w) /\ TypeOK
        BY Zenon, <1>1 DEF SessionInv
    <2>2. H \subseteq DispatchIds /\ jobs[w] \subseteq H /\ Concurrency[w] \in Nat
        BY Zenon, <2>1, WorkerFacts, HasFacts
    <2>3. Cardinality(H) <= Concurrency[w]
        BY Zenon, <2>1 DEF WorkerInv, Fits
    <2> HIDE DEF H
    <2>4. /\ Cardinality(jobs[w]) \in Nat /\ Cardinality(H) \in Nat
          /\ Cardinality(jobs[w]) <= Cardinality(H)
        BY Zenon, <2>2, PartOf
    <2> QED BY SMTT(30), <2>2, <2>3, <2>4
<1>2. SessionInv => WorkerWithinConcurrency
    BY Zenon, <1>1 DEF WorkerWithinConcurrency
<1> QED BY <1>2, SessionInvariant, PTL

\* No dispatch follows `draining`, on the wire or in the writer's channel, and a
\* worker that has read it is sent none.
THEOREM DrainingIsLast == Spec => []NoDispatchAfterDraining
<1>1. ASSUME SessionInv, NEW w \in Workers
      PROVE  /\ \A i, k \in 1..Len(Wire(w)) :
                   Wire(w)[i] = Draining /\ i < k => Wire(w)[k].type # "job"
             /\ sdk[w] = "draining" =>
                   \A i \in 1..Len(Wire(w)) : Wire(w)[i].type # "job"
    <2>1. WorkerInv(w) /\ TypeOK
        BY Zenon, <1>1 DEF SessionInv
    <2>2. Closed(Wire(w)) /\ (sdk[w] = "draining" => JobsIn(Wire(w)) = {})
        BY Zenon, <2>1 DEF WorkerInv, Ended
    <2>3. ASSUME NEW i \in 1..Len(Wire(w)), Wire(w)[i].type = "job" PROVE JobsIn(Wire(w)) # {}
        <3>1. Wire(w)[i] \in ToWorker
            BY Zenon, <2>1, WorkerFacts, ElementOfSeq
        <3>2. PICK id \in DispatchIds : Wire(w)[i] = Job(id)
            BY Zenon, <2>3, <3>1, FrameTypes
        <3> QED BY Zenon, <3>2 DEF JobsIn, InFrames
    <2> QED BY Zenon, <2>2, <2>3 DEF Closed
<1>2. SessionInv => NoDispatchAfterDraining
    BY Zenon, <1>1 DEF NoDispatchAfterDraining, Wire
<1> QED BY <1>2, SessionInvariant, PTL

\* However late a snapshot is applied, an idle worker can be reserved.
THEOREM IdleWorkersCanBeReserved == Spec => []IdleWorkerIsAvailable
<1>1. ASSUME SessionInv, NEW w \in DOMAIN registry,
             registry[w].reserved = 0, registry[w].inflight = {}
      PROVE  AvailableSlots(w) > 0
    <2> DEFINE n == registry[w].running
               m == Concurrency[w]
    <2>1. w \in Workers /\ WorkerInv(w) /\ TypeOK
        BY Zenon, <1>1 DEF SessionInv, TypeOK
    <2>2. n \in Nat /\ m \in Nat /\ n < m /\ Cardinality({}) = 0
        BY Zenon, <2>1, RowFields, WorkerFacts, FS_EmptySet DEF WorkerInv, Snapshot
    <2>3. AvailableSlots(w) = m - (0 + Greater(n, 0))
        BY Zenon, <1>1, <2>2 DEF AvailableSlots, UsedSlots
    <2> HIDE DEF n, m
    <2> QED BY SMTT(30), <2>2, <2>3 DEF Greater
<1>2. SessionInv => IdleWorkerIsAvailable
    BY Zenon, <1>1 DEF IdleWorkerIsAvailable
<1> QED BY <1>2, SessionInvariant, PTL

\* A worker that ends its session by a drain has reported every dispatch it
\* accepted.
THEOREM DrainReportsEverything == Spec => []DrainedReportsAll
<1>1. ASSUME SessionInv, NEW w \in Workers, sdk[w] = "done", NEW id \in accepted[w]
      PROVE  id \in answered \/ ResultOnWire(w, id)
    <2>1. WorkerInv(w)
        BY Zenon, <1>1 DEF SessionInv
    <2>2. accepted[w] \subseteq ResultIds(up[w]) \cup answered
        BY Zenon, <1>1, <2>1, EmptyFrames DEF WorkerInv, Reported
    <2> QED BY Zenon, <2>2 DEF ResultIds, ResultOnWire
<1>2. SessionInv => DrainedReportsAll
    BY Zenon, <1>1 DEF DrainedReportsAll
<1> QED BY <1>2, SessionInvariant, PTL
=============================================================================
