---------------------- MODULE SqliteStoreLifecycleProof ----------------------
(***************************************************************************)
(* What becomes of a claimed job in SqliteStore when retention is off: no  *)
(* claim and no retryable failure is without an owner, and the store as a  *)
(* whole implements the lifecycle of JobLifecycle.                         *)
(***************************************************************************)
EXTENDS SqliteStoreProof

-----------------------------------------------------------------------------
(***************************************************************************)
(* Owners.  Both invariants are inductive beside the fence.                *)
(***************************************************************************)
\* The steps that end an attempt or let its lease expire.
Ending ==
    \/ \E a \in delivered : CompleteSuccess(a) \/ CompleteFailure(a)
    \/ \E a \in abandoning : Abandon(a)
    \/ \E j \in DOMAIN executions : LeaseExpires(j)
    \/ RecoverStale

\* They leave the ingest file alone and keep the fence of every attempt.
LEMMA EndingKeepsRows ==
    ASSUME TypeOK, Ending
    PROVE  /\ DOMAIN executions' = DOMAIN executions
           /\ \A j \in DOMAIN executions :
                /\ executions'[j].dispatch = executions[j].dispatch
                /\ executions'[j].queue = executions[j].queue
                /\ executions'[j].count = executions[j].count
           /\ UNCHANGED <<accepted, claims, delivering, delivered, up, crashes>>
<1>1. UNCHANGED <<accepted, claims, delivering, delivered, up, crashes>>
  BY Zenon DEF Ending, CompleteSuccess, CompleteFailure, Abandon, LeaseExpires,
         RecoverStale, futures, env
<1>2. CASE \E a \in delivered : CompleteSuccess(a) \/ CompleteFailure(a)
  BY <1>1, <1>2, EndedFields DEF TypeOK, CompleteSuccess, CompleteFailure, Running
<1>3. CASE \E a \in abandoning : Abandon(a)
  BY <1>1, <1>3, EndedFields DEF TypeOK, Abandon, Running
<1>4. CASE \E j \in DOMAIN executions : LeaseExpires(j)
  BY <1>1, <1>4 DEF TypeOK, ExecutionRow, LeaseExpires
<1>5. CASE RecoverStale
  BY Zenon, <1>1, <1>5, EndedFields DEF TypeOK, RecoverStale
<1>. QED
  BY Zenon, <1>2, <1>3, <1>4, <1>5 DEF Ending

\* The steps that give a claim back once its attempt has failed.
Repending ==
    \/ \E a \in repending : Repend(a)
    \/ \E i \in recovering : RecoverItem(i)

LEMMA RependingKeepsRows ==
    ASSUME TypeOK, Repending
    PROVE  /\ DOMAIN accepted' = DOMAIN accepted
           /\ \A j \in DOMAIN accepted :
                /\ accepted'[j].dispatch \in {accepted[j].dispatch, NULL}
                /\ accepted'[j].queue = accepted[j].queue
           /\ UNCHANGED <<executions, claims, delivering, delivered, abandoning,
                          up, crashes>>
<1>1. PICK j, d : accepted' \in {accepted, Repended(j, d)}
  BY Zenon DEF Repending, Repend, RecoverItem
<1>2. UNCHANGED <<executions, claims, delivering, delivered, abandoning, up, crashes>>
  BY Zenon DEF Repending, Repend, RecoverItem, env
<1>. QED
  BY <1>1, <1>2, RependedFields

LEMMA ClaimsOwnedNext ==
    ASSUME ~CleanupOn, FenceInv, ClaimsAreOwned, [Next]_vars
    PROVE  ClaimsAreOwned'
<1> SUFFICES ASSUME up', faults' = 0, NEW j \in DOMAIN accepted',
                    accepted'[j].dispatch # NULL
             PROVE  \/ InClaim(j, accepted[j].dispatch)'
                    \/ /\ j \in DOMAIN executions'
                       /\ executions'[j].dispatch = accepted'[j].dispatch
  BY Zenon DEF ClaimsAreOwned
<1> DEFINE Owned == \/ InClaim(j, accepted[j].dispatch)
                    \/ /\ j \in DOMAIN executions
                       /\ executions[j].dispatch = accepted[j].dispatch
<1>0. TypeOK /\ cleaning = NULL /\ faults \in Nat
  BY Zenon DEF FenceInv, Idle, TypeOK
<1>f. ~Fault
  BY <1>0 DEF Fault
<1>1. /\ up /\ faults = 0 /\ j \in DOMAIN accepted
      /\ accepted[j].dispatch # NULL
      => Owned
  BY Zenon DEF ClaimsAreOwned
<1> USE DEF futures, env
<1>2. CASE UNCHANGED <<accepted, executions, claims, up, faults>>
  BY Zenon, <1>1, <1>2 DEF InClaim
<1>3. CASE \E q \in Queues : Enqueue(q)
  <2>1. /\ UNCHANGED <<executions, claims, up, faults>>
        /\ j \in DOMAIN accepted /\ accepted'[j] = accepted[j]
    BY <1>3 DEF Enqueue
  <2>. QED
    BY Zenon, <1>1, <2>1 DEF InClaim
<1>4. CASE \E q \in Queues, n \in ClaimLimits : ClaimBatch(q, n)
  <2>1. PICK q \in Queues, n \in ClaimLimits : ClaimBatch(q, n)
    BY Zenon, <1>4
  <2>2. PICK batch \in SUBSET Pending(q) :
          /\ accepted' = [i \in DOMAIN accepted |->
                            IF i \in batch
                            THEN [accepted[i] EXCEPT !.dispatch = nextDispatch]
                            ELSE accepted[i]]
          /\ claims' = claims \cup
               {[queue |-> q, jobs |-> batch, dispatch |-> nextDispatch,
                 step |-> "dispatch"]}
    BY Zenon, <2>1 DEF ClaimBatch
  <2>3. UNCHANGED <<executions, up, faults>>
    BY Zenon, <2>1 DEF ClaimBatch
  <2>4. CASE j \in batch
    <3>1. accepted'[j].dispatch = nextDispatch
      BY Zenon, <1>0, <2>2, <2>4 DEF TypeOK, AcceptedRow
    <3> DEFINE w == [queue |-> q, jobs |-> batch, dispatch |-> nextDispatch,
                     step |-> "dispatch"]
    <3>2. w \in claims' /\ w.jobs = batch /\ w.dispatch = nextDispatch
      BY Zenon, <2>2
    <3> HIDE DEF w
    <3>. QED
      BY Zenon, <2>4, <3>1, <3>2 DEF InClaim
  <2>5. CASE j \notin batch
    BY Zenon, <1>1, <2>2, <2>3, <2>5 DEF InClaim
  <2>. QED
    BY Zenon, <2>4, <2>5
<1>5. CASE \E c \in claims : DispatchBatch(c)
  <2>1. PICK c \in claims : DispatchBatch(c)
    BY Zenon, <1>5
  <2>2. /\ c \in Claim /\ c.jobs \subseteq JobIds
        /\ Upsertable(c) = c.jobs
        /\ \A i \in c.jobs : accepted[i].dispatch = c.dispatch
    BY <1>0 DEF TypeOK, Claim, FenceInv, ClaimsHold, Upsertable
  <2>3. /\ claims' = claims \ {c}
        /\ DOMAIN executions' = DOMAIN executions \cup c.jobs
        /\ \A i \in c.jobs : executions'[i].dispatch = c.dispatch
        /\ \A i \in DOMAIN executions \ c.jobs : executions'[i] = executions[i]
        /\ UNCHANGED <<accepted, up, faults>>
    BY Zenon, <1>0, <2>1, <2>2, UpsertedFields DEF DispatchBatch
  <2>. QED
    BY Zenon, <1>1, <2>2, <2>3 DEF InClaim
<1>6. CASE \E c \in claims : \E i \in c.jobs : RependClaimed(c, i)
  <2>1. PICK c \in claims : \E i \in c.jobs : RependClaimed(c, i)
    BY Zenon, <1>6
  <2>2. PICK i \in c.jobs : RependClaimed(c, i)
    BY Zenon, <2>1
  <2>3. /\ claims' = (claims \ {c}) \cup Without(c, i)
        /\ accepted' = Repended(i, c.dispatch)
        /\ UNCHANGED <<executions, up, faults>>
    BY Zenon, <1>f, <2>2 DEF RependClaimed
  <2>4. c.jobs # {i} => \E w \in Without(c, i) :
                          w.jobs = c.jobs \ {i} /\ w.dispatch = c.dispatch
    BY Zenon, <1>0 DEF TypeOK, Claim, Without
  <2>5. j \in DOMAIN accepted /\ accepted'[j].dispatch = accepted[j].dispatch
    BY <1>0, <2>3, RependedFields
  <2>6. j # i \/ accepted[j].dispatch # c.dispatch
    BY <1>0, <2>3, <2>5, RependedFields
  <2>. QED
    BY Zenon, <1>1, <2>3, <2>4, <2>5, <2>6 DEF InClaim
<1>7. CASE Repending
  <2>1. UNCHANGED faults
    BY Zenon, <1>f, <1>7 DEF Repending, Repend, RecoverItem
  <2>. QED
    BY Zenon, <1>0, <1>1, <1>7, <2>1, RependingKeepsRows DEF InClaim
<1>8. CASE Open
  <2>1. /\ j \in DOMAIN accepted \ Orphans /\ accepted'[j] = accepted[j]
        /\ UNCHANGED executions
    BY Zenon, <1>0, <1>8 DEF Open, TypeOK, AcceptedRow
  <2>. QED
    BY Zenon, <2>1 DEF Orphans
<1>9. CASE (\E c \in claims : DispatchBatchFails(c)) \/ Crash
  BY Zenon, <1>f, <1>9 DEF DispatchBatchFails, Crash
<1>10. CASE Ending
  <2>1. UNCHANGED faults
    BY Zenon, <1>f, <1>10 DEF Ending, CompleteSuccess, CompleteFailure, Abandon,
         LeaseExpires, RecoverStale
  <2>. QED
    BY Zenon, <1>0, <1>1, <1>10, <2>1, EndingKeepsRows DEF InClaim
<1>11. CASE \E a \in delivering : Deliver(a) \/ ReleaseClaim(a)
  <2>1. UNCHANGED <<accepted, executions, claims, up, faults>>
    BY Zenon, <1>f, <1>11 DEF Deliver, ReleaseClaim
  <2>. QED
    BY Zenon, <1>1, <2>1 DEF InClaim
<1>12. CASE CleanupAccepted \/ CleanupExecutions
  BY Zenon, <1>0, <1>12 DEF CleanupAccepted, CleanupExecutions
<1>. QED
  BY Zenon, <1>2, <1>3, <1>4, <1>5, <1>6, <1>7, <1>8, <1>9, <1>10, <1>11, <1>12
  DEF Next, vars, Tick, Ending, Repending

LEMMA NothingFailed ==
    ASSUME TypeOK, TypeOK', crashes' + faults' = 0
    PROVE  ~Fault /\ ~Crash
<1>1. /\ faults \in Nat /\ crashes \in Nat /\ faults' \in Nat /\ crashes' \in Nat
      /\ crashes' + faults' = 0
  BY Zenon DEF TypeOK
<1>2. \A m, n \in Nat : m + n = 0 => m = 0 /\ n = 0
  OBVIOUS
<1>3. faults' = 0 /\ crashes' = 0
  BY <1>1, <1>2, Zenon
<1>4. faults' # faults + 1 /\ crashes' # crashes + 1
  BY <1>1, <1>3
<1>. QED
  BY Zenon, <1>4 DEF Fault, Crash

LEMMA RetriesOwnedNext ==
    ASSUME ~CleanupOn, FenceInv, RetriesAreOwned, [Next]_vars
    PROVE  RetriesAreOwned'
<1> SUFFICES ASSUME crashes' + faults' = 0, TypeOK',
                    NEW j \in DOMAIN accepted' \cap DOMAIN executions',
                    executions'[j].status = "failed",
                    accepted'[j].dispatch = executions'[j].dispatch,
                    executions'[j].count <= MaxRetries[executions'[j].queue]
             PROVE  WillRepend(j, executions[j].dispatch)'
  BY Zenon, TypeNext DEF RetriesAreOwned, FenceInv, Claimed
<1>0. TypeOK /\ cleaning = NULL /\ faults \in Nat /\ crashes \in Nat
      /\ faults' \in Nat /\ crashes' \in Nat
  BY Zenon DEF FenceInv, Idle, TypeOK
<1>f. ~Fault /\ ~Crash
  BY Zenon, <1>0, NothingFailed
<1>1. /\ crashes + faults = 0 /\ j \in DOMAIN accepted /\ j \in DOMAIN executions
      /\ executions[j].status = "failed"
      /\ accepted[j].dispatch = executions[j].dispatch
      /\ executions[j].count <= MaxRetries[executions[j].queue]
      => WillRepend(j, executions[j].dispatch)
  BY Zenon DEF RetriesAreOwned, Claimed
<1>2. j \in DOMAIN executions => executions[j].dispatch # NULL
  BY Zenon, <1>0 DEF TypeOK, ExecutionRow, DispatchIds
<1> USE DEF futures, env
<1>3. CASE UNCHANGED <<accepted, executions, abandoning, repending, recovering,
                       crashes, faults>>
  BY Zenon, <1>1, <1>3 DEF WillRepend
<1>4. CASE \E q \in Queues : Enqueue(q)
  <2>1. /\ UNCHANGED <<executions, abandoning, repending, recovering, crashes, faults>>
        /\ accepted'[j].dispatch # NULL => j \in DOMAIN accepted /\ accepted'[j] = accepted[j]
    BY <1>4 DEF Enqueue
  <2>. QED
    BY Zenon, <1>1, <1>2, <2>1 DEF WillRepend
<1>5. CASE \E q \in Queues, n \in ClaimLimits : ClaimBatch(q, n)
  <2>1. /\ UNCHANGED <<executions, abandoning, repending, recovering, crashes, faults>>
        /\ j \in DOMAIN accepted
        /\ accepted'[j].dispatch = nextDispatch \/ accepted'[j] = accepted[j]
    BY <1>0, <1>5 DEF ClaimBatch, TypeOK, AcceptedRow
  <2>2. executions[j].dispatch < nextDispatch /\ nextDispatch \in Nat
    BY Zenon, <1>0, <2>1 DEF FenceInv, Fenced, TypeOK, DispatchIds
  <2>. QED
    BY <1>1, <2>1, <2>2 DEF WillRepend
<1>6. CASE \E c \in claims : DispatchBatch(c)
  <2>1. PICK c \in claims : DispatchBatch(c)
    BY Zenon, <1>6
  <2>2. c \in Claim /\ c.jobs \subseteq JobIds
    BY Zenon, <1>0 DEF TypeOK, Claim
  <2>3. j \in DOMAIN executions /\ executions'[j] = executions[j]
    BY Zenon, <1>0, <2>1, <2>2, UpsertedFields DEF DispatchBatch, Upsertable
  <2>4. UNCHANGED <<accepted, abandoning, repending, recovering, crashes, faults>>
    BY Zenon, <2>1 DEF DispatchBatch
  <2>. QED
    BY Zenon, <1>1, <2>3, <2>4 DEF WillRepend
<1>7. CASE \E c \in claims : \E i \in c.jobs : RependClaimed(c, i)
  <2>1. PICK i, d : accepted' = Repended(i, d)
    BY Zenon, <1>f, <1>7 DEF RependClaimed
  <2>2. j \in DOMAIN accepted /\ accepted'[j].dispatch \in {accepted[j].dispatch, NULL}
    BY <1>0, <2>1, RependedFields
  <2>3. UNCHANGED <<executions, abandoning, repending, recovering, crashes, faults>>
    BY Zenon, <1>f, <1>7 DEF RependClaimed
  <2>. QED
    BY Zenon, <1>1, <1>2, <2>2, <2>3 DEF WillRepend
<1>8. CASE \E a \in delivering : Deliver(a) \/ ReleaseClaim(a)
  <2>1. /\ UNCHANGED <<accepted, executions, repending, recovering, crashes, faults>>
        /\ abandoning \subseteq abandoning'
    BY Zenon, <1>f, <1>8 DEF Deliver, ReleaseClaim
  <2>. QED
    BY Zenon, <1>1, <2>1 DEF WillRepend
<1>9. CASE Ending
  <2>1. /\ j \in DOMAIN executions /\ j \in DOMAIN accepted
        /\ executions'[j].dispatch = executions[j].dispatch
        /\ executions'[j].queue = executions[j].queue
        /\ executions'[j].count = executions[j].count
        /\ UNCHANGED <<accepted, crashes>>
    BY Zenon, <1>0, <1>9, EndingKeepsRows
  <2>2. UNCHANGED faults
    BY Zenon, <1>f, <1>9 DEF Ending, CompleteSuccess, CompleteFailure, Abandon,
         LeaseExpires, RecoverStale
  <2>3. CASE executions[j].status = "failed"
    <3>1. WillRepend(j, executions[j].dispatch)
      BY Zenon, <1>1, <2>1, <2>2, <2>3
    <3>2. /\ \A a \in abandoning \cup repending : a \in abandoning' \cup repending'
          /\ recovering \subseteq recovering'
      BY Zenon, <1>f, <1>9 DEF Ending, CompleteSuccess, CompleteFailure, Abandon,
           LeaseExpires, RecoverStale
    <3>. QED
      BY Zenon, <2>1, <3>1, <3>2 DEF WillRepend
  <2>4. CASE executions[j].status # "failed"
    <3>1. CASE \E a \in delivered : CompleteSuccess(a) \/ CompleteFailure(a)
      <4>1. PICK a \in delivered : CompleteSuccess(a) \/ CompleteFailure(a)
        BY Zenon, <3>1
      <4>2. ~CompleteSuccess(a)
        BY Zenon, <1>0, <2>4, EndedFields DEF TypeOK, CompleteSuccess, Running
      <4>3. /\ a.job = j /\ a.dispatch = executions[j].dispatch
            /\ a \in repending'
        BY Zenon, <1>0, <2>1, <2>4, <4>1, <4>2 DEF CompleteFailure, Running, Retryable, TypeOK
      <4>. QED
        BY Zenon, <2>1, <4>3 DEF WillRepend
    <3>2. CASE \E a \in abandoning : Abandon(a)
      <4>1. PICK a \in abandoning : Abandon(a)
        BY Zenon, <3>2
      <4>2. /\ a.job = j /\ a.dispatch = executions[j].dispatch
            /\ a \in repending'
        BY Zenon, <1>0, <1>f, <2>1, <2>4, <4>1 DEF Abandon, Running, TypeOK
      <4>. QED
        BY Zenon, <2>1, <4>2 DEF WillRepend
    <3>3. CASE \E i \in DOMAIN executions : LeaseExpires(i)
      BY <1>0, <2>1, <2>4, <3>3 DEF LeaseExpires, TypeOK, ExecutionRow
    <3>4. CASE RecoverStale
      <4>1. j \in Stale
        BY Zenon, <2>1, <2>4, <3>4 DEF RecoverStale
      <4> DEFINE i == [job |-> j, dispatch |-> executions[j].dispatch,
                       repend |-> Retryable(executions[j])]
      <4>2. Retryable(executions[j])
        BY Zenon, <2>1 DEF Retryable
      <4>3. i \in recovering'
        BY Zenon, <3>4, <4>1 DEF RecoverStale
      <4>4. i.job = j /\ i.dispatch = executions[j].dispatch /\ i.repend
        BY Zenon, <4>2
      <4> HIDE DEF i
      <4>. QED
        BY Zenon, <2>1, <4>3, <4>4 DEF WillRepend
    <3>. QED
      BY Zenon, <1>9, <3>1, <3>2, <3>3, <3>4 DEF Ending
  <2>. QED
    BY Zenon, <2>3, <2>4
<1>10. CASE Repending
  <2>1. /\ j \in DOMAIN executions /\ j \in DOMAIN accepted
        /\ accepted'[j].dispatch \in {accepted[j].dispatch, NULL}
        /\ UNCHANGED <<executions, abandoning, crashes>>
    BY Zenon, <1>0, <1>10, RependingKeepsRows
  <2>2. UNCHANGED faults
    BY Zenon, <1>f, <1>10 DEF Repending, Repend, RecoverItem
  <2>3. accepted'[j].dispatch = accepted[j].dispatch
    BY Zenon, <1>2, <2>1
  <2>4. WillRepend(j, executions[j].dispatch)
    BY Zenon, <1>1, <2>1, <2>2, <2>3
  <2>5. CASE \E a \in repending : Repend(a)
    <3>1. PICK a \in repending : Repend(a)
      BY Zenon, <2>5
    <3>2. /\ accepted' = Repended(a.job, a.dispatch)
          /\ repending' = repending \ {a} /\ UNCHANGED recovering
      BY Zenon, <1>f, <3>1 DEF Repend
    <3>3. a.job # j \/ a.dispatch # executions[j].dispatch
      BY <1>0, <1>2, <2>1, <3>2, RependedFields
    <3>. QED
      BY Zenon, <2>1, <2>4, <3>2, <3>3 DEF WillRepend
  <2>6. CASE \E i \in recovering : RecoverItem(i)
    <3>1. PICK i \in recovering : RecoverItem(i)
      BY Zenon, <2>6
    <3>2. i.job \in DOMAIN accepted
      BY Zenon DEF FenceInv, AttemptsDispatched, Fenced
    <3>3. /\ i.repend => accepted' = Repended(i.job, i.dispatch)
          /\ recovering' = recovering \ {i} /\ UNCHANGED repending
      BY Zenon, <1>f, <3>1, <3>2 DEF RecoverItem
    <3>4. i.job # j \/ i.dispatch # executions[j].dispatch \/ ~i.repend
      BY <1>0, <1>2, <2>1, <3>3, RependedFields
    <3>. QED
      BY Zenon, <2>1, <2>4, <3>3, <3>4 DEF WillRepend
  <2>. QED
    BY Zenon, <1>10, <2>5, <2>6 DEF Repending
<1>11. CASE Open
  <2>1. /\ UNCHANGED <<executions, abandoning, repending, recovering, crashes, faults>>
        /\ j \in DOMAIN accepted /\ accepted'[j].dispatch \in {accepted[j].dispatch, NULL}
    BY Zenon, <1>0, <1>11 DEF Open, TypeOK, AcceptedRow
  <2>. QED
    BY Zenon, <1>1, <1>2, <2>1 DEF WillRepend
<1>12. CASE CleanupAccepted \/ CleanupExecutions
  BY Zenon, <1>0, <1>12 DEF CleanupAccepted, CleanupExecutions
<1>. QED
  BY Zenon, <1>f, <1>3, <1>4, <1>5, <1>6, <1>7, <1>8, <1>9, <1>10, <1>11, <1>12
  DEF Next, vars, Tick, DispatchBatchFails, Ending, Repending

LEMMA OwnersInvariant ==
    ~CleanupOn => (Spec => [](FenceInv /\ ClaimsAreOwned /\ RetriesAreOwned))
<1> SUFFICES ASSUME ~CleanupOn
             PROVE  Spec => [](FenceInv /\ ClaimsAreOwned /\ RetriesAreOwned)
  BY Zenon
<1>1. Init => ClaimsAreOwned /\ RetriesAreOwned
  BY Zenon DEF Init, ClaimsAreOwned, RetriesAreOwned
<1>2. FenceInv /\ ClaimsAreOwned /\ [Next]_vars => ClaimsAreOwned'
  BY Zenon, ClaimsOwnedNext
<1>3. FenceInv /\ RetriesAreOwned /\ [Next]_vars => RetriesAreOwned'
  BY Zenon, RetriesOwnedNext
<1>4. FenceInv /\ [Next]_vars => FenceInv'
  BY Zenon, FenceNext
<1>. QED
  BY <1>1, <1>2, <1>3, <1>4, FenceInit, PTL DEF Spec

\* Without retention, a claim that claim_batch commits is never left without an
\* owner while no call of the store fails: a claim in flight holds it, or an
\* attempt carries its dispatch id, and Open gives back every other one.
THEOREM ClaimsOwned == ~CleanupOn => (Spec => []ClaimsAreOwned)
<1>1. FenceInv /\ ClaimsAreOwned /\ RetriesAreOwned => ClaimsAreOwned
  BY Zenon
<1>. QED
  BY <1>1, OwnersInvariant, PTL

\* Without retention, crashes and failing calls, the failure of an attempt that
\* max_retries allows to be retried always has a call in flight that returns
\* its job to pending: complete, abandon and recover_stale all leave one.
THEOREM RetriesOwned == ~CleanupOn => (Spec => []RetriesAreOwned)
<1>1. FenceInv /\ ClaimsAreOwned /\ RetriesAreOwned => RetriesAreOwned
  BY Zenon
<1>. QED
  BY <1>1, OwnersInvariant, PTL

-----------------------------------------------------------------------------
(***************************************************************************)
(* The refinement.  A step of the store is described by what it does to    *)
(* the phases and to the executions that are left.                         *)
(***************************************************************************)
Moves(js, from, to) ==
    /\ \A j \in js : Phase(j) = from
    /\ \A j \in JobIds : Phase(j)' = IF j \in js THEN to ELSE Phase(j)

SamePhases == \A j \in JobIds : Phase(j)' = Phase(j)
SameLeft == \A j \in JobIds : ExecutionsLeft(j)' = ExecutionsLeft(j)

LEMMA MoveStep ==
    ASSUME NEW js \in SUBSET JobIds, NEW from, NEW to, Moves(js, from, to)
    PROVE  Lifecycle!Move(js, from, to)
  BY Zenon DEF Moves, Lifecycle!Move

LEMMA LeftStep ==
    ASSUME SameLeft
    PROVE  UNCHANGED [j \in JobIds |-> ExecutionsLeft(j)]
  BY Zenon DEF SameLeft

\* The steps of the lifecycle that move a set of jobs.
LEMMA BatchStep ==
    ASSUME NEW js \in SUBSET JobIds, SameLeft,
           \/ Moves(js, "pending", "claimed") \/ Moves(js, "claimed", "pending")
           \/ Moves(js, "claimed", "running") \/ Moves(js, "running", "failed")
    PROVE  Lifecycle!Next
  BY Zenon, MoveStep, LeftStep
     DEF Lifecycle!Next, Lifecycle!Claim, Lifecycle!Unclaim, Lifecycle!Start, Lifecycle!Fail

LEMMA StutterStep ==
    ASSUME SamePhases, SameLeft
    PROVE  UNCHANGED Lifecycle!lifecycleVars
  BY Zenon DEF SamePhases, SameLeft, Lifecycle!lifecycleVars

\* The phase of a job, from the rows of both files.
PhaseFacts(j) ==
    /\ j \notin DOMAIN accepted => Phase(j) = "absent"
    /\ j \in DOMAIN accepted /\ accepted[j].dispatch = NULL => Phase(j) = "pending"
    /\ j \in Orphans => Phase(j) = "claimed"
    /\ j \in DOMAIN accepted \ Orphans /\ accepted[j].dispatch # NULL =>
         j \in DOMAIN executions /\ Phase(j) = executions[j].status

LEMMA PhaseOf ==
    ASSUME NEW j
    PROVE  PhaseFacts(j) /\ PhaseFacts(j)'
  BY Zenon DEF PhaseFacts, Phase, Orphans

\* The claim of a job is never older than its execution: what a stale repend
\* remembers is the claim of the job only if it is its execution as well.
NewestClaims ==
    \A j \in DOMAIN accepted \cap DOMAIN executions :
        accepted[j].dispatch # NULL =>
            executions[j].dispatch <= accepted[j].dispatch

\* Every row keeps its queue, and no row is deleted.
LEMMA QueuesStay ==
    ASSUME ~CleanupOn, FenceInv, Next
    PROVE  /\ DOMAIN accepted \subseteq DOMAIN accepted'
           /\ \A j \in DOMAIN accepted : accepted'[j].queue = accepted[j].queue
<1>0. TypeOK /\ cleaning = NULL
  BY Zenon DEF FenceInv, Idle
<1>1. CASE UNCHANGED accepted
  BY Zenon, <1>1
<1>2. CASE \E q \in Queues : Enqueue(q)
  BY <1>0, <1>2 DEF Enqueue, NextRowid, TypeOK, JobIds
<1>3. CASE \E q \in Queues, n \in ClaimLimits : ClaimBatch(q, n)
  BY <1>0, <1>3 DEF ClaimBatch, TypeOK, AcceptedRow
<1>4. CASE \E c \in claims : \E j \in c.jobs : RependClaimed(c, j)
  <2>1. PICK j, d : accepted' \in {accepted, Repended(j, d)}
    BY Zenon, <1>4 DEF RependClaimed
  <2>. QED
    BY <1>0, <2>1, RependedFields
<1>5. CASE Repending
  BY Zenon, <1>0, <1>5, RependingKeepsRows
<1>6. CASE Open
  BY Zenon, <1>0, <1>6 DEF Open, TypeOK, AcceptedRow
<1>. QED
  BY Zenon, <1>0, <1>1, <1>2, <1>3, <1>4, <1>5, <1>6
  DEF Next, DispatchBatch, DispatchBatchFails, Deliver, ReleaseClaim,
      CompleteSuccess, CompleteFailure, Abandon, LeaseExpires, RecoverStale,
      CleanupAccepted, CleanupExecutions, Tick, Crash, Repending

LEMMA NewestNext ==
    ASSUME ~CleanupOn, FenceInv, NewestClaims, [Next]_vars
    PROVE  NewestClaims'
<1>0. TypeOK /\ cleaning = NULL
  BY Zenon DEF FenceInv, Idle
<1>d. /\ \A j \in DOMAIN executions : executions[j].dispatch \in Nat
      /\ \A j \in DOMAIN accepted : accepted[j].dispatch \in Nat
      /\ nextDispatch \in Nat
  BY Zenon, <1>0 DEF TypeOK, ExecutionRow, AcceptedRow, DispatchIds
<1>1. CASE UNCHANGED <<accepted, executions>>
  BY Zenon, <1>1 DEF NewestClaims
<1>2. CASE \E q \in Queues : Enqueue(q)
  <2>1. /\ UNCHANGED executions
        /\ \A j \in DOMAIN executions : j \in DOMAIN accepted /\ accepted'[j] = accepted[j]
    BY <1>0, <1>2 DEF Enqueue, NextRowid, TypeOK, JobIds, FenceInv, Fenced
  <2>. QED
    BY Zenon, <2>1 DEF NewestClaims
<1>3. CASE \E q \in Queues, n \in ClaimLimits : ClaimBatch(q, n)
  <2>1. /\ UNCHANGED executions /\ DOMAIN accepted' = DOMAIN accepted
        /\ \A j \in DOMAIN accepted :
             accepted'[j].dispatch \in {accepted[j].dispatch, nextDispatch}
    BY Zenon, <1>0, <1>3 DEF ClaimBatch, TypeOK, AcceptedRow
  <2>. QED
    BY <1>d, <2>1 DEF NewestClaims, FenceInv, Fenced
<1>4. CASE \E c \in claims : DispatchBatch(c)
  <2>1. PICK c \in claims : DispatchBatch(c)
    BY Zenon, <1>4
  <2>2. /\ c \in Claim /\ c.jobs \subseteq JobIds /\ c.dispatch \in Nat
        /\ \A j \in c.jobs : accepted[j].dispatch = c.dispatch
    BY Zenon, <1>0 DEF TypeOK, Claim, DispatchIds, FenceInv, ClaimsHold
  <2>3. /\ \A j \in DOMAIN executions' :
             \/ j \in c.jobs /\ executions'[j].dispatch = c.dispatch
             \/ j \in DOMAIN executions /\ executions'[j] = executions[j]
        /\ UNCHANGED accepted
    BY SMTT(30), <1>0, <2>1, <2>2, UpsertedFields DEF DispatchBatch, Upsertable
  <2>. QED
    BY <2>2, <2>3 DEF NewestClaims
<1>5. CASE \E c \in claims : \E j \in c.jobs : RependClaimed(c, j)
  <2>1. PICK j, d : accepted' \in {accepted, Repended(j, d)}
    BY Zenon, <1>5 DEF RependClaimed
  <2>2. UNCHANGED executions
    BY Zenon, <1>5 DEF RependClaimed
  <2>. QED
    BY SMTT(30), <1>0, <2>1, <2>2, RependedFields DEF NewestClaims
<1>6. CASE Repending
  BY Zenon, <1>0, <1>6, RependingKeepsRows DEF NewestClaims
<1>7. CASE Ending
  BY Zenon, <1>0, <1>7, EndingKeepsRows DEF NewestClaims
<1>8. CASE Open
  <2>1. /\ UNCHANGED executions /\ DOMAIN accepted' = DOMAIN accepted
        /\ \A j \in DOMAIN accepted : accepted'[j].dispatch \in {accepted[j].dispatch, NULL}
    BY Zenon, <1>0, <1>8 DEF Open, TypeOK, AcceptedRow
  <2>. QED
    BY Zenon, <2>1 DEF NewestClaims
<1>. QED
  BY Zenon, <1>0, <1>1, <1>2, <1>3, <1>4, <1>5, <1>6, <1>7, <1>8
  DEF Next, vars, DispatchBatchFails, Deliver, ReleaseClaim, CleanupAccepted,
      CleanupExecutions, Tick, Crash, Ending, Repending

LEMMA LifecycleInvariant ==
    ~CleanupOn => (Spec => [](FenceInv /\ CountInv /\ NewestClaims))
<1> SUFFICES ASSUME ~CleanupOn
             PROVE  Spec => [](FenceInv /\ CountInv /\ NewestClaims)
  BY Zenon
<1>1. Init => NewestClaims
  BY Zenon DEF Init, NewestClaims
<1>2. FenceInv /\ NewestClaims /\ [Next]_vars => NewestClaims'
  BY Zenon, NewestNext
<1>. QED
  BY <1>1, <1>2, CountInvariant, PTL DEF Spec

\* A job whose rows a step leaves alone keeps its phase.
LEMMA PhaseStays ==
    ASSUME NEW j, j \in DOMAIN accepted' <=> j \in DOMAIN accepted,
           j \in DOMAIN accepted => accepted'[j].dispatch = accepted[j].dispatch,
           j \in DOMAIN executions' <=> j \in DOMAIN executions,
           j \in DOMAIN executions =>
             /\ executions'[j].dispatch = executions[j].dispatch
             /\ executions'[j].status = executions[j].status
    PROVE  Phase(j)' = Phase(j)
  BY Zenon, PhaseOf DEF PhaseFacts, Orphans

\* Executions are used up by deliveries alone, and given by a submission.
LEMMA LeftStays ==
    ASSUME NEW j, j \in DOMAIN accepted' <=> j \in DOMAIN accepted,
           j \in DOMAIN accepted => accepted'[j].queue = accepted[j].queue,
           UNCHANGED delivered
    PROVE  ExecutionsLeft(j)' = ExecutionsLeft(j)
  BY Zenon DEF ExecutionsLeft

\* A job that is given back by a repend has failed, and has executions left:
\* its last attempt would hold the claim.
LEMMA RependStep ==
    ASSUME FenceInv, CountInv, NewestClaims, SameLeft,
           NEW j \in DOMAIN executions, NEW d \in Nat \ {NULL},
           d <= executions[j].dispatch,
           executions[j].dispatch = d => executions[j].status = "failed",
           \A a \in LastAttempts : a.job = j => a.dispatch # d,
           accepted' \in {accepted, Repended(j, d)}, UNCHANGED executions
    PROVE  \/ UNCHANGED Lifecycle!lifecycleVars
           \/ Lifecycle!Next
<1>0. TypeOK /\ j \in DOMAIN accepted /\ j \in JobIds
      /\ executions[j].dispatch \in Nat
  BY Zenon DEF FenceInv, Fenced, TypeOK, ExecutionRow, DispatchIds
<1>1. CASE accepted' = accepted
  <2>1. SamePhases
    BY Zenon, <1>1, PhaseStays DEF SamePhases
  <2>. QED
    BY Zenon, <2>1, StutterStep
<1>2. CASE accepted' = Repended(j, d) /\ accepted[j].dispatch # d
  <2>1. accepted' = accepted
    BY Zenon, <1>2 DEF Repended, Claimed
  <2>. QED
    BY Zenon, <1>1, <2>1
<1>3. CASE accepted' = Repended(j, d) /\ accepted[j].dispatch = d
  <2>1. executions[j].dispatch = d
    BY SMTT(30), <1>0, <1>3 DEF NewestClaims
  <2>2. Phase(j) = "failed"
    BY Zenon, <1>0, <1>3, <2>1, PhaseOf DEF PhaseFacts, Orphans
  <2>3. /\ DOMAIN accepted' = DOMAIN accepted
        /\ accepted'[j].dispatch = NULL
        /\ \A i \in DOMAIN accepted \ {j} : accepted'[i].dispatch = accepted[i].dispatch
    BY SMTT(30), <1>0, <1>3, RependedFields
  <2>4. Phase(j)' = "pending"
    BY Zenon, <1>0, <2>3, PhaseOf DEF PhaseFacts
  <2>5. \A i \in JobIds \ {j} : Phase(i)' = Phase(i)
    BY Zenon, <2>3, PhaseStays
  <2>6. Moves({j}, "failed", "pending")
    BY Zenon, <2>2, <2>4, <2>5 DEF Moves
  <2>7. {a \in delivered : a.job = j} \cap LastAttempts = {}
    BY <1>3 DEF CountInv, LastHoldsClaim
  <2>8. ExecutionsLeft(j) > 0
    <3>1. /\ MaxRetries[accepted[j].queue] \in Nat
          /\ Cardinality({a \in delivered : a.job = j}) \in Nat
          /\ Cardinality({a \in delivered : a.job = j}) <= MaxRetries[accepted[j].queue]
      BY Zenon, <1>0, <2>7, DeliveredCount
    <3>. QED
      BY SMTT(30), <1>0, <3>1 DEF ExecutionsLeft
  <2>9. Lifecycle!Requeue(j)
    BY Zenon, <1>0, <2>6, <2>8, MoveStep, LeftStep DEF Lifecycle!Requeue
  <2>. QED
    BY Zenon, <1>0, <2>9 DEF Lifecycle!Next
<1>. QED
  BY Zenon, <1>1, <1>2, <1>3

LEMMA LifecycleNext ==
    ASSUME ~CleanupOn, FenceInv, CountInv, NewestClaims, FenceInv',
           ExecutionsBounded', [Next]_vars
    PROVE  [Lifecycle!Next]_(Lifecycle!lifecycleVars)
<1>0. TypeOK /\ TypeOK' /\ cleaning = NULL
  BY Zenon DEF FenceInv, Idle
<1>l. ASSUME Next, UNCHANGED delivered, DOMAIN accepted' = DOMAIN accepted
      PROVE  SameLeft
  BY Zenon, <1>l, QueuesStay, LeftStays DEF SameLeft
<1> USE DEF futures, env
<1>1. CASE UNCHANGED <<accepted, executions, delivered>>
  <2>1. SamePhases /\ SameLeft
    BY Zenon, <1>1, PhaseStays, LeftStays DEF SamePhases, SameLeft
  <2>. QED
    BY Zenon, <2>1, StutterStep
<1>2. ASSUME NEW q \in Queues, Enqueue(q)
      PROVE  Lifecycle!Next
  <2>1. PICK j \in JobIds : /\ NextRowid(j)
                            /\ DOMAIN accepted' = DOMAIN accepted \cup {j}
                            /\ accepted'[j].queue = q /\ accepted'[j].dispatch = NULL
                            /\ \A i \in DOMAIN accepted : accepted'[i] = accepted[i]
    BY SMTT(30), <1>0, <1>2 DEF Enqueue, NextRowid, TypeOK, JobIds
  <2>2. j \notin DOMAIN accepted /\ UNCHANGED <<executions, delivered>>
    BY SMTT(30), <1>0, <1>2, <2>1 DEF Enqueue, NextRowid, TypeOK, JobIds
  <2>3. Phase(j) = "absent" /\ Phase(j)' = "pending"
    BY Zenon, <2>1, <2>2, PhaseOf DEF PhaseFacts
  <2>4. \A i \in JobIds \ {j} : /\ Phase(i)' = Phase(i)
                                /\ ExecutionsLeft(i)' = ExecutionsLeft(i)
    BY Zenon, <2>1, <2>2, PhaseStays, LeftStays
  <2>5. Lifecycle!Move({j}, "absent", "pending")
    BY Zenon, <2>3, <2>4, MoveStep DEF Moves
  <2>6. {a \in delivered : a.job = j} = {}
    BY Zenon, <2>2 DEF FenceInv, Fenced, AttemptsDispatched, Attempts
  <2>7. ExecutionsLeft(j)' = MaxRetries[q] + 1
    <3>1. MaxRetries[q] \in Nat /\ Cardinality({a \in delivered : a.job = j}) = 0
      BY Zenon, <2>6, FS_EmptySet, StoreAssumption
    <3>. QED
      BY <2>1, <2>2, <3>1 DEF ExecutionsLeft
  <2>8. Lifecycle!Submit(j, q)
    BY ZenonT(40), <2>4, <2>5, <2>7 DEF Lifecycle!Submit
  <2>. QED
    BY Zenon, <2>8 DEF Lifecycle!Next
<1>3. ASSUME NEW q \in Queues, NEW n \in ClaimLimits, ClaimBatch(q, n)
      PROVE  Lifecycle!Next
  <2>1. PICK batch \in SUBSET Pending(q) :
          accepted' = [j \in DOMAIN accepted |->
                         IF j \in batch
                         THEN [accepted[j] EXCEPT !.dispatch = nextDispatch]
                         ELSE accepted[j]]
    BY Zenon, <1>3 DEF ClaimBatch
  <2>2. /\ DOMAIN accepted' = DOMAIN accepted
        /\ \A j \in batch : /\ j \in DOMAIN accepted /\ accepted[j].dispatch = NULL
                             /\ accepted'[j].dispatch = nextDispatch
        /\ \A j \in DOMAIN accepted \ batch : accepted'[j] = accepted[j]
        /\ nextDispatch \in Nat \ {NULL}
        /\ UNCHANGED <<executions, delivered>>
    BY Zenon, <1>0, <1>3, <2>1 DEF ClaimBatch, Pending, TypeOK, AcceptedRow, DispatchIds
  <2>3. \A j \in batch : j \in DOMAIN executions => executions[j].dispatch # nextDispatch
    BY <2>2 DEF FenceInv, Fenced
  <2>4. \A j \in batch : Phase(j) = "pending" /\ Phase(j)' = "claimed"
    BY SMTT(30), <2>2, <2>3, PhaseOf DEF PhaseFacts, Orphans
  <2>5. \A j \in JobIds \ batch : Phase(j)' = Phase(j)
    BY Zenon, <2>2, PhaseStays
  <2>6. batch \in SUBSET JobIds /\ Moves(batch, "pending", "claimed")
    BY Zenon, <1>0, <2>2, <2>4, <2>5 DEF Moves, TypeOK
  <2>7. SameLeft
    BY Zenon, <1>l, <1>3, <2>2 DEF Next
  <2>. QED
    BY Zenon, <2>6, <2>7, BatchStep
<1>4. ASSUME NEW c \in claims, DispatchBatch(c)
      PROVE  Lifecycle!Next
  <2>1. /\ c \in Claim /\ c.jobs \in SUBSET JobIds
        /\ c.dispatch \in Nat \ {NULL}
        /\ Upsertable(c) = c.jobs
        /\ \A j \in c.jobs : j \in DOMAIN accepted /\ accepted[j].dispatch = c.dispatch
    BY <1>0 DEF TypeOK, Claim, DispatchIds, FenceInv, ClaimsHold, Upsertable
  <2>2. /\ DOMAIN executions' = DOMAIN executions \cup c.jobs
        /\ \A j \in c.jobs : /\ executions'[j].dispatch = c.dispatch
                              /\ executions'[j].status = "running"
        /\ \A j \in DOMAIN executions \ c.jobs : executions'[j] = executions[j]
        /\ UNCHANGED <<accepted, delivered>>
    BY Zenon, <1>0, <1>4, <2>1, UpsertedFields DEF DispatchBatch
  <2>3. \A j \in c.jobs : j \in DOMAIN executions => executions[j].dispatch # c.dispatch
    <3>1. \A j \in DOMAIN executions : executions[j].dispatch \in Nat
      BY Zenon, <1>0 DEF TypeOK, ExecutionRow, DispatchIds
    <3>. QED
      BY SMTT(30), <2>1, <3>1 DEF FenceInv, ClaimsHold
  <2>4. \A j \in c.jobs : Phase(j) = "claimed"
    BY SMTT(30), <2>1, <2>3, PhaseOf DEF PhaseFacts, Orphans
  <2>5. \A j \in c.jobs : Phase(j)' = "running"
    BY Zenon, <2>1, <2>2, PhaseOf DEF PhaseFacts, Orphans
  <2>6. \A j \in JobIds \ c.jobs : Phase(j)' = Phase(j)
    BY Zenon, <2>2, PhaseStays
  <2>7. Moves(c.jobs, "claimed", "running")
    BY Zenon, <2>4, <2>5, <2>6 DEF Moves
  <2>8. SameLeft
    BY Zenon, <1>l, <1>4, <2>2 DEF Next
  <2>. QED
    BY Zenon, <2>1, <2>7, <2>8, BatchStep
<1>5. ASSUME NEW c \in claims, NEW j \in c.jobs, RependClaimed(c, j)
      PROVE  [Lifecycle!Next]_(Lifecycle!lifecycleVars)
  <2>1. /\ c.dispatch \in Nat \ {NULL} /\ j \in JobIds
        /\ j \in DOMAIN accepted /\ accepted[j].dispatch = c.dispatch
        /\ j \in DOMAIN executions => executions[j].dispatch # c.dispatch
    <3>1. j \in DOMAIN executions => executions[j].dispatch \in Nat
      BY Zenon, <1>0 DEF TypeOK, ExecutionRow, DispatchIds
    <3>. QED
      BY <1>0, <3>1 DEF TypeOK, Claim, DispatchIds, FenceInv, ClaimsHold
  <2>2. UNCHANGED <<executions, delivered>>
    BY Zenon, <1>5 DEF RependClaimed
  <2>3. CASE accepted' = accepted
    BY Zenon, <1>1, <2>2, <2>3
  <2>4. CASE accepted' = Repended(j, c.dispatch)
    <3>1. /\ DOMAIN accepted' = DOMAIN accepted
          /\ accepted'[j].dispatch = NULL
          /\ \A i \in DOMAIN accepted \ {j} : accepted'[i].dispatch = accepted[i].dispatch
      BY SMTT(30), <1>0, <2>1, <2>4, RependedFields
    <3>2. Phase(j) = "claimed" /\ Phase(j)' = "pending"
      BY Zenon, <2>1, <3>1, PhaseOf DEF PhaseFacts, Orphans
    <3>3. \A i \in JobIds \ {j} : Phase(i)' = Phase(i)
      BY Zenon, <2>2, <3>1, PhaseStays
    <3>4. {j} \in SUBSET JobIds /\ Moves({j}, "claimed", "pending")
      BY Zenon, <2>1, <3>2, <3>3 DEF Moves
    <3>5. SameLeft
      BY Zenon, <1>l, <1>5, <2>2, <3>1 DEF Next
    <3>. QED
      BY Zenon, <3>4, <3>5, BatchStep
  <2>. QED
    BY Zenon, <1>5, <2>3, <2>4 DEF RependClaimed
<1>6. ASSUME NEW a \in delivering, Deliver(a)
      PROVE  Lifecycle!Next
  <2>1. /\ a.job \in JobIds /\ a.job \in DOMAIN accepted
        /\ UNCHANGED <<accepted, executions>>
        /\ delivered' = delivered \cup {a} /\ a \notin delivered
    BY Zenon, <1>0, <1>6 DEF Deliver, TypeOK, Attempt, FenceInv, AttemptsDispatched,
         Attempts, Fenced, DeliveryOnce
  <2>2. \A j \in JobIds : Phase(j)' = Phase(j)
    BY Zenon, <2>1, PhaseStays
  <2> DEFINE j == a.job
             S == {b \in delivered : b.job = j}
             max == MaxRetries[accepted[j].queue]
  <2>3. S' = S \cup {a} /\ a \notin S
    BY Zenon, <2>1
  <2>4. max \in Nat /\ IsFiniteSet(S) /\ Cardinality(S) \in Nat
    BY Zenon, <2>1, DeliveredCount
  <2>5. Cardinality(S') = Cardinality(S) + 1
    BY Zenon, <2>3, <2>4, FS_AddElement
  <2>6. Cardinality(S') <= max + 1
    BY Zenon, <2>1 DEF ExecutionsBounded
  <2>7. /\ ExecutionsLeft(j) = max + 1 - Cardinality(S)
        /\ ExecutionsLeft(j)' = max + 1 - Cardinality(S')
    BY Zenon, <2>1 DEF ExecutionsLeft
  <2>8. ExecutionsLeft(j) > 0 /\ ExecutionsLeft(j)' = ExecutionsLeft(j) - 1
    <3> HIDE DEF S, max
    <3>. QED
      BY <2>4, <2>5, <2>6, <2>7
  <2>9. \A i \in JobIds \ {j} : ExecutionsLeft(i)' = ExecutionsLeft(i)
    <3> SUFFICES ASSUME NEW i \in JobIds \ {j}
                 PROVE  ExecutionsLeft(i)' = ExecutionsLeft(i)
      BY Zenon
    <3>1. {b \in delivered : b.job = i}' = {b \in delivered : b.job = i}
      BY Zenon, <2>1
    <3>. QED
      BY ZenonT(40), <2>1, <3>1 DEF ExecutionsLeft
  <2>10. Lifecycle!Execute(j)
    BY Zenon, <2>1, <2>2, <2>8, <2>9 DEF Lifecycle!Execute
  <2>. QED
    BY Zenon, <2>1, <2>10 DEF Lifecycle!Next
<1>7. ASSUME NEW a \in delivered, CompleteSuccess(a)
      PROVE  Lifecycle!Next
  <2>1. /\ a.job \in DOMAIN executions /\ executions[a.job].status = "running"
        /\ DOMAIN executions' = DOMAIN executions
        /\ \A j \in DOMAIN executions :
             /\ executions'[j].dispatch = executions[j].dispatch
             /\ j # a.job => executions'[j].status = executions[j].status
        /\ executions'[a.job].status = "completed"
        /\ UNCHANGED <<accepted, delivered>>
    BY Zenon, <1>0, <1>7, EndedFields DEF CompleteSuccess, Running, TypeOK
  <2>2. /\ a.job \in JobIds /\ a.job \in DOMAIN accepted
        /\ accepted[a.job].dispatch = executions[a.job].dispatch
        /\ accepted[a.job].dispatch # NULL
    BY Zenon, <1>0, <2>1 DEF TypeOK, ExecutionRow, DispatchIds, FenceInv, Fenced
  <2>3. Phase(a.job) = "running" /\ Phase(a.job)' = "completed"
    BY Zenon, <2>1, <2>2, PhaseOf DEF PhaseFacts, Orphans
  <2>4. \A j \in JobIds \ {a.job} : Phase(j)' = Phase(j)
    BY Zenon, <2>1, PhaseStays
  <2>5. {a.job} \in SUBSET JobIds /\ Moves({a.job}, "running", "completed")
    BY Zenon, <2>2, <2>3, <2>4 DEF Moves
  <2>6. SameLeft
    BY Zenon, <1>l, <1>7, <2>1 DEF Next
  <2>7. Lifecycle!Succeed(a.job)
    BY Zenon, <2>5, <2>6, MoveStep, LeftStep DEF Lifecycle!Succeed
  <2>. QED
    BY Zenon, <2>2, <2>7 DEF Lifecycle!Next
<1>8. ASSUME NEW ended \in SUBSET DOMAIN executions, Ending, UNCHANGED delivered,
             \A j \in ended : executions[j].status = "running"
                            /\ executions'[j].status = "failed",
             \A j \in DOMAIN executions \ ended :
                executions'[j].status = executions[j].status
      PROVE  Lifecycle!Next
  <2>1. /\ DOMAIN executions' = DOMAIN executions
        /\ \A j \in DOMAIN executions : executions'[j].dispatch = executions[j].dispatch
        /\ UNCHANGED accepted
    BY Zenon, <1>0, <1>8, EndingKeepsRows
  <2>2. \A j \in ended : /\ j \in JobIds /\ j \in DOMAIN accepted
                         /\ accepted[j].dispatch = executions[j].dispatch
                         /\ accepted[j].dispatch # NULL
    BY SMTT(30), <1>0, <1>8 DEF TypeOK, ExecutionRow, DispatchIds, FenceInv, Fenced
  <2>3. \A j \in ended : Phase(j) = "running" /\ Phase(j)' = "failed"
    BY Zenon, <1>8, <2>1, <2>2, PhaseOf DEF PhaseFacts, Orphans
  <2>4. \A j \in JobIds \ ended : Phase(j)' = Phase(j)
    BY Zenon, <1>8, <2>1, PhaseStays
  <2>5. ended \in SUBSET JobIds /\ Moves(ended, "running", "failed")
    BY Zenon, <2>2, <2>3, <2>4 DEF Moves
  <2>6. SameLeft
    BY Zenon, <1>l, <1>8, <2>1 DEF Next, Ending
  <2>. QED
    BY Zenon, <2>5, <2>6, BatchStep
<1>9. ASSUME NEW a \in delivered, CompleteFailure(a)
      PROVE  Lifecycle!Next
  <2>1. /\ {a.job} \in SUBSET DOMAIN executions
        /\ executions[a.job].status = "running"
        /\ executions'[a.job].status = "failed"
        /\ \A j \in DOMAIN executions \ {a.job} : executions'[j] = executions[j]
        /\ UNCHANGED delivered
    BY Zenon, <1>0, <1>9, EndedFields DEF CompleteFailure, Running, TypeOK
  <2>. QED
    BY ZenonT(40), <1>8, <1>9, <2>1 DEF Ending
<1>10. ASSUME NEW a \in abandoning, Abandon(a)
      PROVE  [Lifecycle!Next]_(Lifecycle!lifecycleVars)
  <2>1. CASE executions' = executions
    BY Zenon, <1>1, <1>10, <2>1 DEF Abandon
  <2>2. CASE executions' # executions
    <3>1. /\ {a.job} \in SUBSET DOMAIN executions
          /\ executions[a.job].status = "running"
          /\ executions'[a.job].status = "failed"
          /\ \A j \in DOMAIN executions \ {a.job} : executions'[j] = executions[j]
          /\ UNCHANGED delivered
      BY <1>0, <1>10, <2>2, EndedFields DEF Abandon, Running, TypeOK
    <3>. QED
      BY ZenonT(40), <1>8, <1>10, <3>1 DEF Ending
  <2>. QED
    BY Zenon, <2>1, <2>2
<1>11. ASSUME RecoverStale
      PROVE  Lifecycle!Next
  <2>1. /\ Stale \in SUBSET DOMAIN executions
        /\ \A j \in Stale : executions[j].status = "running"
        /\ \A j \in DOMAIN executions \ Stale : executions'[j] = executions[j]
        /\ \A j \in Stale : executions'[j] = Ended(executions[j], "failed")
        /\ UNCHANGED delivered
    BY ZenonT(40), <1>11 DEF RecoverStale, Stale
  <2>2. \A j \in Stale : executions'[j].status = "failed"
    BY <1>0, <2>1, EndedFields DEF TypeOK
  <2>. QED
    BY Zenon, <1>8, <1>11, <2>1, <2>2 DEF Ending
<1>12. ASSUME NEW j \in DOMAIN executions, LeaseExpires(j)
      PROVE  UNCHANGED Lifecycle!lifecycleVars
  <2>1. /\ DOMAIN executions' = DOMAIN executions
        /\ \A i \in DOMAIN executions :
             /\ executions'[i].dispatch = executions[i].dispatch
             /\ executions'[i].status = executions[i].status
        /\ UNCHANGED <<accepted, delivered>>
    BY SMTT(30), <1>0, <1>12 DEF LeaseExpires, TypeOK, ExecutionRow
  <2>2. SamePhases /\ SameLeft
    BY Zenon, <2>1, PhaseStays, LeftStays DEF SamePhases, SameLeft
  <2>. QED
    BY Zenon, <2>2, StutterStep
<1>13. ASSUME NEW a \in repending, Repend(a)
      PROVE  [Lifecycle!Next]_(Lifecycle!lifecycleVars)
  <2>1. /\ a.job \in DOMAIN executions /\ a.dispatch \in Nat \ {NULL}
        /\ a.dispatch <= executions[a.job].dispatch
        /\ executions[a.job].dispatch = a.dispatch => executions[a.job].status = "failed"
        /\ \A b \in LastAttempts : b.job = a.job => b.dispatch # a.dispatch
    BY Zenon, <1>0 DEF TypeOK, Attempt, DispatchIds, FenceInv, AttemptsDispatched, Attempts,
         RependsFailed, CountInv, LastHoldsClaim
  <2>2. /\ accepted' \in {accepted, Repended(a.job, a.dispatch)}
        /\ UNCHANGED <<executions, delivered>>
    BY Zenon, <1>13 DEF Repend
  <2>3. SameLeft
    BY Zenon, <1>0, <1>l, <1>13, <2>2, RependingKeepsRows DEF Next, Repending
  <2>. QED
    BY SMTT(30), <2>1, <2>2, <2>3, RependStep
<1>14. ASSUME NEW i \in recovering, RecoverItem(i)
      PROVE  [Lifecycle!Next]_(Lifecycle!lifecycleVars)
  <2>1. UNCHANGED <<executions, delivered>>
    BY Zenon, <1>14 DEF RecoverItem
  <2>2. CASE i.repend
    <3>1. /\ i.job \in DOMAIN executions /\ i.dispatch \in Nat \ {NULL}
          /\ i.dispatch <= executions[i.job].dispatch
          /\ executions[i.job].dispatch = i.dispatch => executions[i.job].status = "failed"
          /\ \A b \in LastAttempts : b.job = i.job => b.dispatch # i.dispatch
      BY Zenon, <1>0, <2>2 DEF TypeOK, Recovered, DispatchIds, FenceInv, AttemptsDispatched,
           RependsFailed, CountInv, LastHoldsClaim
    <3>2. accepted' \in {accepted, Repended(i.job, i.dispatch)}
      BY Zenon, <1>14 DEF RecoverItem
    <3>3. SameLeft
      BY ZenonT(40), <1>0, <1>l, <1>14, <2>1, RependingKeepsRows DEF Next, Repending
    <3>. QED
      BY SMTT(30), <2>1, <3>1, <3>2, <3>3, RependStep
  <2>3. CASE ~i.repend
    BY Zenon, <1>1, <1>14, <2>1, <2>3 DEF RecoverItem
  <2>. QED
    BY Zenon, <2>2, <2>3
<1>15. ASSUME Open
      PROVE  Lifecycle!Next
  <2>1. /\ DOMAIN accepted' = DOMAIN accepted
        /\ \A j \in Orphans : accepted'[j].dispatch = NULL
        /\ \A j \in DOMAIN accepted \ Orphans : accepted'[j] = accepted[j]
        /\ UNCHANGED <<executions, delivered>>
        /\ Orphans \in SUBSET DOMAIN accepted /\ Orphans \in SUBSET JobIds
    BY Zenon, <1>0, <1>15 DEF Open, TypeOK, AcceptedRow, Orphans
  <2>2. \A j \in Orphans : Phase(j) = "claimed" /\ Phase(j)' = "pending"
    BY Zenon, <2>1, PhaseOf DEF PhaseFacts
  <2>3. \A j \in JobIds \ Orphans : Phase(j)' = Phase(j)
    BY Zenon, <2>1, PhaseStays
  <2>4. Moves(Orphans, "claimed", "pending")
    BY Zenon, <2>2, <2>3 DEF Moves
  <2>5. SameLeft
    BY Zenon, <1>l, <1>15, <2>1 DEF Next
  <2>. QED
    BY Zenon, <2>1, <2>4, <2>5, BatchStep
<1>16. ASSUME \/ UNCHANGED vars \/ Tick \/ Crash
              \/ \E c \in claims : DispatchBatchFails(c)
              \/ \E a \in delivering : ReleaseClaim(a)
      PROVE  UNCHANGED Lifecycle!lifecycleVars
  <2>1. UNCHANGED <<accepted, executions, delivered>>
    BY Zenon, <1>16 DEF vars, Tick, Crash, DispatchBatchFails, ReleaseClaim
  <2>2. SamePhases /\ SameLeft
    BY Zenon, <2>1, PhaseStays, LeftStays DEF SamePhases, SameLeft
  <2>. QED
    BY Zenon, <2>2, StutterStep
<1>17. ~CleanupAccepted /\ ~CleanupExecutions
  BY Zenon, <1>0 DEF CleanupAccepted, CleanupExecutions
<1>. QED
  BY Zenon, <1>2, <1>3, <1>4, <1>5, <1>6, <1>7, <1>9, <1>10, <1>11, <1>12, <1>13,
     <1>14, <1>15, <1>16, <1>17 DEF Next

\* Without retention the store implements the lifecycle that the engine relies
\* on: whatever claims, deliveries, results, lease recoveries, errors, crashes
\* and restarts happen, each transaction moves jobs along one edge of the
\* lifecycle or leaves all of them where they are, gives a job back only while
\* it has executions left, and never moves a completed one.
THEOREM StoreImplementsLifecycle == ~CleanupOn => (Spec => ImplementsLifecycle)
<1> SUFFICES ASSUME ~CleanupOn PROVE Spec => ImplementsLifecycle
  BY Zenon
<1>1. Init => Lifecycle!Init
  <2> SUFFICES ASSUME Init PROVE Lifecycle!Init
    BY Zenon
  <2>1. DOMAIN accepted = {}
    BY Zenon DEF Init
  <2>2. \A j \in JobIds : Phase(j) = "absent" /\ ExecutionsLeft(j) = 0
    BY Zenon, <2>1, PhaseOf DEF PhaseFacts, ExecutionsLeft
  <2>. QED
    BY Zenon, <2>2 DEF Lifecycle!Init
<1>2. FenceInv /\ CountInv /\ NewestClaims /\ FenceInv' /\ ExecutionsBounded' /\ [Next]_vars
      => [Lifecycle!Next]_(Lifecycle!lifecycleVars)
  BY Zenon, LifecycleNext
<1>. QED
  BY <1>1, <1>2, LifecycleInvariant, RetryLimit, PTL
     DEF Spec, ImplementsLifecycle, Lifecycle!Spec

=============================================================================
