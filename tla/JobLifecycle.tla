---------------------------- MODULE JobLifecycle ----------------------------
(***************************************************************************)
(* What the store promises about a job, with no files, rows or fences: the *)
(* lifecycle of crates/engine/README.md.  A job is claimed, runs, and ends *)
(* completed or failed.  A failed attempt may return the job to pending,   *)
(* but only while the job still has executions left; a completed job stays *)
(* completed.  `left` counts the executions a job may still begin: a queue *)
(* with max_retries = n lets a worker run each of its jobs n + 1 times.    *)
(***************************************************************************)
EXTENDS Naturals

CONSTANTS JobIds, Queues, MaxRetries

VARIABLES phase, left

lifecycleVars == <<phase, left>>

Phases == {"absent", "pending", "claimed", "running", "completed", "failed"}

Init ==
    /\ phase = [j \in JobIds |-> "absent"]
    /\ left = [j \in JobIds |-> 0]

\* All the jobs of js move from one phase to another.
Move(js, from, to) ==
    /\ \A j \in js : phase[j] = from
    /\ phase' = [j \in JobIds |-> IF j \in js THEN to ELSE phase[j]]

Submit(j, q) ==
    /\ Move({j}, "absent", "pending")
    /\ left' = [left EXCEPT ![j] = MaxRetries[q] + 1]

Claim(js) == Move(js, "pending", "claimed") /\ UNCHANGED left

\* The claim is undone before it became an attempt.
Unclaim(js) == Move(js, "claimed", "pending") /\ UNCHANGED left

Start(js) == Move(js, "claimed", "running") /\ UNCHANGED left

\* A worker begins to execute the job, perhaps after its lease was lost.
Execute(j) ==
    /\ left[j] > 0
    /\ left' = [left EXCEPT ![j] = @ - 1]
    /\ UNCHANGED phase

Succeed(j) == Move({j}, "running", "completed") /\ UNCHANGED left

Fail(js) == Move(js, "running", "failed") /\ UNCHANGED left

Requeue(j) ==
    /\ left[j] > 0
    /\ Move({j}, "failed", "pending")
    /\ UNCHANGED left

Next ==
    \/ \E js \in SUBSET JobIds : Claim(js) \/ Unclaim(js) \/ Start(js) \/ Fail(js)
    \/ \E j \in JobIds : Execute(j) \/ Succeed(j) \/ Requeue(j)
    \/ \E j \in JobIds, q \in Queues : Submit(j, q)

Spec == Init /\ [][Next]_lifecycleVars
=============================================================================
