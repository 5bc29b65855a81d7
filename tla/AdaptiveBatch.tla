----------------------------- MODULE AdaptiveBatch -----------------------------
(***************************************************************************)
(* The batch size both writers and the engine adapt                        *)
(* (crates/engine/src/adaptive.rs) and the rules by which                  *)
(* AdaptiveBatchController moves it after a commit                         *)
(* (crates/persistence/src/sqlite/adaptive.rs).  A controller is a record  *)
(* of the size, the DirectionStreak and low_fill_timeouts.                 *)
(*                                                                         *)
(* The measured quantities enter as what they are compared for: whether    *)
(* commits have become slower than 1.2 times their baseline (`queueing`)   *)
(* and whether requests arrive faster than full batches are committed      *)
(* (`demand`), or whether completions per second have `regressed`.  The    *)
(* waiting time of a batch is not modelled.  low_fill_timeouts saturates   *)
(* at 3 instead of 255: it is only ever compared with 3.                   *)
(***************************************************************************)
EXTENDS Integers, FiniteSets

CONSTANTS
    MinSize, MaxSize,  \* batch_size_min, batch_size_max
    ProbePercent,      \* batch_probe_factor, in percent
    BackoffPercent     \* batch_backoff_factor, in percent

\* What BatchOptions::validate accepts.
ASSUME BatchOptions ==
    /\ MinSize \in Nat \ {0} /\ MaxSize \in Nat /\ MinSize <= MaxSize
    /\ ProbePercent \in Nat /\ ProbePercent > 100
    /\ BackoffPercent \in Nat /\ BackoffPercent < 100

-----------------------------------------------------------------------------
(***************************************************************************)
(* DirectionStreak                                                         *)
(***************************************************************************)
NoStreak == [direction |-> 0, samples |-> 0]

Samples(s, direction) == IF s.direction = direction THEN s.samples + 1 ELSE 1

\* The third sample in a row confirms a direction.
Confirms(s, direction) == direction # 0 /\ Samples(s, direction) >= 3

\* Mutant of Confirm: a confirmed direction does not start a new streak.
ConfirmKeepsSamples(s, direction) ==
    [direction |-> direction,
     samples |-> IF direction = 0 THEN 0 ELSE Samples(s, direction)]

\* DirectionStreak::confirm, the streak it leaves.
Confirm(s, direction) ==
    [direction |-> direction,
     samples |-> IF direction = 0 \/ Confirms(s, direction) THEN 0
                 ELSE Samples(s, direction)]

-----------------------------------------------------------------------------
(***************************************************************************)
(* The size                                                                *)
(***************************************************************************)
Clamped(n) ==
    IF n < MinSize THEN MinSize ELSE IF n > MaxSize THEN MaxSize ELSE n

\* Mutant of Probed: the product is rounded down.
ProbedDown(n) == Clamped((n * ProbePercent) \div 100)

Probed(n) == Clamped((n * ProbePercent + 99) \div 100)

BackedOff(n) == Clamped((n * BackoffPercent) \div 100)

\* The square root of min * max, rounded: the number of steps from n - 1 to n
\* whose middle is not above it.
InitialSize ==
    Clamped(Cardinality({n \in 1..MaxSize :
                           (2 * n - 1) * (2 * n - 1) <= 4 * MinSize * MaxSize}))

\* AdaptiveBatch::observe_direction
ObserveDirection(c, direction) ==
    [c EXCEPT !.streak = Confirm(c.streak, direction),
              !.size = IF ~Confirms(c.streak, direction) THEN @
                       ELSE IF direction = 1 THEN Probed(@) ELSE BackedOff(@)]

-----------------------------------------------------------------------------
(***************************************************************************)
(* AdaptiveBatchController                                                 *)
(***************************************************************************)
Controller == [size: MinSize..MaxSize, low: 0..3,
               streak: [direction: {-1, 0, 1}, samples: 0..2]]

NewController == [size |-> InitialSize, low |-> 0, streak |-> NoStreak]

\* Commits in a row that timed out with nothing waiting and less than half
\* of the batch filled.
LowFillTimeouts(c, filled, backlog, timeout) ==
    IF ~(timeout /\ backlog = 0 /\ 2 * filled < c.size) THEN 0
    ELSE IF c.low < 3 THEN c.low + 1 ELSE 3

\* Batches that stay half empty are made smaller.
LowFilled(c) ==
    [size |-> BackedOff(c.size), low |-> 0, streak |-> Confirm(c.streak, 0)]

\* adjust_batch_size
AdjustBatchSize(c, backlog, queueing, demand) ==
    IF c.low >= 3 /\ ~queueing THEN LowFilled(c)
    ELSE ObserveDirection(c, IF queueing THEN -1
                             ELSE IF backlog > 0 \/ demand THEN 1 ELSE 0)

\* record_successful_commit
RecordCommit(c, filled, backlog, timeout, queueing, demand) ==
    AdjustBatchSize([c EXCEPT !.low = LowFillTimeouts(c, filled, backlog, timeout)],
                    backlog, queueing, demand)

\* adjust_completion_batch_size
AdjustCompletionBatchSize(c, backlog, regressed) ==
    IF c.low >= 3 /\ backlog = 0 THEN LowFilled(c)
    ELSE ObserveDirection(c, IF backlog = 0 THEN 0 ELSE IF regressed THEN -1 ELSE 1)

\* record_successful_completion_commit
RecordCompletionCommit(c, filled, backlog, timeout, regressed) ==
    AdjustCompletionBatchSize(
        [c EXCEPT !.low = LowFillTimeouts(c, filled, backlog, timeout)],
        backlog, regressed)
=============================================================================
