------------------------------ MODULE CronJobs ------------------------------
(***************************************************************************)
(* The data of the cron service and what the code computes on it, without  *)
(* any notion of task or process: nanobot/cron/types.py and the pure parts *)
(* of nanobot/cron/service.py.                                             *)
(*                                                                         *)
(* Times are positive naturals, so that None (the code tests times for     *)
(* truth, never for "is not None" except at start) is the number 0.        *)
(***************************************************************************)
EXTENDS Naturals

CONSTANTS
    Id,          \* job ids; the numbers order jobs as store.jobs does
    NoJob,       \* the entry of an id that is not in the list
    RetryDelay,  \* the 15 minutes of service.py:410
    DayLength    \* length of a calendar day

None == 0

Kinds == {"at", "every", "cron"}

\* "at" uses time as at_ms, "every" as every_ms; "cron" is the set of instants
\* its expression matches in its time zone.
Schedule == [kind : Kinds, time : Nat, ticks : SUBSET (Nat \ {0})]

Statuses == {"none", "ok", "error", "skipped", "error_fatal", "partial_success"}

Job == [sched : Schedule, deleteAfter : BOOLEAN, enabled : BOOLEAN,
        next : Nat, status : Statuses, retry : Nat]

\* The list of jobs, in memory or in jobs.json.
Store == [Id -> Job \cup {NoJob}]

ASSUME CronJobsAssumption ==
    /\ Id \subseteq Nat
    /\ NoJob \notin Job
    /\ RetryDelay \in Nat \ {0}
    /\ DayLength \in Nat \ {0}

EmptyStore == [i \in Id |-> NoJob]

Listed(store) == {i \in Id : store[i] # NoJob}

-----------------------------------------------------------------------------

MaxRetries == 1

FirstAfter(ticks, t) ==
    LET later == {x \in ticks : x > t}
    IN  IF later = {} THEN None
        ELSE CHOOSE x \in later : \A y \in later : x <= y

ComputeNextRun(sched, t) ==
    CASE sched.kind = "at"    -> IF sched.time > t THEN sched.time ELSE None
      [] sched.kind = "every" -> IF sched.time > 0 THEN t + sched.time ELSE None
      [] sched.kind = "cron"  -> FirstAfter(sched.ticks, t)

NewJob(sched, deleteAfter, t) ==
    [sched |-> sched, deleteAfter |-> deleteAfter, enabled |-> TRUE,
     next |-> ComputeNextRun(sched, t), status |-> "none", retry |-> 0]

\* enable_job: the retry counter and the status stay.
Enable(j, flag, t) ==
    [j EXCEPT !.enabled = flag,
              !.next = IF flag THEN ComputeNextRun(j.sched, t) ELSE None]

\* A job the service waits for: enabled, with a time to run at.
Pending(store, i) == store[i] # NoJob /\ store[i].enabled /\ store[i].next # None

Due(store, i, t) == Pending(store, i) /\ store[i].next <= t

PendingTimes(store) == {store[i].next : i \in {k \in Id : Pending(store, k)}}

-----------------------------------------------------------------------------
(* start(): jobs of an earlier day are not caught up.                      *)

DayStart(t) == t - (t % DayLength)

Stale(store, i, t) == Pending(store, i) /\ store[i].next < DayStart(t)

\* Mutant: no cross-day guard.
SkipStale_None(store, t) == store

SkipStale(store, t) ==
    [i \in Id |-> IF Stale(store, i, t)
                  THEN [store[i] EXCEPT !.status = "skipped",
                                        !.next = ComputeNextRun(store[i].sched, t)]
                  ELSE store[i]]

RecomputeNextRuns(store, t) ==
    [i \in Id |-> IF store[i] # NoJob /\ store[i].enabled /\ store[i].next = None
                  THEN [store[i] EXCEPT !.next = ComputeNextRun(store[i].sched, t)]
                  ELSE store[i]]

-----------------------------------------------------------------------------
(* _execute_job(): before the callback, on its outcome, after it.          *)

Disabled(j, status) == [j EXCEPT !.status = status, !.enabled = FALSE, !.next = None]

\* Mutant: every job's time is cleared before the run, to be set after it.
Advanced_Cleared(j, t) == [j EXCEPT !.next = None]

\* Mutant: the schedule moves on only after the run.
Advanced_Kept(j, t) == j

Advanced(j, t) ==
    IF j.sched.kind = "at" THEN [j EXCEPT !.enabled = FALSE, !.next = None]
    ELSE [j EXCEPT !.next = ComputeNextRun(j.sched, t)]

\* The store after the first lines of _execute_job: a one-shot job that deletes
\* itself leaves the list before it runs.  An execution holds the job object, so
\* what it does to a job that is no longer listed is not seen by anyone.
AdvanceIn(store, i, t) ==
    IF store[i] = NoJob THEN store
    ELSE [store EXCEPT ![i] = IF @.sched.kind = "at" /\ @.deleteAfter THEN NoJob
                              ELSE Advanced(@, t)]

\* A failed run: fatal past MaxRetries, otherwise an earlier retry where the
\* next regular run is further away than RetryDelay.
Failed(j, start) ==
    IF j.retry + 1 > MaxRetries
    THEN [Disabled(j, "error_fatal") EXCEPT !.retry = @ + 1]
    ELSE [j EXCEPT !.status = "error", !.retry = @ + 1,
                   !.next = IF /\ j.sched.kind # "at"
                               /\ j.next # None
                               /\ start + RetryDelay < j.next
                            THEN start + RetryDelay ELSE @]

Outcomes == {"ok", "failed", "failed_after_side_effect", "raised", "content_filter"}

WithOutcome(j, outcome, start) ==
    CASE outcome = "ok"     -> [j EXCEPT !.status = "ok", !.retry = 0]
      [] outcome = "failed" -> Failed(j, start)
      [] outcome = "failed_after_side_effect" -> Disabled(j, "partial_success")
      [] outcome = "raised" -> [j EXCEPT !.status = "error"]
      [] outcome = "content_filter" -> Disabled(j, "error_fatal")

\* The guard against busy looping: a recurring job never ends a run still due.
Settled(j, t) ==
    IF j.sched.kind # "at" /\ j.next # None /\ j.next <= t
    THEN [j EXCEPT !.next = ComputeNextRun(j.sched, t)] ELSE j

OutcomeIn(store, i, outcome, start) ==
    IF store[i] = NoJob THEN store
    ELSE [store EXCEPT ![i] = WithOutcome(@, outcome, start)]

SettledIn(store, i, t) ==
    IF store[i] = NoJob THEN store ELSE [store EXCEPT ![i] = Settled(@, t)]
=============================================================================
