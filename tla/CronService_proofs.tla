------------------------- MODULE CronService_proofs -------------------------
(***************************************************************************)
(* Proofs about CronService for any ids, times, schedules and days, with   *)
(* and without failing saves: type correctness, and that the service runs  *)
(* every job at most once for a scheduled time (refinement of CronLedger). *)
(* Next to the commands of CronCli, which write jobs.json behind its back,  *)
(* it does so between two starts.                                          *)
(***************************************************************************)
EXTENDS CronCli, WellFoundedInduction, TLAPS

-----------------------------------------------------------------------------
(* The operators of CronJobs.                                              *)

\* A nonempty set of naturals has a least element.
LEMMA LeastElement ==
    ASSUME NEW S \in SUBSET Nat, S # {}
    PROVE  \E x \in S : \A y \in S : x <= y
<1> DEFINE R == OpToRel(<, Nat)
<1>1. PICK x \in S : \A y \in S : ~ (<<y, x>> \in R)
  <2>1. IsWellFoundedOn(R, Nat)
    BY NatLessThanWellFounded
  <2> HIDE DEF R
  <2> QED
    BY <2>1, WFMin
<1>2. \A y \in S : ~ (y < x)
  BY <1>1 DEF OpToRel
<1> QED
  BY <1>2

\* The next instant of a cron expression is a later one, or there is none.
LEMMA FirstAfterIsLater ==
    ASSUME NEW ticks \in SUBSET (Nat \ {0}), NEW t \in Nat
    PROVE  /\ FirstAfter(ticks, t) \in Nat
           /\ FirstAfter(ticks, t) # None => FirstAfter(ticks, t) > t
<1> DEFINE later == {x \in ticks : x > t}
<1>1. CASE later = {}
  BY <1>1 DEF FirstAfter, None
<1>2. CASE later # {}
  <2> later \in SUBSET Nat
    OBVIOUS
  <2>1. PICK x \in later : \A y \in later : x <= y
    BY <1>2, LeastElement
  <2>2. FirstAfter(ticks, t) \in later
    BY <1>2, <2>1 DEF FirstAfter
  <2> QED
    BY <2>2
<1> QED
  BY <1>1, <1>2

\* _compute_next_run never answers a time that is not in the future.
LEMMA ComputeNextRunIsLater ==
    ASSUME NEW sched \in Schedule, NEW t \in Nat
    PROVE  /\ ComputeNextRun(sched, t) \in Nat
           /\ ComputeNextRun(sched, t) # None => ComputeNextRun(sched, t) > t
<1> DEFINE next == ComputeNextRun(sched, t)
<1>1. sched.kind \in Kinds /\ sched.time \in Nat /\ sched.ticks \in SUBSET (Nat \ {0})
  BY DEF Schedule
<1>2. CASE sched.kind = "at"
  BY <1>1, <1>2 DEF ComputeNextRun, None
<1>3. CASE sched.kind = "every"
  BY <1>1, <1>3 DEF ComputeNextRun, None
<1>4. CASE sched.kind = "cron"
  <2>1. next = FirstAfter(sched.ticks, t)
    BY <1>4 DEF ComputeNextRun
  <2> QED
    BY <1>1, <2>1, FirstAfterIsLater
<1> QED
  BY <1>1, <1>2, <1>3, <1>4 DEF Kinds

\* A job's record changes such that the job waits for the time it waited for, for
\* a time later than t, or not at all.
JobStep(old, new, t) ==
    /\ new \in Job
    /\ new.enabled /\ new.next # None =>
        new.next > t \/ (old.enabled /\ old.next = new.next)

LEMMA NewJobType ==
    ASSUME NEW sched \in Schedule, NEW d \in BOOLEAN, NEW t \in Nat
    PROVE  /\ NewJob(sched, d, t) \in Job
           /\ NewJob(sched, d, t).next # None => NewJob(sched, d, t).next > t
BY ComputeNextRunIsLater DEF NewJob, Job, Statuses

LEMMA AdvancedStep ==
    ASSUME NEW j \in Job, NEW t \in Nat
    PROVE  /\ Advanced(j, t) \in Job
           /\ Advanced(j, t).next # None => Advanced(j, t).next > t
<1>1. j.sched \in Schedule
  BY DEF Job
<1> QED
  BY <1>1, ComputeNextRunIsLater DEF Advanced, Job, None

LEMMA DisabledStep ==
    ASSUME NEW j \in Job, NEW status \in Statuses
    PROVE  Disabled(j, status) \in Job /\ ~ Disabled(j, status).enabled
BY DEF Disabled, Job, None

\* A failed run disables the job, or leaves its next time, or sets a retry later
\* than the start of the run.
LEMMA FailedStep ==
    ASSUME NEW j \in Job, NEW start \in Nat
    PROVE  JobStep(j, Failed(j, start), start)
<1>1. CASE j.retry + 1 > MaxRetries
  <2> DEFINE d == Disabled(j, "error_fatal")
  <2>1. d \in Job /\ ~ d.enabled
    BY DisabledStep DEF Statuses
  <2>2. Failed(j, start) = [d EXCEPT !.retry = d.retry + 1]
    BY <1>1 DEF Failed
  <2> HIDE DEF d
  <2>3. Failed(j, start) \in Job /\ ~ Failed(j, start).enabled
    BY <2>1, <2>2 DEF Job
  <2> QED
    BY <2>3 DEF JobStep
<1>2. CASE ~ (j.retry + 1 > MaxRetries)
  <2> DEFINE next == IF j.sched.kind # "at" /\ j.next # None /\ start + RetryDelay < j.next
                     THEN start + RetryDelay ELSE j.next
  <2>1. next \in Nat /\ (next = j.next \/ next > start)
    BY CronJobsAssumption DEF Job
  <2>2. Failed(j, start) = [j EXCEPT !.status = "error", !.retry = j.retry + 1, !.next = next]
    BY <1>2 DEF Failed
  <2> HIDE DEF next
  <2>3. Failed(j, start) \in Job
    <3> DEFINE r == j.retry + 1
    <3>1. r \in Nat
      BY DEF Job
    <3> HIDE DEF r
    <3>2. [j EXCEPT !.status = "error", !.retry = r, !.next = next] \in Job
      BY <2>1, <3>1 DEF Job, Statuses
    <3> QED
      BY <2>2, <3>2 DEF r
  <2>4. Failed(j, start).next = next /\ Failed(j, start).enabled = j.enabled
    BY <2>2 DEF Job
  <2> QED
    BY <2>1, <2>3, <2>4 DEF JobStep
<1> QED
  BY <1>1, <1>2

LEMMA WithOutcomeStep ==
    ASSUME NEW j \in Job, NEW o \in Outcomes, NEW start \in Nat
    PROVE  JobStep(j, WithOutcome(j, o, start), start)
<1>1. CASE o = "ok"
  BY <1>1 DEF WithOutcome, JobStep, Job, Statuses
<1>2. CASE o = "failed"
  BY <1>2, FailedStep DEF WithOutcome
<1>3. CASE o = "failed_after_side_effect"
  BY <1>3, DisabledStep DEF WithOutcome, JobStep, Statuses
<1>4. CASE o = "raised"
  BY <1>4 DEF WithOutcome, JobStep, Job, Statuses
<1>5. CASE o = "content_filter"
  BY <1>5, DisabledStep DEF WithOutcome, JobStep, Statuses
<1> QED
  BY <1>1, <1>2, <1>3, <1>4, <1>5 DEF Outcomes

LEMMA SettledStep ==
    ASSUME NEW j \in Job, NEW t \in Nat
    PROVE  JobStep(j, Settled(j, t), t)
<1>1. j.sched \in Schedule
  BY DEF Job
<1> QED
  BY <1>1, ComputeNextRunIsLater DEF Settled, JobStep, Job, None

LEMMA DayStartBounds ==
    ASSUME NEW t \in Nat
    PROVE  DayStart(t) \in Nat /\ DayStart(t) <= t
BY CronJobsAssumption DEF DayStart

LEMMA WakeTimeType ==
    ASSUME NEW store \in Store, now \in Nat
    PROVE  WakeTime(store) \in Nat
<1> DEFINE early == {w \in PendingTimes(store) : w < now + MaxSleep}
<1> USE CronServiceAssumption
<1>1. early \in SUBSET Nat
  BY DEF PendingTimes, Pending, Store, Job
<1>2. CASE early = {}
  BY <1>2 DEF WakeTime
<1>3. CASE early # {}
  <2>1. PICK w \in early : \A v \in early : w <= v
    BY <1>1, <1>3, LeastElement
  <2>2. (CHOOSE x \in early : \A v \in early : x <= v) \in early
    BY <2>1
  <2> QED
    BY <1>1, <1>3, <2>2 DEF WakeTime
<1> QED
  BY <1>2, <1>3

-----------------------------------------------------------------------------
(* Stores.                                                                 *)

\* The same for a whole list: no job gets to wait for a time up to t that it did
\* not wait for.
StoreStep(old, new, t) ==
    /\ new \in Store
    /\ \A i \in Id : Pending(new, i) =>
        new[i].next > t \/ (Pending(old, i) /\ old[i].next = new[i].next)

\* One job of the list changes.
LEMMA UpdateStep ==
    ASSUME NEW store \in Store, NEW i \in Id, NEW j, NEW t \in Nat,
           store[i] # NoJob, JobStep(store[i], j, t)
    PROVE  StoreStep(store, [store EXCEPT ![i] = j], t)
BY DEF StoreStep, JobStep, Store, Pending

\* A job joins the list or leaves it.
LEMMA PutStep ==
    ASSUME NEW store \in Store, NEW i \in Id, NEW j \in Job \cup {NoJob}, NEW t \in Nat,
           j # NoJob /\ j.next # None => j.next > t
    PROVE  StoreStep(store, [store EXCEPT ![i] = j], t)
BY DEF StoreStep, Store, Pending

LEMMA AdvanceInStep ==
    ASSUME NEW store \in Store, NEW i \in Id, NEW t \in Nat
    PROVE  /\ StoreStep(store, AdvanceIn(store, i, t), t)
           /\ Pending(AdvanceIn(store, i, t), i) => AdvanceIn(store, i, t)[i].next > t
<1>1. CASE store[i] = NoJob
  BY <1>1 DEF AdvanceIn, StoreStep, Pending
<1>2. CASE store[i] # NoJob
  <2>1. store[i] \in Job
    BY <1>2 DEF Store
  <2> PICK j \in {NoJob, Advanced(store[i], t)} : AdvanceIn(store, i, t) = [store EXCEPT ![i] = j]
    BY <1>2 DEF AdvanceIn
  <2>2. j \in Job \cup {NoJob} /\ (j # NoJob /\ j.next # None => j.next > t)
    BY <2>1, AdvancedStep
  <2>3. StoreStep(store, [store EXCEPT ![i] = j], t)
    BY <2>2, PutStep
  <2> QED
    BY <2>2, <2>3 DEF Store, Pending
<1> QED
  BY <1>1, <1>2

LEMMA OutcomeInStep ==
    ASSUME NEW store \in Store, NEW i \in Id, NEW o \in Outcomes, NEW start \in Nat
    PROVE  StoreStep(store, OutcomeIn(store, i, o, start), start)
<1>1. CASE store[i] = NoJob
  BY <1>1 DEF OutcomeIn, StoreStep
<1>2. CASE store[i] # NoJob
  <2>1. JobStep(store[i], WithOutcome(store[i], o, start), start)
    BY <1>2, WithOutcomeStep DEF Store
  <2> QED
    BY <1>2, <2>1, UpdateStep DEF OutcomeIn
<1> QED
  BY <1>1, <1>2

LEMMA SettledInStep ==
    ASSUME NEW store \in Store, NEW i \in Id, NEW t \in Nat
    PROVE  StoreStep(store, SettledIn(store, i, t), t)
<1>1. CASE store[i] = NoJob
  BY <1>1 DEF SettledIn, StoreStep
<1>2. CASE store[i] # NoJob
  <2>1. JobStep(store[i], Settled(store[i], t), t)
    BY <1>2, SettledStep DEF Store
  <2> QED
    BY <1>2, <2>1, UpdateStep DEF SettledIn
<1> QED
  BY <1>1, <1>2

\* After start no job waits for a time before midnight.
LEMMA SkipStaleStep ==
    ASSUME NEW store \in Store, NEW t \in Nat
    PROVE  /\ StoreStep(store, SkipStale(store, t), t)
           /\ \A i \in Id : Pending(SkipStale(store, t), i) =>
                SkipStale(store, t)[i].next >= DayStart(t)
<1> DEFINE new == SkipStale(store, t)
<1>1. \A i \in Id : Stale(store, i, t) =>
        /\ new[i] \in Job
        /\ new[i].next # None => new[i].next > t
  <2> SUFFICES ASSUME NEW i \in Id, Stale(store, i, t)
               PROVE  /\ new[i] \in Job
                      /\ new[i].next # None => new[i].next > t
    OBVIOUS
  <2>1. store[i] \in Job /\ store[i].sched \in Schedule
    BY DEF Stale, Pending, Store, Job
  <2> DEFINE next == ComputeNextRun(store[i].sched, t)
  <2>2. new[i] = [store[i] EXCEPT !.status = "skipped", !.next = next]
    BY DEF SkipStale
  <2>3. next \in Nat /\ (next # None => next > t)
    BY <2>1, ComputeNextRunIsLater
  <2> HIDE DEF next, new
  <2> QED
    BY <2>1, <2>2, <2>3 DEF Job, Statuses
<1>2. \A i \in Id : ~ Stale(store, i, t) => new[i] = store[i]
  BY DEF SkipStale
<1>3. new \in Store
  BY <1>1, <1>2 DEF Store, SkipStale
<1> HIDE DEF new
<1>4. StoreStep(store, new, t)
  BY <1>1, <1>2, <1>3 DEF StoreStep, Pending
<1>5. \A i \in Id : Pending(new, i) => new[i].next >= DayStart(t)
  <2> SUFFICES ASSUME NEW i \in Id, Pending(new, i)
               PROVE  new[i].next >= DayStart(t)
    OBVIOUS
  <2>1. new[i].next \in Nat /\ DayStart(t) \in Nat /\ DayStart(t) <= t
    BY <1>3, DayStartBounds DEF Pending, Store, Job
  <2> QED
    BY <1>1, <1>2, <2>1 DEF Stale, Pending
<1> QED
  BY <1>4, <1>5 DEF new

LEMMA RecomputeNextRunsStep ==
    ASSUME NEW store \in Store, NEW t \in Nat
    PROVE  StoreStep(store, RecomputeNextRuns(store, t), t)
<1> DEFINE new == RecomputeNextRuns(store, t)
           Lost(i) == store[i] # NoJob /\ store[i].enabled /\ store[i].next = None
<1>1. \A i \in Id : Lost(i) =>
        /\ new[i] \in Job
        /\ new[i].next # None => new[i].next > t
  <2> SUFFICES ASSUME NEW i \in Id, Lost(i)
               PROVE  /\ new[i] \in Job
                      /\ new[i].next # None => new[i].next > t
    OBVIOUS
  <2>1. store[i] \in Job /\ store[i].sched \in Schedule
    BY DEF Store, Job
  <2>2. new[i] = [store[i] EXCEPT !.next = ComputeNextRun(store[i].sched, t)]
    BY DEF RecomputeNextRuns
  <2> QED
    BY <2>1, <2>2, ComputeNextRunIsLater DEF Job
<1>2. \A i \in Id : ~ Lost(i) => new[i] = store[i]
  BY DEF RecomputeNextRuns
<1>3. new \in Store
  BY <1>1, <1>2 DEF Store, RecomputeNextRuns
<1> HIDE DEF new, Lost
<1>4. StoreStep(store, new, t)
  BY <1>1, <1>2, <1>3 DEF StoreStep, Pending
<1> QED
  BY <1>4 DEF new

-----------------------------------------------------------------------------
(* The inductive invariant.  SlotsAhead alone is not inductive: the jobs a *)
(* tick has collected carry their slot with them, and a retry is computed  *)
(* from the start of the run, so both must be related to what has run.     *)

Ahead(store) == \A i \in Id : Pending(store, i) => store[i].next > lastSlot[i]
OfToday(store) == \A i \in Id : Pending(store, i) => store[i].next >= bootDay

\* Everything recorded so far is in the past of t.
PastOf(t) == bootDay <= t /\ \A i \in Id : lastSlot[i] <= t

RunStarted == Running => task.cur \in Id /\ PastOf(task.start)

DueAhead ==
    \A i \in Id : Queued(i) =>
        task.due[i] > lastSlot[i] /\ task.due[i] >= bootDay /\ task.due[i] <= now

IInv ==
    /\ TypeOK
    /\ PastOf(now)
    /\ RunStarted
    /\ DueAhead
    /\ Ahead(mem) /\ OfToday(mem)
    /\ Ahead(disk)

LEMMA StepKeepsAhead ==
    ASSUME TypeOK, NEW old \in Store, NEW new, NEW t \in Nat,
           StoreStep(old, new, t), PastOf(t)
    PROVE  /\ Ahead(old) => Ahead(new)
           /\ OfToday(old) => OfToday(new)
<1>1. /\ bootDay \in Nat
      /\ \A i \in Id : lastSlot[i] \in Nat
      /\ \A i \in Id : Pending(new, i) => new[i].next \in Nat
  BY DEF TypeOK, StoreStep, Store, Pending, Job
<1> QED
  BY <1>1 DEF StoreStep, PastOf, Ahead, OfToday

LEMMA IdleType ==
    ASSUME NEW pc \in PCs
    PROVE  /\ Idle(pc) \in Task
           /\ Idle(pc).pc = pc
           /\ \A i \in Id : Idle(pc).due[i] = None
BY DEF Idle, Task, NoDue, None

\* An armed timer carries no work.
LEMMA ArmStep ==
    ASSUME NEW store \in Store, now \in Nat, Arm(store)
    PROVE  /\ task' \in Task
           /\ task'.pc = "sleeping"
           /\ \A i \in Id : task'.due[i] = None
<1> DEFINE w == WakeTime(store)
<1>1. w \in Nat
  BY WakeTimeType
<1>2. task' = [Idle("sleeping") EXCEPT !.wake = w]
  BY DEF Arm
<1> HIDE DEF w
<1> QED
  BY <1>1, <1>2, IdleType DEF Task, PCs

LEMMA EmptyStoreStep ==
    EmptyStore \in Store /\ Ahead(EmptyStore) /\ OfToday(EmptyStore)
BY DEF EmptyStore, Store, Ahead, OfToday, Pending

LEMMA InitInv == Init => IInv
<1> SUFFICES ASSUME Init PROVE IInv
  OBVIOUS
<1> USE DEF Init
<1>1. TypeOK
  BY EmptyStoreStep, IdleType DEF TypeOK, PCs
<1>2. RunStarted /\ DueAhead
  BY IdleType DEF RunStarted, Running, DueAhead, Queued, PCs
<1>3. PastOf(now)
  BY DEF PastOf
<1> QED
  BY <1>1, <1>2, <1>3, EmptyStoreStep DEF IInv

-----------------------------------------------------------------------------
(* Every action keeps it.                                                  *)

LEMMA SeedJobInv ==
    ASSUME IInv, NEW sched \in Schedules, SeedJob(sched)
    PROVE  IInv'
<1> USE DEF IInv
<1>1. PICK i \in fresh :
        /\ fresh' = fresh \ {i}
        /\ disk' = [disk EXCEPT ![i] = NewJob(sched, FALSE, now)]
  BY DEF SeedJob, SaveOK
<1>2. sched \in Schedule /\ now \in Nat /\ disk \in Store /\ i \in Id
  BY CronServiceAssumption DEF TypeOK
<1>3. StoreStep(disk, disk', now)
  BY <1>1, <1>2, NewJobType, PutStep
<1>4. UNCHANGED <<now, mem, task, alerted, lastSlot, bootDay>>
  BY DEF SeedJob
<1>5. TypeOK'
  BY <1>1, <1>3, <1>4 DEF TypeOK, StoreStep
<1>6. Ahead(disk')
  BY <1>2, <1>3, StepKeepsAhead
<1> QED
  BY <1>4, <1>5, <1>6
     DEF PastOf, RunStarted, Running, DueAhead, Queued, Ahead, OfToday

LEMMA StartInv ==
    ASSUME IInv, Start
    PROVE  IInv'
<1> USE DEF IInv
<1>1. now \in Nat /\ disk \in Store /\ DayStart(now) \in Nat /\ DayStart(now) <= now
  BY DayStartBounds DEF TypeOK
<1>2. /\ StoreStep(disk, disk', now)
      /\ \A i \in Id : Pending(disk', i) => disk'[i].next >= DayStart(now)
  BY <1>1, SkipStaleStep DEF Start
<1>3. disk' \in Store
  BY <1>2 DEF StoreStep
<1>4. StoreStep(disk', mem', now)
  BY <1>1, <1>3, RecomputeNextRunsStep DEF Start
<1>5. mem' \in Store
  BY <1>4 DEF StoreStep
<1>6. task' \in Task /\ task'.pc = "sleeping" /\ \A i \in Id : task'.due[i] = None
  BY <1>1, <1>5, ArmStep DEF Start
<1>7. Ahead(disk') /\ Ahead(mem')
  BY <1>1, <1>2, <1>3, <1>4, StepKeepsAhead
<1>8. bootDay' = DayStart(now) /\ UNCHANGED <<now, fresh, alerted, lastSlot>>
  BY DEF Start
<1>9. TypeOK'
  BY <1>1, <1>3, <1>5, <1>6, <1>8 DEF TypeOK
<1>10. OfToday(mem)'
  BY <1>1, <1>2, <1>4, <1>5, <1>8 DEF OfToday, StoreStep, Store, Pending, Job
<1>11. Ahead(disk)' /\ Ahead(mem)'
  BY <1>7, <1>8 DEF Ahead
<1>12. PastOf(now)'
  BY <1>1, <1>8 DEF PastOf
<1>13. RunStarted' /\ DueAhead'
  BY <1>6 DEF RunStarted, Running, DueAhead, Queued
<1> QED
  BY <1>9, <1>10, <1>11, <1>12, <1>13

LEMMA GoDownInv ==
    ASSUME IInv, GoDown
    PROVE  IInv'
<1> USE DEF IInv, GoDown
<1>1. task' \in Task /\ task'.pc = "down" /\ \A i \in Id : task'.due[i] = None
  BY IdleType DEF PCs
<1>2. TypeOK'
  BY <1>1, EmptyStoreStep DEF TypeOK
<1>3. RunStarted' /\ DueAhead'
  BY <1>1 DEF RunStarted, Running, DueAhead, Queued
<1>4. Ahead(mem)' /\ OfToday(mem)'
  BY DEF EmptyStore, Ahead, OfToday, Pending
<1> QED
  BY <1>2, <1>3, <1>4 DEF PastOf, Ahead

LEMMA TickInv ==
    ASSUME IInv, Tick
    PROVE  IInv'
<1> USE DEF IInv, Tick
<1>1. TypeOK'
  BY DEF TypeOK
<1>2. PastOf(now)'
  BY DEF TypeOK, PastOf
<1>3. DueAhead'
  BY DEF TypeOK, Task, DueAhead, Queued
<1> QED
  BY <1>1, <1>2, <1>3 DEF RunStarted, Running, PastOf, Ahead, OfToday

LEMMA WakeInv ==
    ASSUME IInv, Wake
    PROVE  IInv'
<1> USE DEF IInv
<1>1. DueJobs \in [Id -> Nat]
  BY DEF DueJobs, Due, Pending, TypeOK, Store, Job, None
<1>2. /\ task' \in Task
      /\ task'.pc = "dispatch"
      /\ task'.due = DueJobs
  BY <1>1, IdleType DEF Wake, Task, PCs
<1>3. UNCHANGED <<now, fresh, mem, disk, alerted, lastSlot, bootDay>>
  BY DEF Wake
<1>4. TypeOK'
  BY <1>2, <1>3 DEF TypeOK
<1>5. RunStarted'
  BY <1>2 DEF RunStarted, Running
<1>6. DueAhead'
  BY <1>2, <1>3 DEF DueAhead, Queued, DueJobs, Due, Ahead, OfToday
<1> QED
  BY <1>3, <1>4, <1>5, <1>6 DEF PastOf, Ahead, OfToday

\* The schedule of a taken job moves past the time it runs for, and past now.
LEMMA BeginInv ==
    ASSUME IInv, NEW i \in Id, Begin(i)
    PROVE  IInv'
<1> USE DEF IInv
<1>1. /\ now \in Nat /\ mem \in Store
      /\ task.due[i] \in Nat /\ task.due[i] <= now /\ task.due[i] > lastSlot[i]
      /\ task.due[i] >= bootDay
  BY DEF TypeOK, Task, DueAhead, Begin
<1>2. /\ StoreStep(mem, mem', now)
      /\ Pending(mem', i) => mem'[i].next > now
  BY <1>1, AdvanceInStep DEF Begin
<1>3. /\ lastSlot' = [lastSlot EXCEPT ![i] = task.due[i]]
      /\ disk' = mem'
      /\ alerted' = alerted \ {i}
      /\ UNCHANGED <<now, fresh, bootDay>>
  BY DEF Begin, SaveOK
<1>4. /\ task' \in Task
      /\ task'.cur = i /\ task'.start = now
      /\ task'.due = [task.due EXCEPT ![i] = None]
  <2> DEFINE due == [task.due EXCEPT ![i] = None]
  <2>1. task \in Task /\ due \in [Id -> Nat] /\ i \in Nat
    BY CronJobsAssumption DEF TypeOK, Task, None
  <2>2. task' = [task EXCEPT !.pc = "running", !.due = due, !.cur = i, !.start = now]
    BY DEF Begin
  <2> HIDE DEF due
  <2>3. task' \in Task /\ task'.cur = i /\ task'.start = now /\ task'.due = due
    BY <1>1, <2>1, <2>2 DEF Task, PCs
  <2> QED
    BY <2>3 DEF due
<1>5. TypeOK'
  BY <1>1, <1>2, <1>3, <1>4 DEF TypeOK, StoreStep
<1>6. PastOf(now)'
  BY <1>1, <1>3 DEF PastOf, TypeOK
<1>7. RunStarted'
  BY <1>3, <1>4, <1>6 DEF RunStarted, PastOf
<1>8. DueAhead'
  BY <1>3, <1>4 DEF DueAhead, Queued, TypeOK, Task
<1>9. Ahead(mem) => Ahead(mem')
  BY <1>1, <1>2, StepKeepsAhead
<1>10. Ahead(mem)'
  <2> SUFFICES ASSUME NEW k \in Id, Pending(mem', k)
               PROVE  mem'[k].next > lastSlot'[k]
    BY DEF Ahead
  <2>1. mem'[k].next \in Nat
    BY <1>2 DEF StoreStep, Store, Pending, Job
  <2>2. CASE k = i
    BY <1>1, <1>2, <1>3, <2>1, <2>2 DEF TypeOK
  <2>3. CASE k # i
    BY <1>3, <1>9, <2>3 DEF Ahead, TypeOK
  <2> QED
    BY <2>2, <2>3
<1>11. OfToday(mem)'
  <2>1. OfToday(mem')
    BY <1>1, <1>2, StepKeepsAhead
  <2> QED
    BY <1>3, <2>1 DEF OfToday
<1> QED
  BY <1>3, <1>5, <1>6, <1>7, <1>8, <1>10, <1>11 DEF Ahead

\* A step of the timer task after which it carries no work, or the work it had.
LEMMA QuietTaskInv ==
    ASSUME IInv, task' \in Task,
           task'.pc \notin {"running", "notifying"}, task'.due \in {NoDue, task.due},
           UNCHANGED <<now, bootDay, lastSlot>>
    PROVE  RunStarted' /\ DueAhead' /\ PastOf(now)'
BY DEF IInv, RunStarted, Running, DueAhead, Queued, NoDue, PastOf

LEMMA BeginRaisesInv ==
    ASSUME IInv, NEW i \in Id, BeginRaises(i)
    PROVE  IInv'
<1> USE DEF IInv
<1>1. now \in Nat /\ mem \in Store
  BY DEF TypeOK
<1>2. StoreStep(mem, mem', now)
  BY <1>1, AdvanceInStep DEF BeginRaises
<1>3. Ahead(mem') /\ OfToday(mem')
  BY <1>1, <1>2, StepKeepsAhead
<1>4. UNCHANGED <<now, fresh, disk, alerted, lastSlot, bootDay>>
  BY DEF BeginRaises, SaveRaises
<1>5. task' \in Task /\ task'.pc = "dead" /\ task'.due = NoDue
  BY IdleType DEF BeginRaises, PCs, Idle
<1>6. TypeOK'
  BY <1>2, <1>4, <1>5 DEF TypeOK, StoreStep
<1> QED
  BY <1>3, <1>4, <1>5, <1>6, QuietTaskInv DEF Ahead, OfToday

\* The end of a run keeps the invariant, from a list that differs from mem by what
\* the outcome did.
LEMMA FinishInv ==
    ASSUME IInv, NEW store \in Store, Ahead(store), OfToday(store),
           task.cur \in Id, Finish(store),
           UNCHANGED <<now, fresh, lastSlot, bootDay>>, alerted' \subseteq Id
    PROVE  IInv'
<1> USE DEF IInv
<1>1. now \in Nat
  BY DEF TypeOK
<1>2. StoreStep(store, mem', now)
  BY <1>1, SettledInStep DEF Finish
<1>3. Ahead(mem') /\ OfToday(mem')
  BY <1>1, <1>2, StepKeepsAhead
<1>4. disk' \in {disk, mem'}
  BY DEF Finish, SaveOK, SaveRaises
<1>5. task' \in Task /\ task'.pc \in {"dead", "dispatch"} /\ task'.due \in {NoDue, task.due}
  <2>1. CASE task' = [task EXCEPT !.pc = "dispatch", !.cur = 0, !.start = 0]
    BY <2>1 DEF TypeOK, Task, PCs
  <2>2. CASE task' = Idle("dead")
    BY <2>2, IdleType DEF PCs, Idle
  <2> QED
    BY <2>1, <2>2 DEF Finish
<1>6. TypeOK'
  BY <1>2, <1>4, <1>5 DEF TypeOK, StoreStep
<1>7. RunStarted' /\ DueAhead' /\ PastOf(now)'
  BY <1>5, QuietTaskInv
<1> QED
  BY <1>3, <1>4, <1>6, <1>7 DEF Ahead, OfToday

\* What an outcome does to the list, before the end of the run.
LEMMA OutcomeAhead ==
    ASSUME IInv, Running, NEW o \in Outcomes
    PROVE  /\ Outcome(o) \in Store
           /\ Ahead(Outcome(o)) /\ OfToday(Outcome(o))
<1> USE DEF IInv
<1>1. task.cur \in Id /\ task.start \in Nat /\ PastOf(task.start) /\ mem \in Store
  BY DEF RunStarted, TypeOK, Task
<1>2. StoreStep(mem, Outcome(o), task.start)
  BY <1>1, OutcomeInStep DEF Outcome
<1> QED
  BY <1>1, <1>2, StepKeepsAhead DEF StoreStep

LEMMA SucceedInv ==
    ASSUME IInv, Succeed
    PROVE  IInv'
<1>1. Running /\ task.cur \in Id
  BY DEF IInv, RunStarted, Running, Succeed, AtPC
<1>2. Outcome("ok") \in Store /\ Ahead(Outcome("ok")) /\ OfToday(Outcome("ok"))
  BY <1>1, OutcomeAhead DEF Outcomes
<1> QED
  BY <1>1, <1>2, FinishInv DEF Succeed, IInv, TypeOK

LEMMA FailInv ==
    ASSUME IInv, NEW o \in Outcomes, Fail(o)
    PROVE  IInv'
<1> USE DEF IInv
<1>1. Running
  BY DEF Running, Fail, AtPC
<1>2. mem' \in Store /\ Ahead(mem') /\ OfToday(mem')
  BY <1>1, OutcomeAhead DEF Fail
<1>3. /\ task' \in Task
      /\ task'.due = task.due /\ task'.cur = task.cur /\ task'.start = task.start
  BY DEF Fail, TypeOK, Task, PCs
<1>4. UNCHANGED <<now, fresh, disk, alerted, lastSlot, bootDay>>
  BY DEF Fail
<1>5. TypeOK'
  BY <1>2, <1>3, <1>4 DEF TypeOK
<1>6. RunStarted'
  BY <1>1, <1>3, <1>4 DEF RunStarted, PastOf
<1>7. DueAhead' /\ PastOf(now)'
  BY <1>3, <1>4 DEF DueAhead, Queued, PastOf
<1> QED
  BY <1>2, <1>4, <1>5, <1>6, <1>7 DEF Ahead, OfToday

LEMMA NotifiedInv ==
    ASSUME IInv, Notified
    PROVE  IInv'
<1>1. task.cur \in Id
  BY DEF IInv, RunStarted, Running, Notified, AtPC
<1>2. alerted' \subseteq Id
  BY <1>1 DEF IInv, TypeOK, Notified
<1> QED
  BY <1>1, <1>2, FinishInv DEF Notified, IInv, TypeOK

LEMMA RearmInv ==
    ASSUME IInv, Rearm
    PROVE  IInv'
<1> USE DEF IInv
<1>1. task' \in Task /\ task'.pc = "sleeping" /\ \A i \in Id : task'.due[i] = None
  BY ArmStep DEF Rearm, TypeOK
<1>2. UNCHANGED <<now, fresh, mem, disk, alerted, lastSlot, bootDay>>
  BY DEF Rearm
<1>3. TypeOK' /\ RunStarted' /\ DueAhead'
  BY <1>1, <1>2 DEF TypeOK, RunStarted, Running, DueAhead, Queued
<1> QED
  BY <1>2, <1>3 DEF PastOf, Ahead, OfToday

\* A call of a turn: the list changes, and either it is saved and the timer armed
\* anew, or the save raises and the timer goes on.
LEMMA CallInv ==
    ASSUME IInv, StoreStep(mem, mem', now), fresh' \subseteq Id,
           (disk' = mem' /\ Arm(mem')) \/ (disk' = disk /\ task' = task),
           UNCHANGED <<now, alerted, lastSlot, bootDay>>
    PROVE  IInv'
<1> USE DEF IInv
<1>1. now \in Nat /\ mem \in Store /\ mem' \in Store
  BY DEF TypeOK, StoreStep
<1>2. Ahead(mem') /\ OfToday(mem')
  BY <1>1, StepKeepsAhead
<1>3. disk' \in {disk, mem'}
  OBVIOUS
<1>4. task' \in Task /\ RunStarted' /\ DueAhead'
  <2>1. CASE Arm(mem')
    <3>1. task' \in Task /\ task'.pc = "sleeping" /\ \A i \in Id : task'.due[i] = None
      BY <1>1, <2>1, ArmStep
    <3> QED
      BY <3>1 DEF RunStarted, Running, DueAhead, Queued
  <2>2. CASE UNCHANGED task
    BY <2>2 DEF RunStarted, Running, DueAhead, Queued, PastOf, TypeOK
  <2> QED
    BY <2>1, <2>2
<1>5. TypeOK'
  BY <1>1, <1>3, <1>4 DEF TypeOK
<1> QED
  BY <1>2, <1>3, <1>4, <1>5 DEF PastOf, Ahead, OfToday

LEMMA AddJobInv ==
    ASSUME IInv, NEW sched \in Schedules, NEW d \in BOOLEAN, AddJob(sched, d)
    PROVE  IInv'
<1>1. PICK i \in fresh :
        fresh' = fresh \ {i} /\ mem' = [mem EXCEPT ![i] = NewJob(sched, d, now)]
  BY DEF AddJob
<1>2. sched \in Schedule /\ now \in Nat /\ mem \in Store /\ i \in Id /\ fresh' \subseteq Id
  BY <1>1, CronServiceAssumption DEF IInv, TypeOK
<1>3. StoreStep(mem, mem', now)
  BY <1>1, <1>2, NewJobType, PutStep
<1>4. (disk' = mem' /\ Arm(mem')) \/ (disk' = disk /\ task' = task)
  BY DEF AddJob, SaveOK, SaveRaises
<1>5. UNCHANGED <<now, alerted, lastSlot, bootDay>>
  BY DEF AddJob
<1> QED
  BY <1>2, <1>3, <1>4, <1>5, CallInv

LEMMA RemoveJobInv ==
    ASSUME IInv, NEW i \in Id, RemoveJob(i)
    PROVE  IInv'
<1>1. now \in Nat /\ mem \in Store /\ fresh' \subseteq Id
  BY DEF IInv, TypeOK, RemoveJob
<1>2. StoreStep(mem, mem', now)
  BY <1>1, PutStep DEF RemoveJob
<1>3. (disk' = mem' /\ Arm(mem')) \/ (disk' = disk /\ task' = task)
  BY DEF RemoveJob, SaveOK, SaveRaises
<1>5. UNCHANGED <<now, alerted, lastSlot, bootDay>>
  BY DEF RemoveJob
<1> QED
  BY <1>1, <1>2, <1>3, <1>5, CallInv

LEMMA NextInv == IInv /\ [Next]_vars => IInv'
<1> SUFFICES ASSUME IInv, [Next]_vars PROVE IInv'
  OBVIOUS
<1>1. CASE Start \/ Stop \/ Crash \/ Tick
  BY <1>1, StartInv, GoDownInv, TickInv DEF Stop, Crash
<1>2. CASE TimerStep
  BY <1>2, WakeInv, BeginInv, BeginRaisesInv, RearmInv DEF TimerStep
<1>3. CASE JobReturns \/ Notified
  BY <1>3, SucceedInv, FailInv, NotifiedInv DEF JobReturns
<1>4. CASE \E sched \in Schedules : SeedJob(sched)
  BY <1>4, SeedJobInv
<1>5. CASE \E sched \in Schedules, d \in BOOLEAN : AddJob(sched, d)
  BY <1>5, AddJobInv
<1>6. CASE \E i \in Id : RemoveJob(i)
  BY <1>6, RemoveJobInv
<1>7. CASE UNCHANGED vars
  BY <1>7 DEF vars, IInv, TypeOK, PastOf, RunStarted, Running, DueAhead, Queued,
              Ahead, OfToday
<1> QED
  BY <1>1, <1>2, <1>3, <1>4, <1>5, <1>6, <1>7 DEF Next

LEMMA InductiveInvariant == Spec => []IInv
BY InitInv, NextInv, PTL DEF Spec

-----------------------------------------------------------------------------
(* Jobs that were given up, and jobs that go on forever.  The two go       *)
(* together: every operator that disables a job also clears its time, and  *)
(* no other may do the one or the other.                                   *)

\* What both properties say of a single job.
Sound(j) ==
    /\ GaveUp(j) => ~ j.enabled
    /\ j.enabled /\ Endless(j.sched) => j.next # None

AllSound(store) == \A i \in Id : store[i] # NoJob => Sound(store[i])

\* While the clock is within its bound an endless schedule has a next time.
LEMMA EndlessHasNext ==
    ASSUME NEW sched \in Schedule, NEW t \in Nat, t <= MaxTime, Endless(sched)
    PROVE  ComputeNextRun(sched, t) # None
<1>1. sched.kind \in Kinds /\ sched.time \in Nat /\ sched.ticks \in SUBSET (Nat \ {0})
  BY DEF Schedule
<1>2. CASE sched.kind = "every"
  BY <1>1, <1>2 DEF ComputeNextRun, Endless, None
<1>3. CASE sched.kind = "cron"
  <2> DEFINE later == {x \in sched.ticks : x > t}
  <2>1. PICK z \in sched.ticks : z > MaxTime
    BY <1>3 DEF Endless
  <2>2. later \in SUBSET Nat /\ z \in later
    BY <1>1, <2>1, CronServiceAssumption
  <2>3. PICK x \in later : \A y \in later : x <= y
    BY <2>2, LeastElement
  <2>4. FirstAfter(sched.ticks, t) \in later
    BY <2>2, <2>3 DEF FirstAfter
  <2> QED
    BY <1>1, <1>3, <2>4 DEF ComputeNextRun, None
<1> QED
  BY <1>2, <1>3 DEF Endless

LEMMA NewJobSound ==
    ASSUME NEW sched \in Schedule, NEW d \in BOOLEAN, NEW t \in Nat, t <= MaxTime
    PROVE  Sound(NewJob(sched, d, t))
BY EndlessHasNext DEF Sound, NewJob, GaveUp, MaxRetries

LEMMA AdvancedSound ==
    ASSUME NEW j \in Job, NEW t \in Nat, t <= MaxTime, Sound(j)
    PROVE  Sound(Advanced(j, t))
<1> j.sched \in Schedule
  BY DEF Job
<1>1. CASE j.sched.kind = "at"
  BY <1>1 DEF Advanced, Sound, Job
<1>2. CASE j.sched.kind # "at"
  BY <1>2, EndlessHasNext DEF Advanced, Sound, GaveUp, Job
<1> QED
  BY <1>1, <1>2

LEMMA DisabledSound ==
    ASSUME NEW j \in Job, NEW status
    PROVE  Sound(Disabled(j, status))
BY DEF Disabled, Sound, Job

LEMMA FailedSound ==
    ASSUME NEW j \in Job, NEW start \in Nat, Sound(j)
    PROVE  Sound(Failed(j, start))
<1>1. CASE j.retry + 1 > MaxRetries
  BY <1>1 DEF Failed, Disabled, Sound, Job
<1>2. CASE ~ (j.retry + 1 > MaxRetries)
  <2> DEFINE next == IF j.sched.kind # "at" /\ j.next # None /\ start + RetryDelay < j.next
                     THEN start + RetryDelay ELSE j.next
  <2>1. j.next # None => next # None
    BY CronJobsAssumption DEF None
  <2>2. Failed(j, start) = [j EXCEPT !.status = "error", !.retry = j.retry + 1, !.next = next]
    BY <1>2 DEF Failed
  <2> HIDE DEF next
  <2>3. /\ Failed(j, start).status = "error" /\ Failed(j, start).retry = j.retry + 1
        /\ Failed(j, start).enabled = j.enabled /\ Failed(j, start).sched = j.sched
        /\ Failed(j, start).next = next
    BY <2>2 DEF Job
  <2>4. ~ GaveUp(Failed(j, start))
    BY <1>2, <2>3 DEF GaveUp
  <2> QED
    BY <2>1, <2>3, <2>4 DEF Sound
<1> QED
  BY <1>1, <1>2

LEMMA WithOutcomeSound ==
    ASSUME NEW j \in Job, NEW o \in Outcomes, NEW start \in Nat, Sound(j)
    PROVE  Sound(WithOutcome(j, o, start))
<1>1. CASE o = "ok"
  <2> DEFINE new == [j EXCEPT !.status = "ok", !.retry = 0]
  <2>1. /\ new.status = "ok" /\ new.retry = 0
        /\ new.enabled = j.enabled /\ new.sched = j.sched /\ new.next = j.next
    BY DEF Job
  <2>2. WithOutcome(j, o, start) = new
    BY <1>1 DEF WithOutcome
  <2> HIDE DEF new
  <2> QED
    BY <2>1, <2>2 DEF Sound, GaveUp, MaxRetries
<1>2. CASE o = "failed"
  BY <1>2, FailedSound DEF WithOutcome
<1>3. CASE o \in {"failed_after_side_effect", "content_filter"}
  BY <1>3, DisabledSound DEF WithOutcome
<1>4. CASE o = "raised"
  BY <1>4 DEF WithOutcome, Sound, GaveUp, Job
<1> QED
  BY <1>1, <1>2, <1>3, <1>4 DEF Outcomes

LEMMA SettledSound ==
    ASSUME NEW j \in Job, NEW t \in Nat, t <= MaxTime, Sound(j)
    PROVE  Sound(Settled(j, t))
<1> j.sched \in Schedule
  BY DEF Job
<1> QED
  BY EndlessHasNext DEF Settled, Sound, GaveUp, Job

\* Every operation of the service on a list of sound jobs leaves one.
LEMMA StoresSound ==
    ASSUME NEW store \in Store, NEW i \in Id, NEW t \in Nat, t <= MaxTime, AllSound(store)
    PROVE  /\ AllSound(AdvanceIn(store, i, t))
           /\ \A o \in Outcomes, start \in Nat : AllSound(OutcomeIn(store, i, o, start))
           /\ AllSound(SettledIn(store, i, t))
           /\ AllSound(SkipStale(store, t))
           /\ AllSound(RecomputeNextRuns(store, t))
<1> USE DEF AllSound
<1>1. \A k \in Id : store[k] # NoJob => store[k] \in Job /\ store[k].sched \in Schedule
  BY DEF Store, Job
<1>2. AllSound(AdvanceIn(store, i, t))
  <2>1. CASE store[i] # NoJob
    <3> PICK j \in {NoJob, Advanced(store[i], t)} : AdvanceIn(store, i, t) = [store EXCEPT ![i] = j]
      BY <2>1 DEF AdvanceIn
    <3> QED
      BY <1>1, <2>1, AdvancedSound DEF Store
  <2> QED
    BY <2>1 DEF AdvanceIn
<1>3. ASSUME NEW o \in Outcomes, NEW start \in Nat PROVE AllSound(OutcomeIn(store, i, o, start))
  BY <1>1, <1>3, WithOutcomeSound DEF OutcomeIn, Store
<1>4. AllSound(SettledIn(store, i, t))
  BY <1>1, SettledSound DEF SettledIn, Store
<1>5. AllSound(SkipStale(store, t))
  <2> SUFFICES ASSUME NEW k \in Id, SkipStale(store, t)[k] # NoJob
               PROVE  Sound(SkipStale(store, t)[k])
    OBVIOUS
  <2>1. CASE Stale(store, k, t)
    <3> DEFINE next == ComputeNextRun(store[k].sched, t)
    <3>1. store[k] \in Job /\ store[k].sched \in Schedule /\ Sound(store[k])
      BY <1>1, <2>1 DEF Stale, Pending
    <3>2. SkipStale(store, t)[k] = [store[k] EXCEPT !.status = "skipped", !.next = next]
      BY <2>1 DEF SkipStale
    <3>3. Endless(store[k].sched) => next # None
      BY <3>1, EndlessHasNext
    <3> HIDE DEF next
    <3> QED
      BY <3>1, <3>2, <3>3 DEF Sound, GaveUp, Job
  <2>2. CASE ~ Stale(store, k, t)
    BY <2>2 DEF SkipStale
  <2> QED
    BY <2>1, <2>2
<1>6. AllSound(RecomputeNextRuns(store, t))
  <2> SUFFICES ASSUME NEW k \in Id, RecomputeNextRuns(store, t)[k] # NoJob
               PROVE  Sound(RecomputeNextRuns(store, t)[k])
    OBVIOUS
  <2> DEFINE lost == store[k] # NoJob /\ store[k].enabled /\ store[k].next = None
  <2>1. CASE lost
    <3>1. RecomputeNextRuns(store, t)[k] = [store[k] EXCEPT !.next = ComputeNextRun(store[k].sched, t)]
      BY <2>1 DEF RecomputeNextRuns
    <3> QED
      BY <1>1, <2>1, <3>1, EndlessHasNext DEF Sound, GaveUp, Job
  <2>2. CASE ~ lost
    BY <2>2 DEF RecomputeNextRuns
  <2> QED
    BY <2>1, <2>2
<1> QED
  BY <1>2, <1>3, <1>4, <1>5, <1>6

SInv == now <= MaxTime /\ AllSound(mem) /\ AllSound(disk)

LEMMA InitSound == Init => SInv
BY CronServiceAssumption DEF Init, SInv, AllSound, EmptyStore

LEMMA FinishSound ==
    ASSUME IInv, SInv, NEW store \in Store, AllSound(store), task.cur \in Id,
           Finish(store), UNCHANGED now
    PROVE  SInv'
<1>1. now \in Nat /\ mem' = SettledIn(store, task.cur, now) /\ disk' \in {disk, mem'}
  BY DEF IInv, TypeOK, Finish, SaveOK, SaveRaises
<1>2. AllSound(mem')
  BY <1>1, StoresSound DEF SInv
<1> QED
  BY <1>1, <1>2 DEF SInv, AllSound

LEMMA CallSound ==
    ASSUME SInv, AllSound(mem'), disk' \in {disk, mem'}, UNCHANGED now
    PROVE  SInv'
BY DEF SInv, AllSound

LEMMA NextSound == IInv /\ SInv /\ [Next]_vars => SInv'
<1> SUFFICES ASSUME IInv, SInv, [Next]_vars PROVE SInv'
  OBVIOUS
<1>1. /\ now \in Nat /\ mem \in Store /\ disk \in Store /\ fresh \subseteq Id
      /\ now <= MaxTime /\ AllSound(mem) /\ AllSound(disk)
  BY DEF IInv, TypeOK, SInv
<1>2. CASE Start
  <2>1. disk' = SkipStale(disk, now) /\ mem' = RecomputeNextRuns(disk', now) /\ now' = now
    BY <1>2 DEF Start
  <2>2. disk' \in Store
    BY <1>1, <2>1, SkipStaleStep DEF StoreStep
  <2>3. AllSound(disk')
    <3>1. CASE Id = {}
      BY <3>1 DEF AllSound
    <3>2. CASE Id # {}
      BY <1>1, <2>1, <3>2, StoresSound
    <3> QED
      BY <3>1, <3>2
  <2>4. AllSound(mem')
    <3>1. CASE Id = {}
      BY <3>1 DEF AllSound
    <3>2. CASE Id # {}
      BY <1>1, <2>1, <2>2, <2>3, <3>2, StoresSound
    <3> QED
      BY <3>1, <3>2
  <2> QED
    BY <1>1, <2>1, <2>3, <2>4 DEF SInv, AllSound
<1>3. CASE Stop \/ Crash
  BY <1>1, <1>3 DEF Stop, Crash, GoDown, SInv, AllSound, EmptyStore
<1>4. CASE Tick
  BY <1>1, <1>4, CronServiceAssumption DEF Tick, SInv, AllSound
<1>5. CASE TimerStep
  <2>1. ASSUME NEW i \in Id, Begin(i) \/ BeginRaises(i) PROVE SInv'
    <3>1. mem' = AdvanceIn(mem, i, now) /\ disk' \in {disk, mem'} /\ now' = now
      BY <2>1 DEF Begin, BeginRaises, SaveOK, SaveRaises
    <3>2. AllSound(mem')
      BY <1>1, <3>1, StoresSound
    <3> QED
      BY <3>1, <3>2, CallSound
  <2> QED
    BY <1>1, <1>5, <2>1 DEF TimerStep, Wake, Rearm, SInv, AllSound
<1>6. CASE JobReturns \/ Notified
  <2>1. task.cur \in Id /\ task.start \in Nat
    BY <1>6 DEF IInv, RunStarted, Running, JobReturns, Succeed, Fail, Notified, AtPC, TypeOK, Task
  <2>2. \A o \in Outcomes : AllSound(Outcome(o)) /\ Outcome(o) \in Store
    BY <1>1, <2>1, StoresSound, OutcomeInStep DEF Outcome, StoreStep
  <2>3. CASE Succeed
    BY <2>1, <2>2, <2>3, FinishSound DEF Succeed, Outcomes
  <2>4. ASSUME NEW o \in Outcomes, Fail(o) PROVE SInv'
    BY <2>2, <2>4, CallSound DEF Fail
  <2>5. CASE Notified
    BY <1>1, <2>1, <2>5, FinishSound DEF Notified
  <2> QED
    BY <1>6, <2>3, <2>4, <2>5 DEF JobReturns
<1>7. ASSUME NEW sched \in Schedules, SeedJob(sched) PROVE SInv'
  <2>1. PICK i \in Id : disk' = [disk EXCEPT ![i] = NewJob(sched, FALSE, now)]
    BY <1>1, <1>7 DEF SeedJob, SaveOK
  <2>2. Sound(NewJob(sched, FALSE, now))
    BY <1>1, NewJobSound, CronServiceAssumption
  <2> QED
    BY <1>1, <1>7, <2>1, <2>2 DEF SeedJob, SInv, AllSound, Store
<1>8. ASSUME NEW sched \in Schedules, NEW d \in BOOLEAN, AddJob(sched, d) PROVE SInv'
  <2>1. PICK i \in Id : mem' = [mem EXCEPT ![i] = NewJob(sched, d, now)]
    BY <1>1, <1>8 DEF AddJob
  <2>2. Sound(NewJob(sched, d, now))
    BY <1>1, NewJobSound, CronServiceAssumption
  <2>3. AllSound(mem')
    BY <1>1, <2>1, <2>2 DEF AllSound, Store
  <2> QED
    BY <1>8, <2>3, CallSound DEF AddJob, SaveOK, SaveRaises
<1>9. ASSUME NEW i \in Id, RemoveJob(i) PROVE SInv'
  <2>1. AllSound(mem')
    BY <1>1, <1>9 DEF RemoveJob, AllSound, Store
  <2> QED
    BY <1>9, <2>1, CallSound DEF RemoveJob, SaveOK, SaveRaises
<1>10. CASE UNCHANGED vars
  BY <1>1, <1>10 DEF vars, SInv, AllSound
<1> QED
  BY <1>2, <1>3, <1>4, <1>5, <1>6, <1>7, <1>8, <1>9, <1>10 DEF Next

LEMMA SoundnessInvariant == Spec => []SInv
BY InductiveInvariant, InitSound, NextSound, PTL DEF Spec

-----------------------------------------------------------------------------
(* The jobs a tick has collected, when writing the file never raises.  The *)
(* invariant is about the whole tick: a task that may be cancelled carries *)
(* no work but the list a call has just replaced, and the job that runs is *)
(* no longer among the due ones.                                           *)

DInv ==
    /\ DueJobsAreCurrent
    /\ task.pc \notin {"dispatch", "running", "notifying"} => \A i \in Id : ~ Queued(i)
    /\ Running => ~ Queued(task.cur)

\* A timer that is new or gone has no due jobs.
LEMMA NoWorkIsCurrent ==
    ASSUME \A i \in Id : task'.due[i] = None, ~ Running'
    PROVE  DInv'
BY DEF DInv, DueJobsAreCurrent, Queued

\* Only the entry of the running job changes, and it is not among the due ones.
LEMMA RunIsCurrent ==
    ASSUME IInv, DInv, Running, NEW store \in Store,
           \A i \in Id : i # task.cur => store[i] = mem[i],
           mem' = store, now' = now, task'.due = task.due, task'.cur = task.cur \/ ~ Running',
           task'.pc \in {"dispatch", "notifying"}
    PROVE  DInv'
BY DEF DInv, DueJobsAreCurrent, Queued, Running, Due, Pending

LEMMA FinishCurrent ==
    ASSUME IInv, DInv, Running, SaveMayFail = FALSE, NEW store \in Store,
           \A i \in Id : i # task.cur => store[i] = mem[i],
           Finish(store), now' = now
    PROVE  DInv'
<1>1. task.cur \in Id /\ now \in Nat /\ mem \in Store
  BY DEF IInv, RunStarted, TypeOK
<1>2. SettledIn(store, task.cur, now) \in Store
  BY <1>1, SettledInStep DEF StoreStep
<1>3. \A i \in Id : i # task.cur => SettledIn(store, task.cur, now)[i] = mem[i]
  BY <1>1 DEF SettledIn, Store
<1>4. task' = [task EXCEPT !.pc = "dispatch", !.cur = 0, !.start = 0]
  BY DEF Finish, SaveRaises
<1>5. task'.due = task.due /\ task'.pc = "dispatch"
  BY <1>4 DEF IInv, TypeOK, Task
<1> QED
  BY <1>2, <1>3, <1>5, RunIsCurrent DEF Finish, Running

LEMMA InitCurrent == Init => DInv
BY IdleType DEF Init, DInv, DueJobsAreCurrent, Queued, Running, PCs

LEMMA NextCurrent == SaveMayFail = FALSE /\ IInv /\ DInv /\ [Next]_vars => DInv'
<1> SUFFICES ASSUME SaveMayFail = FALSE, IInv, DInv, [Next]_vars PROVE DInv'
  OBVIOUS
<1>1. now \in Nat /\ mem \in Store /\ disk \in Store /\ task \in Task /\ fresh \subseteq Id
  BY DEF IInv, TypeOK
<1>2. CASE Start
  <2>1. mem' \in Store
    BY <1>1, <1>2, SkipStaleStep, RecomputeNextRunsStep DEF Start, StoreStep
  <2> QED
    BY <1>1, <1>2, <2>1, ArmStep, NoWorkIsCurrent DEF Start, Running
<1>3. CASE Stop \/ Crash
  BY <1>3, IdleType, NoWorkIsCurrent DEF Stop, Crash, GoDown, Running, PCs
<1>4. CASE Tick
  BY <1>1, <1>4 DEF Tick, DInv, DueJobsAreCurrent, Queued, Running, Due, Pending, Store, Job
<1>5. CASE Wake
  <2>1. task'.pc = "dispatch" /\ task'.due = DueJobs /\ mem' = mem /\ now' = now
    BY <1>5, IdleType DEF Wake, PCs, Idle
  <2> QED
    BY <2>1 DEF DInv, DueJobsAreCurrent, Queued, Running, DueJobs, Due, Pending
<1>6. ASSUME NEW i \in Id, Begin(i) PROVE DInv'
  <2>1. /\ task'.pc = "running" /\ task'.cur = i /\ task'.due = [task.due EXCEPT ![i] = None]
        /\ mem' = AdvanceIn(mem, i, now) /\ now' = now
    BY <1>1, <1>6 DEF Begin, Task
  <2>2. \A k \in Id : k # i => mem'[k] = mem[k]
    BY <1>1, <2>1 DEF AdvanceIn, Store
  <2>3. task'.due[i] = None /\ \A k \in Id : k # i => task'.due[k] = task.due[k]
    BY <1>1, <2>1 DEF Task
  <2> QED
    BY <2>1, <2>2, <2>3 DEF DInv, DueJobsAreCurrent, Queued, Running, Due, Pending
<1>7. ASSUME NEW i \in Id, BeginRaises(i) PROVE DInv'
  BY <1>7 DEF BeginRaises, SaveRaises
<1>8. CASE Rearm
  BY <1>1, <1>8, ArmStep, NoWorkIsCurrent DEF Rearm, Running
<1>9. CASE JobReturns \/ Notified
  <2>1. Running /\ task.cur \in Id /\ task.start \in Nat
    BY <1>1, <1>9 DEF IInv, RunStarted, Running, JobReturns, Succeed, Fail, Notified, AtPC, Task
  <2>2. ASSUME NEW o \in Outcomes
        PROVE  Outcome(o) \in Store /\ \A k \in Id : k # task.cur => Outcome(o)[k] = mem[k]
    <3>1. StoreStep(mem, Outcome(o), task.start)
      BY <1>1, <2>1, <2>2, OutcomeInStep DEF Outcome
    <3>2. \A k \in Id : k # task.cur => Outcome(o)[k] = mem[k]
      BY <1>1, <2>1 DEF Outcome, OutcomeIn, Store
    <3>. QED  BY <3>1, <3>2 DEF StoreStep
  <2>3. CASE Succeed
    BY <2>1, <2>2, <2>3, FinishCurrent DEF Succeed, Outcomes
  <2>4. ASSUME NEW o \in Outcomes, Fail(o) PROVE DInv'
    <3>1. task'.pc = "notifying" /\ task'.due = task.due /\ task'.cur = task.cur
      BY <1>1, <2>4 DEF Fail, Task
    <3> QED
      BY <2>1, <2>2, <2>4, <3>1, RunIsCurrent DEF Fail
  <2>5. CASE Notified
    BY <1>1, <2>1, <2>5, FinishCurrent DEF Notified
  <2> QED
    BY <1>9, <2>3, <2>4, <2>5 DEF JobReturns
<1>10. ASSUME NEW sched \in Schedules, SeedJob(sched) PROVE DInv'
  BY <1>10 DEF SeedJob, DInv, DueJobsAreCurrent, Queued, Running, Due, Pending
<1>11. CASE \/ \E sched \in Schedules, d \in BOOLEAN : AddJob(sched, d)
            \/ \E i \in Id : RemoveJob(i)
  <2>1. Arm(mem')
    BY <1>11 DEF AddJob, RemoveJob, SaveRaises
  <2>2. mem' \in Store
    BY <1>1, <1>11, NextInv DEF IInv, TypeOK
  <2> QED
    BY <1>1, <2>1, <2>2, ArmStep, NoWorkIsCurrent DEF Running
<1>12. CASE UNCHANGED vars
  BY <1>12 DEF vars, DInv, DueJobsAreCurrent, Queued, Running, Due, Pending
<1> QED
  BY <1>2, <1>3, <1>4, <1>5, <1>6, <1>7, <1>8, <1>9, <1>10, <1>11, <1>12 DEF Next, TimerStep

-----------------------------------------------------------------------------
(* The theorems.                                                           *)

\* Every variable of the service keeps its type: whatever turns, failing saves,
\* crashes and restarts do, memory and jobs.json hold well-formed lists of jobs.
THEOREM TypeCorrect == Spec => []TypeOK
<1>1. IInv => TypeOK
  BY DEF IInv
<1> QED
  BY <1>1, InductiveInvariant, PTL

\* What is scheduled, in memory and in the file a restart reads, is always later
\* than what has run: the save before the run (service.py:352-368) suffices.
THEOREM SlotsStayAhead == Spec => []SlotsAhead
<1>1. IInv => SlotsAhead
  BY DEF IInv, SlotsAhead, Ahead
<1> QED
  BY <1>1, InductiveInvariant, PTL

\* The service implements the ledger: a job runs at most once for a scheduled time,
\* in order, never early and never for a day before the latest start, through
\* crashes, restarts, failing saves and runs cancelled by other turns.
THEOREM LedgerImplemented == Spec => RunsAtMostOncePerSlot
<1> USE DEF Ledger!vars
<1>1. Init => Ledger!Init
  BY DEF Init, Ledger!Init
<1>2. IInv /\ [Next]_vars => [Ledger!Next]_(Ledger!vars)
  <2> SUFFICES ASSUME IInv, [Next]_vars
               PROVE  Ledger!Next \/ UNCHANGED <<now, lastSlot, bootDay>>
    OBVIOUS
  <2>1. CASE Tick
    BY <2>1 DEF Tick, Ledger!Next, Ledger!Tick
  <2>2. CASE Start
    <3>1. DayStart(now) \in 0..now
      BY DayStartBounds DEF IInv, TypeOK
    <3> QED
      BY <2>2, <3>1 DEF Start, Ledger!Next, Ledger!Boot
  <2>3. ASSUME NEW i \in Id, Begin(i) PROVE Ledger!Run(i)
    <3>1. /\ task.due[i] \in Nat /\ bootDay \in Nat /\ now \in Nat
          /\ task.due[i] > lastSlot[i] /\ task.due[i] >= bootDay /\ task.due[i] <= now
      BY <2>3 DEF IInv, TypeOK, Task, DueAhead, Begin
    <3>2. task.due[i] \in bootDay..now
      BY <3>1
    <3> QED
      BY <2>3, <3>1, <3>2 DEF Begin, Ledger!Run
  <2>4. CASE Stop \/ Crash
    BY <2>4 DEF Stop, Crash, GoDown
  <2>5. CASE TimerStep
    BY <2>3, <2>5 DEF TimerStep, Wake, BeginRaises, Rearm, Ledger!Next
  <2>6. CASE JobReturns \/ Notified
    BY <2>6 DEF JobReturns, Succeed, Fail, Notified
  <2>7. CASE \E sched \in Schedules : SeedJob(sched)
    BY <2>7 DEF SeedJob
  <2>8. CASE \E sched \in Schedules, d \in BOOLEAN : AddJob(sched, d)
    BY <2>8 DEF AddJob
  <2>9. CASE \E i \in Id : RemoveJob(i)
    BY <2>9 DEF RemoveJob
  <2>10. CASE UNCHANGED vars
    BY <2>10 DEF vars
  <2> QED
    BY <2>1, <2>2, <2>3, <2>4, <2>5, <2>6, <2>7, <2>8, <2>9, <2>10 DEF Next, Ledger!Next
<1> QED
  BY <1>1, <1>2, InductiveInvariant, PTL DEF Spec, RunsAtMostOncePerSlot, Ledger!Spec

\* A job given up (fatal error, partial success, past its retries) is disabled, in
\* memory and in the file, with and without failing saves (service.py:396-439).
THEOREM GivenUpStaysOff == Spec => []GivenUpIsDisabled
<1>1. SInv => GivenUpIsDisabled
  BY DEF SInv, AllSound, Sound, GivenUpIsDisabled
<1> QED
  BY <1>1, SoundnessInvariant, PTL

\* An enabled job with an endless schedule has a next time, in memory and in the
\* file: no skip, failure, cancelled run or restart forgets it (service.py:362-365,
\* 454-456 and 223).
THEOREM RecurringIsNotForgotten == Spec => []RecurringStaysScheduled
<1>1. SInv => RecurringStaysScheduled
  BY DEF SInv, AllSound, Sound, RecurringStaysScheduled
<1> QED
  BY <1>1, SoundnessInvariant, PTL

\* When no save raises, the list of due jobs a tick works on never gets stale:
\* whatever changes the list of jobs meanwhile replaces the task (service.py:
\* 260-303 and the calls of _arm_timer).
THEOREM DueStaysCurrent ==
    ASSUME SaveMayFail = FALSE
    PROVE  Spec => []DueJobsAreCurrent
<1>1. DInv => DueJobsAreCurrent
  BY DEF DInv
<1>2. IInv /\ DInv /\ [Next]_vars => DInv'
  BY NextCurrent
<1> QED
  BY <1>1, <1>2, InductiveInvariant, InitCurrent, PTL DEF Spec

-----------------------------------------------------------------------------
(* The commands of CronCli.  They write jobs.json from a list they loaded   *)
(* earlier, so that nothing is known of what the file holds but its type;   *)
(* what keeps the gateway from a second run is its list in memory.          *)

Beyond(store) == \A i \in Id : Pending(store, i) => store[i].next > bootSlot[i]
LatestBy(t) == \A i \in Id : bootSlot[i] <= t

BootType ==
    /\ now \in Nat
    /\ fresh \subseteq Id
    /\ mem \in Store /\ disk \in Store /\ cli.list \in Store
    /\ task \in Task
    /\ bootSlot \in [Id -> Nat]

BootTask ==
    /\ Running => task.cur \in Id /\ LatestBy(task.start)
    /\ \A i \in Id : Queued(i) => task.due[i] > bootSlot[i] /\ task.due[i] <= now

BootInv ==
    /\ BootType
    /\ LatestBy(now)
    /\ BootTask
    /\ Beyond(mem)

LEMMA StepKeepsBeyond ==
    ASSUME bootSlot \in [Id -> Nat], NEW old \in Store, NEW new, NEW t \in Nat,
           StoreStep(old, new, t), LatestBy(t), Beyond(old)
    PROVE  new \in Store /\ Beyond(new)
<1>1. \A i \in Id : bootSlot[i] \in Nat /\ (Pending(new, i) => new[i].next \in Nat)
  BY DEF StoreStep, Store, Pending, Job
<1>. QED  BY <1>1 DEF StoreStep, LatestBy, Beyond

LEMMA BootInit == CliInit => BootInv
<1> SUFFICES ASSUME CliInit PROVE BootInv
  OBVIOUS
<1> USE DEF CliInit, Init
<1>1. BootType
  BY EmptyStoreStep, IdleType DEF BootType, PCs, CliIdle
<1>2. BootTask
  BY IdleType DEF BootTask, Running, Queued, PCs
<1>3. LatestBy(now) /\ Beyond(mem)
  BY DEF LatestBy, Beyond, EmptyStore, Pending
<1>. QED  BY <1>1, <1>2, <1>3 DEF BootInv

\* Any step that begins no run and keeps what is ahead of the latest runs.
Keeps ==
    /\ task' \in Task
    /\ \A i \in Id : task'.due[i] \in {None, task.due[i]}
    /\ task'.pc \notin {"running", "notifying"}
         \/ (Running /\ task'.cur = task.cur /\ task'.start = task.start)

LEMMA KeepsBoot ==
    ASSUME BootInv, Keeps, mem' \in Store, Beyond(mem'), disk' \in Store,
           fresh' \subseteq Id, cli'.list \in Store, UNCHANGED <<now, bootSlot>>
    PROVE  BootInv'
<1>1. BootType'
  BY DEF BootInv, BootType, Keeps
<1>2. BootTask'
  BY DEF BootInv, BootTask, Keeps, Running, Queued, LatestBy
<1>. QED  BY <1>1, <1>2 DEF BootInv, LatestBy, Beyond

LEMMA ArmKeeps ==
    ASSUME BootType, NEW store \in Store, Arm(store)
    PROVE  Keeps /\ task'.pc = "sleeping"
BY ArmStep DEF BootType, Keeps

LEMMA IdleKeeps ==
    ASSUME NEW pc \in PCs \ {"running", "notifying"}, task' = Idle(pc)
    PROVE  Keeps /\ task'.pc = pc
BY IdleType DEF Keeps

LEMMA TaskKeeps ==
    ASSUME task \in Task, UNCHANGED task
    PROVE  Keeps
BY DEF Keeps, Running

\* The list after a step, from a list that is ahead of the latest runs.
LEMMA CallBoot ==
    ASSUME BootInv, StoreStep(mem, mem', now), fresh' \subseteq Id,
           (disk' = mem' /\ Arm(mem')) \/ (disk' = disk /\ task' = task),
           UNCHANGED <<now, cli, bootSlot>>
    PROVE  BootInv'
<1>1. mem' \in Store /\ Beyond(mem')
  BY StepKeepsBeyond DEF BootInv, BootType
<1>2. Keeps
  BY <1>1, ArmKeeps, TaskKeeps DEF BootInv, BootType
<1>. QED  BY <1>1, <1>2, KeepsBoot DEF BootInv, BootType

LEMMA FinishBoot ==
    ASSUME BootInv, NEW store \in Store, Beyond(store), Running, Finish(store),
           UNCHANGED <<now, fresh, cli, bootSlot>>
    PROVE  BootInv'
<1>0. now \in Nat /\ task.cur \in Id
  BY DEF BootInv, BootType, BootTask
<1>1. StoreStep(store, mem', now)
  BY <1>0, SettledInStep DEF Finish
<1>2. mem' \in Store /\ Beyond(mem')
  BY <1>1, StepKeepsBeyond DEF BootInv, BootType
<1>3. disk' \in {disk, mem'}
  BY DEF Finish, SaveOK, SaveRaises
<1>4. Keeps
  <2>1. CASE task' = [task EXCEPT !.pc = "dispatch", !.cur = 0, !.start = 0]
    BY <2>1 DEF BootInv, BootType, Keeps, Task, PCs
  <2>2. CASE task' = Idle("dead")
    BY <2>2, IdleKeeps DEF PCs
  <2>. QED  BY <2>1, <2>2 DEF Finish
<1>. QED  BY <1>2, <1>3, <1>4, KeepsBoot DEF BootInv, BootType

LEMMA OutcomeBeyond ==
    ASSUME BootInv, Running, NEW o \in Outcomes
    PROVE  Outcome(o) \in Store /\ Beyond(Outcome(o))
<1>1. task.cur \in Id /\ task.start \in Nat /\ LatestBy(task.start) /\ mem \in Store
  BY DEF BootInv, BootType, BootTask, Task
<1>2. StoreStep(mem, Outcome(o), task.start)
  BY <1>1, OutcomeInStep DEF Outcome
<1>. QED  BY <1>1, <1>2, StepKeepsBeyond DEF BootInv, BootType

\* A start takes its list from the file, whatever it holds: no run is older.
LEMMA StartBoot ==
    ASSUME BootInv, Start, UNCHANGED cli, bootSlot' = [i \in Id |-> 0]
    PROVE  BootInv'
<1>1. now \in Nat /\ disk \in Store
  BY DEF BootInv, BootType
<1>2. disk' \in Store
  BY <1>1, SkipStaleStep DEF Start, StoreStep
<1>3. mem' \in Store
  BY <1>1, <1>2, RecomputeNextRunsStep DEF Start, StoreStep
<1>4. task' \in Task /\ task'.pc = "sleeping" /\ \A i \in Id : task'.due[i] = None
  BY <1>1, <1>3, ArmStep DEF Start
<1>5. now' = now /\ fresh' = fresh
  BY DEF Start
<1>6. BootType'
  BY <1>2, <1>3, <1>4, <1>5 DEF BootInv, BootType
<1>7. BootTask'
  BY <1>4 DEF BootTask, Running, Queued
<1>8. LatestBy(now)'
  BY <1>1, <1>5 DEF LatestBy
<1>9. Beyond(mem)'
  BY <1>3 DEF Beyond, Pending, Store, Job, None
<1>. QED  BY <1>6, <1>7, <1>8, <1>9 DEF BootInv

LEMMA WakeBoot ==
    ASSUME BootInv, Wake, UNCHANGED <<cli, bootSlot>>
    PROVE  BootInv'
<1>1. DueJobs \in [Id -> Nat]
  BY DEF DueJobs, Due, Pending, BootInv, BootType, Store, Job, None
<1>2. task' \in Task /\ task'.pc = "dispatch" /\ task'.due = DueJobs
  BY <1>1, IdleType DEF Wake, Task, PCs
<1>3. UNCHANGED <<now, fresh, mem, disk>>
  BY DEF Wake
<1>4. BootType'
  BY <1>2, <1>3 DEF BootInv, BootType
<1>5. BootTask'
  BY <1>2, <1>3 DEF BootTask, Running, Queued, DueJobs, Due, BootInv, Beyond
<1>. QED  BY <1>3, <1>4, <1>5 DEF BootInv, LatestBy, Beyond

\* The run that begins is for a later time than the one before it, and the job
\* waits for a time that has not come yet.
LEMMA BeginBoot ==
    ASSUME BootInv, NEW i \in Id, Begin(i), UNCHANGED cli,
           bootSlot' = [bootSlot EXCEPT ![i] = task.due[i]]
    PROVE  BootInv'
<1>1. /\ now \in Nat /\ mem \in Store
      /\ task.due[i] \in Nat /\ task.due[i] <= now /\ task.due[i] > bootSlot[i]
  BY DEF BootInv, BootType, BootTask, Task, Begin
<1>2. /\ StoreStep(mem, mem', now)
      /\ Pending(mem', i) => mem'[i].next > now
  BY <1>1, AdvanceInStep DEF Begin
<1>3. mem' \in Store /\ Beyond(mem')
  BY <1>1, <1>2, StepKeepsBeyond DEF BootInv, BootType
<1>4. disk' = mem' /\ UNCHANGED <<now, fresh>>
  BY DEF Begin, SaveOK
<1>5. /\ task' \in Task
      /\ task'.cur = i /\ task'.start = now
      /\ task'.due = [task.due EXCEPT ![i] = None]
  <2>1. PICK due \in [Id -> Nat] : due = [task.due EXCEPT ![i] = None]
    BY DEF BootInv, BootType, Task, None
  <2>2. task \in Task /\ i \in Nat
    BY CronJobsAssumption DEF BootInv, BootType
  <2>3. task' = [task EXCEPT !.pc = "running", !.due = due, !.cur = i, !.start = now]
    BY <2>1 DEF Begin
  <2>. QED  BY <1>1, <2>1, <2>2, <2>3 DEF Task, PCs
<1>6. BootType'
  BY <1>1, <1>3, <1>4, <1>5 DEF BootInv, BootType
<1>7. LatestBy(now)'
  BY <1>1, <1>4 DEF BootInv, BootType, LatestBy
<1>8. BootTask'
  BY <1>4, <1>5, <1>7 DEF BootInv, BootType, BootTask, Queued, LatestBy, Task
<1>9. Beyond(mem)'
  <2> SUFFICES ASSUME NEW k \in Id, Pending(mem', k)
               PROVE  mem'[k].next > bootSlot'[k]
    BY DEF Beyond
  <2>1. mem'[k].next \in Nat
    BY <1>3 DEF Store, Pending, Job
  <2>2. CASE k = i
    BY <1>1, <1>2, <2>1, <2>2 DEF BootInv, BootType
  <2>3. CASE k # i
    BY <1>3, <2>3 DEF Beyond, BootInv, BootType
  <2>. QED  BY <2>2, <2>3
<1>. QED  BY <1>6, <1>7, <1>8, <1>9 DEF BootInv

\* The other steps of the timer task and of the runs.
LEMMA TimerBoot ==
    ASSUME BootInv, UNCHANGED <<cli, bootSlot>>,
           \/ \E i \in Id : BeginRaises(i)
           \/ Rearm
           \/ JobReturns
           \/ Notified
    PROVE  BootInv'
<1>0. now \in Nat /\ mem \in Store /\ fresh \subseteq Id
  BY DEF BootInv, BootType
<1>1. ASSUME NEW i \in Id, BeginRaises(i) PROVE BootInv'
  <2>1. StoreStep(mem, mem', now) /\ UNCHANGED <<now, fresh, disk>> /\ Keeps
    BY <1>0, <1>1, AdvanceInStep, IdleKeeps DEF BeginRaises, SaveRaises, PCs
  <2>2. mem' \in Store /\ Beyond(mem')
    BY <1>0, <2>1, StepKeepsBeyond DEF BootInv, BootType
  <2>. QED  BY <2>1, <2>2, KeepsBoot DEF BootInv, BootType
<1>2. CASE Rearm
  <2>1. Keeps /\ UNCHANGED <<now, fresh, mem, disk>>
    BY <1>0, <1>2, ArmKeeps DEF Rearm, BootInv
  <2>. QED  BY <2>1, KeepsBoot DEF BootInv, BootType, Beyond
<1>3. CASE Succeed
  <2>1. Running /\ Outcome("ok") \in Store /\ Beyond(Outcome("ok"))
    BY <1>3, OutcomeBeyond DEF Succeed, Running, AtPC, Outcomes
  <2>. QED  BY <1>3, <2>1, FinishBoot DEF Succeed
<1>4. ASSUME NEW o \in Outcomes, Fail(o) PROVE BootInv'
  <2>1. Running /\ mem' \in Store /\ Beyond(mem')
    BY <1>4, OutcomeBeyond DEF Fail, Running, AtPC
  <2>2. Keeps
    BY <1>4, <2>1 DEF Fail, Keeps, BootInv, BootType, Task, PCs
  <2>3. UNCHANGED <<now, fresh, disk>>
    BY <1>4 DEF Fail
  <2>. QED  BY <2>1, <2>2, <2>3, KeepsBoot DEF BootInv, BootType
<1>5. CASE Notified
  <2>1. Running /\ Finish(mem) /\ UNCHANGED <<now, fresh>>
    BY <1>5 DEF Notified, Running, AtPC
  <2>. QED  BY <1>0, <2>1, FinishBoot DEF BootInv
<1>. QED  BY <1>1, <1>2, <1>3, <1>4, <1>5 DEF JobReturns

\* The steps of the process, the clock and the turns.
LEMMA ProcessBoot ==
    ASSUME BootInv, UNCHANGED <<cli, bootSlot>>,
           \/ Stop \/ Crash \/ Tick
           \/ \E sched \in Schedules : SeedJob(sched)
           \/ \E sched \in Schedules, d \in BOOLEAN : AddJob(sched, d)
           \/ \E i \in Id : RemoveJob(i)
    PROVE  BootInv'
<1>0. now \in Nat /\ mem \in Store /\ disk \in Store /\ fresh \subseteq Id /\ task \in Task
  BY DEF BootInv, BootType
<1>1. CASE Stop \/ Crash
  <2>1. task' = Idle("down") /\ mem' = EmptyStore /\ UNCHANGED <<now, fresh, disk>>
    BY <1>1 DEF Stop, Crash, GoDown
  <2>2. Keeps /\ mem' \in Store /\ Beyond(mem')
    BY <2>1, IdleKeeps, EmptyStoreStep DEF PCs, Beyond, EmptyStore, Pending
  <2>. QED  BY <2>1, <2>2, KeepsBoot DEF BootInv, BootType
<1>2. CASE Tick
  <2>1. now' = now + 1 /\ UNCHANGED <<fresh, mem, disk, task>>
    BY <1>2 DEF Tick
  <2>2. BootType'
    BY <2>1 DEF BootInv, BootType
  <2>3. \A i \in Id : bootSlot[i] \in Nat /\ task.due[i] \in Nat
    BY DEF BootInv, BootType, Task
  <2>4. BootTask' /\ LatestBy(now)'
    BY <1>0, <2>1, <2>3 DEF BootInv, BootTask, Running, Queued, LatestBy
  <2>. QED  BY <2>1, <2>2, <2>4 DEF BootInv, Beyond
<1>3. ASSUME NEW sched \in Schedules, SeedJob(sched) PROVE BootInv'
  <2>1. PICK i \in fresh : fresh' = fresh \ {i} /\ disk' = [disk EXCEPT ![i] = NewJob(sched, FALSE, now)]
    BY <1>3 DEF SeedJob, SaveOK
  <2>2. NewJob(sched, FALSE, now) \in Job
    BY <1>0, NewJobType, CronServiceAssumption
  <2>3. disk' \in Store /\ fresh' \subseteq Id
    BY <1>0, <2>1, <2>2 DEF Store
  <2>4. Keeps /\ UNCHANGED <<now, mem>>
    BY <1>0, <1>3, TaskKeeps DEF SeedJob
  <2>. QED  BY <2>3, <2>4, KeepsBoot DEF BootInv, BootType, Beyond
<1>4. ASSUME NEW sched \in Schedules, NEW d \in BOOLEAN, AddJob(sched, d) PROVE BootInv'
  <2>1. PICK i \in fresh :
          fresh' = fresh \ {i} /\ mem' = [mem EXCEPT ![i] = NewJob(sched, d, now)]
    BY <1>4 DEF AddJob
  <2>2. sched \in Schedule /\ i \in Id /\ fresh' \subseteq Id
    BY <1>0, <2>1, CronServiceAssumption
  <2>3. StoreStep(mem, mem', now)
    BY <1>0, <2>1, <2>2, NewJobType, PutStep
  <2>4. (disk' = mem' /\ Arm(mem')) \/ (disk' = disk /\ task' = task)
    BY <1>4 DEF AddJob, SaveOK, SaveRaises
  <2>5. UNCHANGED now
    BY <1>4 DEF AddJob
  <2>. QED  BY <2>2, <2>3, <2>4, <2>5, CallBoot
<1>5. ASSUME NEW i \in Id, RemoveJob(i) PROVE BootInv'
  <2>1. StoreStep(mem, mem', now)
    BY <1>0, <1>5, PutStep DEF RemoveJob
  <2>2. (disk' = mem' /\ Arm(mem')) \/ (disk' = disk /\ task' = task)
    BY <1>5 DEF RemoveJob, SaveOK, SaveRaises
  <2>3. UNCHANGED <<now, fresh>>
    BY <1>5 DEF RemoveJob
  <2>. QED  BY <1>0, <2>1, <2>2, <2>3, CallBoot
<1>. QED  BY <1>1, <1>2, <1>3, <1>4, <1>5

\* A command leaves the gateway as it is, and a list of jobs in the file.
LEMMA CliBoot ==
    ASSUME BootInv, CliStep
    PROVE  BootInv' /\ UNCHANGED task
<1>0. now \in Nat /\ cli.list \in Store /\ disk \in Store /\ fresh \subseteq Id
  BY DEF BootInv, BootType
<1>1. /\ UNCHANGED <<now, mem, task, bootSlot>>
      /\ disk' \in Store /\ cli'.list \in Store /\ fresh' \subseteq Id
  <2>1. CASE CliLoad
    BY <1>0, <2>1 DEF CliLoad, vars
  <2>2. CASE CliGivesUp
    BY <1>0, <2>2, EmptyStoreStep DEF CliGivesUp, vars, CliIdle
  <2>3. ASSUME NEW list \in Store, CliSave(list), fresh' \subseteq Id
        PROVE  /\ UNCHANGED <<now, mem, task, bootSlot>>
               /\ disk' \in Store /\ cli'.list \in Store /\ fresh' \subseteq Id
    BY <2>3, EmptyStoreStep DEF CliSave, CliIdle
  <2>4. ASSUME NEW sched \in Schedules, CliAdd(sched)
        PROVE  \E list \in Store : CliSave(list) /\ fresh' \subseteq Id
    <3>1. PICK i \in fresh : /\ fresh' = fresh \ {i}
                             /\ CliSave([cli.list EXCEPT ![i] = NewJob(sched, FALSE, now)])
      BY <2>4 DEF CliAdd
    <3>2. NewJob(sched, FALSE, now) \in Job
      BY <1>0, NewJobType, CronServiceAssumption
    <3>3. [cli.list EXCEPT ![i] = NewJob(sched, FALSE, now)] \in Store
      BY <1>0, <3>2 DEF Store
    <3>. QED  BY <1>0, <3>1, <3>3
  <2>5. ASSUME NEW i \in Id, CliRemove(i)
        PROVE  \E list \in Store : CliSave(list) /\ fresh' \subseteq Id
    <3>1. [cli.list EXCEPT ![i] = NoJob] \in Store
      BY <1>0 DEF Store
    <3>. QED  BY <1>0, <2>5, <3>1 DEF CliRemove
  <2>6. ASSUME NEW i \in Id, NEW flag \in BOOLEAN, CliEnable(i, flag)
        PROVE  \E list \in Store : CliSave(list) /\ fresh' \subseteq Id
    <3>1. PICK j \in Job : j = cli.list[i]
      BY <1>0, <2>6 DEF CliEnable, Store
    <3>2. PICK n \in Nat : n = IF flag THEN ComputeNextRun(j.sched, now) ELSE None
      BY <1>0, ComputeNextRunIsLater DEF Job, None
    <3>3. PICK e : e = Enable(j, flag, now)
      OBVIOUS
    <3>4. e = [j EXCEPT !.enabled = flag, !.next = n]
      BY <3>2, <3>3 DEF Enable
    <3>5. e \in Job
      BY <3>4 DEF Job
    <3>6. [cli.list EXCEPT ![i] = e] \in Store
      BY <1>0, <3>5 DEF Store
    <3>7. CliSave([cli.list EXCEPT ![i] = e])
      BY <2>6, <3>1, <3>3 DEF CliEnable
    <3>. QED  BY <1>0, <2>6, <3>6, <3>7 DEF CliEnable
  <2>7. ASSUME NEW i \in Id, NEW force \in BOOLEAN, CliRun(i, force)
        PROVE  \E list \in Store : CliSave(list) /\ fresh' \subseteq Id
    <3>1. PICK a : a = AdvanceIn(cli.list, i, now)
      OBVIOUS
    <3>2. a \in Store
      BY <1>0, <3>1, AdvanceInStep DEF StoreStep
    <3>3. PICK b : b = OutcomeIn(a, i, "ok", now)
      OBVIOUS
    <3>4. b \in Store
      BY <1>0, <3>2, <3>3, OutcomeInStep DEF StoreStep, Outcomes
    <3>5. SettledIn(b, i, now) \in Store
      BY <1>0, <3>4, SettledInStep DEF StoreStep
    <3>. QED  BY <1>0, <2>7, <3>1, <3>3, <3>5 DEF CliRun
  <2>. QED  BY <2>1, <2>2, <2>3, <2>4, <2>5, <2>6, <2>7 DEF CliStep
<1>2. Keeps
  BY <1>1, TaskKeeps DEF BootInv, BootType
<1>. QED  BY <1>1, <1>2, KeepsBoot DEF BootInv, BootType, Beyond

\* The gateway begins a run in no other step than Begin, and starts in none but
\* Start.
LEMMA NoRunBegins ==
    ASSUME BootType,
           \/ Stop \/ Crash \/ Tick \/ Wake \/ Rearm \/ JobReturns \/ Notified
           \/ \E i \in Id : BeginRaises(i)
           \/ \E sched \in Schedules : SeedJob(sched)
           \/ \E sched \in Schedules, d \in BOOLEAN : AddJob(sched, d)
           \/ \E i \in Id : RemoveJob(i)
    PROVE  /\ ~ (AtPC("dispatch") /\ task'.pc = "running")
           /\ ~ (AtPC("down") /\ task'.pc # "down")
<1> USE IdleType DEF AtPC, PCs
<1>1. CASE Stop \/ Crash
  BY <1>1 DEF Stop, Crash, GoDown
<1>2. CASE Tick \/ \E sched \in Schedules : SeedJob(sched)
  BY <1>2 DEF Tick, SeedJob
<1>3. CASE Wake
  BY <1>3 DEF Wake
<1>4. CASE Rearm
  BY <1>4, ArmKeeps DEF Rearm, BootType
<1>5. CASE JobReturns \/ Notified
  BY <1>5 DEF JobReturns, Notified, Succeed, Fail
<1>6. CASE \E i \in Id : BeginRaises(i)
  BY <1>6 DEF BeginRaises
<1>7. CASE \/ \E sched \in Schedules, d \in BOOLEAN : AddJob(sched, d)
           \/ \E i \in Id : RemoveJob(i)
  BY <1>7 DEF AddJob, RemoveJob, LoopFree, Up
<1>. QED  BY <1>1, <1>2, <1>3, <1>4, <1>5, <1>6, <1>7

LEMMA GatewayBoot ==
    ASSUME BootInv, GatewayStep
    PROVE  /\ BootInv'
           /\ AtPC("dispatch") /\ task'.pc = "running" =>
                task'.cur \in Id /\ Begin(task'.cur)
<1>1. UNCHANGED cli /\ BootType
  BY DEF GatewayStep, BootInv
<1>2. CASE Start
  <2>1. AtPC("down") /\ task'.pc = "sleeping"
    <3>1. mem' \in Store
      <4>1. disk' \in Store
        BY <1>1, <1>2, SkipStaleStep DEF Start, StoreStep, BootType
      <4>. QED  BY <1>1, <1>2, <4>1, RecomputeNextRunsStep DEF Start, StoreStep, BootType
    <3>. QED  BY <1>1, <1>2, <3>1, ArmKeeps DEF Start
  <2>2. bootSlot' = [i \in Id |-> 0]
    BY <2>1 DEF GatewayStep
  <2>. QED  BY <1>1, <1>2, <2>1, <2>2, StartBoot DEF AtPC
<1>3. ASSUME NEW i \in Id, Begin(i)
      PROVE  /\ BootInv'
             /\ AtPC("dispatch") /\ task'.pc = "running" =>
                  task'.cur \in Id /\ Begin(task'.cur)
  <2>1. AtPC("dispatch") /\ ~ AtPC("down")
    BY <1>3 DEF Begin, AtPC
  <2>2. task'.pc = "running" /\ task'.cur = i
    BY <1>1, <1>3 DEF Begin, BootType, Task
  <2>3. bootSlot' = [bootSlot EXCEPT ![i] = task.due[i]]
    BY <2>1, <2>2 DEF GatewayStep
  <2>. QED  BY <1>1, <1>3, <2>2, <2>3, BeginBoot
<1>4. ASSUME \/ Stop \/ Crash \/ Tick \/ Wake \/ Rearm \/ JobReturns \/ Notified
             \/ \E i \in Id : BeginRaises(i)
             \/ \E sched \in Schedules : SeedJob(sched)
             \/ \E sched \in Schedules, d \in BOOLEAN : AddJob(sched, d)
             \/ \E i \in Id : RemoveJob(i)
      PROVE  BootInv' /\ ~ (AtPC("dispatch") /\ task'.pc = "running")
  <2>1. /\ ~ (AtPC("dispatch") /\ task'.pc = "running")
        /\ ~ (AtPC("down") /\ task'.pc # "down")
    BY <1>1, <1>4, NoRunBegins
  <2>2. UNCHANGED bootSlot
    BY <2>1 DEF GatewayStep
  <2>. QED  BY <1>1, <1>4, <2>1, <2>2, WakeBoot, TimerBoot, ProcessBoot
<1>. QED  BY <1>2, <1>3, <1>4 DEF GatewayStep, Next, TimerStep

\* Whatever the commands write to jobs.json, between two starts the gateway runs
\* a job at most once for a scheduled time and never early (commands.py beside
\* service.py: _on_timer and _execute_job work on the list in memory).
THEOREM OncePerSlotWithCommands == CliSpec => OncePerSlotAndBoot
<1>1. BootInv /\ [CliNext]_cliVars => BootInv'
  <2> SUFFICES ASSUME BootInv, [CliNext]_cliVars PROVE BootInv'
    OBVIOUS
  <2>1. CASE UNCHANGED cliVars
    BY <2>1 DEF cliVars, vars, BootInv, BootType, BootTask, Running, Queued, LatestBy, Beyond
  <2>. QED  BY <2>1, GatewayBoot, CliBoot DEF CliNext
<1>2. BootInv /\ [CliNext]_cliVars =>
        [\A i \in Id : AtPC("dispatch") /\ task'.pc = "running" /\ task'.cur = i
            => task.due[i] > bootSlot[i] /\ task.due[i] <= now]_cliVars
  <2> SUFFICES ASSUME BootInv, CliNext, NEW i \in Id,
                      AtPC("dispatch"), task'.pc = "running", task'.cur = i
               PROVE  task.due[i] > bootSlot[i] /\ task.due[i] <= now
    OBVIOUS
  <2>1. CASE CliStep
    BY <2>1, CliBoot DEF AtPC
  <2>2. CASE GatewayStep
    BY <2>2, GatewayBoot DEF Begin, BootInv, BootTask
  <2>. QED  BY <2>1, <2>2 DEF CliNext
<1>. QED  BY <1>1, <1>2, BootInit, PTL DEF CliSpec, OncePerSlotAndBoot
=============================================================================
