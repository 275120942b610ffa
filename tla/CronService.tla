---------------------------- MODULE CronService ----------------------------
(***************************************************************************)
(* The cron service of the gateway (nanobot/cron/service.py): the list of  *)
(* jobs in memory and in jobs.json, the one timer task that runs due jobs  *)
(* through the agent, and the turns that add and remove jobs meanwhile.    *)
(*                                                                         *)
(* Everything runs on one asyncio loop.  The timer task gives the loop up  *)
(* while it sleeps, while it awaits the agent ("running") and while it     *)
(* awaits the failure notification ("notifying"); only then do other turns *)
(* run and time pass.  "dispatch" is the timer task between two jobs: it   *)
(* holds the loop, but the process may crash there.                        *)
(***************************************************************************)
EXTENDS CronJobs

CONSTANTS
    MaxTime,      \* bound: the clock stops here
    MaxSleep,     \* the 30 seconds of service.py:282
    Schedules,    \* the schedules that turns ask for
    SaveMayFail   \* whether writing jobs.json may raise

ASSUME CronServiceAssumption ==
    /\ MaxTime \in Nat \ {0}
    /\ MaxSleep \in Nat \ {0}
    /\ Schedules \subseteq Schedule
    /\ SaveMayFail \in BOOLEAN

VARIABLES
    now,      \* the wall clock
    fresh,    \* ids that uuid4 has not handed out yet
    mem,      \* self._store.jobs
    disk,     \* jobs.json
    task,     \* self._timer_task and where it stands
    alerted,  \* jobs whose latest run failed and whose channel was told
    lastSlot, \* history: the scheduled time of each job's latest run
    bootDay   \* history: midnight before the latest start

vars == <<now, fresh, mem, disk, task, alerted, lastSlot, bootDay>>

PCs == {"down", "sleeping", "dispatch", "running", "notifying", "dead"}

\* wake: when the sleep ends; due: due_jobs not executed yet, each with the time
\* it is due for; cur, start: the job being executed and when it began.
Task == [pc : PCs, wake : Nat, due : [Id -> Nat], cur : Nat, start : Nat]

NoDue == [i \in Id |-> None]
Queued(i) == task.due[i] # None

AtPC(pc) == task.pc = pc
Up == ~ AtPC("down")
Idle(pc) == [pc |-> pc, wake |-> 0, due |-> NoDue, cur |-> 0, start |-> 0]

\* Another turn may run: the service is up and the timer task awaits something.
LoopFree == Up /\ ~ AtPC("dispatch")

TypeOK ==
    /\ now \in Nat \ {0}
    /\ fresh \subseteq Id
    /\ mem \in Store
    /\ disk \in Store
    /\ task \in Task
    /\ alerted \subseteq Id
    /\ lastSlot \in [Id -> Nat]
    /\ bootDay \in Nat

Init ==
    /\ now = 1
    /\ fresh = Id
    /\ mem = EmptyStore
    /\ disk = EmptyStore
    /\ task = Idle("down")
    /\ alerted = {}
    /\ lastSlot = [i \in Id |-> 0]
    /\ bootDay = 0

-----------------------------------------------------------------------------
(* Saving and arming.                                                      *)

\* _save_store: an atomic replacement of the file, or an exception.
SaveOK(store) == disk' = store
SaveRaises == SaveMayFail /\ UNCHANGED disk

WakeTime(store) ==
    LET early == {w \in PendingTimes(store) : w < now + MaxSleep}
        first == CHOOSE w \in early : \A v \in early : w <= v
    IN  IF early = {} THEN now + MaxSleep
        ELSE IF first < now THEN now ELSE first

\* _arm_timer: whatever the current task was doing, it is cancelled, and a new
\* one sleeps until the next job, at most MaxSleep.
Arm(store) == task' = [Idle("sleeping") EXCEPT !.wake = WakeTime(store)]

-----------------------------------------------------------------------------
(* The life of the process.                                                *)

\* The gateway adds its own jobs before it starts the service.
SeedJob(sched) ==
    /\ AtPC("down")
    /\ \E i \in fresh :
        /\ \A k \in fresh : i <= k
        /\ fresh' = fresh \ {i}
        /\ SaveOK([disk EXCEPT ![i] = NewJob(sched, FALSE, now)])
    /\ UNCHANGED <<now, mem, task, alerted, lastSlot, bootDay>>

\* start(): reload, skip the jobs of earlier days (saved when there are any),
\* then give a time to enabled jobs without one (not saved), then arm.
Start ==
    /\ AtPC("down")
    /\ disk' = SkipStale(disk, now)
    /\ mem' = RecomputeNextRuns(disk', now)
    /\ Arm(mem')
    /\ bootDay' = DayStart(now)
    /\ UNCHANGED <<now, fresh, alerted, lastSlot>>

GoDown ==
    /\ task' = Idle("down")
    /\ mem' = EmptyStore
    /\ UNCHANGED <<now, fresh, disk, alerted, lastSlot, bootDay>>

\* stop(): the timer task is cancelled and nothing is saved.
Stop == LoopFree /\ GoDown

\* The process dies, at any point.
Crash == Up /\ GoDown

Tick ==
    /\ now < MaxTime
    /\ ~ AtPC("dispatch")
    /\ now' = now + 1
    /\ UNCHANGED <<fresh, mem, disk, task, alerted, lastSlot, bootDay>>

-----------------------------------------------------------------------------
(* The timer task.                                                         *)

DueJobs == [i \in Id |-> IF Due(mem, i, now) THEN mem[i].next ELSE None]

\* The sleep is over: _on_timer collects the due jobs.
Wake ==
    /\ AtPC("sleeping")
    /\ task.wake <= now
    /\ task' = [Idle("dispatch") EXCEPT !.due = DueJobs]
    /\ UNCHANGED <<now, fresh, mem, disk, alerted, lastSlot, bootDay>>

\* Mutant: the advanced schedule is saved only with the outcome.
Begin_SavedLater(i) ==
    /\ AtPC("dispatch")
    /\ Queued(i)
    /\ \A k \in Id : Queued(k) => i <= k
    /\ mem' = AdvanceIn(mem, i, now)
    /\ task' = [task EXCEPT !.pc = "running", !.due[i] = None,
                            !.cur = i, !.start = now]
    /\ alerted' = alerted \ {i}
    /\ lastSlot' = [lastSlot EXCEPT ![i] = task.due[i]]
    /\ UNCHANGED <<now, fresh, disk, bootDay>>

\* The first lines of _execute_job: the schedule moves on and is saved before
\* the callback is awaited.
Begin(i) ==
    /\ AtPC("dispatch")
    /\ Queued(i)
    /\ \A k \in Id : Queued(k) => i <= k
    /\ mem' = AdvanceIn(mem, i, now)
    /\ SaveOK(mem')
    /\ task' = [task EXCEPT !.pc = "running", !.due[i] = None,
                            !.cur = i, !.start = now]
    /\ alerted' = alerted \ {i}
    /\ lastSlot' = [lastSlot EXCEPT ![i] = task.due[i]]
    /\ UNCHANGED <<now, fresh, bootDay>>

\* The save before the callback raises: the exception ends the timer task.
BeginRaises(i) ==
    /\ AtPC("dispatch")
    /\ Queued(i)
    /\ \A k \in Id : Queued(k) => i <= k
    /\ mem' = AdvanceIn(mem, i, now)
    /\ SaveRaises
    /\ task' = Idle("dead")
    /\ UNCHANGED <<now, fresh, alerted, lastSlot, bootDay>>

\* The last lines of _execute_job, then back to the loop over due_jobs.
Finish(store) ==
    /\ mem' = SettledIn(store, task.cur, now)
    /\ \/ /\ SaveOK(mem')
          /\ task' = [task EXCEPT !.pc = "dispatch", !.cur = 0, !.start = 0]
       \/ /\ SaveRaises
          /\ task' = Idle("dead")

\* What the outcome of the run does to the job.
Outcome(outcome) == OutcomeIn(mem, task.cur, outcome, task.start)

Succeed ==
    /\ AtPC("running")
    /\ Finish(Outcome("ok"))
    /\ UNCHANGED <<now, fresh, alerted, lastSlot, bootDay>>

\* Any other outcome is followed by the notification callback.
Fail(outcome) ==
    /\ AtPC("running")
    /\ outcome # "ok"
    /\ mem' = Outcome(outcome)
    /\ task' = [task EXCEPT !.pc = "notifying"]
    /\ UNCHANGED <<now, fresh, disk, alerted, lastSlot, bootDay>>

\* The gateway's callback looks the job up among the enabled jobs of the list.
InEnabledList(i) == mem[i] # NoJob /\ mem[i].enabled

\* Mutant: an exception of the callback escapes and ends the timer task.
Notified_Escapes ==
    /\ AtPC("notifying")
    /\ task' = Idle("dead")
    /\ UNCHANGED <<now, fresh, mem, disk, alerted, lastSlot, bootDay>>

Notified ==
    /\ AtPC("notifying")
    /\ alerted' = IF InEnabledList(task.cur) THEN alerted \cup {task.cur} ELSE alerted
    /\ Finish(mem)
    /\ UNCHANGED <<now, fresh, lastSlot, bootDay>>

\* No due job is left: _on_timer arms the next timer.
Rearm ==
    /\ AtPC("dispatch")
    /\ \A i \in Id : ~ Queued(i)
    /\ Arm(mem)
    /\ UNCHANGED <<now, fresh, mem, disk, alerted, lastSlot, bootDay>>

-----------------------------------------------------------------------------
(* Calls of other turns (and of the turn of the running job itself).       *)

\* add_job.  A save that raises leaves the job in memory and the timer as it is.
AddJob(sched, deleteAfter) ==
    /\ LoopFree
    /\ \E i \in fresh :
        /\ \A k \in fresh : i <= k
        /\ fresh' = fresh \ {i}
        /\ mem' = [mem EXCEPT ![i] = NewJob(sched, deleteAfter, now)]
    /\ \/ SaveOK(mem') /\ Arm(mem')
       \/ SaveRaises /\ UNCHANGED task
    /\ UNCHANGED <<now, alerted, lastSlot, bootDay>>

\* Mutant: removing a job does not touch the timer.
RemoveJob_TimerKept(i) ==
    /\ LoopFree
    /\ mem[i] # NoJob
    /\ mem' = [mem EXCEPT ![i] = NoJob]
    /\ SaveOK(mem')
    /\ UNCHANGED <<now, fresh, task, alerted, lastSlot, bootDay>>

\* remove_job.
RemoveJob(i) ==
    /\ LoopFree
    /\ mem[i] # NoJob
    /\ mem' = [mem EXCEPT ![i] = NoJob]
    /\ \/ SaveOK(mem') /\ Arm(mem')
       \/ SaveRaises /\ UNCHANGED task
    /\ UNCHANGED <<now, fresh, alerted, lastSlot, bootDay>>

-----------------------------------------------------------------------------

TimerStep ==
    \/ Wake
    \/ \E i \in Id : Begin(i) \/ BeginRaises(i)
    \/ Rearm

JobReturns == Succeed \/ \E outcome \in Outcomes : Fail(outcome)

Next ==
    \/ Start \/ Stop \/ Crash \/ Tick
    \/ TimerStep \/ JobReturns \/ Notified
    \/ \E sched \in Schedules : SeedJob(sched)
    \/ \E sched \in Schedules, deleteAfter \in BOOLEAN : AddJob(sched, deleteAfter)
    \/ \E i \in Id : RemoveJob(i)

Spec == Init /\ [][Next]_vars

\* The event loop serves a ready task, the clock moves, and a turn of the agent
\* returns (it is bounded by its iterations and the timeouts of its calls).
Fairness ==
    /\ WF_vars(TimerStep)
    /\ WF_vars(JobReturns)
    /\ WF_vars(Notified)
    /\ WF_vars(Tick)

FairSpec == Spec /\ Fairness

-----------------------------------------------------------------------------
(* Properties.                                                             *)

Ledger == INSTANCE CronLedger

\* Every run of a job is for a scheduled time not run before, reached, and not of
\* a day that was over at the latest start; a crash between the save and the end
\* of the run does not repeat it (service.py:352-354 and 219-222).
RunsAtMostOncePerSlot == Ledger!Spec

\* The reason for it: what is scheduled, in memory and in the file a restart
\* reads, is always later than what has run.
SlotsAhead ==
    \A i \in Id :
        /\ Pending(mem, i) => mem[i].next > lastSlot[i]
        /\ Pending(disk, i) => disk[i].next > lastSlot[i]

\* The due jobs collected before the first of them was awaited are still listed,
\* enabled and due for the same time whenever the next one is taken: the list a
\* tick works on never gets stale, whatever turns do during the runs.
DueJobsAreCurrent ==
    \A i \in Id : Queued(i) => Due(mem, i, now) /\ mem[i].next = task.due[i]

\* A job given up (fatal error, partial success, or past its retries) is disabled
\* and stays so, also after a restart: the retry limit of ADR-44.
GaveUp(j) == j.status \in {"error_fatal", "partial_success"} \/ j.retry > MaxRetries
GivenUpIsDisabled ==
    \A i \in Id : \A store \in {mem, disk} :
        store[i] # NoJob /\ GaveUp(store[i]) => ~ store[i].enabled

\* A recurring job that is enabled always has a next time, in memory and in the
\* file: no cancelled run, failure, skip or restart leaves it enabled but forgotten.
Endless(sched) ==
    \/ sched.kind = "every" /\ sched.time > 0
    \/ sched.kind = "cron" /\ \E x \in sched.ticks : x > MaxTime
RecurringStaysScheduled ==
    \A i \in Id : \A store \in {mem, disk} :
        store[i] # NoJob /\ store[i].enabled /\ Endless(store[i].sched)
            => store[i].next # None

\* While the service is up there is a timer: "We always wake up at least once
\* every 30 seconds" (service.py:279).
TimerAlwaysArmed == ~ AtPC("dead")

\* A run that has begun comes to an outcome as long as the process lives.
Running == task.pc \in {"running", "notifying"}
RunsReachOutcome ==
    [][Running /\ task'.pc # "down" => task'.pc # "sleeping"]_vars

\* The channel of a job is told when its run fails.
FailureReachesChannel ==
    [][AtPC("notifying") /\ task'.pc = "dispatch" => task.cur \in alerted']_vars

\* A due job is run for that time, unless it is removed or the process stops.
\* A run that outlasts its own next time is excepted: it skips that time, also when
\* it was the retry of the run itself (service.py:454-456).
Executing(i) == Running /\ task.cur = i
DueJobRuns ==
    \A i \in Id : \A t \in 1..MaxTime :
        (Due(mem, i, now) /\ mem[i].next = t /\ ~ Executing(i))
            ~> (lastSlot[i] >= t \/ mem[i] = NoJob \/ ~ Up)
=============================================================================
