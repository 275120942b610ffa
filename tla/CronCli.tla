------------------------------ MODULE CronCli ------------------------------
(***************************************************************************)
(* The gateway's cron service together with the commands "nanobot cron     *)
(* add, remove, enable, run" (nanobot/cli/commands.py), each a process of  *)
(* its own with its own CronService on the same jobs.json: it loads the    *)
(* file, changes the list and saves it, while the gateway goes on.         *)
(***************************************************************************)
EXTENDS CronService

VARIABLES
    cli,      \* the command under way and the list it loaded
    bootSlot  \* history: the time of each job's latest run since the last start

cliVars == <<vars, cli, bootSlot>>

CliIdle == [loaded |-> FALSE, list |-> EmptyStore]

CliInit ==
    /\ Init
    /\ cli = CliIdle
    /\ bootSlot = [i \in Id |-> 0]

-----------------------------------------------------------------------------

\* The command loads jobs.json.
CliLoad ==
    /\ ~ cli.loaded
    /\ cli' = [loaded |-> TRUE, list |-> disk]
    /\ UNCHANGED <<vars, bootSlot>>

\* Its service is not running, so nothing is armed: the file is all it touches.
CliSave(list) ==
    /\ cli.loaded
    /\ disk' = list
    /\ cli' = CliIdle
    /\ UNCHANGED <<now, mem, task, alerted, lastSlot, bootDay, bootSlot>>

CliAdd(sched) ==
    \E i \in fresh :
        /\ \A k \in fresh : i <= k
        /\ fresh' = fresh \ {i}
        /\ CliSave([cli.list EXCEPT ![i] = NewJob(sched, FALSE, now)])

CliRemove(i) ==
    /\ cli.list[i] # NoJob
    /\ CliSave([cli.list EXCEPT ![i] = NoJob])
    /\ UNCHANGED fresh

CliEnable(i, flag) ==
    /\ cli.list[i] # NoJob
    /\ CliSave([cli.list EXCEPT ![i] = Enable(@, flag, now)])
    /\ UNCHANGED fresh

\* run_job without a callback: the whole of _execute_job with no run in it, which
\* counts as a success.
CliRun(i, force) ==
    /\ cli.list[i] # NoJob
    /\ force \/ cli.list[i].enabled
    /\ CliSave(SettledIn(OutcomeIn(AdvanceIn(cli.list, i, now), i, "ok", now), i, now))
    /\ UNCHANGED fresh

\* The job is not there, or not to be run: the command ends.
CliGivesUp ==
    /\ cli.loaded
    /\ cli' = CliIdle
    /\ UNCHANGED <<vars, bootSlot>>

CliStep ==
    \/ CliLoad
    \/ CliGivesUp
    \/ \E sched \in Schedules : CliAdd(sched)
    \/ \E i \in Id : CliRemove(i)
    \/ \E i \in Id, flag \in BOOLEAN : CliEnable(i, flag) \/ CliRun(i, flag)

GatewayStep ==
    /\ Next
    /\ bootSlot' = IF AtPC("down") /\ task'.pc # "down" THEN [i \in Id |-> 0]
                   ELSE IF AtPC("dispatch") /\ task'.pc = "running"
                   THEN [bootSlot EXCEPT ![task'.cur] = task.due[task'.cur]]
                   ELSE bootSlot
    /\ UNCHANGED cli

CliNext == GatewayStep \/ CliStep

CliSpec == CliInit /\ [][CliNext]_cliVars

-----------------------------------------------------------------------------
(* Properties.                                                             *)

\* Whatever the commands write to the file, between two starts the gateway runs a
\* job at most once for a scheduled time, and never early: the list in memory is its own.
OncePerSlotAndBoot ==
    [][\A i \in Id :
        AtPC("dispatch") /\ task'.pc = "running" /\ task'.cur = i
            => task.due[i] > bootSlot[i] /\ task.due[i] <= now]_cliVars
=============================================================================
