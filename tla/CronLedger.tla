----------------------------- MODULE CronLedger -----------------------------
(***************************************************************************)
(* What the cron service promises about running jobs, and nothing else:    *)
(* whatever crashes, restarts and calls of other turns happen, a job runs  *)
(* at most once for a scheduled time, in the order of the scheduled times, *)
(* never early, and never for a day that was over when the gateway last    *)
(* started.                                                                *)
(***************************************************************************)
EXTENDS Naturals

CONSTANT Id

VARIABLES
    now,      \* the wall clock
    lastSlot, \* the scheduled time of each job's latest run
    bootDay   \* the day of the latest start

vars == <<now, lastSlot, bootDay>>

Init == now = 1 /\ lastSlot = [i \in Id |-> 0] /\ bootDay = 0

Tick == now' = now + 1 /\ UNCHANGED <<lastSlot, bootDay>>

\* The service starts: what was due before midnight is given up.
Boot == bootDay' \in 0..now /\ UNCHANGED <<now, lastSlot>>

Run(i) ==
    /\ \E slot \in bootDay..now :
        /\ slot > lastSlot[i]
        /\ lastSlot' = [lastSlot EXCEPT ![i] = slot]
    /\ UNCHANGED <<now, bootDay>>

Next == Tick \/ Boot \/ \E i \in Id : Run(i)

Spec == Init /\ [][Next]_vars
=============================================================================
