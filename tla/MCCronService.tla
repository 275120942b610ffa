--------------------------- MODULE MCCronService ---------------------------
(* Small instances of CronService for TLC. *)
EXTENDS CronService

At3     == [kind |-> "at", time |-> 3, ticks |-> {}]
Every2  == [kind |-> "every", time |-> 2, ticks |-> {}]
Every4  == [kind |-> "every", time |-> 4, ticks |-> {}]
CronOdd == [kind |-> "cron", time |-> 0, ticks |-> {1, 3, 5, 7, 9, 11}]

MCSchedules == {At3, Every4, CronOdd}
=============================================================================
