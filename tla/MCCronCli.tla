------------------------------ MODULE MCCronCli ------------------------------
(* A small instance of CronCli for TLC. *)
EXTENDS CronCli

At3    == [kind |-> "at", time |-> 3, ticks |-> {}]
Every2 == [kind |-> "every", time |-> 2, ticks |-> {}]

MCSchedules == {At3, Every2}
=============================================================================
