------------------------------ MODULE Workers -------------------------------
(* Background work: worker processes the coordinator starts and polls over HTTP  *)
(* (agent/coordinator.py, worker_process.py) and subagents that run as tasks of  *)
(* the gateway (subagent.py). Whoever is told "I'll notify you when it           *)
(* completes" gets one announcement through the bus (worker/bridge.py).          *)
EXTENDS Naturals, FiniteSets, TLAPS

CONSTANTS Jobs,           \* tasks that are given away; each is a process or a subagent
          MaxWorkers

VARIABLES kind,           \* "none", "process" or "subagent"
          call,           \* spawn(): "none", "starting", "posting", "started" (the
                          \* promise is given), "refused", "failed", "cancelled"
          proc,           \* the process: "none", "up", "dead"
          status,         \* of the worker node: idle, running, completed, error
          watchdog,       \* its idle watchdog runs
          leaving,        \* it has been told to shut down
          tracked,        \* workers, the coordinator's table
          monitor,        \* _poll_worker_status, or the subagent's task: "none",
                          \* "sleeping", "asking", "announcing", "closing", "done", "cancelled"
          verdict,        \* what it is about to announce
          announced       \* history: announcements per job

node    == <<proc, status, watchdog, leaving>>
manager == <<kind, call, tracked>>
poll    == <<monitor, verdict>>
vars == <<node, manager, poll, announced>>

Fill(v) == [j \in Jobs |-> v]
Init == /\ kind = Fill("none") /\ call = Fill("none") /\ proc = Fill("none")
        /\ status = Fill("idle") /\ watchdog = Fill(FALSE) /\ leaving = Fill(FALSE)
        /\ tracked = {} /\ monitor = Fill("none") /\ verdict = Fill("") /\ announced = Fill(0)

Set(f, j, v) == [f EXCEPT ![j] = v]

(* spawn() of the coordinator. At the limit dead workers leave the table first.  *)
(* Between the check and the entry into the table it waits for the process.      *)
Alive == {j \in tracked : proc[j] # "dead"}
Spawn(j) ==
    /\ kind[j] = "none" /\ kind' = Set(kind, j, "process")
    /\ tracked' = IF Cardinality(tracked) < MaxWorkers THEN tracked ELSE Alive
    /\ IF Cardinality(tracked') < MaxWorkers
         THEN /\ call' = Set(call, j, "starting")
              /\ proc' = Set(proc, j, "up") /\ watchdog' = Set(watchdog, j, TRUE)
         ELSE call' = Set(call, j, "refused") /\ UNCHANGED <<proc, watchdog>>
    /\ UNCHANGED <<status, leaving, poll, announced>>
Ready(j) == /\ call[j] = "starting" /\ proc[j] = "up" /\ call' = Set(call, j, "posting")
            /\ UNCHANGED <<node, kind, tracked, poll, announced>>
(* No port, or POST /task is refused or lost: the process is killed. *)
SpawnFails(j) ==
    /\ call[j] \in {"starting", "posting"} /\ call' = Set(call, j, "failed")
    /\ proc' = Set(proc, j, "dead")
    /\ UNCHANGED <<status, watchdog, leaving, kind, tracked, poll, announced>>
(* A cancelled turn takes its spawn along and leaves the process alone. *)
SpawnCancelled(j) ==
    /\ call[j] \in {"starting", "posting"} /\ call' = Set(call, j, "cancelled")
    /\ UNCHANGED <<node, kind, tracked, poll, announced>>
(* POST /task is accepted: the watchdog stops, the job runs, and the coordinator *)
(* answers with its promise.                                                     *)
Accept(j) ==
    /\ call[j] = "posting" /\ proc[j] = "up"
    /\ status' = Set(status, j, "running") /\ watchdog' = Set(watchdog, j, FALSE)
    /\ call' = Set(call, j, "started") /\ tracked' = tracked \union {j}
    /\ monitor' = Set(monitor, j, "sleeping")
    /\ UNCHANGED <<kind, proc, leaving, verdict, announced>>

(* The worker node. *)
WorkEnds(j, s) ==
    /\ proc[j] = "up" /\ status[j] = "running"
    /\ status' = Set(status, j, s) /\ watchdog' = Set(watchdog, j, TRUE)
    /\ UNCHANGED <<proc, leaving, manager, poll, announced>>
Dies(j) == /\ proc[j] = "up" /\ proc' = Set(proc, j, "dead")
           /\ UNCHANGED <<status, watchdog, leaving, manager, poll, announced>>
IdleTimeout(j) == watchdog[j] /\ status[j] # "running" /\ ~leaving[j] /\ Dies(j)
Leaves(j)      == leaving[j] /\ Dies(j)

(* The monitor, every ten seconds: is the process there, what does GET /result   *)
(* say. A dead process is announced as a crash whatever it had finished.         *)
Tick(j) ==
    /\ kind[j] = "process" /\ monitor[j] = "sleeping"
    /\ IF proc[j] = "dead"
         THEN monitor' = Set(monitor, j, "announcing") /\ verdict' = Set(verdict, j, "crashed")
         ELSE monitor' = Set(monitor, j, "asking") /\ UNCHANGED verdict
    /\ UNCHANGED <<node, manager, announced>>
Answered(j) ==
    /\ monitor[j] = "asking" /\ proc[j] = "up"
    /\ IF status[j] \in {"completed", "error"}
         THEN monitor' = Set(monitor, j, "announcing") /\ verdict' = Set(verdict, j, status[j])
         ELSE monitor' = Set(monitor, j, "sleeping") /\ UNCHANGED verdict
    /\ UNCHANGED <<node, manager, announced>>
(* Mutated form of AskFails. *)
AskFails_GivesUp(j) ==
    /\ monitor[j] = "asking" /\ monitor' = Set(monitor, j, "done") /\ tracked' = tracked \ {j}
    /\ UNCHANGED <<node, kind, call, verdict, announced>>
(* No answer within five seconds, or a refused connection: it asks again later.  *)
AskFails(j) ==
    /\ monitor[j] = "asking" /\ monitor' = Set(monitor, j, "sleeping")
    /\ UNCHANGED <<node, manager, verdict, announced>>

(* _announce_result: a long result is first condensed by a model call, which may *)
(* fail; the notice goes to the bus either way. Then the worker is told to leave.*)
Announce(j) ==
    /\ monitor[j] = "announcing" /\ announced' = Set(announced, j, announced[j] + 1)
    /\ IF kind[j] = "process" /\ verdict[j] # "crashed"
         THEN monitor' = Set(monitor, j, "closing") /\ UNCHANGED tracked
         ELSE monitor' = Set(monitor, j, "done") /\ tracked' = tracked \ {j}
    /\ UNCHANGED <<node, kind, call, verdict>>
Close(j, heard) ==
    /\ monitor[j] = "closing" /\ monitor' = Set(monitor, j, "done") /\ tracked' = tracked \ {j}
    /\ leaving' = Set(leaving, j, heard /\ proc[j] = "up")
    /\ UNCHANGED <<proc, status, watchdog, kind, call, verdict, announced>>

(* A subagent is a task of the gateway; it ends with a result or an exception.   *)
SpawnSubagent(j) ==
    /\ kind[j] = "none" /\ kind' = Set(kind, j, "subagent") /\ call' = Set(call, j, "started")
    /\ monitor' = Set(monitor, j, "sleeping")
    /\ UNCHANGED <<node, tracked, verdict, announced>>
SubagentEnds(j, s) ==
    /\ kind[j] = "subagent" /\ monitor[j] = "sleeping"
    /\ monitor' = Set(monitor, j, "announcing") /\ verdict' = Set(verdict, j, s)
    /\ UNCHANGED <<node, manager, announced>>

Next == \E j \in Jobs :
           \/ Spawn(j) \/ Ready(j) \/ SpawnFails(j) \/ SpawnCancelled(j) \/ Accept(j)
           \/ Dies(j) \/ IdleTimeout(j) \/ Leaves(j)
           \/ Tick(j) \/ Answered(j) \/ AskFails(j) \/ Announce(j) \/ SpawnSubagent(j)
           \/ \E b \in BOOLEAN : Close(j, b)
           \/ \E s \in {"completed", "error"} : WorkEnds(j, s) \/ SubagentEnds(j, s)
Spec == Init /\ [][Next]_vars
-----------------------------------------------------------------------------
(* "I'll notify you when it completes": nobody stops watching a job before it is *)
(* announced, nobody announces it twice, and a job that was not started is never *)
(* announced, whatever the process, the network and the table do meanwhile.      *)
NotifiedOnce ==
    \A j \in Jobs : /\ announced[j] <= 1
                    /\ announced[j] = 1 => call[j] = "started"
                    /\ call[j] = "started" /\ announced[j] = 0 =>
                          monitor[j] \in {"sleeping", "asking", "announcing"}
-----------------------------------------------------------------------------
(* The proof of NotifiedOnce: the monitor starts with the promise, and only an    *)
(* announcement brings it to its end.                                            *)
Watching == {"sleeping", "asking", "announcing"}
WatchInv ==
    /\ kind \in [Jobs -> {"none", "process", "subagent"}]
    /\ call \in [Jobs -> {"none", "starting", "posting", "started", "refused", "failed", "cancelled"}]
    /\ monitor \in [Jobs -> {"none", "closing", "done"} \union Watching]
    /\ announced \in [Jobs -> Nat]
    /\ \A j \in Jobs : /\ kind[j] = "none" => call[j] = "none"
                       /\ call[j] = "started" <=> monitor[j] # "none"
                       /\ announced[j] = IF monitor[j] \in {"closing", "done"} THEN 1 ELSE 0

(* Whoever is told that he will be notified is watched until the one announcement *)
(* is out, for any number of jobs and any limit of workers (coordinator.py:83-274, *)
(* subagent.py:52-174).                                                          *)
THEOREM PromisesAreKept == Spec => []NotifiedOnce
<1> USE DEF WatchInv, Watching
<1>1. Init => WatchInv
  <2> SUFFICES ASSUME Init PROVE WatchInv
    OBVIOUS
  <2>1. /\ kind = [j \in Jobs |-> "none"] /\ call = [j \in Jobs |-> "none"]
        /\ monitor = [j \in Jobs |-> "none"] /\ announced = [j \in Jobs |-> 0]
    BY DEF Init, Fill
  <2> QED
    BY <2>1
<1>2. WatchInv /\ [Next]_vars => WatchInv'
  <2> SUFFICES ASSUME WatchInv, [Next]_vars PROVE WatchInv'
    OBVIOUS
  <2> USE DEF Set, manager, poll
  <2>1. CASE UNCHANGED vars
    BY <2>1 DEF vars
  <2>2. ASSUME NEW j \in Jobs, Spawn(j) PROVE WatchInv'
    BY <2>2 DEF Spawn
  <2>3. ASSUME NEW j \in Jobs, Ready(j) \/ SpawnFails(j) \/ SpawnCancelled(j) PROVE WatchInv'
    BY <2>3 DEF Ready, SpawnFails, SpawnCancelled
  <2>4. ASSUME NEW j \in Jobs, Accept(j) \/ SpawnSubagent(j) PROVE WatchInv'
    BY <2>4 DEF Accept, SpawnSubagent
  <2>5. ASSUME NEW j \in Jobs, NEW s, WorkEnds(j, s) \/ Dies(j) PROVE WatchInv'
    BY <2>5 DEF WorkEnds, Dies
  <2>6. ASSUME NEW j \in Jobs, Tick(j) \/ Answered(j) \/ AskFails(j) PROVE WatchInv'
    BY <2>6 DEF Tick, Answered, AskFails
  <2>7. ASSUME NEW j \in Jobs, Announce(j) PROVE WatchInv'
    BY <2>7 DEF Announce
  <2>8. ASSUME NEW j \in Jobs, NEW b, Close(j, b) PROVE WatchInv'
    BY <2>8 DEF Close
  <2>9. ASSUME NEW j \in Jobs, NEW s, SubagentEnds(j, s) PROVE WatchInv'
    BY <2>9 DEF SubagentEnds
  <2> QED
    BY <2>1, <2>2, <2>3, <2>4, <2>5, <2>6, <2>7, <2>8, <2>9 DEF Next, IdleTimeout, Leaves
<1>3. WatchInv => NotifiedOnce
  BY DEF NotifiedOnce
<1> QED
  BY <1>1, <1>2, <1>3, PTL DEF Spec
=============================================================================
