--------------------------------- MODULE Tasks ---------------------------------
(* The task tracker (agent/task_tracker.py) as the turns of the agent loop use *)
(* it: a task for each request that is no small talk, the one task that is     *)
(* active, what a prompt tells of it, and the file written after each change. *)
EXTENDS Naturals, Sequences, FiniteSets, FiniteSetsExt

CONSTANTS Turns,          \* turns of several sessions
          MaxSteps,       \* steps that are recorded of a turn, 8 in the code
          MaxTasks, MaxFaults

VARIABLES tasks,          \* _tasks: id -> status and steps
          active,         \* _active_task_id, 0 for none
          file,           \* what tasks_tracking.json holds, {} when it is torn
          turns,          \* turn -> how far it is, its task, what its prompt shows
          others,         \* turns during whose start another turn made a task
          faults

vars == <<tasks, active, file, turns, others, faults>>

Idle == [pc |-> "idle", task |-> 0, shows |-> 0]
Fresh == Cardinality(DOMAIN tasks) + 1
Saved(ts, a) == [tasks |-> ts, active |-> a]

Init ==
    /\ tasks = <<>> /\ active = 0 /\ file = {Saved(<<>>, 0)}
    /\ turns = [t \in Turns |-> Idle] /\ others = {} /\ faults = 0

\* _save writes the file in place; a failure leaves the old one or a torn one.
Save(ok) ==
    /\ ~ok => faults < MaxFaults
    /\ faults' = IF ok THEN faults ELSE faults + 1
    /\ IF ok THEN file' = {Saved(tasks', active')} ELSE file' \in {file, {}}

------------------------------------------------------------------------------
(* A request: its task is created and runs before the prompt is built.       *)
Begin(t, status, ok) ==
    /\ turns[t].pc = "idle" /\ Fresh <= MaxTasks
    /\ status = "created" => ~ok          \* the first of the two saves raised
    /\ tasks' = tasks \o <<[status |-> status, steps |-> <<>>]>>
    /\ active' = Fresh
    /\ Save(ok)
    /\ turns' = [turns EXCEPT ![t] = IF ok THEN [pc |-> "start", task |-> Fresh, shows |-> 0] ELSE Idle]
    /\ others' = IF ok THEN (others \cup {u \in Turns : turns[u].pc = "start"}) \ {t}
                 ELSE others \cup {u \in Turns : turns[u].pc = "start"}

\* Small talk has no task; its prompt still tells of the active one.
Chat(t) ==
    /\ turns[t].pc = "idle"
    /\ turns' = [turns EXCEPT ![t] = [pc |-> "start", task |-> 0, shows |-> 0]]
    /\ UNCHANGED <<tasks, active, file, others, faults>>

\* The query was rewritten and the memory searched: the prompt is built.
Build(t) ==
    /\ turns[t].pc = "start"
    /\ turns' = [turns EXCEPT ![t].pc = "loop",
                              ![t].shows = IF active \in DOMAIN tasks THEN active ELSE 0]
    /\ UNCHANGED <<tasks, active, file, others, faults>>

(* The steps are the last calls of the turn; the last one failed with the     *)
(* turn or waits for an answer with it.                                      *)
Steps(n, exit, pending) ==
    [i \in 1..(IF n < MaxSteps THEN n ELSE MaxSteps) |->
        IF i < (IF n < MaxSteps THEN n ELSE MaxSteps) THEN "completed"
        ELSE IF exit # "success" THEN "failed" ELSE IF pending THEN "running" ELSE "completed"]

Settled(exit, pending) ==
    IF pending THEN "pending_review" ELSE IF exit = "success" THEN "completed" ELSE "failed"

ActiveAfter_Cleared(id) == 0
ActiveAfter(id) == active

\* _track_request_outcome; the first of its saves, after the steps, may raise.
End(t, n, exit, pending, status, ok) ==
    /\ turns[t].pc = "loop"
    /\ status = Settled(exit, pending) \/ (~ok /\ n > 0 /\ status = "planning")
    /\ turns' = [turns EXCEPT ![t] = Idle]
    /\ others' = others \ {t}
    /\ LET id == turns[t].task
       IN  IF id \in DOMAIN tasks
           THEN /\ tasks' = [tasks EXCEPT ![id].steps = IF n = 0 THEN @ ELSE Steps(n, exit, pending),
                                          ![id].status = status]
                /\ active' = ActiveAfter(id)
                /\ Save(ok)
           ELSE UNCHANGED <<tasks, active, file, faults>>

\* The turn is cancelled or raises before its outcome is tracked.
Cut(t) ==
    /\ turns[t].pc \in {"start", "loop"}
    /\ faults < MaxFaults /\ faults' = faults + 1
    /\ turns' = [turns EXCEPT ![t] = Idle] /\ others' = others \ {t}
    /\ UNCHANGED <<tasks, active, file>>

\* A restart: a file that cannot be read is no file.
Restart ==
    /\ faults < MaxFaults /\ faults' = faults + 1
    /\ \E saved \in IF file = {} THEN {Saved(<<>>, 0)} ELSE file :
          tasks' = saved.tasks /\ active' = saved.active
    /\ turns' = [t \in Turns |-> Idle] /\ others' = {}
    /\ UNCHANGED file

Next ==
    \/ \E t \in Turns, s \in {"created", "running"}, ok \in BOOLEAN : Begin(t, s, ok)
    \/ \E t \in Turns : Chat(t) \/ Build(t) \/ Cut(t)
    \/ \E t \in Turns, n \in 0..(MaxSteps + 1), exit \in {"success", "abort"}, p, ok \in BOOLEAN :
          \E s \in {"planning", Settled(exit, p)} : End(t, n, exit, p, s, ok)
    \/ Restart

Spec == Init /\ [][Next]_vars

------------------------------------------------------------------------------
(* A prompt tells of the task of its own turn, unless another turn made one   *)
(* while this one searched the memory: the end of a turn does not matter.    *)
OwnTaskShown ==
    \A t \in Turns : turns[t].pc = "loop" /\ turns[t].task # 0 /\ t \notin others =>
        turns[t].shows = turns[t].task

(* Each prompt tells of its own turn.                                         *)
(* Not kept: one tracker serves all turns, and a turn without a task is told  *)
(* another's.                                                                 *)
PromptIsOwn == \A t \in Turns : turns[t].pc = "loop" => turns[t].shows = turns[t].task
==============================================================================
