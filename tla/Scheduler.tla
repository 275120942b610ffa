----------------------------- MODULE Scheduler ------------------------------
(* The second scheduler of the package (cron/scheduler.py): one loop that runs   *)
(* cron jobs and a heartbeat from a table of task objects, loaded from the file  *)
(* of the cron jobs and written back after each round; and the stand-alone       *)
(* heartbeat (heartbeat/service.py) that the gateway starts.                     *)
EXTENDS Naturals, Sequences, SequencesExt

CONSTANTS Jobs, At,            \* the jobs of the file, those of kind "at" among them
          MaxTime, MaxLoads, MaxFaults

Beat == "heartbeat"
Never == 0

VARIABLES file,                \* the cron file: a record per job
          table,               \* _tasks: per id a task object; its serial number tells
                               \* an object from the one a reload put in its place
          loop,                \* "off", "idle", "round", "running"
          batch,               \* tasks_to_run: the objects still to be executed
          now, loads, faults,
          fresh,               \* history: slots executed since the last load of the table
          service              \* HeartbeatService: "off", "sleeping", "ticking"

vars == <<file, table, loop, batch, now, loads, faults, fresh, service>>

Init == /\ file \in [Jobs -> [on : BOOLEAN, next : {1}]]
        /\ table = <<>> /\ loop = "off" /\ batch = <<>> /\ now = 1
        /\ loads = 0 /\ faults = 0 /\ fresh = {} /\ service = "off"

(* _compute_next_run: "every" 2 ticks from now, an "at" job has had its time.    *)
ComputeNext(id) == IF id \in At THEN Never ELSE now + 2

(* _load_cron_jobs: each job of the file becomes a new object; a job the file no *)
(* longer names keeps the old one.                                               *)
Loaded == [id \in Jobs \union DOMAIN table |->
             IF id \in Jobs
               THEN [id |-> id, serial |-> loads + 1, on |-> file[id].on,
                     next |-> IF file[id].next = Never /\ id \notin At
                                THEN ComputeNext(id) ELSE file[id].next]
               ELSE table[id]]
WithBeat(t) == [id \in DOMAIN t \union {Beat} |->
                  IF id = Beat THEN [id |-> Beat, serial |-> loads + 1, on |-> TRUE, next |-> now + 2]
                               ELSE t[id]]
Start ==
    /\ loop = "off" /\ loads < MaxLoads /\ loads' = loads + 1
    /\ table' = WithBeat(Loaded) /\ fresh' = {} /\ loop' = "idle"
    /\ UNCHANGED <<file, batch, now, faults, service>>
(* reload_cron_jobs(), also while a round waits for a callback. *)
Reload ==
    /\ loop # "off" /\ loads < MaxLoads /\ loads' = loads + 1
    /\ table' = Loaded /\ fresh' = {}
    /\ UNCHANGED <<file, loop, batch, now, faults, service>>
(* stop(), or the end of the process: CancelledError leaves the loop at its await *)
(* and nothing of the round is written.                                          *)
Stop ==
    /\ loop # "off" /\ loop' = "off" /\ batch' = <<>> /\ table' = <<>>
    /\ UNCHANGED <<file, now, loads, faults, fresh, service>>
(* Another hand switches a job of the file. *)
Edit(j) == /\ file' = [file EXCEPT ![j].on = ~@] /\ faults < MaxFaults /\ faults' = faults + 1
           /\ UNCHANGED <<table, loop, batch, now, loads, fresh, service>>

ShouldRun(t) == t.on /\ t.next # Never /\ now >= t.next
(* _run_loop, once a second: the due objects, in any order here.                  *)
Round ==
    /\ loop = "idle" /\ \E id \in DOMAIN table : ShouldRun(table[id])
    /\ batch' \in SetToSeqs({table[id] : id \in {i \in DOMAIN table : ShouldRun(table[i])}})
    /\ loop' = "round"
    /\ UNCHANGED <<file, table, now, loads, faults, fresh, service>>
(* _execute_task: the callback of the head is called ... *)
Execute ==
    /\ loop = "round" /\ batch # <<>> /\ loop' = "running"
    /\ fresh' = fresh \union {<<Head(batch).id, Head(batch).next, Head(batch).serial>>}
    /\ UNCHANGED <<file, table, batch, now, loads, faults, service>>
(* Mutated form of Advanced: the exception leaves before the next run is set.    *)
Advanced_OnSuccess(t, ok) == [t EXCEPT !.next = IF ok THEN ComputeNext(t.id) ELSE @]
Advanced(t, ok) == [t EXCEPT !.next = ComputeNext(t.id)]
(* ... returns, or raises, which is recorded only; then the next run of that     *)
(* object is set, an object nobody refers to any more after a reload.            *)
Executed(ok) ==
    /\ loop = "running" /\ loop' = "round" /\ batch' = Tail(batch)
    /\ IF ok THEN UNCHANGED faults ELSE faults < MaxFaults /\ faults' = faults + 1
    /\ LET t == Head(batch)
       IN table' = IF table[t.id].serial = t.serial
                     THEN [table EXCEPT ![t.id] = Advanced(t, ok)] ELSE table
    /\ UNCHANGED <<file, now, loads, fresh, service>>
(* _save_cron_jobs writes the table over the file; a write that fails is logged. *)
Save(ok) ==
    /\ loop = "round" /\ batch = <<>> /\ loop' = "idle"
    /\ IF ok THEN /\ file' = [j \in Jobs |-> [on |-> table[j].on, next |-> table[j].next]]
                  /\ UNCHANGED faults
             ELSE faults < MaxFaults /\ faults' = faults + 1 /\ UNCHANGED file
    /\ UNCHANGED <<table, batch, now, loads, fresh, service>>

(* HeartbeatService: a tick reads HEARTBEAT.md and asks the agent unless there is *)
(* nothing in it; an exception is logged; stop() cancels the tick.               *)
Sleeps == /\ service \in {"off", "ticking"} /\ service' = "sleeping"
          /\ UNCHANGED <<file, table, loop, batch, now, loads, faults, fresh>>
Tick   == /\ service = "sleeping" /\ service' = "ticking"
          /\ UNCHANGED <<file, table, loop, batch, now, loads, faults, fresh>>
Cease  == /\ service # "off" /\ service' = "off"
          /\ UNCHANGED <<file, table, loop, batch, now, loads, faults, fresh>>

Time == /\ now < MaxTime /\ now' = now + 1
        /\ UNCHANGED <<file, table, loop, batch, loads, faults, fresh, service>>

Next == \/ Start \/ Reload \/ Stop \/ Round \/ Execute \/ Time
        \/ \E b \in BOOLEAN : Executed(b) \/ Save(b)
        \/ \E j \in Jobs : Edit(j)
        \/ Sleeps \/ Tick \/ Cease
Spec == Init /\ [][Next]_vars
-----------------------------------------------------------------------------
(* A slot of a job is executed once as long as the table is not loaded anew: no  *)
(* callback that raises, no write that fails and no second round repeats it.     *)
SlotOnce ==
    loop = "round" /\ batch # <<>> => 
      <<Head(batch).id, Head(batch).next, Head(batch).serial>> \notin fresh
=============================================================================
