--------------------------- MODULE Consolidation ----------------------------
(* Memory consolidation (agent/memory_manager.py) beside the session it works    *)
(* for: turns, /new and /deep_consolidate start tasks that wait for one lock,    *)
(* ask the model about a snapshot and write HISTORY.md, MEMORY.md and, through   *)
(* the distiller, preferences.json, while the turns go on. A message stands for  *)
(* a turn's two; MEMORY.md is the set of facts in it, and the model's update is  *)
(* all it was shown with one fact of its own.                                    *)
EXTENDS Naturals, Sequences

CONSTANTS Keep,           \* turns kept out of a consolidation, memory_window // 2
          Every,          \* turns between two automatic consolidations
          MaxTurns,       \* bound: turns
          MaxJobs         \* bound: consolidations started, facts stored, /new commands

VARIABLES turns,          \* turns so far
          msgs, last, since,  \* messages, last_consolidated and
                          \* message_count_since_consolidation of the session
          waiting,        \* tasks that wait for _consolidation_lock, in order
          active,         \* the task that holds it (none or one), with the facts of
                          \* MEMORY.md it was shown
          memory,         \* facts in MEMORY.md
          history,        \* messages summarised in HISTORY.md
          silent,         \* history: messages an answer without history_entry was about
          distilling,     \* what the running distillers read of MEMORY.md
          fresh,          \* distillers that have not read it yet
          preferences,    \* facts preferences.json was made of
          jobs,
          clean           \* history: whatever was added to last_consolidated was added
                          \* to the session the snapshot was taken of

session == <<msgs, last, since>>
distill == <<distilling, fresh, preferences>>
written == <<history, silent>>
vars == <<turns, session, waiting, active, memory, written, distill, jobs, clean>>

Own(j) == <<"consolidated", j>>
Stored(j) == <<"stored", j>>

Init == /\ turns = 0 /\ msgs = <<>> /\ last = 0 /\ since = 0
        /\ waiting = <<>> /\ active = {} /\ memory = {} /\ history = {} /\ silent = {}
        /\ distilling = {} /\ fresh = 0 /\ preferences = {} /\ jobs = 0 /\ clean = TRUE

Job(kind, ms) == [id |-> jobs + 1, kind |-> kind, msgs |-> ms, last |-> last]

(* The end of a turn. A prompt that waits for an answer puts the automatic       *)
(* consolidation off.                                                            *)
Turn(prompting) ==
    /\ turns < MaxTurns /\ turns' = turns + 1
    /\ msgs' = Append(msgs, turns')
    /\ IF since + 1 >= Every /\ ~prompting
         THEN /\ jobs < MaxJobs /\ jobs' = jobs + 1
              /\ since' = 0 /\ waiting' = Append(waiting, Job("session", msgs'))
         ELSE since' = since + 1 /\ UNCHANGED <<waiting, jobs>>
    /\ UNCHANGED <<last, active, memory, written, distill, clean>>

(* /new clears the session and archives a copy of it, which is never committed. *)
NewSession ==
    /\ jobs < MaxJobs /\ jobs' = jobs + 1
    /\ waiting' = Append(waiting, Job("archive", msgs))
    /\ msgs' = <<>> /\ last' = 0 /\ since' = 0
    /\ UNCHANGED <<turns, active, memory, written, distill, clean>>
DeepConsolidate ==
    /\ jobs < MaxJobs /\ jobs' = jobs + 1
    /\ waiting' = Append(waiting, Job("deep", <<>>))
    /\ UNCHANGED <<turns, session, active, memory, written, distill, clean>>

(* What a task summarises: everything it archives, else the messages between the *)
(* last consolidation of the snapshot and those to keep. Nothing: it returns.    *)
Old(j) == CASE j.kind = "archive" -> j.msgs
            [] j.kind = "session" -> SubSeq(j.msgs, j.last + 1, Len(j.msgs) - Keep)
            [] OTHER -> <<>>
(* Mutated form of LockFree: no lock. *)
LockFree_Always == TRUE
LockFree == active = {}
Begin == /\ LockFree /\ waiting # <<>>
         /\ waiting' = Tail(waiting)
         /\ LET j == Head(waiting) IN
            active' = IF j.kind # "deep" /\ Old(j) = <<>> THEN active
                      ELSE active \union {[job |-> j, shown |-> memory]}
         /\ UNCHANGED <<turns, session, memory, written, distill, jobs, clean>>

(* The memory_update of the model: unchanged, or all it was shown and a new fact *)
(* (and a distiller is started).                                                 *)
Update(a, changes) ==
    IF changes THEN memory' = a.shown \union {Own(a.job.id)} /\ fresh' = fresh + 1
               ELSE UNCHANGED <<memory, fresh>>
(* Back into the session, which meanwhile went on, unless it is shorter than the *)
(* snapshot.                                                                     *)
(* Mutated form of Committed: as if nothing were kept. *)
Committed_All(j) == IF j.kind = "session" /\ Len(msgs) >= Len(j.msgs)
                      THEN last + (Len(j.msgs) - j.last) ELSE last
Committed(j) == IF j.kind = "session" /\ Len(msgs) >= Len(j.msgs)
                  THEN last + (Len(j.msgs) - Keep - j.last) ELSE last

\* The session still begins with what the snapshot holds, consolidated as far.
Beginning(j) == /\ last = j.last /\ Len(msgs) >= Len(j.msgs)
                /\ \A i \in 1..Len(j.msgs) : msgs[i] = j.msgs[i]

(* The answer. One that is no JSON object, or an exception, leaves everything as *)
(* it was; an exception after a write (Partly) leaves the session out. An answer  *)
(* whose history_entry is missing or empty adds nothing to HISTORY.md, and the   *)
(* session counts its messages as consolidated like any other's.                 *)
Summarised(j) == {Old(j)[i] : i \in DOMAIN Old(j)}
EndJob(a) == /\ a \in active /\ active' = active \ {a}
             /\ UNCHANGED <<turns, msgs, since, waiting, distilling, preferences, jobs>>
Fails(a)  == EndJob(a) /\ UNCHANGED <<last, memory, written, fresh, clean>>
Partly(a) == /\ EndJob(a) /\ a.job.kind # "deep"
             /\ history' \in {history, history \union Summarised(a.job)}
             /\ memory' \in {memory, a.shown \union {Own(a.job.id)}}
             /\ UNCHANGED <<last, silent, fresh, clean>>
Succeeds(a, entry, changes) ==
             /\ EndJob(a) /\ Update(a, changes)
             /\ IF entry THEN history' = history \union Summarised(a.job) /\ UNCHANGED silent
                         ELSE silent' = silent \union Summarised(a.job) /\ UNCHANGED history
             /\ last' = Committed(a.job)
             /\ clean' = (clean /\ (last' = last \/ Beginning(a.job)))

(* The memory tool's store (and /memory import, and the dashboard's editor) adds *)
(* to MEMORY.md at once, without the lock.                                       *)
Store == /\ jobs < MaxJobs /\ jobs' = jobs + 1
         /\ memory' = memory \union {Stored(jobs')}
         /\ UNCHANGED <<turns, session, waiting, active, written, distill, clean>>

(* MemoryDistiller: reads when its task starts, writes when the model answered. *)
DistillReads == /\ fresh > 0 /\ fresh' = fresh - 1
                /\ distilling' = IF memory = {} THEN distilling ELSE distilling \union {memory}
                /\ UNCHANGED <<turns, session, waiting, active, memory, written,
                               preferences, jobs, clean>>
DistillEnds(read, ok) ==
                /\ read \in distilling /\ distilling' = distilling \ {read}
                /\ preferences' = IF ok THEN read ELSE preferences
                /\ UNCHANGED <<turns, session, waiting, active, memory, written,
                               fresh, jobs, clean>>

Next == \/ \E b \in BOOLEAN : Turn(b)
        \/ \E a \in active : Fails(a) \/ Partly(a) \/ \E b, c \in BOOLEAN : Succeeds(a, b, c)
        \/ \E r \in distilling, b \in BOOLEAN : DistillEnds(r, b)
        \/ NewSession \/ DeepConsolidate \/ Begin \/ Store \/ DistillReads
Spec == Init /\ [][Next]_vars
-----------------------------------------------------------------------------
(* What one consolidation wrote into MEMORY.md no other takes out again,         *)
(* although each writes the whole file from what it read before it asked the     *)
(* model: the lock covers reading, asking and writing.                           *)
ConsolidatedStays == [][\A j \in 1..MaxJobs : Own(j) \in memory => Own(j) \in memory']_memory

(* The session counts a message as consolidated only when HISTORY.md holds it or *)
(* the answer about it had no entry for HISTORY.md, whatever turns, /new and      *)
(* other consolidations did between the snapshot and the commit, as long as no    *)
(* commit was added to a session that had moved on: then the count is wrong.     *)
UndisturbedNotSkipped == clean => \A i \in 1..last : msgs[i] \in history \union silent

(* memory_manager.py:30: "Prevents concurrent consolidation tasks from           *)
(* corrupting session state / MEMORY.md".                                        *)
(* Not kept: two consolidations that start from the same number both add theirs. *)
ConcurrentNotSkipped == \A i \in 1..last : i \in DOMAIN msgs /\ msgs[i] \in history \union silent
=============================================================================
