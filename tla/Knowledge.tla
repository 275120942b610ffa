----------------------------- MODULE Knowledge ------------------------------
(* The knowledge base of workflows (agent/task_knowledge.py): entries kept in    *)
(* tasks.json, of which the process has two lists. The facade of the chats       *)
(* (knowledge_workflow.py) has a workflow the user asks to keep judged by a model *)
(* call first (knowledge_judge.py), while other chats save, forget, clean up and  *)
(* give feedback; the model's task_memory tool has a store of its own and looks   *)
(* for the very same key only. Each saves the whole of its own list. The         *)
(* dashboard writes the file alone. Worker processes save nothing                *)
(* (readonly_store.py).                                                          *)
EXTENDS Naturals, Sequences, SequencesExt

CONSTANTS Keys,            \* names of workflows
          Near,            \* pairs {k, l} whose words overlap by half or more
          Old,             \* the keys of a file of earlier versions, a sequence
          MaxSaves, MaxCount, MaxCrashes

VARIABLES tasks,           \* the facade's entries (the experiences, which are saved
                           \* with them, are left out)
          tool,            \* those of the task_memory tool
          file,            \* those in tasks.json
          judging,         \* saves whose model call is under way, <<number, key>>
          saves, crashes,
          directives       \* extractions of a rule from a complaint under way

vars == <<tasks, tool, file, judging, saves, crashes, directives>>

Decisions == {"ADD", "MERGE", "DISCARD"}   \* of the judge
\* success is success_count; looked is history: the entry was compared with all
\* before it, by the facade's save or by a clean-up.
Entry(k, n, looked) == [key |-> k, success |-> n, looked |-> looked]
Init == /\ \/ tasks = <<>>
           \/ \E n \in [DOMAIN Old -> 0 .. 1] :
                 tasks = [i \in DOMAIN Old |-> Entry(Old[i], n[i], FALSE)]
        /\ file = tasks /\ tool = tasks
        /\ judging = {} /\ saves = 0 /\ crashes = 0 /\ directives = 0

Stored(ts, k) == \E i \in DOMAIN ts : ts[i].key = k
(* TaskKnowledgeStore._save: the whole of a list. *)
Saved(ts) == file' = ts
(* Mutated form of Similar: only the very same key counts. *)
Similar_Exact(k, l) == k = l
(* tokenize_key and the Jaccard score of find_similar_task. *)
Similar(k, l) == k = l \/ {k, l} \in Near

(* "save": the pending workflow is taken and judged. *)
Confirm(k) == /\ saves < MaxSaves /\ saves' = saves + 1 /\ judging' = judging \union {<<saves', k>>}
              /\ UNCHANGED <<tasks, tool, file, crashes, directives>>
(* The verdict is in (ADD also when the call fails). The entry of that key, or a  *)
(* similar one, takes the new steps, which is a save; without one an ADD makes   *)
(* it. A MERGE without one changes nothing, and a DISCARD never does.            *)
Judged(s, decision) ==
    /\ s \in judging /\ judging' = judging \ {s}
    /\ IF \E i \in DOMAIN tasks : Similar(s[2], tasks[i].key)
         THEN /\ UNCHANGED tasks
              /\ IF decision = "DISCARD" THEN UNCHANGED file ELSE Saved(tasks)
         ELSE IF decision = "ADD"
           THEN tasks' = Append(tasks, Entry(s[2], 1, TRUE)) /\ Saved(tasks')
           ELSE UNCHANGED <<tasks, file>>
    /\ UNCHANGED <<tool, saves, crashes, directives>>

(* The next message says how the last workflow went: well, which counts and      *)
(* stores its steps, or not, which counts too and starts the extraction of a     *)
(* rule for the experience bank. A key that is no longer there saves nothing.    *)
Praise(k) ==
    /\ \E i \in DOMAIN tasks : tasks[i].key = k /\ tasks[i].success < MaxCount
    /\ tasks' = LET i == SelectInSeq(tasks, LAMBDA t : t.key = k)
                IN [tasks EXCEPT ![i].success = @ + 1]
    /\ Saved(tasks') /\ UNCHANGED <<tool, judging, saves, crashes, directives>>
Complain(k) ==
    /\ directives < 1 /\ directives' = directives + 1
    /\ IF Stored(tasks, k) THEN Saved(tasks) ELSE UNCHANGED file
    /\ UNCHANGED <<tasks, tool, judging, saves, crashes>>
Extracted(ok) == /\ directives > 0 /\ directives' = directives - 1
                 /\ IF ok THEN Saved(tasks) ELSE UNCHANGED file
                 /\ UNCHANGED <<tasks, tool, judging, saves, crashes>>
(* The save_experience tool. *)
Learn == Saved(tasks) /\ UNCHANGED <<tasks, tool, judging, saves, crashes, directives>>

(* The entries but those of some keys. *)
Without(ts, keys) ==
    LET Upto[n \in 0..Len(ts)] == IF n = 0 THEN <<>>
                                  ELSE IF ts[n].key \in keys THEN Upto[n - 1]
                                  ELSE Append(Upto[n - 1], ts[n])
    IN  Upto[Len(ts)]
(* "/kb delete": every entry of that key. *)
Delete(k) == /\ Stored(tasks, k) /\ tasks' = Without(tasks, {k}) /\ Saved(tasks')
             /\ UNCHANGED <<tool, judging, saves, crashes, directives>>

(* The task_memory tool: an entry of that very key is updated, else one is made; *)
(* and its delete. The store is the one loaded when the tool was made.           *)
ToolSave(k) ==
    /\ saves < MaxSaves /\ saves' = saves + 1
    /\ tool' = IF Stored(tool, k) THEN tool
               ELSE Append(tool, Entry(k, 1, FALSE))
    /\ Saved(tool')
    /\ UNCHANGED <<tasks, judging, crashes, directives>>
ToolDelete(k) ==
    /\ Stored(tool, k)
    /\ tool' = Without(tool, {k}) /\ Saved(tool')
    /\ UNCHANGED <<tasks, judging, saves, crashes, directives>>

(* The dashboard posts the file with an entry more, or without one; neither list *)
(* takes notice.                                                                 *)
Edit(k) ==
    /\ saves < MaxSaves /\ saves' = saves + 1
    /\ file' \in {Append(file, Entry(k, 1, FALSE)), Without(file, {k})}
    /\ UNCHANGED <<tasks, tool, judging, crashes, directives>>

(* "/kb cleanup": of two similar entries the one with more successes is kept and *)
(* takes the other's steps. The pairs are those of the list as it was; an entry  *)
(* deleted in the inner loop still stands for itself until that loop ends.       *)
Merge(gone, i, j) ==
    IF i < j /\ tasks[j].key \notin gone /\ Similar(tasks[i].key, tasks[j].key)
      THEN gone \union {tasks[IF tasks[i].success >= tasks[j].success THEN j ELSE i].key}
      ELSE gone
Row(gone, i) ==
    LET Gone[j \in 0..Len(tasks)] == IF j = 0 THEN gone ELSE Merge(Gone[j - 1], i, j)
    IN  IF tasks[i].key \in gone THEN gone ELSE Gone[Len(tasks)]
Discarded ==
    LET Rows[i \in 0..Len(tasks)] == IF i = 0 THEN {} ELSE Row(Rows[i - 1], i)
    IN  Rows[Len(tasks)]
\* One that discards nothing saves nothing.
Cleanup ==
    /\ Discarded # {}
    /\ tasks' = LET left == Without(tasks, Discarded)
                IN [i \in DOMAIN left |-> Entry(left[i].key, left[i].success, TRUE)]
    /\ Saved(tasks') /\ UNCHANGED <<tool, judging, saves, crashes, directives>>

(* The end of the process takes the model calls along, and both lists are loaded *)
(* again. A file that was being written does not parse, and they start empty.    *)
Crash(torn) ==
    /\ crashes < MaxCrashes /\ crashes' = crashes + 1
    /\ judging' = {} /\ directives' = 0
    /\ file' = IF torn THEN <<>> ELSE file
    /\ tool' = file' /\ tasks' = file'
    /\ UNCHANGED saves

Next == \/ \E k \in Keys : \/ Confirm(k) \/ Praise(k) \/ Complain(k) \/ Delete(k)
                            \/ ToolSave(k) \/ ToolDelete(k) \/ Edit(k)
        \/ \E s \in judging : \E d \in Decisions : Judged(s, d)
        \/ Learn \/ Cleanup
        \/ \E b \in BOOLEAN : Extracted(b) \/ Crash(b)
Spec == Init /\ [][Next]_vars
-----------------------------------------------------------------------------
(* What the facade saved as a workflow of its own, or left of a clean-up, is like *)
(* nothing that stands before it in either list or in the file, in whatever      *)
(* order the model answers saves of similar workflows, and whatever the tool and *)
(* the dashboard wrote in between. (What they write themselves may be.)          *)
NoLookalikes ==
    \A ts \in {tasks, tool, file} : \A i, j \in DOMAIN ts :
        i < j /\ ts[j].looked => ~(ts[i].key = ts[j].key \/ {ts[i].key, ts[j].key} \in Near)

(* knowledge_judge.py:105: "Similar key found -> merge into similar entry (avoid *)
(* duplicates)": a file without similar entries stays so. Not kept: the tool and *)
(* the dashboard add what is similar to an entry.                                *)
HasDuplicates(ts) == \E i, j \in DOMAIN ts : i # j /\ Similar(ts[i].key, ts[j].key)
NoDuplicates == [][HasDuplicates(file') => HasDuplicates(file)]_vars

(* "save": what the facade saved is in the file until the facade, the tool or the *)
(* dashboard takes it out. Not kept: the tool's next save of anything writes the *)
(* file without it, and the next start does not know it.                         *)
SavesSurvive ==
    [][\A i \in DOMAIN file : file[i].looked /\ (\E k \in Keys : ToolSave(k))
            => Stored(file', file[i].key)]_vars

(* "merge": what a clean-up removes is similar to something that stays. Not      *)
(* kept: the first of three is discarded itself, and then takes the third.       *)
CleanupMerges ==
    [][ Cleanup => \A i \in DOMAIN tasks : \E j \in DOMAIN tasks' : Similar(tasks[i].key, tasks'[j].key) ]_vars
=============================================================================
