------------------------------ MODULE MCSession ------------------------------
(* SessionTurns, and what a session shares with its turns: the              *)
(* consolidation of its messages, MEMORY.md, the approvals, the task list,  *)
(* the rules and the stores of what was learned.                            *)
(* One configuration checks several components, each in behaviours of its   *)
(* own: `part` says whose, and the others keep their initial state. No      *)
(* state relates two of them. The constants of a component are constants    *)
(* here, with its prefix.                                                   *)
EXTENDS SessionTurns

CONSTANTS cn_Keep, cn_Every, cn_MaxTurns, cn_MaxJobs,
          mf_Backups, mf_MaxWrites, mf_MaxFaults,
          ap_Chats, ap_Master, ap_Calls, ap_Short(_), ap_MaxRules,
          ap_MaxRequests, ap_MaxMessages,
          ts_Turns, ts_MaxSteps, ts_MaxTasks, ts_MaxFaults,
          ru_Files, ru_Budget, ru_MaxCalls, ru_MaxChanges, ru_MaxTurns,
          ru_MaxBatches,
          kn_Keys, kn_Near, kn_Old, kn_MaxSaves, kn_MaxCount, kn_MaxCrashes,
          vs_Bulk, vs_Kb, vs_Facts, vs_MaxLines, vs_MaxFaults,
          eg_Names, eg_Within, eg_Templates, eg_Cards, eg_Stated, eg_Jobs,
          eg_MaxTriples, eg_MaxFacts, eg_MaxShown, eg_MaxSummaries

VARIABLES part,           \* the component of a behaviour, chosen at its start
          cn_turns, cn_msgs, cn_last, cn_since, cn_waiting, cn_active,
          cn_memory, cn_history, cn_silent, cn_distilling, cn_fresh,
          cn_preferences, cn_jobs, cn_clean,
          mf_file, mf_bak, mf_pc, mf_at, mf_next, mf_good, mf_faults, mf_bare,
          ap_requests, ap_pending, ap_approvals, ap_rules, ap_inbox,
          ap_written, ap_task, ap_runs, ap_asked, ap_promised, ap_askedAgain,
          ts_tasks, ts_active, ts_file, ts_turns, ts_others, ts_faults,
          ru_files, ru_dirTime, ru_cache, ru_cacheTime, ru_todo, ru_phase,
          ru_raised, ru_learned, ru_added, ru_log, ru_turns, ru_batches,
          kn_tasks, kn_tool, kn_file, kn_judging, kn_saves, kn_crashes,
          kn_directives,
          vs_text, vs_gone, vs_index, vs_paths, vs_flagged, vs_db, vs_lines,
          vs_faults, vs_missed, vs_away,
          eg_file, eg_cached, eg_loader, eg_jobs, eg_facts

MCCalls == {[tool |-> "exec", action |-> "", context |-> "x"],
            [tool |-> "outlook", action |-> "send_email", context |-> "y"]}
MCShort(r) == r

MCOld == <<"a", "b">>

MCNames == <<"david liu jr", "david liu", "david", "anna">>
MCWithin == {<<"david liu", "david liu jr">>, <<"david", "david liu">>,
             <<"david", "david liu jr">>}
MCStated == {<<"david liu jr", "anna">>, <<"david liu", "david">>,
             <<"david", "david liu jr">>}

Consolidation == INSTANCE Consolidation WITH Keep <- cn_Keep,
     Every <- cn_Every, MaxTurns <- cn_MaxTurns, MaxJobs <- cn_MaxJobs,
     turns <- cn_turns, msgs <- cn_msgs, last <- cn_last, since <- cn_since,
     waiting <- cn_waiting, active <- cn_active, memory <- cn_memory,
     history <- cn_history, silent <- cn_silent, distilling <- cn_distilling,
     fresh <- cn_fresh, preferences <- cn_preferences, jobs <- cn_jobs,
     clean <- cn_clean
MemoryFile == INSTANCE MemoryFile WITH Backups <- mf_Backups,
     MaxWrites <- mf_MaxWrites, MaxFaults <- mf_MaxFaults, file <- mf_file,
     bak <- mf_bak, pc <- mf_pc, at <- mf_at, next <- mf_next,
     good <- mf_good, faults <- mf_faults, bare <- mf_bare
Approvals == INSTANCE Approvals WITH Chats <- ap_Chats, Master <- ap_Master,
     Calls <- ap_Calls, Short <- ap_Short, MaxRules <- ap_MaxRules,
     MaxRequests <- ap_MaxRequests, MaxMessages <- ap_MaxMessages,
     requests <- ap_requests, pending <- ap_pending,
     approvals <- ap_approvals, rules <- ap_rules, inbox <- ap_inbox,
     written <- ap_written, task <- ap_task, runs <- ap_runs,
     asked <- ap_asked, promised <- ap_promised, askedAgain <- ap_askedAgain
Tasks == INSTANCE Tasks WITH Turns <- ts_Turns, MaxSteps <- ts_MaxSteps,
     MaxTasks <- ts_MaxTasks, MaxFaults <- ts_MaxFaults, tasks <- ts_tasks,
     active <- ts_active, file <- ts_file, turns <- ts_turns,
     others <- ts_others, faults <- ts_faults
Rules == INSTANCE Rules WITH Files <- ru_Files, Budget <- ru_Budget,
     MaxCalls <- ru_MaxCalls, MaxChanges <- ru_MaxChanges,
     MaxTurns <- ru_MaxTurns, MaxBatches <- ru_MaxBatches, files <- ru_files,
     dirTime <- ru_dirTime, cache <- ru_cache, cacheTime <- ru_cacheTime,
     todo <- ru_todo, phase <- ru_phase, raised <- ru_raised,
     learned <- ru_learned, added <- ru_added, log <- ru_log,
     turns <- ru_turns, batches <- ru_batches
Knowledge == INSTANCE Knowledge WITH Keys <- kn_Keys, Near <- kn_Near,
     Old <- kn_Old, MaxSaves <- kn_MaxSaves, MaxCount <- kn_MaxCount,
     MaxCrashes <- kn_MaxCrashes, tasks <- kn_tasks, tool <- kn_tool,
     file <- kn_file, judging <- kn_judging, saves <- kn_saves,
     crashes <- kn_crashes, directives <- kn_directives
VectorStore == INSTANCE VectorStore WITH Bulk <- vs_Bulk, Facts <- vs_Facts,
     MaxLines <- vs_MaxLines, MaxFaults <- vs_MaxFaults, Kb <- vs_Kb,
     text <- vs_text, gone <- vs_gone, index <- vs_index, paths <- vs_paths,
     flagged <- vs_flagged, db <- vs_db, lines <- vs_lines,
     faults <- vs_faults, missed <- vs_missed, away <- vs_away
EntityGraph == INSTANCE EntityGraph WITH Names <- eg_Names,
     Within <- eg_Within, Stated <- eg_Stated, Templates <- eg_Templates,
     Cards <- eg_Cards, Jobs <- eg_Jobs, MaxTriples <- eg_MaxTriples,
     MaxFacts <- eg_MaxFacts, MaxShown <- eg_MaxShown,
     MaxSummaries <- eg_MaxSummaries, file <- eg_file, cached <- eg_cached,
     loader <- eg_loader, jobs <- eg_jobs, facts <- eg_facts

consolidationVars == <<cn_turns, cn_msgs, cn_last, cn_since, cn_waiting,
    cn_active, cn_memory, cn_history, cn_silent, cn_distilling, cn_fresh,
    cn_preferences, cn_jobs, cn_clean>>
memoryfileVars == <<mf_file, mf_bak, mf_pc, mf_at, mf_next, mf_good,
    mf_faults, mf_bare>>
approvalsVars == <<ap_requests, ap_pending, ap_approvals, ap_rules, ap_inbox,
    ap_written, ap_task, ap_runs, ap_asked, ap_promised, ap_askedAgain>>
tasksVars == <<ts_tasks, ts_active, ts_file, ts_turns, ts_others, ts_faults>>
rulesVars == <<ru_files, ru_dirTime, ru_cache, ru_cacheTime, ru_todo,
    ru_phase, ru_raised, ru_learned, ru_added, ru_log, ru_turns, ru_batches>>
knowledgeVars == <<kn_tasks, kn_tool, kn_file, kn_judging, kn_saves,
    kn_crashes, kn_directives>>
vectorstoreVars == <<vs_text, vs_gone, vs_index, vs_paths, vs_flagged, vs_db,
    vs_lines, vs_faults, vs_missed, vs_away>>
entitygraphVars == <<eg_file, eg_cached, eg_loader, eg_jobs, eg_facts>>

All == <<part, vars, consolidationVars, memoryfileVars, approvalsVars,
    tasksVars, rulesVars, knowledgeVars, vectorstoreVars, entitygraphVars>>

Parts == {"main", "consolidation", "memoryfile", "approvals", "tasks",
    "rules", "knowledge", "vectorstore", "entitygraph"}

AllInit == /\ part \in Parts /\ Init
           /\ Consolidation!Init
           /\ MemoryFile!Init
           /\ Approvals!Init
           /\ Tasks!Init
           /\ Rules!Init
           /\ Knowledge!Init
           /\ VectorStore!Init
           /\ EntityGraph!Init
           /\ (part # "knowledge" => kn_tasks = <<>>)
           /\ (part # "entitygraph" => eg_file.typed = {})

\* Only the component that was chosen takes steps.
AllNext ==
    \/ /\ part = "main" /\ Next
       /\ UNCHANGED <<part, consolidationVars, memoryfileVars, approvalsVars,
          tasksVars, rulesVars, knowledgeVars, vectorstoreVars,
          entitygraphVars>>
    \/ /\ part = "consolidation" /\ Consolidation!Next
       /\ UNCHANGED <<part, vars, memoryfileVars, approvalsVars, tasksVars,
          rulesVars, knowledgeVars, vectorstoreVars, entitygraphVars>>
    \/ /\ part = "memoryfile" /\ MemoryFile!Next
       /\ UNCHANGED <<part, vars, consolidationVars, approvalsVars, tasksVars,
          rulesVars, knowledgeVars, vectorstoreVars, entitygraphVars>>
    \/ /\ part = "approvals" /\ Approvals!Next
       /\ UNCHANGED <<part, vars, consolidationVars, memoryfileVars,
          tasksVars, rulesVars, knowledgeVars, vectorstoreVars,
          entitygraphVars>>
    \/ /\ part = "tasks" /\ Tasks!Next
       /\ UNCHANGED <<part, vars, consolidationVars, memoryfileVars,
          approvalsVars, rulesVars, knowledgeVars, vectorstoreVars,
          entitygraphVars>>
    \/ /\ part = "rules" /\ Rules!Next
       /\ UNCHANGED <<part, vars, consolidationVars, memoryfileVars,
          approvalsVars, tasksVars, knowledgeVars, vectorstoreVars,
          entitygraphVars>>
    \/ /\ part = "knowledge" /\ Knowledge!Next
       /\ UNCHANGED <<part, vars, consolidationVars, memoryfileVars,
          approvalsVars, tasksVars, rulesVars, vectorstoreVars,
          entitygraphVars>>
    \/ /\ part = "vectorstore" /\ VectorStore!Next
       /\ UNCHANGED <<part, vars, consolidationVars, memoryfileVars,
          approvalsVars, tasksVars, rulesVars, knowledgeVars, entitygraphVars>>
    \/ /\ part = "entitygraph" /\ EntityGraph!Next
       /\ UNCHANGED <<part, vars, consolidationVars, memoryfileVars,
          approvalsVars, tasksVars, rulesVars, knowledgeVars, vectorstoreVars>>
    \/ part # "main" /\ UNCHANGED All    \* where its bounds end a component

AllSpec == AllInit /\ [][AllNext]_All

(* What one consolidation put into MEMORY.md no other takes out.            *)
ConsolidatedStays == Consolidation!ConsolidatedStays

(* A message counts as consolidated only when HISTORY.md holds it or its    *)
(* answer had no entry for it, unless a commit was added to a session that  *)
(* had moved on.                                                            *)
UndisturbedNotSkipped == Consolidation!UndisturbedNotSkipped

(* A crash inside the rotating write leaves the last whole MEMORY.md        *)
(* somewhere.                                                               *)
LastMemoryKept == MemoryFile!LastMemoryKept

(* An approved call is started at most once, whoever answers.               *)
RunOnce == Approvals!RunOnce

(* A prompt tells of the task of its own turn unless another turn made one. *)
OwnTaskShown == Tasks!OwnTaskShown

(* Rules that differ from their files are noticed by the next turn.         *)
StaleIsNoticed == Rules!StaleIsNoticed

(* What the facade saved or cleaned up is like nothing before it.           *)
NoLookalikes == Knowledge!NoLookalikes

(* No maintenance of the index loses a line of a file that was indexed,     *)
(* unless it fails.                                                         *)
Findable == VectorStore!Findable

(* The index of the graph names the entities of the triples at their        *)
(* places, those of a type of their own, and no other.                      *)
IndexHolds == EntityGraph!IndexHolds

==============================================================================
