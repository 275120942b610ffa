----------------------------- MODULE MCAgentLoop -----------------------------
(* AgentLoop with two batches of one call that differ in their arguments    *)
(* and one that sends a message besides, and what surrounds the loop: the   *)
(* queues, workers, prompt, skills, what is kept beside a skill and the     *)
(* model stream.                                                            *)
(* One configuration checks several components, each in behaviours of its   *)
(* own: `part` says whose, and the others keep their initial state. No      *)
(* state relates two of them. The constants of a component are constants    *)
(* here, with its prefix.                                                   *)
EXTENDS AgentLoop

CONSTANTS dl_Chats, dl_ChannelOf, dl_Enabled, dl_AllowFrom, dl_MaxMessages,
          dl_MaxCalls,
          wk_Jobs, wk_MaxWorkers,
          pr_Window, pr_MinKeep, pr_Limit, pr_Budget, pr_Systems, pr_MaxTurns,
          pr_MaxCalls,
          sk_Skills, sk_Builtin, sk_Always, sk_Big, sk_Budget, sk_MaxSaves,
          ca_Callers, ca_Versions, ca_PreHooks, ca_PostHooks, ca_Packages,
          ca_ModuleOf(_), ca_MaxLog, ca_MaxEdits, ca_MaxFacts, ca_MaxRuns,
          ca_MaxCrashes,
          ho_Callers, ho_Versions, ho_PreHooks, ho_PostHooks, ho_Packages,
          ho_ModuleOf(_), ho_MaxLog, ho_MaxEdits, ho_MaxFacts, ho_MaxRuns,
          ho_MaxCrashes,
          st_MaxRetries, st_MaxChunks, st_Tools

VARIABLES part,           \* the component of a behaviour, chosen at its start
          dl_inbound, dl_outbound, dl_subscribed, dl_dispatching, dl_sending,
          dl_turns, dl_context, dl_next, dl_calls, dl_delivered, dl_dropped,
          wk_kind, wk_call, wk_proc, wk_status, wk_watchdog, wk_leaving,
          wk_tracked, wk_monitor, wk_verdict, wk_announced,
          pr_messages, pr_prompt, pr_asked, pr_turns, pr_calls,
          sk_home, sk_written, sk_needs, sk_saves, sk_active,
          ca_files, ca_graph, ca_mine, ca_job, ca_asked, ca_shown, ca_edits,
          ca_facts, ca_crashes, ca_run, ca_runs, ca_log, ca_torn, ca_uses,
          ca_modules,
          ho_files, ho_graph, ho_mine, ho_job, ho_asked, ho_shown, ho_edits,
          ho_facts, ho_crashes, ho_run, ho_runs, ho_log, ho_torn, ho_uses,
          ho_modules,
          st_pc, st_reply, st_sent, st_acc, st_parts, st_shown, st_emitted,
          st_answer

Read1 == [pair |-> "read", args |-> 1]
Read2 == [pair |-> "read", args |-> 2]
Tell  == [pair |-> "message", args |-> 1]

MCBatches == {<<Read1>>, <<Read2>>, <<Tell, Read1>>}

MCChannelOf == ("weixin:a" :> "weixin") @@ ("email:b" :> "email")

MCPreHooks == {<<"notify_completion", "confirm_destructive">>, <<"hooks_py">>}
MCPostHooks == <<"log_execution", "hooks_py">>
MCNone == <<>>
MCModuleOf(p) == p

Delivery == INSTANCE Delivery WITH Chats <- dl_Chats,
     ChannelOf <- dl_ChannelOf, Enabled <- dl_Enabled,
     AllowFrom <- dl_AllowFrom, MaxMessages <- dl_MaxMessages,
     MaxCalls <- dl_MaxCalls, inbound <- dl_inbound, outbound <- dl_outbound,
     subscribed <- dl_subscribed, dispatching <- dl_dispatching,
     sending <- dl_sending, turns <- dl_turns, context <- dl_context,
     next <- dl_next, calls <- dl_calls, delivered <- dl_delivered,
     dropped <- dl_dropped
Workers == INSTANCE Workers WITH Jobs <- wk_Jobs, MaxWorkers <- wk_MaxWorkers,
     kind <- wk_kind, call <- wk_call, proc <- wk_proc, status <- wk_status,
     watchdog <- wk_watchdog, leaving <- wk_leaving, tracked <- wk_tracked,
     monitor <- wk_monitor, verdict <- wk_verdict, announced <- wk_announced
Prompt == INSTANCE Prompt WITH Window <- pr_Window, MinKeep <- pr_MinKeep,
     Limit <- pr_Limit, Budget <- pr_Budget, Systems <- pr_Systems,
     MaxTurns <- pr_MaxTurns, MaxCalls <- pr_MaxCalls,
     messages <- pr_messages, prompt <- pr_prompt, asked <- pr_asked,
     turns <- pr_turns, calls <- pr_calls
SkillPrompt == INSTANCE SkillPrompt WITH Skills <- sk_Skills,
     Builtin <- sk_Builtin, Always <- sk_Always, Big <- sk_Big,
     Budget <- sk_Budget, MaxSaves <- sk_MaxSaves, home <- sk_home,
     written <- sk_written, needs <- sk_needs, saves <- sk_saves,
     active <- sk_active
Cards == INSTANCE SkillStore WITH Callers <- ca_Callers,
     Versions <- ca_Versions, PreHooks <- ca_PreHooks,
     PostHooks <- ca_PostHooks, Packages <- ca_Packages,
     ModuleOf <- ca_ModuleOf, MaxLog <- ca_MaxLog, MaxEdits <- ca_MaxEdits,
     MaxFacts <- ca_MaxFacts, MaxRuns <- ca_MaxRuns,
     MaxCrashes <- ca_MaxCrashes, files <- ca_files, graph <- ca_graph,
     mine <- ca_mine, job <- ca_job, asked <- ca_asked, shown <- ca_shown,
     edits <- ca_edits, facts <- ca_facts, crashes <- ca_crashes,
     run <- ca_run, runs <- ca_runs, log <- ca_log, torn <- ca_torn,
     uses <- ca_uses, modules <- ca_modules
Hooks == INSTANCE SkillStore WITH Callers <- ho_Callers,
     Versions <- ho_Versions, PreHooks <- ho_PreHooks,
     PostHooks <- ho_PostHooks, Packages <- ho_Packages,
     ModuleOf <- ho_ModuleOf, MaxLog <- ho_MaxLog, MaxEdits <- ho_MaxEdits,
     MaxFacts <- ho_MaxFacts, MaxRuns <- ho_MaxRuns,
     MaxCrashes <- ho_MaxCrashes, files <- ho_files, graph <- ho_graph,
     mine <- ho_mine, job <- ho_job, asked <- ho_asked, shown <- ho_shown,
     edits <- ho_edits, facts <- ho_facts, crashes <- ho_crashes,
     run <- ho_run, runs <- ho_runs, log <- ho_log, torn <- ho_torn,
     uses <- ho_uses, modules <- ho_modules
Streaming == INSTANCE Streaming WITH MaxRetries <- st_MaxRetries,
     MaxChunks <- st_MaxChunks, Tools <- st_Tools, pc <- st_pc,
     reply <- st_reply, sent <- st_sent, acc <- st_acc, parts <- st_parts,
     shown <- st_shown, emitted <- st_emitted, answer <- st_answer

deliveryVars == <<dl_inbound, dl_outbound, dl_subscribed, dl_dispatching,
    dl_sending, dl_turns, dl_context, dl_next, dl_calls, dl_delivered,
    dl_dropped>>
workersVars == <<wk_kind, wk_call, wk_proc, wk_status, wk_watchdog,
    wk_leaving, wk_tracked, wk_monitor, wk_verdict, wk_announced>>
promptVars == <<pr_messages, pr_prompt, pr_asked, pr_turns, pr_calls>>
skillpromptVars == <<sk_home, sk_written, sk_needs, sk_saves, sk_active>>
cardsVars == <<ca_files, ca_graph, ca_mine, ca_job, ca_asked, ca_shown,
    ca_edits, ca_facts, ca_crashes, ca_run, ca_runs, ca_log, ca_torn, ca_uses,
    ca_modules>>
hooksVars == <<ho_files, ho_graph, ho_mine, ho_job, ho_asked, ho_shown,
    ho_edits, ho_facts, ho_crashes, ho_run, ho_runs, ho_log, ho_torn, ho_uses,
    ho_modules>>
streamingVars == <<st_pc, st_reply, st_sent, st_acc, st_parts, st_shown,
    st_emitted, st_answer>>

All == <<part, vars, deliveryVars, workersVars, promptVars, skillpromptVars,
    cardsVars, hooksVars, streamingVars>>

Parts == {"main", "delivery", "workers", "prompt", "skillprompt", "cards",
    "hooks", "streaming"}

AllInit == /\ part \in Parts /\ Init
           /\ Delivery!Init
           /\ Workers!Init
           /\ Prompt!Init
           /\ SkillPrompt!Init
           /\ Cards!Init
           /\ Hooks!Init
           /\ Streaming!Init

\* Only the component that was chosen takes steps.
AllNext ==
    \/ /\ part = "main" /\ Next
       /\ UNCHANGED <<part, deliveryVars, workersVars, promptVars,
          skillpromptVars, cardsVars, hooksVars, streamingVars>>
    \/ /\ part = "delivery" /\ Delivery!Next
       /\ UNCHANGED <<part, vars, workersVars, promptVars, skillpromptVars,
          cardsVars, hooksVars, streamingVars>>
    \/ /\ part = "workers" /\ Workers!Next
       /\ UNCHANGED <<part, vars, deliveryVars, promptVars, skillpromptVars,
          cardsVars, hooksVars, streamingVars>>
    \/ /\ part = "prompt" /\ Prompt!Next
       /\ UNCHANGED <<part, vars, deliveryVars, workersVars, skillpromptVars,
          cardsVars, hooksVars, streamingVars>>
    \/ /\ part = "skillprompt" /\ SkillPrompt!Next
       /\ UNCHANGED <<part, vars, deliveryVars, workersVars, promptVars,
          cardsVars, hooksVars, streamingVars>>
    \/ /\ part = "cards" /\ Cards!Next
       /\ UNCHANGED <<part, vars, deliveryVars, workersVars, promptVars,
          skillpromptVars, hooksVars, streamingVars>>
    \/ /\ part = "hooks" /\ Hooks!Next
       /\ UNCHANGED <<part, vars, deliveryVars, workersVars, promptVars,
          skillpromptVars, cardsVars, streamingVars>>
    \/ /\ part = "streaming" /\ Streaming!Next
       /\ UNCHANGED <<part, vars, deliveryVars, workersVars, promptVars,
          skillpromptVars, cardsVars, hooksVars>>
    \/ part # "main" /\ UNCHANGED All    \* where its bounds end a component

AllSpec == AllInit /\ [][AllNext]_All
           /\ WF_vars(part = "main" /\ ModelReturns) /\ WF_vars(part = "main" /\ ToolsReturn)
           /\ WF_deliveryVars(part = "delivery" /\ Delivery!StartChannels)
           /\ WF_deliveryVars(part = "delivery" /\ Delivery!Take)
           /\ WF_deliveryVars(part = "delivery" /\ Delivery!Dispatch)
           /\ WF_deliveryVars(part = "delivery" /\ Delivery!Sent)
           /\ \A r \in Delivery!Runners :
                 /\ WF_deliveryVars(part = "delivery" /\ Delivery!SetContext(r))
                 /\ WF_deliveryVars(part = "delivery" /\ (Delivery!Finish(r) \/ Delivery!Fail(r)))

(* Every message gets an answer or the apology in its own conversation.     *)
EveryoneAnswered == Delivery!EveryoneAnswered

(* A started job is watched until it is announced, once.                    *)
NotifiedOnce == Workers!NotifiedOnce

(* No result reaches a model without the call it answers.                   *)
ResultsHaveCalls == Prompt!ResultsHaveCalls

(* A skill is in a prompt only after the skills it needs.                   *)
PrerequisitesFirst == SkillPrompt!PrerequisitesFirst

(* A prompt shows no card of other files than those that are there.         *)
CardIsCurrent == Cards!CardIsCurrent

(* A call is made of the parts of one call of one attempt.                  *)
CallsAreWhole == Streaming!CallsAreWhole

==============================================================================
