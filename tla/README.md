# TitanBot in TLA+

TLA+ models of the parts of TitanBot (the Python package `nanobot`, its proxy
and its WhatsApp bridge) in which order, failure and time matter, the TLC
configurations that check them, and proofs checked by TLAPS. `agent/`,
`channels/` and so on stand for `src/nanobot/agent/`, `src/nanobot/channels/`.

    tlc -config CronService.cfg MCCronService      model-check a run
    tlapm SessionTurns_proofs.tla                  check a proof module

## 1. The system

The gateway (`nanobot gateway`, `cli/commands.py`) is one process with one
asyncio loop. Code between two `await`s is never interrupted, except by the end
of the process, so an atomic step of a model is the code from one `await` to
the next, unless something written to the disk in between could be what a crash
leaves. The gateway starts the cron service and the heartbeat, then runs
together: `AgentLoop.run` (one inbound message after the other), the channels,
the outbound dispatcher and the web dashboard.

| Component | State | Operations | Interacts with |
|---|---|---|---|
| Message bus (`bus/queue.py`) | two queues, subscribers | publish, consume, dispatch | all |
| Channels (`channels/`) | cursors, seen ids, tokens, connections, timers | receive, dedup, answer, reconnect | services outside; the bus |
| Sessions (`session/manager.py`) | cached objects, one JSONL file each, saved counts | `get_or_create`, `save` (append or rewrite), `_load`, evict, expire | every turn |
| Turns (`agent/loop.py`, `state_handler.py`) | the pending prompts of a session | `_process_message`, `_execute_with_llm`, approvals, notices | sessions, agent loop, bus |
| Approval gate (`middleware/hitl.py`, `hitl_store.py`) | `pending_approval_task`, short ids, stored rules | suspend, approve, always, reject, also from another channel | sessions, agent loop |
| Prompt (`agent/context.py`, `verification.py`, `skills.py`) | the messages of a call, cached rules, skills and their cards | cut, trim, repair, choose | turns |
| Agent loop (`agent/loop.py`, `middleware/`) | iteration, failure streak, recent signatures | the model's response, pipeline, tools | providers, tools |
| Providers (`providers/`) | the accumulators of a stream | stream, retry, fall back | agent loop |
| Crash recovery (`middleware/crash_recovery.py`) | one checkpoint path, one file per session | write, clear, scan at start, notice | turns; dashboard |
| Memory (`agent/memory_manager.py`, `memory.py`) | `last_consolidated`, MEMORY.md and backups | snapshot, model call, commit, rotate | sessions that go on meanwhile |
| Stores of what was learned (`task_knowledge.py`, `vector_store.py`, `knowledge_graph.py`) | entries, an index, a graph | judge, merge, clean up, reindex | turns, consolidations |
| Workers and subagents (`coordinator.py`, `subagent.py`) | table of processes and tasks | spawn, poll, reconcile, announce | bus (system messages) |
| Task tracker (`agent/task_tracker.py`) | tasks, the active one, a file | create, step, complete | turns |
| Cron service (`cron/service.py`) | the list of jobs, `jobs.json`, one timer task | start, stop, `_on_timer`, add, remove, enable, run | runs jobs through `process_direct` |
| Second scheduler, heartbeat (`cron/scheduler.py`, `heartbeat/`) | a table of tasks, its file | load, round, write back | callbacks |
| Command line (`cli/commands.py`) | its own copy of the jobs, the configuration | cron commands, onboarding | shares files with the gateway |
| Configuration (`config/loader.py`) | `config.json` and what was loaded from it | load, save, edit | dashboard, wizard |
| Dashboard (`dashboard/app.py`) | open sockets | push, poll, edit | bus, configuration |
| BFF proxy (`src/bff`), WhatsApp bridge (`src/bridge`) | buckets; sockets and timers | limit, pass on, relay | clients; the channel |

What is hard in it, and which correctness it calls for:

* **Time and restarts.** A tick of the cron service collects the due jobs and
  works them off across awaits while turns change the list and writes may fail.
  A scheduled time is run at most once and never for a day already over; a due
  job does run; a job given up stays off.
* **Two records of one thing.** A session and its file, a cursor and the batch
  in hand, a card and the files it describes, a cache and its source, an index
  and its texts. Each pair is written in two steps with failures between, and
  must agree whenever somebody relies on it.
* **Read, await, use.** Consolidations, knowledge judgements, tokens, tasks,
  approvals from two chats, editors of one file: what was read may have changed.
* **Repeated delivery.** Services push or serve the same message again; the
  agent must be given it once, and none must be passed over.
* **Ways out.** Layers cut an iteration of the agent loop short, streams break,
  sockets close, turns raise. The model never sees a call without a result,
  everyone gets an answer, a lost connection comes back, and a turn ends.

`PROJECT.json` lists the hazards at the lines where they bite, with the
properties that would catch each.

## 2. The modules

| Module | Models |
|---|---|
| `CronJobs`, `CronService`, `CronLedger`, `CronCli` | jobs and schedules; the service, its timer, file and crashes; abstract: what it promises; the gateway beside commands in other processes |
| `Session`, `SessionTurns` | one conversation and its file; its turns, approvals, eviction, crashes |
| `AgentLoop` | one turn's iterations and the layers around its tools |
| `Checkpoints` | the checkpoint files around tools, and the scan at start |
| `Delivery` | inbound queue, one consuming loop, direct turns, outbound queue and dispatcher |
| `Consolidation`, `MemoryFile` | consolidations beside a session that goes on; the rotating write of MEMORY.md |
| `Approvals` | prompts, short ids, answers from the chat and from a master, stored rules |
| `Workers` | worker processes, their polling and announcement; subagents |
| `Scheduler` | the second scheduler, and the stand-alone heartbeat |
| `Knowledge`, `VectorStore`, `EntityGraph` | the workflow base with its judge; the index of chunks; the graph of entities and its instances |
| `Tasks` | the task tracker shared by turns |
| `Rules`, `Prompt`, `SkillPrompt`, `SkillStore` | the cache of rules; the messages of a call and their cuts; the choice of skills; cards, hooks, run log and packages |
| `Streaming` | one model call: chunks, retries, fallbacks |
| `ConfigFile` | `config.json`, its editors, the wizard and what is loaded |
| `Inbox` | abstract: a channel gives each message at most once between two starts |
| `Weixin`, `WeixinMedia`, `Mochat`, `Email`, `PushChannels`, `Discord`, `Telegram`, `Slack`, `DingTalk`, `WhatsApp` | the channels (`PushChannels`: Feishu, WeCom, QQ; `WhatsApp`: channel, bridge and service) |
| `Dashboard`, `Proxy` | sockets and the notice of a crash; the proxy's limiter and requests |
| `MC...` | values of constants for TLC; the roots below |
| `..._proofs` | theorems; `Approvals`, `Workers`, `DingTalk` and `Proxy` carry their own |

**Cron.** A job is the fields that decide anything: schedule, `deleteAfterRun`,
enabled, `next_run_at_ms`, status, retry count. Times are natural numbers and 0
is `None`; a cron expression is the set of times it matches. `task` is the timer
task: "sleeping", "dispatch" (between two jobs, holding the loop), "running",
"notifying", "dead" (left by an exception), "down". `Arm` replaces the timer task
whatever it was doing, as `_arm_timer` cancels it. `SaveMayFail` lets every write
of `jobs.json` raise. A command of `CronCli` is a load and a save, with the
gateway free to act between.

**Sessions.** A message is its role. `mem` is the session object, `cached`
whether the manager still holds it, `file` the JSONL file; `CrashInAppend`
leaves a torn line. A turn waits in "llm", "tool", "resume" or "notice", the
four places where a handler awaits. `Approvals` looks at the same gate from the
side of the requests: whose lock is held, and which request a short id names.

**Agent loop.** Both hooks of every layer run without yielding, so an iteration
has two awaits, the model and the tools. The response, and what each layer thinks
of it, are choices; the effects on the messages, the counters and the way out are
the code's. `ran` and `streak` are history, kept apart from the loop's own `sigs`
and `errors`, so that the properties are about what was done and not about what
was counted. `Checkpoints` has the files around the tools, where turns overlap.

**What a turn knows.** In `Prompt` a message has a role, a size and the calls it
makes or answers; the cuts are the code's. In `Rules` a rule is the version of
its file. In `SkillPrompt` a skill is what it needs; in `SkillStore` a card is
the version of the files it was computed from.

**What is kept of turns.** Each of these stores has several writers. In
`Consolidation` an answer of the model may lack a `history_entry`: nothing is
appended then, and the session counts its messages all the same
(`memory_manager.py:140`, `182`); `silent` remembers them. In `Knowledge`
likeness is a relation between keys; the facade of the chats, the `task_memory`
tool with a store of its own (`tools/task_memory.py:19`), which looks for the
very same key only, and the dashboard write the one `tasks.json`, each the whole
of what it has. In `VectorStore` a chunk is a line of a source; in `Purge` the
deletion of flagged chunks, the wipe, the opening and the filling may each fail,
and the purge goes on (`vector_store.py:508`, `515`, `524`, `333`), which can
leave the index closed, empty or half filled. In `EntityGraph` a name may contain
another; the index also has entities with a type of their own, reasoning
templates written by hand and the cards the skills loader files
(`skills.py:160`), which a rebuilding keeps without any triple
(`knowledge_graph.py:416`).

**Channels.** The service outside is part of each module: it numbers the
messages, repeats them, closes sockets, refuses. `given` is what the agent was
given since the last start. `Weixin`, `Mochat`, `Email`, `PushChannels` and
`Slack` each instantiate `Inbox` with their own messages as `posted`: a message
that was given is never given again before a restart forgets it.

### The roots

A run has one root module. `MCSession`, `MCAgentLoop` and `MCCheckpoints` hold,
beside the module they extend, instances of the smaller components with
variables of their own. `part`, chosen in the initial state, says whose steps a
behaviour takes; the variables of the others keep their initial values. No state
relates two parts, so the number of states is the sum and not the product, and
a property of one part says nothing about another. Where the bounds of a part
are used up it stutters; the extended modules do not.

## 3. The runs

| Run | Checks | Result |
|---|---|---|
| `cron` | `DueJobsAreCurrent`, `DueJobRuns` | hold |
| `cron_save_fails` | `SlotsAhead`, `RecurringStaysScheduled`, `RunsAtMostOncePerSlot` (the refinement of `CronLedger`) | hold |
| `cron_cli` | `OncePerSlotAndBoot` | holds |
| `session` | the eleven properties of the first table below | hold |
| `agent_loop` | the ten of the second | hold |
| `checkpoints` | the thirteen of the third | hold |
| `cron_timer_dies` | `TimerAlwaysArmed` | violated |
| `cron_run_lost` | `RunsReachOutcome` | violated |
| `cron_alert_lost` | `FailureReachesChannel` | violated |
| `session_history` | `HistoryWellFormed` | violated |
| `session_expiry` | `ActiveSessionKept` | violated |
| `checkpoints_overlap` | `InterruptedToolsAreRecorded` | violated |

Run `session`:

| Property | Of | Says |
|---|---|---|
| `FileHoldsSaved` | `SessionTurns` | the file holds what the session believes it saved |
| `AnsweredOnce` | `SessionTurns` | no crash, eviction or reload brings an answered request back |
| `RunOnce` | `Approvals` | answered from two chats, a call is started once |
| `UndisturbedNotSkipped` | `Consolidation` | what counts as consolidated is in HISTORY.md, or its answer had no entry |
| `ConsolidatedStays` | `Consolidation` | no consolidation takes out what another put into MEMORY.md |
| `LastMemoryKept` | `MemoryFile` | a crash in a write leaves the last whole content somewhere |
| `OwnTaskShown` | `Tasks` | a prompt tells of its own turn's task |
| `StaleIsNoticed` | `Rules` | a cache that differs from the files is read anew |
| `NoLookalikes` | `Knowledge` | what the facade saves or cleans up is like nothing before it, beside two other writers |
| `Findable` | `VectorStore` | maintenance loses no line that is still in its file, but what a failing refill missed |
| `IndexHolds` | `EntityGraph` | the index has every entity at its places and every typed one, after merges and pruning |

Run `agent_loop`:

| Property | Of | Says |
|---|---|---|
| `CallsAnswered` | `AgentLoop` | the model is asked only when every call has a result |
| `FailuresStop`, `CyclesStop` | `AgentLoop` | failures in a row and repetitions end the turn |
| `TurnEnds` | `AgentLoop` | every turn ends (liveness) |
| `EveryoneAnswered` | `Delivery` | everyone let in gets an answer or an apology (liveness) |
| `NotifiedOnce` | `Workers` | a promised announcement is made once, and watched for until then |
| `ResultsHaveCalls` | `Prompt` | no cut leaves a result without its call |
| `PrerequisitesFirst` | `SkillPrompt` | a skill comes after what it needs |
| `CardIsCurrent` | `SkillStore` | a card that is shown is of the files as they are |
| `CallsAreWhole` | `Streaming` | the parts of a call are one call's of one attempt |

Run `checkpoints`:

| Property | Of | Says |
|---|---|---|
| `UndisturbedToolsAreRecorded`, `NoFalseAlarm` | `Checkpoints` | interrupted tools are known after a crash, and nothing else |
| `NoticeShown` | `Dashboard` | a page that stays sees the notice of a crash |
| `NothingSkipped` | `Weixin` | what the cursor passed was dealt with or is in hand |
| `Inboxes` | five channels | they implement `Inbox` |
| `FilesSurvive` | `WeixinMedia` | announced size and content survive padding |
| `StaysInTouch` | `WhatsApp` | a lost connection never ends the conversation |
| `NothingLeftRunning` | `Discord` | no heartbeat or typing outlives its reason |
| `NothingCutOff` | `Telegram` | the pieces of an answer hold every letter of it |
| `TokenHolds` | `DingTalk` | no post arrives with a token that has ended |
| `RateHolds` | `Proxy` | no stretch of time lets more than a bucket and its refill through |
| `SlotOnce` | `Scheduler` | a slot is executed once while the table is not loaded anew |
| `OnlyOwnChanges` | `ConfigFile` | an editor changes only what its user changed |

Each of these properties has a mutant in its module: a definition as a plausible
slip would have left it (`..._NotSaved`, `..._Kept`), under which TLC finds the
property violated.

### What the violated runs show

1. **The timer dies** (`cron/service.py:368`, `458`). `_save_store` raises again,
   outside the `try` of `_execute_job`; the exception leaves `_on_timer` before
   it arms the next timer. No job runs until a turn adds or removes one.
   Line 279: "We always wake up at least once every 30 seconds."
2. **A run is cancelled** (`cron/service.py:274`). Adding or removing a job
   arms the timer, which cancels the task that is running a job. The schedule
   was moved on before the run, so the run is lost.
3. **An alert is lost** (`cli/commands.py:476`). The callback looks for the job
   among the enabled ones, after it was disabled or deleted.
4. **A history loses its call** (`agent/state_handler.py:266`). The prompt is
   removed between two saves, of which the second appends: the file keeps the
   prompt and has a tool message without a call.
5. **An active session expires** (`session/manager.py:323`). Appends refresh
   `updated_at` in memory only; what a restart or an eviction reads is old.
6. **A checkpoint is lost** (`agent/loop.py:1108`,
   `middleware/crash_recovery.py:53`). A cron turn that runs tools before the
   scan has its checkpoint reported as a crash and deleted; overlapping turns
   overwrite the one path.

### Statements the code does not keep

The modules state more than the runs check: properties one would expect, which
TLC refutes on the same instances or on the slightly larger ones named here.
They stand in the modules, marked "Not kept", as what a change of the code could
aim at.

| Module | Statement | Why it fails |
|---|---|---|
| `Delivery` | `ToolMessagesGoHome` | a cron turn that starts meanwhile changes the shared routing context |
| | `ScheduledCommandsRun` | what comes on the channel "system" is a notice, whatever its text |
| `Approvals` | `ShortIdNamesRequest` | a request of the chat itself is answered, whatever short id is named |
| | `AlwaysMeansAlways` | `exec` raises; a full store, or a rule of the tool, takes no further one |
| `Consolidation` | `ConcurrentNotSkipped` | two consolidations that start from one number both add theirs |
| `Knowledge` | `CleanupMerges` | the first of three is discarded and then takes the third with it |
| | `NoDuplicates` | the tool and the dashboard save beside what is similar |
| | `SavesSurvive` | the tool's next save writes its own list over the facade's |
| `VectorStore` | `AllSourcesReindexed` | facts of the memory tool are not read in again |
| `EntityGraph` | `NamesAreCanonical` | an alias of an alias is replaced by one step (three consolidations, `MaxTriples` 3, the names of one person stated as parts of each other) |
| | `PlacesHold` | a template that is in no triple any longer keeps the places it had |
| | `PromptIsCurrent` | the loop's instance is loaded once |
| | `NoFactLost` | overlapping consolidations, and the skills loader, write what each loaded |
| `Tasks` | `PromptIsOwn` | one tracker serves all turns |
| `Rules` | `GoodRulesUsed` | a file of another form ends the turn, the rest is not read again |
| `Prompt` | `ResultsFollowCalls` | the message with a screenshot comes between two results (`MaxCalls` 2) |
| | `CurrentMessageSent` | the notice of trimming is added after it and takes its room |
| | `InstructionsArePrompt` | a notice, or a result out of place, is a later system message |
| `SkillStore` | `FactsSurvive` | the loader's instance of the graph writes back what it first read |
| | `NewestShown` | a line a crash cut off swallows the next one |
| | `UsesKept` | a registry that cannot be read is taken for an empty one |
| | `InstalledIsFound` | `python-docx` is looked for as `python_docx` (the comment at `skills.py:1340` says `docx`) |
| `Streaming` | `TextOfOneReply` | the text of a broken stream stays when the request is repeated |
| `ConfigFile` | `BadFileIsDefault` | the handler names a logger the module does not define |
| | `WizardKeeps` | it saves all it loaded, over an edit made while it asked |
| `Proxy` | `StreamsBack` | the parameter `stream` is passed twice, which is no call |
| `Slack` | `DirectMessagesTaken` | a direct message that names the bot is left to a mention that never comes |
| `DingTalk` | `AckedIsGiven` | what a stop cancels was already acknowledged |
| `Dashboard` | `CrashIsTold` | the scan deletes the file first; a second crash silences it |

Two observations that no statement covers: mails fetched before a connection
breaks are flagged as read and dropped (`channels/email.py`); and in the gateway
prompts are built with the event loop running, so that `_ensure_skill_ssl` never
builds a card, while hooks, registry and run log are called by tests only.

### Bounds, and why they are enough

* *Cron*: two jobs, because every interaction of jobs (the order of a tick, a
  removal during another's run) is one of two; one schedule of each kind; a day
  of four units and a clock to five or six, so that midnight passes once with
  jobs due on both sides; `RetryDelay` 1 below the intervals; `MaxSleep` 2, so
  that wakes without a due job happen. `cron_cli` has one job and a day of three.
* *Sessions*: two requests (an old one and a new one), seven messages (two
  exchanges with an approval), an expiry of one unit and a clock to two. No
  append reaches `FlushEvery`: a turn adds at most three messages, in the code
  too. *Approvals*: two chats, one of them a master's, two requests, three
  messages: an answer from each side and one that comes too late.
* *AgentLoop*: seven iterations and a window of six signatures instead of twenty
  and twelve. Seven is more than the longest limit (three failures, three
  repetitions, a cycle of two three times, which needs six). Three batches: two
  reads with different arguments, and a message together with a read, so that a
  batch has two calls and the flood guard is reached.
* *Checkpoints*: two chat turns, so that one begins when another has ended; one
  background turn; two keys, so that turns may or may not share a session.
* *Memory and stores*: a consolidation every two turns and three of them, so
  that two overlap and a third follows; three backups, where the code keeps five
  (`memory.py:18`), because the fewer there are the sooner an interrupted write
  costs the last one, and two faults, one in a rotation and one in its
  repetition; three keys of which one is like the two others and those are
  unlike, an old file of two entries, two saves; two bulk sources, a fact,
  two lines and four faults, so that a purge fails, a restart opens the index
  again and another purge follows; two consolidations that state three facts over
  a graph of two triples, so that the third drops the oldest, among them a fact
  about an entity that also is a template and stays in the index, and one card; two turns and two tasks; two files of rules and three changes.
* *Prompt, skills, streams*: sizes and budgets at which every cut happens and
  may fall on any message, three turns; three skills and room for two, one of
  them always wanted and one overridden by `save_skill`; `SkillStore` has two
  instances, `Cards` (two callers, two versions) and `Hooks` (runs, log,
  packages), which share no step; four chunks and two retries.
* *Channels*: two messages and a window of two or three, one restart, one
  sender who is allowed and one who is not. Two messages are what it takes for
  one to overtake, repeat or bury another; a window that could overflow between
  a message and its repetition is the service's to bound. `WhatsApp` and `Discord`
  reconnect up to three times, so that what one connection leaves behind (a flag,
  a timer, a task) meets the next one and the one after.
  `Telegram` cuts texts of up to four characters at two; `WeixinMedia` has
  blocks of two bytes and files of up to two blocks.
* *Others*: one worker slot and two jobs, so that one is refused or waits; a
  bucket of two requests that half a request refills per tick, five requests; a
  token of two lives, one of which the margin uses up; `Dashboard` tries once and
  does not wait for a page (`Polls` 0), two pages and a stream, two starts.

Deadlock is checked in every run; the parts beside the extended modules, which
may stutter in the roots, are exempt from it.

### Fairness

Safety runs have none. `cron` assumes weak fairness of the timer task's own
steps (asyncio runs a task that is ready), of the return of an awaited turn and
of the callback, and of the clock. A turn does return: `TurnEnds` is that
statement about the agent loop. For it the run assumes that the model's call and
the tools return: `_LLM_CALL_TIMEOUT` bounds the one, the `execution_timeout`
of `tools/registry.py:67` the other. `EveryoneAnswered` assumes weak fairness of
the two loops of the gateway (taking a message, dispatching one, the end of a
send), of the start of the channels, and of turns, which end, well or not.
Nothing is assumed of users, other turns, crashes or saves. `DueJobRuns` excepts
the jobs that are removed and the times at which the process is down, and is
checked without failing saves: with them it fails for the reason of finding 1.

## 4. The theorems

Every safety property of the passing runs is proved, for all values of the
constants that satisfy the assumptions named below: any jobs, schedules, turns,
batches, chats, users, files and bounds. `Spec` is the specification of the
extended module, `AllSpec` that of the root a run checks, so that each theorem
names the very definition its run does.

| Module | Theorem | States |
|---|---|---|
| `CronService_proofs` | `TypeCorrect` | `Spec => []TypeOK` |
| | `SlotsStayAhead` | `Spec => []SlotsAhead` |
| | `LedgerImplemented` | `Spec => RunsAtMostOncePerSlot`: it implements `CronLedger` |
| | `RecurringIsNotForgotten` | `Spec => []RecurringStaysScheduled` |
| | `GivenUpStaysOff` | `Spec => []GivenUpIsDisabled` |
| | `DueStaysCurrent` | `Spec => []DueJobsAreCurrent`, when no save raises |
| | `OncePerSlotWithCommands` | `CliSpec => OncePerSlotAndBoot` |
| `SessionTurns_proofs` | `SessionTypes` | `Spec => []TypeOK` |
| | `RequestsAnsweredOnce` | `Spec => []AnsweredOnce` |
| | `FileKeepsWhatIsSaved` | `Spec => []FileHoldsSaved` |
| | `ApprovedRunsOnce` | `AllSpec => []RunOnce` |
| | `ConsolidatedIsInHistory`, `ConsolidationKeepsMemory` | `[]UndisturbedNotSkipped`, `ConsolidatedStays` |
| | `LastMemorySurvives` | `[]LastMemoryKept` |
| | `PromptShowsOwnTask` | `[]OwnTaskShown` |
| | `StaleRulesAreNoticed` | `[]StaleIsNoticed` |
| | `IndexedIsFindable` | `[]Findable` |
| | `GraphIndexHolds` | `[]IndexHolds` |
| | `BaseHasNoLookalikes` | `[]NoLookalikes` |
| `AgentLoop_proofs` | `ModelSeesAnsweredCalls` | `Spec => []CallsAnswered` |
| | `FailingTurnsStop` | `Spec => []FailuresStop` |
| | `CyclingTurnsStop` | `Spec => []CyclesStop` |
| | `PromisedJobsAreAnnouncedOnce` | `AllSpec => []NotifiedOnce` |
| | `CardsAreCurrent` | `[]CardIsCurrent` |
| | `StreamedCallsAreWhole` | `[]CallsAreWhole` |
| | `ResultsKeepTheirCalls` | `[]ResultsHaveCalls` |
| | `PrerequisitesComeFirst` | `AllSpec => PrerequisitesFirst` |
| `Checkpoints_proofs` | `UndisturbedRecorded` | `Spec => []UndisturbedToolsAreRecorded` |
| | `FalseAlarmsExcluded` | `Spec => []NoFalseAlarm` |
| | `SlotsRunOnce` | `AllSpec => []SlotOnce` |
| | `NoMessageSkipped`, `FilesComeBack` | `[]NothingSkipped`, `[]FilesSurvive` (Weixin) |
| | `WhatsAppComesBack` | `[]StaysInTouch` |
| | `TypingEnds` | `[]NothingLeftRunning` (Discord) |
| | `NothingIsCutOff` | `[]NothingCutOff` (Telegram) |
| | `DingTalkTokens` | `[]TokenHolds` |
| | `ChannelsImplementInbox` | `AllSpec => Inboxes`: five channels implement `Inbox` |
| | `NoticesAreShown` | `[]NoticeShown` |
| | `ProxyLimits` | `[]RateHolds` |
| | `EditorsWriteTheirOwn` | `AllSpec => OnlyOwnChanges` |
| `Approvals` | `RequestsRunOnce` | `Spec => []RunOnce`, of the component alone |
| `Workers` | `PromisesAreKept` | `Spec => []NotifiedOnce`, likewise |
| `DingTalk` | `NoEndedToken` | `Spec => []TokenHolds`, likewise |
| `Proxy` | `LimiterHolds` | `Spec => []RateHolds`, likewise |

### What the theorems assume

Apart from the named assumptions of the modules (`CronJobsAssumption`,
`SessionAssumption` and the like: kinds of constants, and markers such as
`NoFile` that are no value of what they stand beside), which TLC evaluates:

| Theorem | Assumes | Because |
|---|---|---|
| `DueStaysCurrent` | no save raises | see *Cron* below |
| `LastMemorySurvives` | fewer interrupted writes than backups | each may cost a backup |
| `DingTalkTokens` | the margin covers two delays; tokens that live that long | asking and posting take one delay each |
| `ChannelsImplementInbox` | windows no shorter than what can arrive; the Slack policy "mention" | a full window forgets; that policy is the one the model has two events for |
| `SlotsRunOnce`, `StaleRulesAreNoticed`, `PrerequisitesComeFirst` | finitely many jobs, files, skills | |
| `FilesComeBack`, `NothingIsCutOff` | a block and a message of at least one unit | |
| `ConsolidatedIsInHistory` | at least one turn is kept back | the slice of messages `[last:-0]` would be empty in the code |
| `BaseHasNoLookalikes` | the old file has keys of the model | |
| others | bounds, windows and counters are natural numbers | |

### The arguments

`TypeOK` and `GivenUpIsDisabled` are not among the properties TLC runs: they are
proved. Each proof has an inductive invariant, named in its module; what follows
says what it adds to the property and why.

* *Cron.* `SlotsAhead` is not inductive: the due jobs a tick has collected carry
  their times with them, a retry is computed from the start of the run, and a
  restart reads the file. `IInv` adds that collected times are later than what
  has run and not before the day of the start (`DueAhead`), that the start of a
  run is not before anything recorded (`RunStarted`), that nothing recorded is
  in the future (`PastOf`), and that times in memory are of today (`OfToday`).
  The lemmas say of each operator of `CronJobs` that the time it gives a job is
  a future one or an earlier one kept. The refinement maps `Begin` to `Run`,
  `Start` to `Boot`, the clock to `Tick`, the rest to stuttering. `SInv` carries
  the same two statements, a next time for what goes on and none for what was
  given up, through memory, file and the job a run holds, and needs that an
  endless schedule always has a next time. `DInv` says that what a tick still
  holds is listed as it was collected. With failing saves it is not true: a
  removal whose write raises does not arm the timer anew (`cron/service.py:526`),
  and the tick goes on with the removed job. Beside commands of other processes
  nothing can be said of the file, so `BootInv` speaks of memory only: its times
  are later than what ran since the start.
* *Sessions.* `AnsweredOnce` becomes inductive with: a request that is pending
  on the live object, or in the file, has never been answered. The file part
  rests on the fact that a save after `pend` was taken off finds the session
  dirty and rewrites it. For the file, `HistoryInv` says that its lines are
  exactly the first `saved` messages of the live object (`Whole`), unless a
  resumed approval took a message out since the last rewrite: such an object is
  dirty and rewrites. An append goes behind those lines; an object that was just
  loaded has `saved = 0` and rewrites too, so that nothing is ever appended
  behind a torn line.
* *Approvals.* `RunOnce` rests on two facts about several chats: a
  request waits only in the chat it came from (`WaitsAtHome`), and while it waits
  its call was not started (`WaitsUnstarted`); clearing the request is one step
  with the start, whosever lock is held.
* *Memory.* `MemoryKept` follows the rotation step by step: where the last whole
  content is at the latest, given the faults so far. `LockInv` has that one
  consolidation at most is at work, and was shown all that others wrote; and
  that of an undisturbed session at most one snapshot waits or is at work, that it
  is the session's beginning, and that what is counted is in the history or among
  the messages an answer was silent about. `clean` ends where a commit is added to
  a session that has moved on since its snapshot, which is where the count goes
  wrong (`memory_manager.py:192`); a `/new` or a second snapshot that is never
  added does not end it.
* *Stores.* `IndexInv` adds to `Findable` that the lines of a file that is gone
  have been away (`GoneIsAway`), and so has what is flagged and still in its file
  (`FlaggedIsAway`): this is what makes the deletion of flagged chunks harmless
  when a file comes back. `GraphInv` says the same of every graph that may be
  written next, the file's, the loader's and that of a consolidation after its
  rewriting; while facts are extracted the index of a consolidation's graph has
  not the places of its triples. `UnlikeInv` is about the facade's list, the
  tool's and the file at once, since each becomes another's at a save or a start;
  the work is in the clean-up, where the merged list is unlike because each entry
  took what resembled it before the next was looked at.
* *Tasks, rules, cards.* `TaskInv`: between the start of a turn and its prompt
  its own task is the active one unless another turn came. `RuleInv`: a cache
  as young as the files has, with what a reload still has to read, exactly the
  rules. `CardInv` is nearly the property: every card, in the graph of any
  writer or on its way to one, was computed from the files its hash names.
* *Agent loop.* While tools run, the calls without a result are those of the
  batch (`OpenIsBatch`), and while a turn goes on the counter of the breaker is
  the real streak and below the limit (`CounterIsStreak`). For `CyclesStop`, the
  kept signatures are a tail of the calls made (`SigsAreTail`), long enough for
  both comparisons, however the calls are spread over batches.
* *The prompt.* `BackedInv` is that every result in a prompt has its call before
  it; it says nothing of the history, whose results may have lost theirs
  (finding 4). So the repair is what is proved about: what `Sanitized` leaves is
  backed whatever it is given, every cut that follows starts at a message from which
  the rest is backed, and the results an iteration adds belong to the calls in
  front of them.
* *Skills.* `Resolved` recurs on the skills that are being resolved. That it has
  a value is shown first, by the number of skills that are left; then, by the
  least counterexample, that a list it gives is in order if every skill being
  resolved needs, through others, the one asked for: a cut cycle is then one of
  the exceptions. Joining, leaving out skills without a text, and the budget
  keep the order.
* *Streams.* `StreamInv`: the accumulators hold the parts of one call of the
  present attempt, in their order; a retry empties them.
* *Workers.* `WatchInv`: the monitor starts in the step that makes the promise,
  and only the announcement takes it out of watching.
* *Checkpoints.* While an undisturbed turn runs its tools in the pipeline, the
  shared path is its own (`PathIsOwn`), so that the step after the tools removes
  its file; and a file of an undisturbed turn was written for tools that still
  run (`FileIsOwn`).
* *Scheduler.* `SlotInv`: what a round has yet to execute is distinct, due, of
  the present table, and was not executed from it.
* *Channels.* `PassedInv` (Weixin): what a cursor passed, in memory or on disk,
  is over, current or in the batch. `MemberInv` (WhatsApp): a client that is set
  up knows that the service is open, or will read it last; the flag and the timer
  of the bridge go together. `TypingInv` and `BeatInv` (Discord): who types is
  owed an answer. `InPieces` (Telegram): the letters of what was sent and of what
  remains are the letters of the answer, and what remains begins with a letter
  once a piece was cut, so that a piece is never empty. For `Inbox`, each channel
  maps its numbers of messages to `given`, and has to show that the window still
  holds all that was given.
* *DingTalk, proxy.* `TokenInv`: asking and posting take at most a delay each, the
  cached expiry lies a delay before the end, and a margin of two delays covers
  both. `BucketInv`: for every time up to now, what passed since then and what
  the bucket would hold now together stay below a full bucket and the refill
  since. A write takes the time of the refill with it, or the next one would refill the
  same stretch again: the mutant `Kept_OldTime`.
* *Dashboard, configuration.* `NoticeInv`: a page that is owed a notice has had
  what was pushed so far, or is still in the list of the present push.
  `PageInv`: a page shows what the file has, unless a save came between two of
  its looks or the time of the file will tell it.

### Recursion in the proofs

The recursive definitions of the modules are recursive functions, which to TLAPS
are solutions of their equations chosen by `CHOOSE`. The library's induction theorems take an
operator as a parameter, which the provers cannot instantiate; the
proof modules do without. `LeastElement` follows from the well-foundedness of
`<`; `Counting` (what holds of 0 and goes from a number to the next holds up to
n) is its consequence; and `Recursion` shows with it that an equation with a
first value and a step has a solution. Each recursive definition has a lemma
that its equation has a solution, hence that the chosen one is one, and then a
lemma by `Counting` of what it computes.

In the roots, constants and variables of the parts carry prefixes; a lemma such
as `PromptSteps` says that a step of the root is a step of the part or leaves it
alone.

Only model-checked: the liveness properties (`DueJobRuns`, `TurnEnds`,
`EveryoneAnswered`), because fairness and `ENABLED` are outside what the proof
system handles; and, of course, the six properties that are violated.

## 5. What is not modelled

* Text: prompts, matching, scoring, rules, layout. Their results are choices or
  relations given as constants.
* The effects of tools on the desktop, the mailbox, the shell and the files;
  vision, the code-generating harness, the sandbox, plug-ins, exports, traces and
  metrics: data processing and I/O without state shared between turns.
* Attachments of most channels, and the read-only pages of the dashboard.
* Channels: the window of seen ids never overflows, and every message has an id,
  so that the mails (`email.py:264`) and Mochat messages (`mochat.py:546`) without
  one, which are not deduplicated, are left out. Slack keeps no seen ids; `Slack`
  has the two events Slack sends for one mention but no redelivery of one event,
  and not the switch `dm.enabled` (`slack.py:192`). The way `weixin.py` takes when
  the crypto library is missing (1386, 1419) is left out of `WeixinMedia`.
* Checkpoints: a file of a crash that can be read and not removed
  (`session/manager.py:496`), which is reported again at the next start.
* Configuration: keys the schema does not know, which a save drops
  (`schema.py:572`, `dashboard/app.py:313`), and a post without `version_hash`,
  which is not compared (`dashboard/app.py:298`).
* Memory: a MEMORY.md torn inside a character, whose reading raises
  (`memory.py:55`). Knowledge base: a save that raises, the script that migrates
  old files, and a page of the dashboard that posts the entries it was shown some
  time ago; `Edit` changes the file as it is. Graph: `generate_bridging_facts`
  (`knowledge_graph.py:534`), which nothing calls.
* Sessions: two live objects of one session, and the legacy directory.
  `process_direct` does not take the lock of a session; `SessionTurns` covers
  sessions that are used through the bus.
* Task tracker: sub-tasks. Vector store: the hybrid ranking.
* What the result of a tool counts as (`tools/registry.py:80` against
  `_is_error_result`) is a choice of `AgentLoop`.
* `CronService`: missing or unreadable `jobs.json`, time zones, the wall clock
  running backwards.
* Components against each other: the parts of a root do not interact. Composed
  are `Session` and its turns, the gateway and cron commands, the channel and
  the bridge of WhatsApp.

## 6. What could follow

1. Composition of `Delivery` with `SessionTurns` and `Checkpoints`: the message
   that is taken while a cron turn of the same session runs.
2. The statements of section 3 that are not kept: each is a property to check in
   a run of its own as soon as the code keeps it.
