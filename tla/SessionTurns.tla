---------------------------- MODULE SessionTurns ----------------------------
(***************************************************************************)
(* The turns of one conversation: AgentLoop._process_message and           *)
(* _execute_with_llm, the approval gate of HITLMiddleware and the handlers *)
(* of PendingStateHandler, over the session object and its file (Session).  *)
(*                                                                         *)
(* Turns of one session exclude one another (get_session_lock).  What      *)
(* happens between the awaits of a turn: time passes, another session's    *)
(* turn evicts this one from the cache, the process dies.                  *)
(***************************************************************************)
EXTENDS Session, FiniteSets

CONSTANTS
    MaxTime,     \* bound on the clock
    MaxMessages  \* bound on the length of the history

ASSUME TurnsAssumption ==
    /\ MaxTime \in Nat
    /\ MaxMessages \in Nat

VARIABLES
    now,       \* the clock
    mem,       \* the session object of the turn, or the cached one
    cached,    \* mem is in SessionManager._cache
    file,      \* the JSONL file
    turn,      \* the turn in progress: where it waits, what it decided
    outcomes,  \* history: how often each approval request was answered
    popped,    \* history: a message left the history since the last rewrite
    active     \* history: the time of the last turn the file recorded

vars == <<now, mem, cached, file, turn, outcomes, popped, active>>

Phases == {"idle",    \* no turn in progress
           "llm",     \* _execute_with_llm awaits the agent loop
           "tool",    \* handle_pending_approval awaits the approved tool
           "resume",  \* handle_pending_approval awaits the agent loop
           "notice"}  \* handle_system_message awaits the agent loop

NoTurn == [pc |-> "idle", asked |-> FALSE]

\* The type of every variable.
TypeOK ==
    /\ now \in 0..MaxTime
    /\ mem \in Sessions
    /\ cached \in BOOLEAN
    /\ file \in Files
    /\ turn \in [pc : Phases, asked : BOOLEAN]
    /\ outcomes \in [Requests -> Nat]
    /\ popped \in BOOLEAN
    /\ active \in 0..MaxTime

Init ==
    /\ now = 0
    /\ mem = NewSession(0)
    /\ cached = FALSE
    /\ file = NoFile
    /\ turn = NoTurn
    /\ outcomes = [r \in Requests |-> 0]
    /\ popped = FALSE
    /\ active = 0

------------------------------------------------------------------------------
(* Helpers. *)

\* SessionManager.save(s): the file, the object and the cache.
Save(s, gone) ==
    /\ file' = FileAfter(s, file)
    /\ mem' = Saved(s, file, now)
    /\ cached' = TRUE
    /\ popped' = (CanAppend(s, file) /\ gone)

\* The session a turn starts with: last_task_key is answered for first.
Start ==
    LET s == Opened(cached, mem, file, now)
    IN  IF s.task THEN [s EXCEPT !.task = FALSE, !.dirty = TRUE] ELSE s

\* The start of a turn replaces a history that is gone from memory or expired.
StillPopped == popped /\ cached

Idle == turn.pc = "idle"
Looping == {"llm", "resume", "notice"}

\* A request number that was never used: tool call ids are fresh.
Fresh == {r \in Requests : outcomes[r] = 0 /\ r # mem.pend
                           /\ (file # NoFile => file.pend # r)}

Answered(r) == outcomes' = [outcomes EXCEPT ![r] = @ + 1]

\* handle_pending_approval: drop the last prompt, put the call in its place.
PromptAt(msgs) == {i \in DOMAIN msgs : msgs[i] = "prompt"}

WithoutPrompt(s) ==
    IF PromptAt(s.msgs) = {} THEN s
    ELSE [s EXCEPT !.msgs = RemoveAt(@, Max(PromptAt(s.msgs)))]

Reconstructed(s) ==
    AddMessages(WithoutPrompt(s), <<"call", "tool">>, now)

Pops(s) == PromptAt(s.msgs) # {}

\* _execute_with_llm ends: the exchange, and the offer to save a workflow
\* that succeeded unless an approval is pending.
Exchange(s, asked) ==
    AddMessages(s, <<"user", IF asked THEN "prompt" ELSE "say">>, now)

Offered(s) == [NoPending(s) EXCEPT !.ask = TRUE, !.task = TRUE]

\* handle_pending_approval ends.
Conclusion(s, asked) ==
    AddMessages(s, <<IF asked THEN "prompt" ELSE "say">>, now)

\* handle_system_message ends: the event is recorded as a virtual tool call.
Notice(s, asked) ==
    AddMessages(s, <<"call", "tool", IF asked THEN "prompt" ELSE "say">>, now)

\* What the turn in progress adds to the session when it ends.
Final(asked) ==
    CASE turn.pc = "llm"    -> Exchange(mem, asked)
      [] turn.pc = "resume" -> Conclusion(mem, asked)
      [] turn.pc = "notice" -> Notice(mem, asked)

------------------------------------------------------------------------------
(* The actions. *)

Tick ==
    /\ now < MaxTime
    /\ now' = now + 1
    /\ UNCHANGED <<mem, cached, file, turn, outcomes, popped, active>>

\* A message reaches the model.  A prompt of the session is dropped by it
\* unless the message is older than the prompt; an approval that is pending
\* stays, or the message would have answered it.
BeginTurn ==
    /\ Idle
    /\ LET s == Start
       IN /\ \/ mem' = s
             \/ s.ask /\ mem' = [MarkDirty(s) EXCEPT !.ask = FALSE]
          /\ Len(s.msgs) + 3 <= MaxMessages
    /\ cached' = TRUE
    /\ turn' = [NoTurn EXCEPT !.pc = "llm"]
    /\ popped' = StillPopped
    /\ UNCHANGED <<now, file, outcomes, active>>

\* The knowledge base knows the task: ask, and end the turn.
AskKnowledge ==
    /\ turn.pc = "llm" /\ ~turn.asked
    /\ Save([NoPending(mem) EXCEPT !.ask = TRUE], popped)
    /\ turn' = NoTurn
    /\ UNCHANGED <<now, outcomes, active>>

\* The user confirms a prompt: a save, which may offer an upgrade in turn, an
\* upgrade, or the use of a known result, which is recorded as an exchange.
Confirm ==
    /\ Idle
    /\ Start.ask
    /\ Len(Start.msgs) + 2 <= MaxMessages
    /\ \/ /\ \E again \in BOOLEAN :
               Save([MarkDirty(Start) EXCEPT !.ask = again], StillPopped)
          /\ UNCHANGED active
       \/ /\ Save([MarkDirty(Exchange(Start, FALSE)) EXCEPT !.ask = FALSE],
                  StillPopped)
          /\ active' = now
    /\ UNCHANGED <<now, turn, outcomes>>

\* A slash command: /voice stores a setting, the others leave the session as
\* the start of the turn made it.
Command ==
    /\ Idle
    /\ \/ Save(MarkDirty(Start), StillPopped)
       \/ /\ mem' = Start
          /\ cached' = TRUE
          /\ popped' = StillPopped
          /\ UNCHANGED file
    /\ UNCHANGED <<now, turn, outcomes, active>>

\* The agent loop reaches a high-risk tool call without an approval: the
\* gate suspends the turn.  It looks the session up in the cache and lets the
\* call pass when it is not there.
Suspend ==
    /\ turn.pc \in Looping /\ ~turn.asked
    /\ cached
    /\ \E r \in Fresh :
         /\ Save([mem EXCEPT !.pend = r], popped)
         /\ turn' = [turn EXCEPT !.asked = TRUE]
    /\ UNCHANGED <<now, outcomes, active>>

\* The agent loop returns, and the handler of the turn saves the session.
EndTurn ==
    /\ turn.pc \in Looping
    /\ \/ Save(Final(turn.asked), popped)
       \/ /\ turn.pc = "llm" /\ mem.pend = 0
          /\ Save(Offered(Exchange(mem, FALSE)), popped)
    /\ turn' = NoTurn
    /\ active' = now
    /\ UNCHANGED <<now, outcomes>>

\* The user approves: the request is taken off the session and saved before
\* the tool runs.
Approve_Unsaved ==
    /\ Idle
    /\ LET s == Start
       IN /\ s.pend # 0
          /\ Len(s.msgs) + 3 <= MaxMessages
          /\ mem' = MarkDirty([s EXCEPT !.pend = 0])
          /\ Answered(s.pend)
    /\ cached' = TRUE
    /\ popped' = StillPopped
    /\ turn' = [NoTurn EXCEPT !.pc = "tool"]
    /\ UNCHANGED <<now, file, active>>

Approve ==
    /\ Idle
    /\ LET s == Start
       IN /\ s.pend # 0
          /\ Len(s.msgs) + 3 <= MaxMessages
          /\ Save(MarkDirty([s EXCEPT !.pend = 0]), StillPopped)
          /\ Answered(s.pend)
    /\ turn' = [NoTurn EXCEPT !.pc = "tool"]
    /\ UNCHANGED <<now, active>>

\* The approved tool returns or fails, and the agent loop resumes.
RunTool ==
    /\ turn.pc = "tool"
    /\ mem' = Reconstructed(mem)
    /\ popped' = (popped \/ Pops(mem))
    /\ turn' = [turn EXCEPT !.pc = "resume"]
    /\ UNCHANGED <<now, cached, file, outcomes, active>>

\* Any other answer rejects the request; nothing is awaited before the agent
\* loop.
Reject ==
    /\ Idle
    /\ LET s == Start
           t == MarkDirty([s EXCEPT !.pend = 0])
           u == Saved(t, file, now)
       IN /\ s.pend # 0
          /\ Len(s.msgs) + 3 <= MaxMessages
          /\ Answered(s.pend)
          /\ file' = FileAfter(t, file)
          /\ mem' = Reconstructed(u)
          /\ popped' = Pops(u)
          /\ turn' = [NoTurn EXCEPT !.pc = "resume"]
    /\ cached' = TRUE
    /\ UNCHANGED <<now, active>>

\* A system message (a subagent's announcement) starts a turn of its own,
\* whatever is pending.
BeginNotice ==
    /\ Idle
    /\ mem' = Opened(cached, mem, file, now)
    /\ Len(mem'.msgs) + 3 <= MaxMessages
    /\ cached' = TRUE
    /\ turn' = [NoTurn EXCEPT !.pc = "notice"]
    /\ popped' = StillPopped
    /\ UNCHANGED <<now, file, outcomes, active>>

\* The turn raises or is cancelled: what it added stays in memory, unsaved.
FailTurn ==
    /\ ~Idle
    /\ turn' = NoTurn
    /\ UNCHANGED <<now, mem, cached, file, outcomes, popped, active>>

\* /new: archive the history, save the empty session, drop it from the cache.
NewCommand ==
    /\ Idle
    /\ LET s == Cleared(Start, now)
       IN /\ file' = FileAfter(s, file)
          /\ mem' = Saved(s, file, now)
    /\ cached' = FALSE
    /\ popped' = FALSE
    /\ active' = now
    /\ UNCHANGED <<now, turn, outcomes>>

\* get_or_create or save of other sessions fills the cache.
Evict ==
    /\ cached
    /\ cached' = FALSE
    /\ UNCHANGED <<now, mem, file, turn, outcomes, popped, active>>

------------------------------------------------------------------------------
(* The process dies, at rest, between two awaits or inside an append. *)

Down ==
    /\ mem' = NewSession(now)
    /\ cached' = FALSE
    /\ turn' = NoTurn
    /\ popped' = FALSE
    /\ UNCHANGED <<now, outcomes, active>>

Crash == Down /\ UNCHANGED file

CrashInAppend ==
    /\ turn.pc \in Looping
    /\ CanAppend(Final(turn.asked), file)
    /\ \E n \in 0..(Len(Unsaved(Final(turn.asked))) - 1) :
         file' = PartlyAppended(Final(turn.asked), file, n)
    /\ Down

Next ==
    \/ Tick \/ Evict \/ Crash \/ CrashInAppend
    \/ BeginTurn \/ AskKnowledge \/ Confirm \/ Command \/ Suspend \/ EndTurn
    \/ Approve \/ RunTool \/ Reject \/ BeginNotice \/ FailTurn \/ NewCommand

Spec == Init /\ [][Next]_vars

------------------------------------------------------------------------------
(* Properties. *)

\* The file holds exactly the messages the session believes it saved, in
\* order, through appends, rewrites, evictions and crashes inside an append,
\* as long as no resumed approval has taken a message out of the history
\* since the last rewrite.
FileHoldsSaved ==
    mem.saved > 0 /\ ~popped /\ (cached \/ ~Idle) =>
        /\ file # NoFile
        /\ Readable(file.msgs) = SubSeq(mem.msgs, 1, mem.saved)

\* A request for approval is acted on once: neither a crash while the tool
\* runs nor an eviction brings back a request the user has answered.
AnsweredOnce == \A r \in Requests : outcomes[r] <= 1

\* Conversations a restart would load keep the order the model's API demands:
\* a tool message follows the assistant message that made the call, which the
\* resumption of an approval puts there "to satisfy strict API schema"
\* (state_handler.py:273), and save rewrites a file when messages were removed
\* (manager.py:299).
HistoryWellFormed ==
    file # NoFile =>
        LET h == Readable(file.msgs)
        IN  \A i \in DOMAIN h : h[i] = "tool" => i > 1 /\ h[i - 1] = "call"

\* A session that was used less than Expiry ago is not thrown away as
\* inactive when it has to be read from its file (manager.py:190: the hours
\* "before an inactive session expires").
ActiveSessionKept ==
    file # NoFile /\ now - active <= Expiry => ~Expired(Loaded(file), now)
==============================================================================
