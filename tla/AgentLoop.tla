------------------------------ MODULE AgentLoop ------------------------------
(***************************************************************************)
(* One turn of the agent: the iterations of AgentLoop._run_agent_loop_v2,  *)
(* each a call of the model and, when it asks for tools, a run of the      *)
(* middleware pipeline around their execution.                             *)
(*                                                                         *)
(* Both hooks of every middleware run without giving up the event loop, so *)
(* an iteration has two awaits: the model ("llm") and the tools ("tools"). *)
(* The checkpoint written around the tools is in Checkpoints.              *)
(***************************************************************************)
EXTENDS Naturals, Sequences, SequencesExt, FiniteSets

CONSTANTS
    Pairs,         \* tool and action of a call
    Args,          \* its arguments
    Message,       \* the pair of the message tool
    Batches,       \* what the model may ask for in one response
    MaxIterations, \* max_iterations (20 in the code)
    FuzzyWindow    \* _FUZZY_LOOP_WINDOW (12)

Call == [pair : Pairs, args : Args]

ASSUME AgentLoopAssumption ==
    /\ Message \in Pairs
    /\ Batches \subseteq Seq(Call) \ {<<>>}
    /\ MaxIterations \in Nat \ {0}
    /\ FuzzyWindow \in Nat

VARIABLES
    pc,       \* "off", "llm" or "tools"
    headless, \* nobody can be asked for an approval
    iter,     \* iteration
    errors,   \* consecutive_all_exceptions
    sigs,     \* recent_call_sigs
    sent,     \* message_call_count
    open,     \* calls in messages that have no result yet
    batch,    \* the calls being executed
    final,    \* final_content, by where it comes from
    exit,     \* exit_kind
    ran,      \* history: the batches executed in this turn
    streak    \* history: how many of the last ones failed in a row

vars == <<pc, headless, iter, errors, sigs, sent, open, batch, final, exit,
          ran, streak>>

Exits == {"none", "success", "failure", "abort", "approval_pending", "raised"}
Finals == {"none", "answer", "filler", "timeout", "notice"}

TypeOK ==
    /\ pc \in {"off", "llm", "tools"}
    /\ headless \in BOOLEAN
    /\ iter \in 0..MaxIterations
    /\ errors \in Nat
    /\ sigs \in Seq(Batches)
    /\ sent \in Nat
    /\ open \in Nat
    /\ batch \in Batches \cup {<<>>}
    /\ final \in Finals
    /\ exit \in Exits
    /\ ran \in Seq(Batches)
    /\ streak \in Nat

Init ==
    /\ pc = "off"
    /\ headless \in BOOLEAN
    /\ iter = 0
    /\ errors = 0 /\ sigs = <<>> /\ sent = 0 /\ open = 0
    /\ batch = <<>>
    /\ final = "none" /\ exit = "none"
    /\ ran = <<>> /\ streak = 0

------------------------------------------------------------------------------
(* Loop detection. *)

CbThreshold == 3
DuplicateThreshold == 3
MaxMessageCalls == 3

LastOf(s, n) == SubSeq(s, Len(s) - n + 1, Len(s))

\* A mutant: only as many signatures are kept as the exact comparison needs.
Retained_Short(s) ==
    IF Len(s) > DuplicateThreshold THEN LastOf(s, DuplicateThreshold) ELSE s

Retained(s) ==
    LET n == IF FuzzyWindow > DuplicateThreshold
             THEN FuzzyWindow ELSE DuplicateThreshold
    IN  IF Len(s) > n THEN LastOf(s, n) ELSE s

\* The last n * k elements are n times the same k elements.
EndsIn(s, n, k) ==
    /\ n * k <= Len(s)
    /\ LET tail == LastOf(s, n * k)
       IN  \A i \in 1..((n - 1) * k) : tail[i] = tail[i + k]

DuplicateLoop(s) == EndsIn(s, DuplicateThreshold, 1)

\* One pair makes up three quarters of the calls, with little variety in its
\* arguments.
Dominated(calls) ==
    \E p \in Pairs :
        LET at == {i \in DOMAIN calls : calls[i].pair = p}
        IN  /\ 4 * Cardinality(at) >= 3 * Len(calls)
            /\ Cardinality(at) >= 4
            /\ 10 * Cardinality({calls[i].args : i \in at}) <= 4 * Cardinality(at)

Cyclic(calls) == \E k \in 2..4 : EndsIn(calls, 3, k)

FuzzyLoop(s) ==
    LET calls == FlattenSeq(s)
    IN  Len(s) >= 4 /\ (Dominated(calls) \/ Cyclic(calls))

------------------------------------------------------------------------------
(* The loop. *)

Leave(kind) == pc' = "off" /\ exit' = kind /\ UNCHANGED iter

\* A mutant: at the limit the count starts anew.
Iterate_Again ==
    /\ iter' = IF iter < MaxIterations THEN iter + 1 ELSE 1
    /\ pc' = "llm"
    /\ UNCHANGED exit

\* The end of an iteration that does not break the loop.
Iterate ==
    \/ /\ iter < MaxIterations
       /\ iter' = iter + 1
       /\ pc' = "llm"
       /\ UNCHANGED exit
    \/ /\ iter = MaxIterations
       /\ Leave("failure")

Begin ==
    /\ pc = "off"
    /\ pc' = "llm" /\ iter' = 1
    /\ errors' = 0 /\ sigs' = <<>> /\ sent' = 0 /\ open' = 0
    /\ batch' = <<>>
    /\ final' = "none" /\ exit' = "none"
    /\ ran' = <<>> /\ streak' = 0
    /\ UNCHANGED headless

counters == <<headless, errors, sigs, sent, batch, ran, streak>>

\* The call of the model timed out, or the turn raised or was cancelled.
Timeout ==
    /\ pc = "llm"
    /\ final' = "timeout"
    /\ Leave("failure")
    /\ UNCHANGED <<open, counters>>

Raise ==
    /\ pc # "off"
    /\ Leave("raised")
    /\ UNCHANGED <<open, final, counters>>

Answer ==
    /\ pc = "llm"
    /\ final' = "answer"
    /\ Leave("success")
    /\ UNCHANGED <<open, counters>>

\* "One moment, please", or a claim to be done without having done anything.
Nudge ==
    /\ pc = "llm"
    /\ final' = "filler"
    /\ Iterate
    /\ UNCHANGED <<open, counters>>

\* Tools without a plan: the response is not added to the messages.
NoPlan ==
    /\ pc = "llm"
    /\ Iterate
    /\ UNCHANGED <<open, final, counters>>

\* The calls of the response become part of the messages.
Proposed(b) == open + Len(b)

\* A mutant: the layer reports the violation once and not for every call.
Blocked_OneResult(b) ==
    /\ pc = "llm"
    /\ open' = Proposed(b) - 1
    /\ Iterate
    /\ UNCHANGED <<final, counters>>

\* VerificationMiddleware: every call is answered by the violation, and the
\* loop goes on for the model to correct itself.
Blocked(b) ==
    /\ pc = "llm"
    /\ open' = Proposed(b) - Len(b)
    /\ Iterate
    /\ UNCHANGED <<final, counters>>

\* HITLMiddleware: the turn ends with a question to the user, or, headless,
\* with an error for the first call that would need an answer.
Suspend(b) ==
    /\ pc = "llm" /\ ~headless
    /\ open' = Proposed(b)
    /\ final' = "notice"
    /\ Leave("approval_pending")
    /\ UNCHANGED counters

HardBlock(b) ==
    /\ pc = "llm" /\ headless
    /\ open' = Proposed(b) - 1
    /\ final' = "notice"
    /\ Leave("abort")
    /\ UNCHANGED counters

\* A middleware raises before the tools.
PreFails(b) ==
    /\ pc = "llm"
    /\ open' = Proposed(b)
    /\ final' = "notice"
    /\ Leave("abort")
    /\ UNCHANGED counters

Execute(b) ==
    /\ pc = "llm"
    /\ open' = Proposed(b)
    /\ batch' = b
    /\ pc' = "tools"
    /\ UNCHANGED <<headless, iter, errors, sigs, sent, final, exit, ran, streak>>

------------------------------------------------------------------------------
(* The tools return: ToolExecutor puts a result into messages for every    *)
(* call, then FloodGuard and CircuitBreaker look at the batch, which has    *)
(* failed when every result counts as an error (_is_error_result).          *)

SentNow == sent + Cardinality({i \in DOMAIN batch : batch[i].pair = Message})
Flooding == SentNow >= MaxMessageCalls

ErrorsNow(failed) == IF failed THEN errors + 1 ELSE 0
Tripped(failed) == ErrorsNow(failed) >= CbThreshold
SigsNow == Retained(Append(sigs, batch))
Stuck == DuplicateLoop(SigsNow) \/ FuzzyLoop(SigsNow)

Returned(failed) ==
    /\ pc = "tools"
    /\ open' = open - Len(batch)
    /\ sent' = SentNow
    /\ batch' = <<>>
    /\ ran' = Append(ran, batch)
    /\ streak' = IF failed THEN streak + 1 ELSE 0
    /\ UNCHANGED headless

StopFlood(failed) ==
    /\ Returned(failed)
    /\ Flooding
    /\ final' = "none"
    /\ Leave("abort")
    /\ UNCHANGED <<errors, sigs>>

StopFailing(failed) ==
    /\ Returned(failed)
    /\ ~Flooding /\ Tripped(failed)
    /\ errors' = ErrorsNow(failed)
    /\ final' = "notice"
    /\ Leave("abort")
    /\ UNCHANGED sigs

StopStuck(failed) ==
    /\ Returned(failed)
    /\ ~Flooding /\ ~Tripped(failed) /\ Stuck
    /\ errors' = ErrorsNow(failed)
    /\ sigs' = SigsNow
    /\ final' = "notice"
    /\ Leave("abort")

\* A mutant: the counter of failures starts anew with every iteration.
GoOn_Forgetful(failed) ==
    /\ Returned(failed)
    /\ ~Flooding /\ ~Tripped(failed) /\ ~Stuck
    /\ errors' = 0
    /\ sigs' = SigsNow
    /\ Iterate
    /\ UNCHANGED final

GoOn(failed) ==
    /\ Returned(failed)
    /\ ~Flooding /\ ~Tripped(failed) /\ ~Stuck
    /\ errors' = ErrorsNow(failed)
    /\ sigs' = SigsNow
    /\ Iterate
    /\ UNCHANGED final

\* The executor raises while it puts results into messages.
ExecutorFails ==
    /\ pc = "tools"
    /\ \E n \in 0..Len(batch) : open' = open - n
    /\ sent' = SentNow
    /\ final' = "notice"
    /\ Leave("abort")
    /\ batch' = <<>>
    /\ ran' = Append(ran, batch)
    /\ UNCHANGED <<headless, errors, sigs, streak>>

------------------------------------------------------------------------------

ModelReturns ==
    \/ Timeout \/ Answer \/ Nudge \/ NoPlan
    \/ \E b \in Batches :
         Blocked(b) \/ Suspend(b) \/ HardBlock(b) \/ PreFails(b) \/ Execute(b)

ToolsReturn ==
    \/ \E failed \in BOOLEAN :
         StopFlood(failed) \/ StopFailing(failed) \/ StopStuck(failed) \/ GoOn(failed)
    \/ ExecutorFails

Next == Begin \/ Raise \/ ModelReturns \/ ToolsReturn

Spec == Init /\ [][Next]_vars

\* The model answers within _LLM_CALL_TIMEOUT or the call times out; a tool
\* returns within its execution_timeout.
FairSpec == Spec /\ WF_vars(ModelReturns) /\ WF_vars(ToolsReturn)

------------------------------------------------------------------------------
(* Properties. *)

\* The model is asked only with messages in which every call has its result:
\* after tools, blocked calls, nudges and missing plans alike.  A provider
\* refuses a call without a result.
CallsAnswered == pc = "llm" => open = 0

\* No turn goes on after CbThreshold batches in a row that failed, whatever
\* iterations without tools came between them (circuit_breaker.py:43-66).
FailuresStop == pc = "llm" => streak < CbThreshold

\* No turn goes on after the same batch three times in a row, or after three
\* rounds of a cycle of two to four calls that the window can hold
\* (circuit_breaker.py:68-111).
CyclesStop ==
    pc = "llm" =>
        /\ ~EndsIn(ran, DuplicateThreshold, 1)
        /\ \A k \in 2..4 :
             3 * k <= FuzzyWindow /\ Len(ran) >= 4 => ~EndsIn(FlattenSeq(ran), 3, k)

\* Every turn comes to an end, however often the loop is sent round again.
TurnEnds == pc # "off" ~> pc = "off"
==============================================================================
