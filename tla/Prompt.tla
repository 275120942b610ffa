------------------------------- MODULE Prompt -------------------------------
(* The messages of a model call: the history of a session as stored, its cut *)
(* to a window, the trimming to a size (agent/context.py), the conversion of *)
(* results without a call, the cut to a token budget (agent/loop.py), and    *)
(* what the iterations of the turn add.                                      *)
EXTENDS Naturals, Sequences, FiniteSets, SequencesExt

CONSTANTS Window,         \* messages of the session that are read, memory_window
          MinKeep,        \* messages never trimmed, 4 in the code
          Limit, Budget,  \* size of a call in characters and in tokens
          Systems,        \* sizes a system prompt may have
          MaxTurns, MaxCalls

VARIABLES messages,       \* Session.messages
          prompt,         \* what the model is sent in the turn that runs
          asked,          \* the message of the user in that turn
          turns, calls

vars == <<messages, prompt, asked, turns, calls>>

(* A message: calls are the ids an assistant message asks for, id the call a *)
(* result answers, images and long what makes it large; unsaved when the     *)
(* session's file lacks it.                                                  *)
Entry(role, id) == [role |-> role, id |-> id, calls |-> {}, images |-> 0,
                      long |-> FALSE, milestone |-> FALSE, skeleton |-> FALSE, unsaved |-> FALSE]
User(n)         == [Entry("user", 0) EXCEPT !.images = n]
Answer(long, m) == [Entry("assistant", 0) EXCEPT !.long = long, !.milestone = m]
Calling(ids)    == [Entry("assistant", 0) EXCEPT !.calls = ids]
Skeleton(m)     == [Answer(FALSE, TRUE) EXCEPT !.skeleton = TRUE]
Notice          == Entry("system", 0)

Size(m) == 1 + (IF m.long THEN 2 ELSE 0) + 3 * m.images
Chars(ms) == FoldLeft(LAMBDA n, m : n + Size(m), 0, ms)

Init == messages = <<>> /\ prompt = <<>> /\ asked = User(0) /\ turns = 0 /\ calls = 0

------------------------------------------------------------------------------
(* The history. *)

\* An ordinary turn stores the question and the answer of the model.
Turn(n, long, milestone) ==
    /\ turns < MaxTurns
    /\ messages' = messages \o <<User(n), Answer(long, milestone)>>
    /\ turns' = turns + 1
    /\ UNCHANGED <<prompt, asked, calls>>

\* A call put before its result: an approved one, which misses the file (it takes
\* the place of the prompt), and the one a system notice is dressed as.
CallAndResult(unsaved) ==
    /\ turns < MaxTurns /\ calls < MaxCalls
    /\ messages' = messages \o <<[Calling({calls + 1}) EXCEPT !.unsaved = unsaved],
                               Entry("tool", calls + 1), Answer(FALSE, FALSE)>>
    /\ turns' = turns + 1
    /\ calls' = calls + 1
    /\ UNCHANGED <<prompt, asked>>

Approved == CallAndResult(TRUE)
Noticed  == CallAndResult(FALSE)

\* The messages at some places, in their order.
At(ms, places) ==
    LET Upto[n \in 0..Len(ms)] == IF n = 0 THEN <<>>
                                  ELSE IF n \in places THEN Append(Upto[n - 1], ms[n])
                                  ELSE Upto[n - 1]
    IN  Upto[Len(ms)]

\* The session is evicted and read back.
Reload ==
    /\ messages' = At(messages, {i \in DOMAIN messages : ~messages[i].unsaved})
    /\ UNCHANGED <<prompt, asked, turns, calls>>

------------------------------------------------------------------------------
(* A call is built. *)

History == IF Len(messages) <= Window THEN messages
           ELSE SubSeq(messages, Len(messages) - Window + 1, Len(messages))

\* The oldest messages lose their images, become skeletons or go, until the rest fits.
\* A message takes two steps at most.
Eased(s) ==
    LET i == s.kept + 1
        m == s.ms[i]
    IN  IF m.images > 0 THEN [s EXCEPT !.ms[i].images = 0]
        ELSE IF m.milestone /\ ~m.skeleton THEN [ms |-> [s.ms EXCEPT ![i] = Skeleton(m)], kept |-> i]
        ELSE [s EXCEPT !.ms = RemoveAt(@, i)]
Evicted(ms, target) ==
    LET Enough(s) == Len(s.ms) - s.kept <= MinKeep \/ Chars(s.ms) <= target
        After[n \in 0..(2 * Len(ms))] ==
            IF n = 0 THEN [ms |-> ms, kept |-> 0]
            ELSE LET s == After[n - 1] IN IF Enough(s) THEN s ELSE Eased(s)
    IN  After[2 * Len(ms)].ms

Trimmed(ms, overhead) ==
    IF overhead + Chars(ms) <= Limit THEN ms
    ELSE LET room == (Limit * 4) \div 5
         IN  Evicted(ms, IF room > overhead THEN room - overhead ELSE 0)

Degraded(before, after) ==
    LET Images(ms) == FoldLeft(LAMBDA n, m : n + m.images, 0, ms)
    IN  \/ Images(after) < Images(before)
        \/ \E i \in DOMAIN after : after[i].skeleton

(* A result is in place when the message before it, results apart, asks for  *)
(* the call.                                                                 *)
InPlace(ms, i) ==
    \E j \in 1..(i - 1) : /\ ms[j].role = "assistant" /\ ms[i].id \in ms[j].calls
                          /\ \A k \in (j + 1)..(i - 1) : ms[k].role = "tool"

\* A result out of place becomes a system message.
Sanitized(ms) == [i \in DOMAIN ms |->
    IF ms[i].role = "tool" /\ ~InPlace(ms, i) THEN Entry("system", ms[i].id) ELSE ms[i]]

\* Where a cut history may begin: at a message of the user, if it is cut at all.
Starts_Anywhere(rest) == 1..(Len(rest) + 1)
Starts(rest) == {1, Len(rest) + 1} \cup {i \in DOMAIN rest : rest[i].role = "user"}

(* Whole turns go from the front until the rest fits; system messages stay.  *)
Snipped(ms) ==
    LET system == At(ms, {i \in DOMAIN ms : ms[i].role = "system"})
        rest   == At(ms, {i \in DOMAIN ms : ms[i].role # "system"})
        From(i) == SubSeq(rest, i, Len(rest))
        fits   == {i \in Starts(rest) : i > Len(rest) \/ Chars(system \o From(i)) <= Budget}
        first  == Min(fits)
    IN  IF Budget = 0 THEN ms
        ELSE system \o (IF first > 1 THEN <<Notice>> ELSE <<>>) \o From(first)

\* build_messages and _snip_history
Build(size, n) ==
    LET question == User(n)
        history  == Trimmed(History, size + Size(question))
        system   == [Entry("system", 0) EXCEPT !.long = size > 1]
        notice   == IF Degraded(History, history) THEN <<Notice>> ELSE <<>>
    IN  /\ asked' = question
        /\ prompt' = Snipped(Sanitized(<<system>> \o history \o <<question>> \o notice))
        /\ UNCHANGED <<messages, turns, calls>>

\* The Codex provider takes the last system message for its instructions.
Instructions(ms) == SelectLastInSubSeq(ms, 1, Len(ms), LAMBDA m : m.role = "system")

------------------------------------------------------------------------------
(* An iteration of the turn adds the calls of the model and their results; a *)
(* screenshot adds its image as a message of the user after the result.      *)
Result(id, screenshot) ==
    <<Entry("tool", id)>> \o (IF screenshot THEN <<User(1)>> ELSE <<>>)

Iterate(n, shots) ==
    /\ prompt # <<>> /\ calls + n <= MaxCalls
    /\ LET ids == (calls + 1)..(calls + n)
           Results[k \in 0..n] == IF k = 0 THEN <<>>
                                  ELSE Results[k - 1] \o Result(calls + k, k \in shots)
       IN  prompt' = prompt \o <<Calling(ids)>> \o Results[n]
    /\ calls' = calls + n
    /\ UNCHANGED <<messages, asked, turns>>

\* The turn ends: its answer is stored by Turn.
End ==
    /\ prompt # <<>>
    /\ prompt' = <<>> /\ asked' = User(0)
    /\ UNCHANGED <<messages, turns, calls>>

Next ==
    \/ \E n \in 0..1, long, m \in BOOLEAN : Turn(n, long, m)
    \/ Approved \/ Noticed \/ Reload \/ End
    \/ \E s \in Systems, n \in 0..1 : prompt = <<>> /\ Build(s, n)
    \/ \E n \in 1..2 : \E shots \in SUBSET (1..n) : Iterate(n, shots)

Spec == Init /\ [][Next]_vars

------------------------------------------------------------------------------
(* No result reaches a model without the call it answers: window, trimming,   *)
(* reloading and the token budget may each cut between the two.               *)
ResultsHaveCalls ==
    \A i \in DOMAIN prompt : prompt[i].role = "tool" =>
        \E j \in 1..(i - 1) : prompt[i].id \in prompt[j].calls

(* The results of a batch follow the message that asks for them, with nothing *)
(* but results between: the form build_messages restores for stored messages. *)
(* Not kept: a screenshot's message comes between two results of a batch.     *)
ResultsFollowCalls ==
    \A i \in DOMAIN prompt : prompt[i].role = "tool" => InPlace(prompt, i)

(* The model is asked what the user asked, when that and the system prompt    *)
(* fit the budget.                                                            *)
(* Not kept: the notice of trimming is added after it and takes its room.     *)
CurrentMessageSent ==
    prompt # <<>> =>
        \/ Size(prompt[1]) + Size(asked) > Budget
        \/ \E i \in DOMAIN prompt : prompt[i] = asked

(* A provider that knows one system prompt is given the one that was built.   *)
(* Not kept: a notice, or a result out of place, is a later system message.   *)
InstructionsArePrompt == prompt # <<>> => Instructions(prompt) = 1
==============================================================================
