----------------------------- MODULE Streaming -----------------------------
(* One call of a model: the stream of chunks and its accumulators, the fall- *)
(* back to a whole answer and its retries (providers/litellm_provider.py),   *)
(* the calls found in a text (xml_fallback_parser.py), and what the loop     *)
(* makes of the chunks (agent/loop.py, _stream_llm_call). A Codex provider   *)
(* reads server events and answers as a whole (openai_codex_provider.py).    *)
EXTENDS Naturals, Sequences, FiniteSets, SequencesExt

CONSTANTS MaxRetries,     \* _MAX_RETRIES
          MaxChunks,      \* pieces of a reply
          Tools           \* tools of the turn; a reply may name others

(* What a model sends: pieces of text, and for each call its parts. Replies  *)
(* are numbered: the stream is reply 1, the attempts of the fallback 2, ...  *)
VARIABLES pc,             \* "idle", "stream", "chat", "wait", "codex", "done", "late", "raised"
          reply,          \* the attempt: its number
          sent,           \* pieces the model has sent in this attempt
          acc,            \* _tool_call_acc: index -> parts
          parts,          \* content_parts of the loop: [reply, piece]
          shown,          \* events on the bus: pieces and "done"
          emitted,        \* Codex: the calls whose item is done
          answer          \* the LLMResponse: its calls and how it ended

vars == <<pc, reply, sent, acc, parts, shown, emitted, answer>>

Calls == 0..1             \* indices of the calls of a reply
Part(n, i, k) == [reply |-> n, call |-> i, part |-> k]
NoCalls == [i \in Calls |-> <<>>]
None == [calls |-> {}, finish |-> "none"]

Init == /\ pc = "idle" /\ reply = 0 /\ sent = 0 /\ acc = NoCalls
        /\ parts = <<>> /\ shown = <<>> /\ emitted = {} /\ answer = None

Start == /\ pc = "idle"
         /\ pc' = "stream" /\ reply' = 1
         /\ UNCHANGED <<sent, acc, parts, shown, emitted, answer>>

\* A delta of text goes to the subscribers at once.
Text == /\ pc = "stream" /\ sent < MaxChunks
        /\ sent' = sent + 1
        /\ parts' = Append(parts, [reply |-> reply, piece |-> sent + 1])
        /\ shown' = Append(shown, "piece")
        /\ UNCHANGED <<pc, reply, acc, emitted, answer>>

\* Deltas of the calls carry the index of their call and arrive in any order of calls.
Accumulated_Last(i, p) ==
    LET last == IF acc[1] # <<>> THEN 1 ELSE i
    IN  [acc EXCEPT ![last] = Append(@, p)]
Accumulated(i, p) == [acc EXCEPT ![i] = Append(@, p)]

CallDelta(i) ==
    /\ pc \in {"stream", "codex"} /\ sent < MaxChunks
    /\ sent' = sent + 1
    /\ acc' = Accumulated(i, Part(reply, i, Len(acc[i]) + 1))
    /\ UNCHANGED <<pc, reply, parts, shown, emitted, answer>>

(* Calls in the text are taken when the reply has none of its own and the    *)
(* tool is one of the turn: all under one form.                              *)
InText(named, own) ==
    IF own = {} THEN {[from |-> "text", tool |-> t, parts |-> <<>>] : t \in named \cap Tools}
    ELSE {}
Own(ps) == [from |-> "call", tool |-> "", parts |-> ps]

\* The stream ends with a reason; "length" may leave the last call short.
Finish(reason, named) ==
    /\ pc = "stream" /\ sent > 0
    /\ LET own == {Own(acc[i]) : i \in {j \in Calls : acc[j] # <<>>}}
       IN  answer' = [calls |-> own \cup (IF parts # <<>> THEN InText(named, own) ELSE {}),
                      finish |-> reason]
    /\ shown' = Append(shown, "done")
    /\ pc' = "done"
    /\ UNCHANGED <<reply, sent, acc, parts, emitted>>

\* The service closes the stream without a reason: the calls are not handed on.
Cut == /\ pc = "stream"
       /\ answer' = [calls |-> {}, finish |-> "stop"]
       /\ pc' = "done"
       /\ UNCHANGED <<reply, sent, acc, parts, shown, emitted>>

\* A content filter is not retried: it reaches the loop as an exception.
Filtered == /\ pc \in {"stream", "chat"}
            /\ pc' = "raised"
            /\ UNCHANGED <<reply, sent, acc, parts, shown, emitted, answer>>

\* A stream that breaks, at its start or later, is asked again as a whole.
Break == /\ pc = "stream"
         /\ pc' = "chat" /\ reply' = 2 /\ sent' = 0 /\ acc' = NoCalls
         /\ UNCHANGED <<parts, shown, emitted, answer>>

\* The base class turns a whole answer into two chunks; both carry the reason.
Delivered(text, calls, reason) ==
    /\ parts' = IF text THEN Append(parts, [reply |-> reply, piece |-> 1]) ELSE parts
    /\ shown' = shown \o (IF text THEN <<"piece", "done">> ELSE <<>>) \o <<"done">>
    /\ answer' = [calls |-> calls, finish |-> reason]
    /\ pc' = "done"
    /\ UNCHANGED <<reply, sent, acc, emitted>>

Whole(text, n, named) ==
    /\ pc = "chat"
    /\ LET own == {Own(<<Part(reply, i, 1)>>) : i \in 0..(n - 1)}
       IN  Delivered(text, own \cup (IF text THEN InText(named, own) ELSE {}), "stop")

\* A transient error is retried after a pause; another, or the last, becomes the answer.
Transient == /\ pc = "chat" /\ reply - 2 < MaxRetries
             /\ pc' = "wait"
             /\ UNCHANGED <<reply, sent, acc, parts, shown, emitted, answer>>
Again == /\ pc = "wait"
         /\ pc' = "chat" /\ reply' = reply + 1
         /\ UNCHANGED <<sent, acc, parts, shown, emitted, answer>>
Fails == pc = "chat" /\ Delivered(TRUE, {}, "error")

------------------------------------------------------------------------------
(* Codex: buffers are kept by call_id and a call is complete when its item   *)
(* is; a bad certificate only repeats the request.                           *)
StartCodex == /\ pc = "idle"
              /\ pc' = "codex" /\ reply' = 1
              /\ UNCHANGED <<sent, acc, parts, shown, emitted, answer>>

\* The arguments of the buffer, or those the finished item repeats.
ItemDone(i) == /\ pc = "codex" /\ \A c \in emitted : c.tool # i
               /\ emitted' = emitted \cup {[Own(acc[i]) EXCEPT !.tool = i]}
               /\ UNCHANGED <<pc, reply, sent, acc, parts, shown, answer>>

\* The events end, after response.completed or without it.
CodexEnds(text, reason) == pc = "codex" /\ Delivered(text, emitted, reason)

\* An error event or status discards what was read.
CodexFails == pc = "codex" /\ Delivered(TRUE, {}, "error")

------------------------------------------------------------------------------
\* _LLM_CALL_TIMEOUT covers the stream, the fallback and its pauses.
Timeout == /\ pc \in {"stream", "chat", "wait", "codex"}
           /\ pc' = "late"
           /\ UNCHANGED <<reply, sent, acc, parts, shown, emitted, answer>>

Next == \/ Start \/ Text \/ Cut \/ Filtered \/ Break \/ Transient \/ Again \/ Fails
        \/ Timeout \/ StartCodex \/ CodexFails
        \/ \E i \in Calls : CallDelta(i) \/ ItemDone(i)
        \/ \E t \in BOOLEAN, r \in {"stop", "length"} : CodexEnds(t, r)
        \/ \E r \in {"stop", "length"}, named \in SUBSET (Tools \cup {"unknown"}) : Finish(r, named)
        \/ \E text \in BOOLEAN, n \in 0..2, named \in SUBSET (Tools \cup {"unknown"}) :
              Whole(text, n, named)

Spec == Init /\ [][Next]_vars

------------------------------------------------------------------------------
(* A call that is handed on was made by one attempt, the last one, and its    *)
(* parts are those of one call in order: parts of a stream that broke, or of  *)
(* another call of the reply, are never in it. A call found in a text is to a *)
(* tool of the turn.                                                          *)
CallsAreWhole ==
    \A c \in answer.calls :
        \/ c.from = "text" /\ c.tool \in Tools
        \/ \E i \in Calls : \A k \in DOMAIN c.parts : c.parts[k] = Part(reply, i, k)

(* The text of an answer is the text of one attempt: "Returns a fully         *)
(* assembled LLMResponse".                                                    *)
(* Not kept: the text of a stream that broke stays when the request is        *)
(* repeated.                                                                  *)
TextOfOneReply ==
    pc = "done" => Cardinality({parts[k].reply : k \in DOMAIN parts}) <= 1
==============================================================================
