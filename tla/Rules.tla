-------------------------------- MODULE Rules --------------------------------
(* The verification layer (agent/verification.py): the cache of the rules in  *)
(* the workspace's files, what a turn adds to its prompt, the check of a batch *)
(* of tool calls before it runs, and the reflection after the turn.          *)
EXTENDS Naturals, Sequences, FiniteSets, FiniteSetsExt, SequencesExt

CONSTANTS Files,          \* names of rule files
          Budget,         \* texts a prompt may be given, 8000 characters in the code
          MaxCalls,       \* calls of a batch that passes, 8 in the code
          MaxChanges, MaxTurns, MaxBatches

VARIABLES files,          \* what each file holds and since when
          dirTime,        \* when a file was last created or removed
          cache,          \* files and versions that were read
          cacheTime,      \* _ki_rules_mtime
          todo,           \* files a refresh still has to read
          phase,          \* "idle", "load", "turn"
          raised,         \* an exception left the last refresh
          learned,        \* the experience bank holds a pattern that matches
          added,          \* what the prompt was given: rules, a hint, the reminder
          log,            \* messages of the turn
          turns, batches

vars == <<files, dirTime, cache, cacheTime, todo, phase, raised, learned, added, log, turns, batches>>
disk == <<files, dirTime>>
turn == <<learned, added, log, turns, batches>>

(* A file holds a rule, text that is no JSON, or JSON of another form.       *)
Kinds == {"none", "rule", "broken", "odd"}
Version(f) == <<f, files[f].time>>
Present == {f \in Files : files[f].kind # "none"}
Rules_ == {Version(f) : f \in {g \in Files : files[g].kind = "rule"}}

Newest_FilesOnly == Max({0} \cup {files[f].time : f \in Present})
Newest == Max({dirTime} \cup {files[f].time : f \in Present})

Init ==
    /\ files = [f \in Files |-> [time |-> 0, kind |-> "none"]] /\ dirTime = 1
    /\ cache = {} /\ cacheTime = 0 /\ todo = {} /\ phase = "idle" /\ raised = FALSE
    /\ learned = FALSE /\ added = {} /\ log = <<>> /\ turns = 0 /\ batches = 0

\* Somebody writes or removes a file; later changes have later times.
Now == 1 + Max({dirTime} \cup {files[f].time : f \in Files})
Change(f, kind) ==
    /\ Now <= MaxChanges + 1
    /\ kind = "none" => f \in Present
    /\ files' = [files EXCEPT ![f] = [time |-> Now, kind |-> kind]]
    /\ dirTime' = IF kind = "none" \/ f \notin Present THEN Now ELSE dirTime
    /\ UNCHANGED <<cache, cacheTime, todo, phase, raised, turn>>

------------------------------------------------------------------------------
(* enrich_context *)

\* A turn begins: the cache is read again when something is newer than it.
Look ==
    /\ phase = "idle" /\ turns < MaxTurns
    /\ turns' = turns + 1
    /\ phase' = "load"
    /\ IF cacheTime < Newest
       THEN cache' = {} /\ cacheTime' = Newest /\ todo' = Present /\ raised' = FALSE
       ELSE UNCHANGED <<cache, cacheTime, todo, raised>>
    /\ UNCHANGED <<disk, learned, added, log, batches>>

\* A file that cannot be read is skipped; one of another form ends the turn.
Load(f) ==
    /\ phase = "load" /\ f \in todo
    /\ CASE files[f].kind = "rule" ->
              cache' = cache \cup {Version(f)} /\ todo' = todo \ {f} /\ UNCHANGED <<phase, raised>>
         [] files[f].kind = "odd" ->
              phase' = "idle" /\ raised' = TRUE /\ todo' = {} /\ UNCHANGED cache
         [] OTHER -> todo' = todo \ {f} /\ UNCHANGED <<cache, phase, raised>>
    /\ UNCHANGED <<disk, cacheTime, turn>>

(* The rules whose words the request has, then the experience, then the      *)
(* reminder of a long session; each is left out when it does not fit.        *)
Fits(texts) == Cardinality(texts) <= Budget
Given(rules, long) ==
    LET With(text, texts) == IF Fits(texts \cup {text}) THEN texts \cup {text} ELSE texts
        hinted == IF learned THEN With(<<"hint", 0>>, rules) ELSE rules
    IN  IF long THEN With(<<"reminder", 0>>, hinted) ELSE hinted

Enrich(rules, long) ==
    /\ phase = "load" /\ todo = {}
    /\ rules \subseteq cache /\ Fits(rules)
    /\ added' = Given(rules, long)
    /\ phase' = "turn" /\ log' = <<"user">>
    /\ UNCHANGED <<disk, cache, cacheTime, todo, raised, learned, turns, batches>>

------------------------------------------------------------------------------
(* check_rules: a batch is a sequence of calls. What a rule reads of one call  *)
(* is its verdict: a message or a mail without text or addressee, a command of  *)
(* a form that is refused, a file outside of the place for files, a tool whose *)
(* tags (those of these arguments, or its own when they raise) are destructive. *)
Calls == {"plain", "search", "empty", "command", "outside", "tagged"}

Empty(batch)   == "empty" \in Range(batch)
Command(batch) == "command" \in Range(batch)
Outside(batch) == "outside" \in Range(batch)
Tagged(batch)  == "tagged" \in Range(batch)

\* Three calls that are the same look like a loop.
Repeats(batch) == \E c \in Range(batch) : Cardinality({i \in DOMAIN batch : batch[i] = c}) >= 3
TooMany(batch) == Len(batch) > MaxCalls

\* The report failed since the last message of the user, that message included.
ReportFailed(ms) ==
    LET last == Max({0} \cup {i \in DOMAIN ms : ms[i] = "user"})
    IN  \E i \in DOMAIN ms : i >= last /\ ms[i] = "fatal"

SearchesAgain(batch) == "search" \in Range(batch) /\ ReportFailed(log)

\* One call that breaks a rule refuses the batch.
Refused(batch) ==
    \/ Empty(batch) \/ Command(batch) \/ Outside(batch) \/ Tagged(batch)
    \/ Repeats(batch) \/ TooMany(batch) \/ SearchesAgain(batch)

\* A refused batch leaves an error for each of its calls, and the turn goes on.
Refuse(batch) ==
    /\ phase = "turn" /\ batches < MaxBatches /\ Refused(batch)
    /\ log' = log \o [i \in DOMAIN batch |-> "error"]
    /\ batches' = batches + 1
    /\ UNCHANGED <<disk, cache, cacheTime, todo, phase, raised, learned, added, turns>>

\* The calls run; a plain one may return the fatal report, or a screenshot.
Run(batch, outcomes) ==
    /\ phase = "turn" /\ batches < MaxBatches /\ ~Refused(batch)
    /\ \A i \in DOMAIN batch : outcomes[i] # <<"found">> <=> batch[i] = "plain"
    /\ log' = log \o FlattenSeq(outcomes)
    /\ batches' = batches + 1
    /\ UNCHANGED <<disk, cache, cacheTime, todo, phase, raised, learned, added, turns>>
Outcomes == {<<"ok">>, <<"fatal">>, <<"shot", "user">>, <<"found">>}

(* post_reflect: a turn that succeeded may leave a pattern.                  *)
End(pattern) ==
    /\ phase = "turn"
    /\ phase' = "idle" /\ log' = <<>> /\ added' = {}
    /\ learned' = (learned \/ pattern)
    /\ UNCHANGED <<disk, cache, cacheTime, todo, raised, turns, batches>>

Next ==
    \/ \E f \in Files, k \in Kinds : Change(f, k)
    \/ Look
    \/ \E f \in Files : Load(f)
    \/ \E rules \in SUBSET cache, long \in BOOLEAN : Enrich(rules, long)
    \/ \E batch \in SeqOf(Calls, MaxCalls) \cup {[i \in 1..3 |-> c] : c \in Calls} : Refuse(batch)
    \/ \E n \in 1..MaxCalls : \E batch \in [1..n -> {"plain", "search"}], outcomes \in [1..n -> Outcomes] :
          Run(batch, outcomes)
    \/ \E p \in BOOLEAN : End(p)

Spec == Init /\ [][Next]_vars

------------------------------------------------------------------------------
(* Rules that differ from the files are noticed by the next turn, whenever    *)
(* the files changed: also while they were being read. Only a file whose form  *)
(* raises leaves the cache short.                                             *)
StaleIsNoticed ==
    ~raised /\ todo = {} /\ cache # Rules_ => cacheTime < Newest

(* Every rule that can be read is used once the others were read.             *)
(* Not kept: a file of another form ends the turn, and the rest is not read   *)
(* again.                                                                     *)
GoodRulesUsed == phase = "turn" /\ cacheTime = Newest => Rules_ \subseteq cache
==============================================================================
