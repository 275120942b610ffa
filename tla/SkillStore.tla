----------------------------- MODULE SkillStore -----------------------------
(* What is kept beside one skill (agent/skills.py): its card, which is the    *)
(* model's summary of its files, in graph.json; the hooks and the validator   *)
(* around its runs; the log of the runs; its entry in skills_registry.json.   *)
EXTENDS Naturals, Sequences, FiniteSets, SequencesExt

CONSTANTS Callers,        \* who awaits refresh_skill_ssl
          Versions,       \* contents of the skill's .md and .py files
          PreHooks,       \* lists: hooks_pre of SKILL.md, hooks_py if hooks.py is there
          PostHooks,      \* the list of hooks_post
          Packages,       \* the pip packages it requires
          ModuleOf(_),    \* the module that a package installs
          MaxLog,         \* _MAX_EXECUTION_LOG
          MaxEdits, MaxFacts, MaxRuns, MaxCrashes

VARIABLES files,          \* the version in the skill's directory, {} for no directory
          graph,          \* graph.json: facts of the memory, and the card
          mine,           \* SkillsLoader.kg, {} or one graph: loaded once, written whole
          job,            \* the graph of a consolidation of the memory, {} or one
          asked,          \* caller -> what the model is asked to summarise
          shown,          \* the last block of a prompt: [by, of, at]
          edits, facts, crashes,
          run,            \* the run of the skill: [pc, left]
          runs,           \* runs logged so far
          log,            \* executions.jsonl: runs, 0 for a line that is no JSON
          torn,           \* the last line lacks its end
          uses,           \* usage_count in the registry
          modules         \* modules that can be imported

cardVars == <<files, graph, mine, job, asked, shown, edits, facts>>
runVars == <<run, runs, log, torn, uses, modules>>
vars == <<cardVars, runVars, crashes>>

Idle == [pc |-> "idle", left |-> <<>>]
NoBlock == [by |-> "none", of |-> {}, at |-> {}]

Init == /\ files = {CHOOSE v \in Versions : TRUE}
        /\ graph = [facts |-> 0, card |-> {}] /\ mine = {} /\ job = {}
        /\ asked = [c \in Callers |-> {}] /\ shown = NoBlock
        /\ edits = 0 /\ facts = 0 /\ crashes = 0
        /\ run = Idle /\ runs = 0 /\ log = <<>> /\ torn = FALSE /\ uses = 0
        /\ modules = {}

------------------------------------------------------------------------------
(* The card. Nothing between two awaits of the program is interrupted, so a   *)
(* text and the hash of its files are of one version.                         *)

\* _get_knowledge_graph: the loader's own instance
Own == IF mine = {} THEN graph ELSE CHOOSE g \in mine : TRUE

Fresh(g) == \E c \in g.card : c.hash = files
Without(g) == [g EXCEPT !.card = {}]

\* KnowledgeGraph._save writes the instance whole, or raises and writes nothing.
Saved(g, ok) == mine' = {g} /\ graph' = IF ok THEN g ELSE graph

\* A tool or the user writes, or removes, the skill.
Edit(v) ==
    /\ edits < MaxEdits
    /\ edits' = edits + 1 /\ files' = v
    /\ UNCHANGED <<graph, mine, job, asked, shown, facts>>

\* refresh_skill_ssl up to the model: a card of other files goes first; without a
\* provider, or when the file cannot be written, it ends there.
Refresh(c, ok, provider) ==
    /\ asked[c] = {} /\ files # {} /\ ~Fresh(Own)
    /\ IF Own.card = {} THEN mine' = {Own} /\ UNCHANGED graph ELSE Saved(Without(Own), ok)
    /\ asked' = [asked EXCEPT ![c] =
           IF provider /\ (ok \/ Own.card = {}) THEN {[hash |-> files, of |-> files]} ELSE {}]
    /\ UNCHANGED <<files, job, shown, edits, facts>>

\* The model has answered, and _persist_skill_ssl files the card under the hash
\* that was taken before.
Card_HashedLater(request) == [request EXCEPT !.hash = files]
Card(request) == request

Summarised(c, ok) ==
    /\ asked[c] # {}
    /\ Saved([Own EXCEPT !.card = {Card(CHOOSE r \in asked[c] : TRUE)}], ok)
    /\ asked' = [asked EXCEPT ![c] = {}]
    /\ UNCHANGED <<files, job, shown, edits, facts>>

\* normalize fails closed: no card.
NotSummarised(c) ==
    /\ asked[c] # {}
    /\ asked' = [asked EXCEPT ![c] = {}]
    /\ UNCHANGED <<files, graph, mine, job, shown, edits, facts>>

\* get_skill_context_block: the card if its hash is that of the files; otherwise
\* it is dropped, a failing write only logged, and the text is shown. Prompts are
\* built while the event loop runs, so _ensure_skill_ssl never refreshes here.
Block(ok) ==
    /\ IF Fresh(Own) \/ Own.card = {} THEN mine' = {Own} /\ UNCHANGED graph
                                      ELSE Saved(Without(Own), ok)
    /\ shown' = IF Fresh(Own) THEN [by |-> "card", of |-> (CHOOSE c \in Own.card : TRUE).of, at |-> files]
                ELSE IF files = {} THEN NoBlock ELSE [by |-> "text", of |-> files, at |-> files]
    /\ UNCHANGED <<files, job, asked, edits, facts>>

\* A consolidation loads graph.json, extends it over some calls of the model and
\* writes it back with the card it had read (rebuild_entity_index keeps cards).
LoadGraph == /\ job = {} /\ job' = {graph}
             /\ UNCHANGED <<files, graph, mine, asked, shown, edits, facts>>
WriteGraph == /\ job # {} /\ facts < MaxFacts
              /\ facts' = facts + 1
              /\ \E g \in job : graph' = [g EXCEPT !.facts = @ + 1]
              /\ job' = {}
              /\ UNCHANGED <<files, mine, asked, shown, edits>>

CardStep == \/ \E v \in {{}} \cup {{w} : w \in Versions} : v # files /\ Edit(v)
            \/ \E c \in Callers, ok, provider \in BOOLEAN : Refresh(c, ok, provider)
            \/ \E c \in Callers, ok \in BOOLEAN : Summarised(c, ok)
            \/ \E c \in Callers : NotSummarised(c)
            \/ \E ok \in BOOLEAN : Block(ok)
            \/ LoadGraph \/ WriteGraph

------------------------------------------------------------------------------
(* A run of the skill: validator, hooks before, the run itself, hooks after.  *)

\* run_pre_hooks reads validator.py: there is none or it is switched off, the scan
\* of its text refuses (SkillLoadError), or it is called.
Before(hooks) == [pc |-> "before", left |-> hooks]
Refused == [pc |-> "refused", left |-> <<>>]

StartRun(validator, hooks) ==
    /\ run.pc = "idle" /\ runs < MaxRuns
    /\ run' = CASE validator = "none"    -> Before(hooks)
                [] validator = "blocked" -> Refused
                [] OTHER                 -> [pc |-> "validate", left |-> <<>>]
    /\ UNCHANGED <<runs, log, torn, uses, modules>>

\* _run_validator: a rejection and a timeout refuse, a crash lets it pass.
Validated(answer, hooks) ==
    /\ run.pc = "validate"
    /\ run' = IF answer \in {"reject", "timeout"} THEN Refused ELSE Before(hooks)
    /\ UNCHANGED <<runs, log, torn, uses, modules>>

\* _run_single_hook, before: confirm_destructive always refuses, hooks.py may,
\* whatever cannot be loaded, is refused by its scan, or raises is passed over.
HookBefore(says) ==
    /\ run.pc = "before" /\ run.left # <<>>
    /\ says = "no" => Head(run.left) \in {"confirm_destructive", "hooks_py"}
    /\ says \in {"yes", "raises"} => Head(run.left) # "confirm_destructive"
    /\ run' = IF says = "no" THEN Refused ELSE [run EXCEPT !.left = Tail(@)]
    /\ UNCHANGED <<runs, log, torn, uses, modules>>

Proceed == /\ run.pc = "before" /\ run.left = <<>>
           /\ run' = [pc |-> "after", left |-> PostHooks]
           /\ UNCHANGED <<runs, log, torn, uses, modules>>

\* log_execution: a line is added, and the last MaxLog lines are kept. A line that
\* follows a torn one becomes part of it.
Line == IF torn THEN [log EXCEPT ![Len(log)] = 0] ELSE Append(log, runs + 1)
Newest(l, n) == SubSeq(l, Len(l) - (IF Len(l) < n THEN Len(l) ELSE n) + 1, Len(l))

\* The hooks after a run, in their order; what they raise is logged.
HookAfter ==
    /\ run.pc = "after" /\ run.left # <<>>
    /\ run' = [run EXCEPT !.left = Tail(@)]
    /\ IF Head(run.left) # "log_execution" THEN UNCHANGED <<runs, log, torn>>
       ELSE runs' = runs + 1 /\ log' = Newest(Line, MaxLog) /\ torn' = FALSE
    /\ UNCHANGED <<uses, modules>>

\* update_registry, called or not: a file that cannot be read counts as empty, one
\* that cannot be written stays as it is.
EndRun(read, written) ==
    /\ run.pc \in {"refused", "after"} /\ run.left = <<>>
    /\ run' = Idle
    /\ uses' = IF ~written \/ run.pc = "refused" THEN uses
               ELSE IF read THEN uses + 1 ELSE 1
    /\ UNCHANGED <<runs, log, torn, modules>>

\* get_recent_executions(2): the newest first, lines that are no JSON left out
Recent == SelectSeq(Reverse(Newest(log, 2)), LAMBDA r : r # 0)

\* check_dependencies looks for a module with the name of the package.
Missing == {p \in Packages : p \notin modules}

\* do_install_dependencies, after the user agreed
Install(ok) ==
    /\ MaxRuns > 0 /\ Missing # {} /\ run.pc = "idle"
    /\ modules' = IF ok THEN modules \cup {ModuleOf(p) : p \in Missing} ELSE modules
    /\ UNCHANGED <<run, runs, log, torn, uses>>

RunStep == \/ \E v \in {"none", "blocked", "called"}, h \in PreHooks : StartRun(v, h)
           \/ \E a \in {"accept", "reject", "timeout", "crash"}, h \in PreHooks : Validated(a, h)
           \/ \E s \in {"yes", "no", "raises"} : HookBefore(s)
           \/ Proceed \/ HookAfter
           \/ \E read, written \in BOOLEAN : EndRun(read, written)
           \/ \E ok \in BOOLEAN : Install(ok)

------------------------------------------------------------------------------
\* The process ends, perhaps inside the append of a line; the files stay.
Crash(inAppend) ==
    /\ crashes < MaxCrashes /\ crashes' = crashes + 1
    /\ mine' = {} /\ job' = {} /\ asked' = [c \in Callers |-> {}] /\ shown' = NoBlock
    /\ inAppend => run.pc = "after" /\ run.left # <<>> /\ Head(run.left) = "log_execution"
    /\ log' = IF inAppend /\ ~torn THEN Append(log, 0) ELSE log
    /\ torn' = (torn \/ inAppend)
    /\ run' = Idle
    /\ UNCHANGED <<files, graph, edits, facts, runs, uses, modules>>

Next == \/ CardStep /\ UNCHANGED <<runVars, crashes>>
        \/ RunStep /\ UNCHANGED <<cardVars, crashes>>
        \/ \E inAppend \in BOOLEAN : Crash(inAppend)

Spec == Init /\ [][Next]_vars

------------------------------------------------------------------------------
(* A prompt never shows a card of other files than those that are there,      *)
(* whatever refreshes overlapped, whichever instance of the graph wrote the   *)
(* file last, and whatever was written or lost before a restart.              *)
CardIsCurrent == shown.by = "card" => shown.of = shown.at

(* The card of a skill takes no fact of the memory with it.                   *)
(* Not kept: the loader's instance of the graph is as old as its first use,   *)
(* and dropping or filing a card writes it whole.                             *)
FactsSurvive == [][graph'.facts >= graph.facts]_vars

(* The first of the recent runs is the one that was logged last.              *)
(* Not kept: a line that a crash cut off swallows the next one.               *)
NewestShown == runs > 0 => Recent # <<>> /\ Head(Recent) = runs

(* The count of uses never falls.                                             *)
(* Not kept: a registry that cannot be read is taken for an empty one.        *)
UsesKept == [][uses' >= uses]_vars

(* A package that was installed is not missing.                               *)
(* Not kept: "python-docx" is looked for as python_docx, where the comment    *)
(* (agent/skills.py:1340) says docx.                                          *)
InstalledIsFound == [][modules' # modules => Missing' = {}]_vars
==============================================================================
