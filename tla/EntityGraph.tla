----------------------------- MODULE EntityGraph -----------------------------
(* The graph of entities (agent/knowledge_graph.py): graph.json, the instance *)
(* the agent loop keeps, the one the skills loader files its cards in, and    *)
(* those the consolidations of the memory load and extend over several calls  *)
(* of the model. Who writes the file writes the whole of its instance.       *)
EXTENDS Naturals, Sequences, FiniteSets, FiniteSetsExt, SequencesExt

CONSTANTS Names,          \* names of entities, the longest first
          Within,         \* pairs: the first is part of the second
          Templates,      \* names of which reasoning templates may be written by hand
          Cards,          \* entities of the skills (type skill_ssl), no names of facts
          Stated,         \* bound: the facts the model may state, pairs of names
          Jobs,           \* consolidations, each of which runs once
          MaxTriples, MaxFacts, MaxShown,
          MaxSummaries    \* bound: entities an answer summarises

VARIABLES file,           \* graph.json
          cached,         \* AgentLoop._knowledge_graph, {} or one graph
          loader,         \* SkillsLoader.kg, {} or one graph
          jobs,           \* consolidation -> what it holds and how far it is
          facts           \* facts the model has stated so far

vars == <<file, cached, loader, jobs, facts>>

NameSet == Range(Names)
NoAliases == [n \in NameSet |-> n]
\* The entities are index, the places of each, with the names of a type of their
\* own (typed) and those that have a summary.
Written(names) == [triples |-> <<>>, aliases |-> NoAliases, index |-> [n \in names |-> {}],
                   typed |-> names, summaries |-> names]
Empty == Written({})
At(pc) == [pc |-> pc, graph |-> Empty, added |-> 0]

Init ==
    /\ file \in {Written(names) : names \in SUBSET Templates}
    /\ cached = {} /\ loader = {} /\ jobs = [j \in Jobs |-> At("idle")]
    /\ facts = 0

(* A name is replaced by what it is an alias of, once.                       *)
Normal(g, name) == g.aliases[name]

\* A triple is a pair of entities here; a known one is left, the oldest goes.
AddTriple(g, s, o) ==
    LET t == <<Normal(g, s), Normal(g, o)>>
        all == Append(g.triples, t)
    IN  IF t \in Range(g.triples) THEN g
        ELSE [g EXCEPT !.triples = IF Len(all) > MaxTriples THEN Tail(all) ELSE all]

Named(g) == UNION {{t[1], t[2]} : t \in Range(g.triples)}

(* disambiguate_entities: a name that is part of a longer one becomes its     *)
(* alias, unless it is one already; the triples are rewritten once.          *)
IsAlias(g, name) == g.aliases[name] # name
Longest(g, name) == SelectInSeq(Names, LAMBDA n : n \in Named(g) /\ <<name, n>> \in Within)
Disambiguated(g) ==
    LET new == {n \in Named(g) : ~IsAlias(g, n) /\ Longest(g, n) > 0}
        with == [g EXCEPT !.aliases = [n \in NameSet |->
                    IF n \in new THEN Names[Longest(g, n)] ELSE g.aliases[n]]]
    IN  IF new = {} THEN g
        ELSE [with EXCEPT !.triples = [i \in DOMAIN g.triples |->
                <<Normal(with, g.triples[i][1]), Normal(with, g.triples[i][2])>>]]

(* rebuild_entity_index: the places of each name. Of the names that are in no  *)
(* triple the typed ones stay, with the places they had; summaries of the     *)
(* others go with them.                                                      *)
Places(g, name) == {i \in DOMAIN g.triples : name \in {g.triples[i][1], g.triples[i][2]}}
Entities(g) == Named(g) \cup g.typed
Reindexed(g) ==
    [g EXCEPT !.index = [n \in Entities(g) |-> IF n \in Named(g) THEN Places(g, n) ELSE g.index[n]],
              !.summaries = @ \cap Entities(g)]

Rewritten_IndexFirst(g) == Disambiguated(Reindexed(g))
Rewritten(g) == Reindexed(Disambiguated(g))

------------------------------------------------------------------------------
(* A consolidation of the memory. *)

\* It loads the file when it is started, in the background.
Start(j) ==
    /\ jobs[j].pc = "idle"
    /\ jobs' = [jobs EXCEPT ![j] = [pc |-> "extract", graph |-> file, added |-> 0]]
    /\ UNCHANGED <<file, cached, loader, facts>>

\* The model states a fact of a piece of the memory.
Extract(j, s, o) ==
    /\ jobs[j].pc = "extract" /\ facts < MaxFacts
    /\ facts' = facts + 1
    /\ jobs' = [jobs EXCEPT ![j].graph = AddTriple(@, s, o), ![j].added = @ + 1]
    /\ UNCHANGED <<file, cached, loader>>

\* After the last piece the graph is written, unless no fact was stated.
Extracted(j) ==
    /\ jobs[j].pc = "extract"
    /\ IF jobs[j].added = 0
       THEN /\ jobs' = [jobs EXCEPT ![j].pc = "summarise", ![j].graph = Reindexed(@)]
            /\ UNCHANGED file
       ELSE LET g == Rewritten(jobs[j].graph)
            IN  jobs' = [jobs EXCEPT ![j].pc = "summarise", ![j].graph = g] /\ file' = g
    /\ UNCHANGED <<cached, loader, facts>>

\* The model summarises some entities; no answer, or no triple, no write.
Summarise(j, names) ==
    /\ jobs[j].pc = "summarise"
    /\ names \subseteq DOMAIN jobs[j].graph.index /\ Cardinality(names) <= MaxSummaries
    /\ jobs[j].graph.triples = <<>> => names = {}
    /\ LET g == [jobs[j].graph EXCEPT !.summaries = @ \cup names]
       IN  file' = IF names = {} THEN file ELSE g
    /\ jobs' = [jobs EXCEPT ![j] = At("done")]
    /\ UNCHANGED <<cached, loader, facts>>

------------------------------------------------------------------------------
(* The skills loader takes a card for a skill whose files have changed out of *)
(* its graph, and puts the new one in when the model has written it.         *)
Loaded == IF loader = {} THEN file ELSE CHOOSE g \in loader : TRUE
DropCard(c) ==
    /\ c \in Loaded.typed \ Named(Loaded)
    /\ file' = [Loaded EXCEPT !.index = [n \in DOMAIN @ \ {c} |-> Loaded.index[n]],
                              !.typed = @ \ {c}, !.summaries = @ \ {c}]
    /\ loader' = {file'}
    /\ UNCHANGED <<cached, jobs, facts>>
PersistCard(c) ==
    /\ c \notin Loaded.typed \cup Named(Loaded)
    /\ file' = [Loaded EXCEPT !.index = [n \in DOMAIN @ \cup {c} |->
                                          IF n = c THEN {} ELSE Loaded.index[n]],
                              !.typed = @ \cup {c}, !.summaries = @ \cup {c}]
    /\ loader' = {file'}
    /\ UNCHANGED <<cached, jobs, facts>>

------------------------------------------------------------------------------
(* A turn: the graph is loaded once and searched for what the request names.  *)
FirstOf(set, n) == LET all == SetToSeq(set) IN Range(SubSeq(all, 1, IF Len(all) < n THEN Len(all) ELSE n))

\* Summaries of the names; if there is none, the triples that name them.
Context(g, asked) ==
    LET entries == asked \cap g.summaries
        triples == UNION {Places(g, n) : n \in asked}
    IN  IF entries # {} THEN FirstOf(entries, MaxShown)
        ELSE UNION {{g.triples[i][1], g.triples[i][2]} : i \in FirstOf(triples, 2 * MaxShown)}

Ask == cached = {} /\ cached' = {file} /\ UNCHANGED <<file, loader, jobs, facts>>

\* A restart: the file is what is left, and what was under way is gone.
Restart ==
    /\ cached' = {} /\ loader' = {} /\ jobs' = [j \in Jobs |-> IF jobs[j].pc = "idle" THEN jobs[j] ELSE At("done")]
    /\ UNCHANGED <<file, facts>>

Next ==
    \/ \E j \in Jobs : Start(j) \/ Extracted(j)
    \/ \E j \in Jobs, t \in Stated : Extract(j, t[1], t[2])
    \/ \E j \in Jobs : \E names \in SUBSET DOMAIN jobs[j].graph.index : Summarise(j, names)
    \/ \E c \in Cards : DropCard(c) \/ PersistCard(c)
    \/ Ask \/ Restart

Spec == Init /\ [][Next]_vars

------------------------------------------------------------------------------
(* The index of the file names every entity of the triples with exactly the   *)
(* places it has, and besides them only entities of a type of their own, each *)
(* of which it keeps: after merging of names, after the oldest triples went,  *)
(* and whoever wrote the file.                                               *)
IndexHolds ==
    /\ DOMAIN file.index = Entities(file)
    /\ \A n \in Named(file) : file.index[n] = Places(file, n)

(* Nor has an entity places it is not at.                                     *)
(* Not kept: a template that is in no triple any longer keeps its old places. *)
PlacesHold == \A n \in DOMAIN file.index : file.index[n] = Places(file, n)

(* The names of the triples are canonical: an alias is never one of them.     *)
(* Not kept: an alias of an alias, stated again, is replaced by one step      *)
(* only.                                                                      *)
NamesAreCanonical == \A n \in Named(file) : ~IsAlias(file, n)

(* What a prompt is told is what the file knows.                              *)
(* Not kept: the instance of the agent loop is loaded once and never again.   *)
PromptIsCurrent == \A g \in cached, n \in NameSet : Context(g, {n}) = Context(file, {n})

(* A consolidation adds to the file and drops nothing but by the limit.       *)
(* Not kept: two consolidations that overlap write what each has loaded, and  *)
(* so does the skills loader, which loads once.                              *)
NoFactLost ==
    [][Len(file.triples) < MaxTriples => Named(file) \subseteq
          Named(file') \cup {n \in NameSet : IsAlias(file', n)}]_vars
==============================================================================
