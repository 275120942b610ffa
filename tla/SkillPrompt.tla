---------------------------- MODULE SkillPrompt ----------------------------
(* The skills of a system prompt: where a skill is read from, its            *)
(* prerequisites, and how many fit the budget (agent/skills.py,              *)
(* agent/context.py); the save_skill tool writes new ones.                   *)
EXTENDS Naturals, Sequences, FiniteSets, SequencesExt

CONSTANTS Skills,
          Builtin,        \* skills that come with the program
          Always,         \* skills marked always=true
          Big,            \* skills whose block takes two units of the budget
          Budget,         \* _SKILL_INJECTION_BUDGET
          MaxSaves

VARIABLES home,           \* _get_skill_dir: the workspace's directory hides the program's
          written,        \* skills of the workspace with a SKILL.md
          needs,          \* depends_on in the configuration of each directory
          saves,
          active          \* the skills in the last prompt, in order

vars == <<home, written, needs, saves, active>>

Lists == {l \in SeqOf(Skills, 2) : IsInjective(l)}

Init == /\ home = [s \in Skills |-> IF s \in Builtin THEN "program" ELSE "none"]
        /\ written = {}
        /\ needs = [d \in {"program", "workspace"} |-> [s \in Skills |-> <<>>]]
        /\ saves = 0
        /\ active = <<>>

\* load_skill: the workspace's text, then the program's
Loaded(s) == s \in written \/ s \in Builtin

\* get_effective_config reads the directory that hides the other
Needs(s) == IF home[s] = "none" THEN <<>> ELSE needs[home[s]][s]

------------------------------------------------------------------------------
(* Directories and configurations change. *)

\* save_skill makes the directory, then writes the text and the configuration;
\* it may stop between.
SaveSkill(s, list, whole) ==
    /\ saves < MaxSaves
    /\ saves' = saves + 1
    /\ home' = [home EXCEPT ![s] = "workspace"]
    /\ written' = IF whole THEN written \cup {s} ELSE written
    /\ needs' = IF whole THEN [needs EXCEPT !["workspace"][s] = list] ELSE needs
    /\ UNCHANGED active

\* save_skill_config replaces config.json, whose values override the author's.
SaveConfig(s, list) ==
    /\ saves < MaxSaves /\ home[s] # "none"
    /\ saves' = saves + 1
    /\ needs' = [needs EXCEPT ![home[s]][s] = list]
    /\ UNCHANGED <<home, written, active>>

------------------------------------------------------------------------------
(* A prompt is built. *)

Added(l, s) == IF s \in ToSet(l) THEN l ELSE Append(l, s)

Joined(l, m) ==
    LET Upto[n \in 0..Len(m)] == IF n = 0 THEN l ELSE Added(Upto[n - 1], m[n])
    IN  Upto[Len(m)]

\* A skill behind what it needs
Behind(l, ds, d) == Added(Joined(l, ds), d)

\* One prerequisite after the other, each behind its own: sub has those of each.
Gathered(s, seen, sub) ==
    LET Upto[n \in 0..Len(Needs(s))] ==
            IF n = 0 THEN <<>>
            ELSE IF Needs(s)[n] \in seen \/ ~Loaded(Needs(s)[n]) THEN Upto[n - 1]
            ELSE Behind(Upto[n - 1], sub[Needs(s)[n]], Needs(s)[n])
    IN  Upto[Len(Needs(s))]

\* resolve_dependencies, of each skill: prerequisites of prerequisites first,
\* cycles cut at a skill that is being resolved.
Resolved[visited \in SUBSET Skills] ==
    [s \in Skills |-> IF s \in visited THEN <<>>
                      ELSE Gathered(s, visited \cup {s}, Resolved[visited \cup {s}])]

\* Skills asked for come after those that are always there; each after its prerequisites.
Wanted(targets) ==
    LET Upto[n \in 0..Len(targets)] ==
            IF n = 0 THEN <<>>
            ELSE Behind(Upto[n - 1], Resolved[{}][targets[n]], targets[n])
    IN  Upto[Len(targets)]

\* A skill without a text has no block.
Blocks(l) ==
    LET Upto[n \in 0..Len(l)] == IF n = 0 THEN <<>>
                                 ELSE IF Loaded(l[n]) THEN Append(Upto[n - 1], l[n])
                                 ELSE Upto[n - 1]
    IN  Upto[Len(l)]

Units(s) == IF s \in Big THEN 2 ELSE 1
Length(l) == FoldLeft(LAMBDA n, s : n + Units(s), 0, l)

\* The first skill that does not fit ends the list.
Fitting_Skips(l) == FoldLeft(LAMBDA m, s : IF Length(m) + Units(s) > Budget THEN m
                                           ELSE Append(m, s), <<>>, l)
Fitting(l) == SubSeq(l, 1, Max({k \in 0..Len(l) :
                                   \A j \in 1..k : Length(SubSeq(l, 1, j)) <= Budget}))

\* get_always_skills: in the order in which the directories are listed
Orders == {l \in SeqOf(Always, Cardinality(Always)) :
               IsInjective(l) /\ ToSet(l) = {s \in Always : Loaded(s)}}

\* build_system_prompt
Build(always, asked) ==
    /\ active' = Fitting(Blocks(Wanted(Joined(always, asked))))
    /\ UNCHANGED <<home, written, needs, saves>>

Next == \/ \E s \in Skills, l \in Lists, whole \in BOOLEAN : SaveSkill(s, l, whole)
        \/ \E s \in Skills, l \in Lists : SaveConfig(s, l)
        \/ \E always \in Orders, asked \in Lists : Build(always, asked)

Spec == Init /\ [][Next]_vars

------------------------------------------------------------------------------
\* What a skill needs, directly or through others: in every set that holds the
\* skill and what its members need.
Reaches(s) == {t \in Skills : \A S \in SUBSET Skills :
                   s \in S /\ (\A u \in S : ToSet(Needs(u)) \subseteq S) => t \in S}

(* A skill is in a prompt only after the skills it needs: neither the budget  *)
(* nor the order of the targets, nor a cycle elsewhere, separates them. The   *)
(* exceptions are skills that need each other and skills that are not there.  *)
PrerequisitesFirst == [][
    active' # active =>
        \A i \in DOMAIN active' : \A d \in ToSet(Needs(active'[i])) :
            \/ ~Loaded(d) \/ active'[i] \in Reaches(d)
            \/ \E k \in 1..(i - 1) : active'[k] = d]_vars

==============================================================================
