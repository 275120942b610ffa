------------------------------ MODULE ConfigFile ------------------------------
(* config.json (config/loader.py) and those who read and write it: people,    *)
(* the editor of the dashboard with its optimistic lock (dashboard/app.py),   *)
(* the wizard of the gateway, and the agent, which keeps what it loaded.      *)
EXTENDS Integers

CONSTANTS Fields, Secrets,    \* settings, and those an editor is not shown
          Values,             \* values of a setting, 0 for empty
          Editors,            \* browsers with the configuration page
          MaxTime

VARIABLES file,           \* content, whether it is JSON, and modification time
          backup,         \* config.json.bak
          editors,        \* editor -> what it shows and how far its request is
          wizard,         \* what the wizard loaded, {} when it is not asking
          config,         \* the configuration of the process, {} before it is loaded
          failed          \* a load raised

vars == <<file, backup, editors, wizard, config, failed>>

Default == [f \in Fields |-> 0]
MASKED == -1
Closed == [pc |-> "closed", val |-> Default, hash |-> 0, base |-> Default, mine |-> {}, raced |-> FALSE]

Init ==
    /\ file = [val |-> Default, broken |-> FALSE, time |-> 1] /\ backup = {}
    /\ editors = [c \in Editors |-> Closed]
    /\ wizard = {} /\ config = {} /\ failed = FALSE

\* A save replaces the file; requests that are between two looks at it notice nothing.
Save(val, broken) ==
    /\ file.time < MaxTime
    /\ file' = [val |-> val, broken |-> broken, time |-> file.time + 1]
Raced(es) == [c \in Editors |-> [es[c] EXCEPT !.raced = @ \/ es[c].pc \in {"read", "write"}]]

\* Somebody edits the file by hand, rightly or not.
Edit(f, v, broken) ==
    /\ Save([file.val EXCEPT ![f] = v], broken)
    /\ editors' = Raced(editors)
    /\ UNCHANGED <<backup, wizard, config, failed>>

------------------------------------------------------------------------------
(* The editor. *)

\* get_dashboard_config reads the file, then its time; what is no JSON is an error.
OpenRead(c) ==
    /\ editors[c].pc = "closed" /\ ~file.broken
    /\ editors' = [editors EXCEPT ![c] = [Closed EXCEPT !.pc = "read", !.val = [f \in Fields |->
            IF f \in Secrets /\ file.val[f] # 0 THEN MASKED ELSE file.val[f]]]]
    /\ UNCHANGED <<file, backup, wizard, config, failed>>
OpenStat(c) ==
    /\ editors[c].pc = "read"
    /\ editors' = [editors EXCEPT ![c].pc = "open", ![c].hash = file.time]
    /\ UNCHANGED <<file, backup, wizard, config, failed>>

Change(c, f, v) ==
    /\ editors[c].pc = "open"
    /\ editors' = [editors EXCEPT ![c].val[f] = v, ![c].mine = @ \cup {f}]
    /\ UNCHANGED <<file, backup, wizard, config, failed>>

Unchanged_Always(c) == TRUE
Unchanged(c) == editors[c].hash = file.time

(* update_dashboard_config: all of the page is sent, and refused when the     *)
(* file has another time than the page; otherwise it is read.                *)
Post(c) ==
    /\ editors[c].pc = "open"
    /\ Unchanged(c)
    /\ editors' = [editors EXCEPT ![c].pc = "write", ![c].base = IF file.broken THEN Default ELSE file.val]
    /\ UNCHANGED <<file, backup, wizard, config, failed>>

\* A masked value stands for the one of the file.
Merged(base, updates) == [f \in Fields |-> IF updates[f] = MASKED THEN base[f] ELSE updates[f]]

Write(c) ==
    /\ editors[c].pc = "write"
    /\ Save(Merged(editors[c].base, editors[c].val), FALSE)
    /\ backup' = {file.val}
    /\ editors' = Raced([editors EXCEPT ![c] = Closed])
    /\ UNCHANGED <<wizard, config, failed>>

\* The page is loaded again, also after a refusal.
Close(c) ==
    /\ editors[c].pc = "open"
    /\ editors' = [editors EXCEPT ![c] = Closed]
    /\ UNCHANGED <<file, backup, wizard, config, failed>>

------------------------------------------------------------------------------
(* load_config: for a file that is no JSON it logs a warning with a logger    *)
(* the module does not have.                                                 *)
Loads == ~file.broken

\* The gateway starts and asks for what is empty.
Ask(f) ==
    /\ wizard = {} /\ Loads
    /\ file.val[f] = 0
    /\ wizard' = {file.val}
    /\ UNCHANGED <<file, backup, editors, config, failed>>
Answer(f, v) ==
    /\ wizard # {}
    /\ \E loaded \in wizard : Save([loaded EXCEPT ![f] = v], FALSE)
    /\ wizard' = {}
    /\ editors' = Raced(editors)
    /\ UNCHANGED <<backup, config, failed>>

\* onboard resets the file, or writes what it loads with new fields.
Onboard(reset) ==
    /\ reset \/ Loads
    /\ Save(IF reset THEN Default ELSE file.val, FALSE)
    /\ editors' = Raced(editors)
    /\ UNCHANGED <<backup, wizard, config, failed>>

\* The agent loads once; /reload makes it load again.
GetConfig ==
    /\ config = {}
    /\ config' = IF Loads THEN {file.val} ELSE {}
    /\ failed' = (failed \/ ~Loads)
    /\ UNCHANGED <<file, backup, editors, wizard>>
Reload ==
    /\ config' = {}
    /\ UNCHANGED <<file, backup, editors, wizard, failed>>

Next ==
    \/ \E f \in Fields, v \in Values, b \in BOOLEAN : Edit(f, v, b)
    \/ \E c \in Editors : OpenRead(c) \/ OpenStat(c) \/ Post(c) \/ Write(c) \/ Close(c)
    \/ \E c \in Editors, f \in Fields, v \in Values : Change(c, f, v)
    \/ \E f \in Secrets : Ask(f)
    \/ \E f \in Secrets, v \in Values \ {0} : Answer(f, v)
    \/ \E r \in BOOLEAN : Onboard(r)
    \/ GetConfig \/ Reload

Spec == Init /\ [][Next]_vars

------------------------------------------------------------------------------
(* The editor changes no setting but those its user changed: not a secret it  *)
(* never showed, nor what others wrote while the page was open. The lock has   *)
(* two gaps, after the read of the page and before the write.                *)
OnlyOwnChanges ==
    [][\A c \in Editors :
        editors[c].pc = "write" /\ editors'[c].pc = "closed" /\ ~editors[c].raced =>
            \A f \in Fields \ editors[c].mine : file'.val[f] = file.val[f]]_vars

(* A configuration that cannot be parsed is replaced by the default one.      *)
(* Not kept: the handler names a logger that the module does not define.      *)
BadFileIsDefault == ~failed

(* The wizard writes the answer and leaves the rest of the file alone. Not    *)
(* kept: it saves all that it loaded, and loses an edit made while it asked.  *)
WizardKeeps ==
    [][wizard # {} /\ wizard' = {} => \A f \in Fields \ Secrets : file'.val[f] = file.val[f]]_vars
==============================================================================
