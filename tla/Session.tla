------------------------------- MODULE Session -------------------------------
(***************************************************************************)
(* One conversation and its JSONL file: the Session dataclass and the      *)
(* load/save half of SessionManager (src/nanobot/session/manager.py).      *)
(*                                                                         *)
(* A message is the part a history is judged by, its role; a pending       *)
(* approval is the number of the request, 0 when there is none; the other  *)
(* interactive prompts (pending_knowledge, pending_save, pending_upgrade)  *)
(* are one flag, ask, and last_task_key is the flag task.  Times are in    *)
(* the unit of Expiry.                                                     *)
(***************************************************************************)
EXTENDS Naturals, Sequences, SequencesExt

CONSTANTS
    Requests,    \* numbers of approval requests; 0 is not one
    NoFile,      \* the session has no file yet
    Expiry,      \* expiry_hours (24 in the code)
    FlushEvery   \* an append of this many messages schedules a rewrite (10)

\* "prompt" is the assistant's "Action Required!" message, "call" an assistant
\* message with tool_calls, "say" any other assistant message.
Kinds == {"user", "say", "prompt", "call", "tool"}

\* A line an interrupted append left without its end.
Torn == "torn"

Sessions == [msgs    : Seq(Kinds),
             pend    : Requests \cup {0},
             ask     : BOOLEAN,
             task    : BOOLEAN,
             updated : Nat,
             dirty   : BOOLEAN,
             saved   : Nat]

\* The file: a metadata line, then one line for each message.
Written == [msgs    : Seq(Kinds \cup {Torn}),
            pend    : Requests \cup {0},
            ask     : BOOLEAN,
            task    : BOOLEAN,
            updated : Nat]

Files == Written \cup {NoFile}

ASSUME SessionAssumption ==
    /\ Requests \subseteq Nat \ {0}
    /\ Expiry \in Nat \ {0}
    /\ FlushEvery \in Nat \ {0}
    /\ NoFile \notin Written

NewSession(t) ==
    [msgs |-> <<>>, pend |-> 0, ask |-> FALSE, task |-> FALSE,
     updated |-> t, dirty |-> TRUE, saved |-> 0]

AddMessages(s, kinds, t) ==
    [s EXCEPT !.msgs = @ \o kinds, !.updated = t]

MarkDirty(s) == [s EXCEPT !.dirty = TRUE]

\* clear_pending: the prompts exclude one another.
NoPending(s) == [s EXCEPT !.pend = 0, !.ask = FALSE, !.dirty = TRUE]

\* clear, the reset of /new and of an expired session.
Cleared(s, t) == NewSession(t)

------------------------------------------------------------------------------
(* Saving. *)

Unsaved(s) == SubSeq(s.msgs, s.saved + 1, Len(s.msgs))

CanAppend(s, f) ==
    /\ ~s.dirty
    /\ f # NoFile
    /\ Len(s.msgs) >= s.saved
    /\ s.saved > 0

\* Lines written after a torn line share it: the first of them is unreadable.
Glue(lines, new) ==
    IF lines # <<>> /\ Last(lines) = Torn /\ new # <<>>
    THEN lines \o Tail(new)
    ELSE lines \o new

Appended(s, f) == [f EXCEPT !.msgs = Glue(@, Unsaved(s))]

\* _full_rewrite: every field of the session, through a temporary file.
Rewritten(s) ==
    [msgs |-> s.msgs, pend |-> s.pend, ask |-> s.ask, task |-> s.task,
     updated |-> s.updated]

FileAfter(s, f) == IF CanAppend(s, f) THEN Appended(s, f) ELSE Rewritten(s)

\* The session object after save: an append refreshes updated_at in memory
\* only, and leaves the metadata line of the file as it was.
Saved(s, f, t) ==
    IF ~CanAppend(s, f)
    THEN [s EXCEPT !.dirty = FALSE, !.saved = Len(s.msgs)]
    ELSE IF Unsaved(s) = <<>> THEN s
    ELSE [s EXCEPT !.saved = Len(s.msgs), !.updated = t,
                   !.dirty = Len(Unsaved(s)) >= FlushEvery]

\* The process dies in the middle of an append: some lines are complete.
PartlyAppended(s, f, n) ==
    [f EXCEPT !.msgs = Glue(@, SubSeq(Unsaved(s), 1, n)) \o <<Torn>>]

------------------------------------------------------------------------------
(* Loading. *)

\* The lines that are messages, in order.
Readable(lines) ==
    LET Upto[n \in 0..Len(lines)] ==
          IF n = 0 THEN <<>>
          ELSE IF lines[n] = Torn THEN Upto[n - 1]
          ELSE Append(Upto[n - 1], lines[n])
    IN  Upto[Len(lines)]

\* A mutant: a load that trusts the file to be what the session last saved.
Loaded_Clean(f) ==
    [msgs |-> Readable(f.msgs), pend |-> f.pend, ask |-> f.ask,
     task |-> f.task, updated |-> f.updated, dirty |-> FALSE,
     saved |-> Len(Readable(f.msgs))]

\* _load skips torn lines; the object it builds is dirty and knows of no
\* saved message, so the first save after a load rewrites the file.
Loaded(f) ==
    [msgs |-> Readable(f.msgs), pend |-> f.pend, ask |-> f.ask,
     task |-> f.task, updated |-> f.updated, dirty |-> TRUE, saved |-> 0]

Expired(s, t) == t - s.updated > Expiry

\* get_or_create: the cached object or the file's, reset when it is too old.
Opened(cached, s, f, t) ==
    IF ~cached /\ f = NoFile THEN NewSession(t)
    ELSE LET known == IF cached THEN s ELSE Loaded(f)
         IN  IF Expired(known, t) THEN Cleared(known, t) ELSE known
==============================================================================
