----------------------------- MODULE Checkpoints -----------------------------
(***************************************************************************)
(* The record a crash leaves of interrupted tools: CrashRecoveryMiddleware *)
(* around the execution of tools, the same in handle_pending_approval, the *)
(* checkpoint files of SessionManager and the scan for them at start.      *)
(*                                                                         *)
(* A chat turn is one that AgentLoop.run takes from the bus, one after the *)
(* other; a background turn (a cron job, the heartbeat, an API call, a     *)
(* subagent) runs beside it, through the same pipeline object.  A turn     *)
(* writes its checkpoints under the key of its channel and chat.           *)
(***************************************************************************)
CONSTANTS
    Turns,       \* the turns of the process
    Background,  \* those that do not come from the bus
    Keys,        \* session keys, each the name of a checkpoint file
    None         \* no path, no file

ASSUME CheckpointsAssumption ==
    /\ Background \subseteq Turns
    /\ None \notin Turns
    /\ None \notin Keys

VARIABLES
    process,   \* "down", "booting" (before the scan) or "serving"
    pc,        \* where each turn is
    key,       \* the key each turn works under
    wrote,     \* the last checkpoint the turn wrote is on the disk
    path,      \* CrashRecoveryMiddleware._ckpt_path
    file,      \* the checkpoint files, by the turn whose tools they name
    disturbed  \* history: turns whose checkpoints something else touched

vars == <<process, pc, key, wrote, path, file, disturbed>>

\* "approved" is a tool that handle_pending_approval runs.
PCs == {"off", "thinking", "tools", "approved"}

TypeOK ==
    /\ process \in {"down", "booting", "serving"}
    /\ pc \in [Turns -> PCs]
    /\ key \in [Turns -> Keys]
    /\ wrote \in [Turns -> BOOLEAN]
    /\ path \in Keys \cup {None}
    /\ file \in [Keys -> Turns \cup {None}]
    /\ disturbed \subseteq Turns

Init ==
    /\ process = "down"
    /\ pc = [t \in Turns |-> "off"]
    /\ key \in [Turns -> Keys]
    /\ wrote = [t \in Turns |-> FALSE]
    /\ path = None
    /\ file = [k \in Keys |-> None]
    /\ disturbed = {}

Executing(t) == pc[t] \in {"tools", "approved"}

\* The other turns that have tools outstanding.
Others(t) == {u \in Turns \ {t} : Executing(u)}

------------------------------------------------------------------------------
(* The life of the process. *)

Boot ==
    /\ process = "down"
    /\ process' = "booting"
    /\ UNCHANGED <<pc, key, wrote, path, file, disturbed>>

\* A mutant: the scan reports the files and leaves them.
Recover_Kept ==
    /\ process = "booting"
    /\ process' = "serving"
    /\ disturbed' = {t \in Turns : Executing(t)}
    /\ UNCHANGED <<pc, key, wrote, path, file>>

\* _recover_stale_checkpoints: every file is reported as a crash and deleted.
Recover ==
    /\ process = "booting"
    /\ process' = "serving"
    /\ file' = [k \in Keys |-> None]
    /\ disturbed' = {t \in Turns : Executing(t)}
    /\ UNCHANGED <<pc, key, wrote, path>>

\* The process dies or is stopped.
Crash ==
    /\ process # "down"
    /\ process' = "down"
    /\ pc' = [t \in Turns |-> "off"]
    /\ wrote' = [t \in Turns |-> FALSE]
    /\ path' = None
    /\ UNCHANGED <<key, file, disturbed>>

------------------------------------------------------------------------------
(* The turns. *)

MayBegin(t) ==
    /\ pc[t] = "off"
    /\ IF t \in Background THEN process # "down"
       ELSE process = "serving" /\ \A u \in Turns \ Background : pc[u] = "off"

Begin(t) ==
    /\ MayBegin(t)
    /\ pc' = [pc EXCEPT ![t] = "thinking"]
    /\ \E k \in Keys : key' = [key EXCEPT ![t] = k]
    /\ UNCHANGED <<process, wrote, path, file, disturbed>>

\* write_checkpoint: atomic; a failure is logged, and there is no path.
Write(t, k) ==
    \/ file' = [file EXCEPT ![k] = t] /\ wrote' = [wrote EXCEPT ![t] = TRUE]
    \/ UNCHANGED file /\ wrote' = [wrote EXCEPT ![t] = FALSE]

\* clear_checkpoint: removes the file, whoever wrote it; a failure is ignored.
Clear(t, k) ==
    \/ file' = [file EXCEPT ![k] = None]
    \/ UNCHANGED file

\* The turns whose checkpoint a write or a clear at k takes away, t's own
\* excluded.
HitAt(t, k) == {u \in Others(t) : key[u] = k}

\* A mutant: the key is not the one that _cache and the reports go by.
RunTools_RawKey(t) ==
    /\ pc[t] = "thinking"
    /\ pc' = [pc EXCEPT ![t] = "tools"]
    /\ \E k \in Keys :
         /\ Write(t, k)
         /\ path' = IF wrote'[t] THEN k ELSE None
    /\ disturbed' = disturbed \cup Others(t)
    /\ UNCHANGED <<process, key>>

\* The pipeline reaches the tools: CrashRecoveryMiddleware.pre_process.
RunTools(t) ==
    /\ pc[t] = "thinking"
    /\ pc' = [pc EXCEPT ![t] = "tools"]
    /\ Write(t, key[t])
    /\ path' = IF wrote'[t] THEN key[t] ELSE None
    /\ disturbed' = disturbed \cup Others(t)
    /\ UNCHANGED <<process, key>>

\* The tools return: CrashRecoveryMiddleware.post_process.
ToolsReturn(t) ==
    /\ pc[t] = "tools"
    /\ pc' = [pc EXCEPT ![t] = "thinking"]
    /\ \/ path = None /\ UNCHANGED <<file, disturbed>>
       \/ /\ path # None
          /\ Clear(t, path)
          /\ disturbed' = disturbed \cup Others(t)
                            \cup {u \in {t} : file' = file}
    /\ path' = None
    /\ UNCHANGED <<process, key, wrote>>

\* An approved tool has a path of its own.
RunApproved(t) ==
    /\ t \notin Background
    /\ MayBegin(t)
    /\ pc' = [pc EXCEPT ![t] = "approved"]
    /\ \E k \in Keys :
         /\ key' = [key EXCEPT ![t] = k]
         /\ Write(t, k)
         /\ disturbed' = disturbed \cup HitAt(t, k)
    /\ UNCHANGED <<process, path>>

ApprovedReturns(t) ==
    /\ pc[t] = "approved"
    /\ pc' = [pc EXCEPT ![t] = "thinking"]
    /\ \/ ~wrote[t] /\ UNCHANGED <<file, disturbed>>
       \/ /\ wrote[t]
          /\ Clear(t, key[t])
          /\ disturbed' = disturbed \cup HitAt(t, key[t])
                            \cup {u \in {t} : file' = file}
    /\ UNCHANGED <<process, key, wrote, path>>

\* The turn ends or raises between two batches.
End(t) ==
    /\ pc[t] = "thinking"
    /\ pc' = [pc EXCEPT ![t] = "off"]
    /\ UNCHANGED <<process, key, wrote, path, file, disturbed>>

\* A background turn is cancelled while its tools run: CancelledError passes
\* the pipeline without post-processing.
Cancel(t) ==
    /\ t \in Background
    /\ pc[t] = "tools"
    /\ pc' = [pc EXCEPT ![t] = "off"]
    /\ disturbed' = disturbed \cup {t}
    /\ UNCHANGED <<process, key, wrote, path, file>>

Next ==
    \/ Boot \/ Recover \/ Crash
    \/ \E t \in Turns :
         \/ Begin(t) \/ RunTools(t) \/ ToolsReturn(t)
         \/ RunApproved(t) \/ ApprovedReturns(t)
         \/ End(t) \/ Cancel(t)

Spec == Init /\ [][Next]_vars

------------------------------------------------------------------------------
(* Properties. *)

\* While tools run under a checkpoint, the file of their session names them:
\* the start after a crash tells the user what was interrupted
\* (crash_recovery.py:5 and loop.py:1172).
Recorded(t) == Executing(t) /\ wrote[t] => file[key[t]] = t
InterruptedToolsAreRecorded == \A t \in Turns : Recorded(t)

\* That holds for every turn whose tools no checkpoint step of another turn
\* and no scan came between.
UndisturbedToolsAreRecorded == \A t \in Turns \ disturbed : Recorded(t)

\* And "if a checkpoint file exists, it means the process crashed mid-tool-
\* execution": after the scan, a file names tools that are running, again
\* unless a turn was disturbed, cancelled, or its file could not be removed.
NoFalseAlarm ==
    process = "serving" =>
        \A k \in Keys : \A t \in Turns \ disturbed :
            file[k] = t => Executing(t) /\ key[t] = k
==============================================================================
