---------------------------- MODULE VectorStore -----------------------------
(* The index for semantic search (agent/vector_store.py) over texts that live    *)
(* elsewhere: HISTORY.md, the daily logs, the knowledge base, and facts of       *)
(* MEMORY.md that the memory tool stores (tools/memory_search_tool.py). A chunk  *)
(* is named by its source and text; one that came from a bulk ingest carries the *)
(* path of its file, and is flagged for deletion when a search finds the file    *)
(* gone. The heartbeat's turn deletes what is flagged and rebuilds the index     *)
(* when it has grown too big.                                                    *)
EXTENDS Naturals, FiniteSets

CONSTANTS Bulk,          \* sources full_reindex reads: history, daily logs, knowledge
          Kb,            \* the knowledge base, one of Bulk
          Facts,         \* sources full_reindex does not read
          MaxLines, MaxFaults

Sources == Bulk \union Facts

VARIABLES text,          \* the lines of each source
          gone,          \* sources whose file is not there for now
          index,         \* chunks <<source, line>>
          paths,         \* those of them with a file path in their metadata
          flagged,       \* _flagged_for_gc
          db,            \* "cold", "ready", or "failed" for the rest of the process
          lines, faults,
          missed,        \* history: chunks whose last ingest failed, or which went
                         \* with an index that was thrown away and not filled again
          away           \* history: chunks whose file has been gone since their last
                         \* ingest

vars == <<text, gone, index, paths, flagged, db, lines, faults, missed, away>>
Chunks(s) == {<<s, n>> : n \in text[s]}

Init == /\ text = [s \in Sources |-> {}] /\ gone = {} /\ index = {} /\ paths = {}
        /\ flagged = {} /\ db = "cold" /\ lines = 0 /\ faults = 0
        /\ missed = {} /\ away = {}

Fault == faults < MaxFaults /\ faults' = faults + 1

(* _ensure_init: an error leaves the index closed until the next process; vectors *)
(* of another dimension are thrown away.                                         *)
Open ==
    /\ db = "cold"
    /\ \/ db' = "ready" /\ UNCHANGED <<index, paths, faults, missed>>
       \/ db' = "failed" /\ Fault /\ UNCHANGED <<index, paths, missed>>
       \/ /\ db' = "ready" /\ Fault /\ index' = {} /\ paths' = {}
          /\ missed' = missed \union index
    /\ UNCHANGED <<text, gone, flagged, lines, away>>
Restart == /\ db # "cold" /\ db' = "cold" /\ flagged' = {} /\ Fault
           /\ UNCHANGED <<text, gone, index, paths, lines, missed, away>>

(* ingest_text: without an index, or when it fails, nothing is added.            *)
Ingested(c, ok) ==
    /\ IF ok THEN UNCHANGED faults ELSE Fault
    /\ IF ok /\ db = "ready" THEN index' = index \union {c} /\ UNCHANGED missed
                              ELSE missed' = missed \union {c} /\ UNCHANGED index
(* A consolidation, the memory tool or a saved workflow writes a line and ingests *)
(* it, without a path. A file that was gone is made anew.                        *)
Write(s, ok) ==
    /\ db # "cold" /\ lines < MaxLines /\ lines' = lines + 1
    /\ text' = [text EXCEPT ![s] = (IF s \in gone THEN {} ELSE @) \union {lines'}]
    /\ gone' = gone \ {s}
    /\ Ingested(<<s, lines'>>, ok)
    /\ UNCHANGED <<paths, flagged, db, away>>
(* A line is taken out of a source: "/kb delete" takes its chunk along, the      *)
(* memory tool's delete does not.                                                *)
Forget(s, n) ==
    /\ s \in (Facts \union {Kb}) \ gone /\ n \in text[s]
    /\ text' = [text EXCEPT ![s] = @ \ {n}]
    /\ index' = IF s \in Facts \/ db # "ready" THEN index ELSE index \ {<<s, n>>}
    /\ paths' = paths \intersect index'
    /\ UNCHANGED <<gone, flagged, db, lines, faults, missed, away>>
(* Somebody moves the file away, and back. *)
Remove(s) == /\ s \notin gone /\ Fault /\ gone' = gone \union {s}
             /\ away' = away \union Chunks(s)
             /\ UNCHANGED <<text, index, paths, flagged, db, lines, missed>>
Restore(s) == /\ s \in gone /\ Fault /\ gone' = gone \ {s}
              /\ UNCHANGED <<text, index, paths, flagged, db, lines, missed, away>>

(* _is_source_alive *)
Ghosts(found) == {c \in found \intersect paths : c[1] \in gone}
(* search(): what it finds and whose file is gone is left out and flagged.       *)
Search(found) ==
    /\ db = "ready" /\ found # {} /\ found \subseteq index
    /\ flagged' = flagged \union Ghosts(found)
    /\ flagged' # flagged
    /\ UNCHANGED <<text, gone, index, paths, db, lines, faults, missed, away>>

(* Mutated form of Reindexed: the bulk sources of one kind are forgotten.        *)
Reindexed_One(lost) == Chunks(CHOOSE s \in Bulk : TRUE)
(* full_reindex, but for the sources whose ingest fails, or is not reached after  *)
(* a file that cannot be read.                                                   *)
Reindexed(lost) == UNION {Chunks(s) : s \in Bulk \ (lost \union gone)}
(* purge_flagged_gc deletes the flagged chunks. An index too big is wiped,       *)
(* opened again and filled from the files. The deletion may fail, which keeps    *)
(* the flags; the wipe and the clearing before the filling may both leave what   *)
(* there was (kept); the opening may fail, and then nothing is filled in; and so *)
(* may the filling. A Fault stands for all that fails in one purge.              *)
Purge(deleted, tooBig) ==
    LET left == IF deleted THEN index \ flagged ELSE index IN
    /\ db = "ready" /\ (tooBig \/ flagged # {})
    /\ flagged' = IF deleted THEN {} ELSE flagged
    /\ IF tooBig
         THEN \E kept \in {{}, left}, opens \in BOOLEAN, lost \in SUBSET Bulk :
                LET filled == IF opens THEN Reindexed(lost) ELSE {} IN
                /\ index' = kept \union filled
                /\ paths' = (paths \intersect kept) \union filled
                /\ db' = IF opens THEN "ready" ELSE "failed"
                /\ missed' = (missed \union (IF opens THEN UNION {Chunks(s) : s \in lost}
                                                    ELSE left)) \ index'
                /\ away' = away \ (filled \ flagged')
                /\ IF deleted /\ kept = {} /\ opens /\ lost = {} THEN UNCHANGED faults ELSE Fault
         ELSE /\ index' = left /\ paths' = paths \intersect left
              /\ IF deleted THEN UNCHANGED faults ELSE Fault
              /\ UNCHANGED <<db, missed, away>>
    /\ UNCHANGED <<text, gone, lines>>

Next == \/ Open \/ Restart
        \/ \E s \in Sources : \/ Remove(s) \/ Restore(s) \/ \E b \in BOOLEAN : Write(s, b)
                              \/ \E n \in 1 .. MaxLines : Forget(s, n)
        \/ \E f \in SUBSET index : Search(f)
        \/ \E b, c \in BOOLEAN : Purge(b, c)
Spec == Init /\ [][Next]_vars
-----------------------------------------------------------------------------
(* No maintenance of the index makes a line of the history, a daily log or the   *)
(* knowledge base unfindable that was ever indexed and is still in its file:     *)
(* outside the index are only lines whose last ingest failed, or went with an    *)
(* index that could not be opened or filled again, and those whose file has been *)
(* away since. A rebuilding that succeeds brings both back.                      *)
Findable == \A s \in Bulk \ gone : Chunks(s) \subseteq index \union missed \union away

(* "Clear the collection and re-ingest all sources" (full_reindex): a fact of    *)
(* MEMORY.md is one of them. Not kept: it is gone after the re-ingestion.        *)
AllSourcesReindexed == \A s \in Sources \ gone : Chunks(s) \subseteq index \union missed \union away
=============================================================================
