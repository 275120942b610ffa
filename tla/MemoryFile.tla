----------------------------- MODULE MemoryFile -----------------------------
(* MEMORY.md and its rolling backups (agent/memory.py) under everything that     *)
(* writes it: consolidations, the memory tool, /memory import and, without a     *)
(* backup, the dashboard. A write is a row of file operations; the process may   *)
(* die between any two of them, and an operation of the rotation may fail.       *)
EXTENDS Integers

CONSTANTS Backups,        \* _MAX_BACKUPS
          MaxWrites,      \* bound: contents written
          MaxFaults       \* bound: deaths and failed operations between two whole writes

VARIABLES file,           \* content: Absent, Empty, Torn, or the number of a write
          bak,            \* MEMORY.md.bak.1 .. N
          pc,             \* "idle", "unlink", "shift", "copy", "truncate", "write"
          at,             \* the backup that is shifted next
          next,           \* number of the write under way, or of the last one
          good,           \* history: the last content that was written whole
          faults,         \* since the last whole write
          bare            \* history: a write since then began without a backup

vars == <<file, bak, pc, at, next, good, faults, bare>>

Absent == -3
Empty  == -2
Torn   == -1

Init == /\ file = Absent /\ bak = [i \in 1..Backups |-> Absent] /\ pc = "idle" /\ at = 0
        /\ next = 0 /\ good = Absent /\ faults = 0 /\ bare = FALSE

(* write_long_term, called by a consolidation, store, delete or import. A file   *)
(* that is absent or blank is not backed up.                                     *)
(* Mutated form of Write: the file is written before it is rotated. *)
Write_First ==
    /\ pc = "idle" /\ next < MaxWrites /\ next' = next + 1
    /\ pc' = "truncate"
    /\ UNCHANGED <<file, bak, at, good, faults, bare>>
Write == /\ pc = "idle" /\ next < MaxWrites /\ next' = next + 1
         /\ pc' = IF file \in {Absent, Empty} THEN "truncate" ELSE "unlink"
         /\ UNCHANGED <<file, bak, at, good, faults, bare>>
(* The dashboard's editor writes the file itself. *)
Edit  == /\ pc = "idle" /\ next < MaxWrites /\ next' = next + 1
         /\ pc' = "truncate" /\ bare' = TRUE
         /\ UNCHANGED <<file, bak, at, good, faults>>

Unlink == /\ pc = "unlink" /\ pc' = "shift" /\ at' = Backups
          /\ bak' = [bak EXCEPT ![Backups] = Absent]
          /\ UNCHANGED <<file, next, good, faults, bare>>
Shift  == /\ pc = "shift"
          /\ IF at = 1 THEN pc' = "copy" /\ UNCHANGED <<bak, at>>
             ELSE /\ bak' = IF bak[at - 1] = Absent THEN bak
                            ELSE [bak EXCEPT ![at] = bak[at - 1], ![at - 1] = Absent]
                  /\ at' = at - 1 /\ UNCHANGED pc
          /\ UNCHANGED <<file, next, good, faults, bare>>
Copy   == /\ pc = "copy" /\ pc' = "truncate" /\ bak' = [bak EXCEPT ![1] = file]
          /\ UNCHANGED <<file, at, next, good, faults, bare>>
(* An operation of the rotation raises: the write goes on without a backup. *)
RotationFails == /\ pc \in {"unlink", "shift", "copy"} /\ faults < MaxFaults
                 /\ faults' = faults + 1 /\ pc' = "truncate" /\ bare' = TRUE
                 /\ UNCHANGED <<file, bak, at, next, good>>
Truncate == /\ pc = "truncate" /\ file' = Empty /\ pc' = "write"
            /\ UNCHANGED <<bak, at, next, good, faults, bare>>
WriteEnds == /\ pc = "write" /\ file' = next /\ good' = next /\ pc' = "idle"
             /\ bare' = FALSE /\ faults' = 0
             /\ UNCHANGED <<bak, at, next>>
(* The process dies; a write leaves what it got to, a copy as well. *)
Dies(partly) ==
    /\ pc # "idle" /\ faults < MaxFaults /\ faults' = faults + 1 /\ pc' = "idle"
    /\ file' = IF pc = "write" /\ partly THEN Torn ELSE file
    /\ bak'  = IF pc = "copy" /\ partly THEN [bak EXCEPT ![1] = Torn] ELSE bak
    /\ UNCHANGED <<at, next, good, bare>>

Next == Write \/ Edit \/ Unlink \/ Shift \/ Copy \/ RotationFails \/ Truncate \/ WriteEnds
        \/ \E b \in BOOLEAN : Dies(b)
Spec == Init /\ [][Next]_vars
-----------------------------------------------------------------------------
(* However the process dies in a write that goes through the backups, the last   *)
(* whole content is still in MEMORY.md or in one of them, unless as many writes  *)
(* in a row die as there are backups: each of them has moved it by one place.    *)
LastMemoryKept ==
    bare \/ good = Absent \/ file = good \/ \E i \in 1..Backups : bak[i] = good
=============================================================================
