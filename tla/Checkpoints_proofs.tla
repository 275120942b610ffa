-------------------------- MODULE Checkpoints_proofs --------------------------
(***************************************************************************)
(* For any number of turns and keys: the tools of a turn that nothing      *)
(* disturbed are recorded, and the file of such a turn means that its      *)
(* tools run.                                                              *)
(*                                                                         *)
(* What makes the two inductive is the shared path: as long as an          *)
(* undisturbed turn runs its tools in the pipeline, the path is that of    *)
(* its own file, so that the step after the tools removes this file and no *)
(* other.                                                                  *)
(***************************************************************************)
EXTENDS MCCheckpoints, SequenceTheorems, FiniteSetTheorems,
        WellFoundedInduction, TLAPS

\* The attribute of the middleware is the path of an undisturbed turn.
PathIsOwn ==
    \A t \in Turns \ disturbed :
        pc[t] = "tools" => path = IF wrote[t] THEN key[t] ELSE None

\* A file of an undisturbed turn is the one its running tools wrote.
FileIsOwn ==
    process = "serving" =>
        \A k \in Keys : \A t \in Turns \ disturbed :
            file[k] = t => Executing(t) /\ key[t] = k /\ wrote[t]

IInv ==
    /\ TypeOK
    /\ UndisturbedToolsAreRecorded
    /\ FileIsOwn
    /\ PathIsOwn

------------------------------------------------------------------------------

LEMMA InitOK == Init => IInv
BY DEF Init, IInv, TypeOK, PCs, UndisturbedToolsAreRecorded, Recorded,
       Executing, FileIsOwn, PathIsOwn

\* The steps of the process.
LEMMA ProcessKeeps == IInv /\ (Boot \/ Recover \/ Crash) => IInv'
<1> SUFFICES ASSUME IInv, Boot \/ Recover \/ Crash PROVE IInv'
  OBVIOUS
<1> USE DEF IInv, TypeOK, PCs, UndisturbedToolsAreRecorded, Recorded,
            Executing, FileIsOwn, PathIsOwn
<1>1. CASE Boot     BY <1>1 DEF Boot
<1>2. CASE Recover  BY <1>2, CheckpointsAssumption DEF Recover
<1>3. CASE Crash    BY <1>3 DEF Crash
<1>. QED  BY <1>1, <1>2, <1>3

\* The steps of a turn that touch no checkpoint.
LEMMA QuietKeeps ==
    ASSUME IInv, NEW t \in Turns, Begin(t) \/ End(t) \/ Cancel(t)
    PROVE  IInv'
<1> USE DEF IInv, TypeOK, PCs, UndisturbedToolsAreRecorded, Recorded,
            Executing, FileIsOwn, PathIsOwn
<1>1. CASE Begin(t)   BY <1>1 DEF Begin, MayBegin
<1>2. CASE End(t)     BY <1>2 DEF End
<1>3. CASE Cancel(t)  BY <1>3 DEF Cancel
<1>. QED  BY <1>1, <1>2, <1>3

LEMMA WriteTypes ==
    ASSUME TypeOK, NEW t \in Turns, NEW k \in Keys, Write(t, k)
    PROVE  file' \in [Keys -> Turns \cup {None}] /\ wrote' \in [Turns -> BOOLEAN]
<1>1. [file EXCEPT ![k] = t] \in [Keys -> Turns \cup {None}]
  BY DEF TypeOK
<1>2. \A b \in BOOLEAN : [wrote EXCEPT ![t] = b] \in [Turns -> BOOLEAN]
  BY DEF TypeOK
<1>. QED  BY <1>1, <1>2 DEF Write, TypeOK

\* The pipeline reaches the tools: the other running turns are disturbed, and
\* the path is the turn's own.
LEMMA RunToolsKeeps ==
    ASSUME IInv, NEW t \in Turns, RunTools(t)
    PROVE  IInv'
<1> USE DEF RunTools
<1>1. TypeOK'
  <2>1. /\ file' \in [Keys -> Turns \cup {None}] /\ wrote' \in [Turns -> BOOLEAN]
        /\ key[t] \in Keys
    <3>1. key[t] \in Keys
      BY DEF IInv, TypeOK
    <3>2. Write(t, key[t]) /\ TypeOK
      BY DEF IInv
    <3>. QED  BY <3>1, <3>2, WriteTypes
  <2>2. path' \in Keys \cup {None} /\ disturbed' \subseteq Turns
    BY <2>1 DEF IInv, TypeOK, Others
  <2>3. pc' \in [Turns -> PCs]
    BY DEF IInv, TypeOK, PCs
  <2>. QED  BY <2>1, <2>2, <2>3 DEF IInv, TypeOK
<1> USE DEF Write
<1>2. \A u \in Turns \ disturbed' : u # t => ~Executing(u) /\ ~Executing(u)'
  BY DEF Others, Executing, IInv, TypeOK
<1>3. UndisturbedToolsAreRecorded'
  BY <1>2 DEF IInv, TypeOK, UndisturbedToolsAreRecorded, Recorded
<1>4. FileIsOwn'
  BY <1>2, CheckpointsAssumption DEF IInv, TypeOK, FileIsOwn, Executing
<1>5. PathIsOwn'
  BY <1>2 DEF IInv, TypeOK, PathIsOwn, Executing
<1>. QED  BY <1>1, <1>3, <1>4, <1>5 DEF IInv

\* The tools return: what is removed is the file of this turn, or another
\* turn is disturbed.
LEMMA ToolsReturnKeeps ==
    ASSUME IInv, NEW t \in Turns, ToolsReturn(t)
    PROVE  IInv'
<1> USE DEF ToolsReturn, Clear
<1>1. TypeOK'
  BY DEF IInv, TypeOK, PCs, Others
<1>2. \A u \in Turns : u # t => (Executing(u)' <=> Executing(u))
  BY DEF Executing, IInv, TypeOK
<1>3. ~Executing(t)' /\ pc'[t] # "tools"
  BY DEF Executing, IInv, TypeOK
<1>4. CASE path = None
  <2>1. UndisturbedToolsAreRecorded'
    BY <1>2, <1>3, <1>4 DEF IInv, UndisturbedToolsAreRecorded, Recorded
  <2>2. t \notin disturbed => ~wrote[t]
    BY <1>4, CheckpointsAssumption DEF IInv, PathIsOwn, TypeOK
  <2>3. FileIsOwn'
    BY <1>2, <1>3, <1>4, <2>2 DEF IInv, FileIsOwn
  <2>4. PathIsOwn'
    BY <1>3, <1>4 DEF IInv, PathIsOwn, TypeOK
  <2>. QED  BY <1>1, <2>1, <2>3, <2>4 DEF IInv
<1>5. CASE path # None
  <2>1. \A u \in Turns \ disturbed' : ~Executing(u)' /\ (u # t => ~Executing(u))
    BY <1>2, <1>3, <1>5 DEF Others
  <2>2. UndisturbedToolsAreRecorded'
    BY <2>1 DEF UndisturbedToolsAreRecorded, Recorded
  <2>3. disturbed \subseteq disturbed'
    BY <1>5
  <2>4. t \notin disturbed' => file' = [file EXCEPT ![path] = None]
    BY <1>5
  <2>5. \A k \in Keys : \A u \in Turns : file'[k] = u => file[k] = u
    BY <1>5, CheckpointsAssumption DEF IInv, TypeOK
  <2>6. FileIsOwn'
    <3> SUFFICES ASSUME process = "serving", NEW k \in Keys,
                        NEW u \in Turns \ disturbed', file'[k] = u
                 PROVE  FALSE
      BY DEF FileIsOwn
    <3>1. file[k] = u /\ u \in Turns \ disturbed
      BY <2>3, <2>5
    <3>2. Executing(u) /\ key[u] = k /\ wrote[u]
      BY <3>1 DEF IInv, FileIsOwn
    <3>3. u = t
      BY <2>1, <3>2
    <3>4. path = k
      BY <3>1, <3>2, <3>3 DEF IInv, PathIsOwn
    <3>5. file'[k] = None
      BY <2>4, <3>3, <3>4 DEF IInv, TypeOK
    <3>. QED  BY <3>5, <3>3, CheckpointsAssumption
  <2>7. PathIsOwn'
    BY <2>1 DEF PathIsOwn, Executing
  <2>. QED  BY <1>1, <2>2, <2>6, <2>7 DEF IInv
<1>. QED  BY <1>4, <1>5

\* An approved tool starts: only turns under its own key are disturbed.
LEMMA RunApprovedKeeps ==
    ASSUME IInv, NEW t \in Turns, RunApproved(t)
    PROVE  IInv'
<1> USE DEF RunApproved, MayBegin
<1>1. PICK k \in Keys : /\ key' = [key EXCEPT ![t] = k]
                        /\ Write(t, k)
                        /\ disturbed' = disturbed \cup HitAt(t, k)
  OBVIOUS
<1>2. TypeOK'
  <2>1. /\ file' \in [Keys -> Turns \cup {None}] /\ wrote' \in [Turns -> BOOLEAN]
    BY <1>1, WriteTypes DEF IInv
  <2>2. pc' \in [Turns -> PCs] /\ key' \in [Turns -> Keys]
    BY <1>1 DEF IInv, TypeOK, PCs
  <2>3. disturbed' \subseteq Turns
    BY <1>1 DEF IInv, TypeOK, HitAt, Others
  <2>. QED  BY <2>1, <2>2, <2>3 DEF IInv, TypeOK
<1>3. \A u \in Turns : u # t => /\ pc'[u] = pc[u] /\ key'[u] = key[u]
                               /\ wrote'[u] = wrote[u]
                               /\ (Executing(u)' <=> Executing(u))
  BY <1>1 DEF IInv, TypeOK, Write, Executing
<1>4. /\ pc'[t] = "approved" /\ key'[t] = k /\ Executing(t)' /\ ~Executing(t)
  BY <1>1 DEF IInv, TypeOK, Executing
<1>5. \A u \in Turns \ disturbed' :
        u \notin disturbed /\ (u # t /\ Executing(u) => key[u] # k)
  BY <1>1 DEF HitAt, Others
<1>6. \A j \in Keys : j # k => file'[j] = file[j]
  BY <1>1 DEF Write, IInv, TypeOK
<1>7. UndisturbedToolsAreRecorded'
  <2> SUFFICES ASSUME NEW u \in Turns \ disturbed', Executing(u)', wrote'[u]
               PROVE  file'[key'[u]] = u
    BY DEF UndisturbedToolsAreRecorded, Recorded
  <2>1. CASE u = t
    BY <1>1, <1>4, <2>1 DEF Write, IInv, TypeOK
  <2>2. CASE u # t
    BY <1>3, <1>5, <1>6, <2>2 DEF IInv, UndisturbedToolsAreRecorded, Recorded, TypeOK
  <2>. QED  BY <2>1, <2>2
<1>8. FileIsOwn'
  <2> SUFFICES ASSUME process = "serving", NEW j \in Keys,
                      NEW u \in Turns \ disturbed', file'[j] = u
               PROVE  Executing(u)' /\ key'[u] = j /\ wrote'[u]
    BY DEF FileIsOwn
  <2>1. CASE file' = file
    <3>1. Executing(u) /\ key[u] = j /\ wrote[u]
      BY <1>5, <2>1 DEF IInv, FileIsOwn
    <3>. QED  BY <3>1, <1>3, <1>4
  <2>2. CASE file' = [file EXCEPT ![k] = t] /\ wrote' = [wrote EXCEPT ![t] = TRUE]
    <3>1. CASE j = k
      BY <2>2, <3>1, <1>4 DEF IInv, TypeOK
    <3>2. CASE j # k
      <4>1. Executing(u) /\ key[u] = j /\ wrote[u]
        BY <1>5, <1>6, <3>2 DEF IInv, FileIsOwn
      <4>. QED  BY <4>1, <1>3, <1>4
    <3>. QED  BY <3>1, <3>2
  <2>. QED  BY <1>1, <2>1, <2>2 DEF Write
<1>9. PathIsOwn'
  BY <1>3, <1>4, <1>5 DEF IInv, PathIsOwn
<1>. QED  BY <1>2, <1>7, <1>8, <1>9 DEF IInv

\* The approved tool returns and takes its own file away.
LEMMA ApprovedReturnsKeeps ==
    ASSUME IInv, NEW t \in Turns, ApprovedReturns(t)
    PROVE  IInv'
<1> USE DEF ApprovedReturns
<1>1. TypeOK'
  BY DEF IInv, TypeOK, PCs, HitAt, Others, Clear
<1>2. \A u \in Turns : u # t => pc'[u] = pc[u] /\ (Executing(u)' <=> Executing(u))
  BY DEF IInv, TypeOK, Executing
<1>3. ~Executing(t)' /\ pc'[t] # "tools"
  BY DEF IInv, TypeOK, Executing
<1>4. PathIsOwn'
  BY <1>2, <1>3 DEF IInv, PathIsOwn
<1>5. CASE ~wrote[t]
  <2>1. UndisturbedToolsAreRecorded'
    BY <1>2, <1>3, <1>5 DEF IInv, UndisturbedToolsAreRecorded, Recorded
  <2>2. FileIsOwn'
    BY <1>2, <1>3, <1>5 DEF IInv, FileIsOwn
  <2>. QED  BY <1>1, <1>4, <2>1, <2>2 DEF IInv
<1>6. CASE wrote[t]
  <2>1. \A u \in Turns \ disturbed' :
          u \notin disturbed /\ (u # t /\ Executing(u) => key[u] # key[t])
    BY <1>6 DEF HitAt, Others
  <2>2. \A j \in Keys : j # key[t] => file'[j] = file[j]
    BY <1>6 DEF Clear, IInv, TypeOK
  <2>3. \A j \in Keys : \A u \in Turns : file'[j] = u => file[j] = u
    BY <1>6, CheckpointsAssumption DEF Clear, IInv, TypeOK
  <2>4. UndisturbedToolsAreRecorded'
    BY <1>2, <1>3, <2>1, <2>2
       DEF IInv, UndisturbedToolsAreRecorded, Recorded, TypeOK
  <2>5. t \notin disturbed' => file'[key[t]] = None
    BY <1>6 DEF Clear, IInv, TypeOK
  <2>6. FileIsOwn'
    <3> SUFFICES ASSUME process = "serving", NEW j \in Keys,
                        NEW u \in Turns \ disturbed', file'[j] = u
                 PROVE  Executing(u)' /\ key[u] = j /\ wrote[u]
      BY DEF FileIsOwn
    <3>1. Executing(u) /\ key[u] = j /\ wrote[u]
      BY <2>1, <2>3 DEF IInv, FileIsOwn
    <3>2. u # t
      BY <2>5, <3>1, CheckpointsAssumption
    <3>. QED  BY <1>2, <3>1, <3>2
  <2>. QED  BY <1>1, <1>4, <2>4, <2>6 DEF IInv
<1>. QED  BY <1>5, <1>6

LEMMA StutterKeeps == IInv /\ UNCHANGED vars => IInv'
BY DEF IInv, vars, TypeOK, UndisturbedToolsAreRecorded, Recorded, Executing,
       FileIsOwn, PathIsOwn

LEMMA InductiveInvariant == Spec => []IInv
<1>1. IInv /\ [Next]_vars => IInv'
  <2> SUFFICES ASSUME IInv, [Next]_vars PROVE IInv'
    OBVIOUS
  <2>1. CASE Boot \/ Recover \/ Crash
    BY <2>1, ProcessKeeps
  <2>2. ASSUME NEW t \in Turns, Begin(t) \/ End(t) \/ Cancel(t) PROVE IInv'
    BY <2>2, QuietKeeps
  <2>3. ASSUME NEW t \in Turns, RunTools(t) PROVE IInv'
    BY <2>3, RunToolsKeeps
  <2>4. ASSUME NEW t \in Turns, ToolsReturn(t) PROVE IInv'
    BY <2>4, ToolsReturnKeeps
  <2>5. ASSUME NEW t \in Turns, RunApproved(t) PROVE IInv'
    BY <2>5, RunApprovedKeeps
  <2>6. ASSUME NEW t \in Turns, ApprovedReturns(t) PROVE IInv'
    BY <2>6, ApprovedReturnsKeeps
  <2>7. CASE UNCHANGED vars
    BY <2>7, StutterKeeps
  <2>. QED  BY <2>1, <2>2, <2>3, <2>4, <2>5, <2>6, <2>7 DEF Next
<1>. QED  BY InitOK, <1>1, PTL DEF Spec

------------------------------------------------------------------------------

\* The tools of every turn that was not disturbed are named by the file of its
\* session while they run (CrashRecoveryMiddleware, handle_pending_approval).
THEOREM UndisturbedRecorded == Spec => []UndisturbedToolsAreRecorded
<1>1. IInv => UndisturbedToolsAreRecorded
  BY DEF IInv
<1>. QED  BY InductiveInvariant, <1>1, PTL

\* After the scan at start, the file of an undisturbed turn means that tools
\* run: the report of the next start is no false alarm.
THEOREM FalseAlarmsExcluded == Spec => []NoFalseAlarm
<1>1. IInv => NoFalseAlarm
  BY DEF IInv, FileIsOwn, NoFalseAlarm
<1>. QED  BY InductiveInvariant, <1>1, PTL

------------------------------------------------------------------------------
(* The services beside the turns: the components of MCCheckpoints. Each takes *)
(* its steps alone, so that an invariant of the component is one of AllSpec.  *)

(* The second scheduler. *)

Ids == sc_Jobs \cup {Scheduler!Beat}
TaskObjects == [id : Ids, serial : Nat, on : BOOLEAN, next : Nat]
Slot(t) == <<t.id, t.next, t.serial>>
IsTable(t) == /\ DOMAIN t \subseteq Ids /\ t \in [DOMAIN t -> TaskObjects]
              /\ \A id \in DOMAIN t : t[id].id = id
\* The object of an executed slot has gone on, or is being executed.
GoneOn(t, slots, head) ==
    \A x \in slots : x[1] \in DOMAIN t /\ t[x[1]].serial = x[3] =>
        t[x[1]].next = Scheduler!Never \/ t[x[1]].next > x[2] \/ <<x[1], x[3]>> = head
Head_ == IF sc_loop = "running" THEN <<Head(sc_batch).id, Head(sc_batch).serial>> ELSE <<>>
SlotInv ==
    /\ sc_now \in Nat /\ sc_loads \in Nat /\ sc_loop \in {"off", "idle", "round", "running"}
    /\ sc_file \in [sc_Jobs -> [on : BOOLEAN, next : Nat]]
    /\ IsTable(sc_table) /\ (sc_loop # "off" => sc_Jobs \subseteq DOMAIN sc_table)
    /\ sc_batch \in Seq(TaskObjects) /\ (sc_loop = "running" => sc_batch # <<>>)
    /\ \A i \in 1..Len(sc_batch) : sc_batch[i].next <= sc_now /\ sc_batch[i].id \in DOMAIN sc_table
    /\ \A i, k \in 1..Len(sc_batch) : i # k => sc_batch[i].id # sc_batch[k].id
    /\ \A i \in 1..Len(sc_batch) : sc_loop = "round" \/ i > 1 => Slot(sc_batch[i]) \notin sc_fresh
    /\ sc_fresh \subseteq Ids \X Nat \X Nat /\ \A x \in sc_fresh : x[2] <= sc_now
    /\ GoneOn(sc_table, sc_fresh, Head_)

\* What a round goes through: objects of the table, each of a different job.
RoundOf(s, t, due) ==
    /\ s \in Seq(TaskObjects)
    /\ \A i \in 1..Len(s) : s[i].id \in due /\ s[i] = t[s[i].id]
    /\ \A i, k \in 1..Len(s) : i # k => s[i].id # s[k].id

\* The due objects, in any order, are a sequence of objects of different jobs.
LEMMA DueObjects ==
    ASSUME IsFiniteSet(sc_Jobs), NEW t, IsTable(t), NEW due \in SUBSET DOMAIN t,
           NEW S, \A x : x \in S <=> \E id \in due : x = t[id], NEW s \in Scheduler!SetToSeqs(S)
    PROVE  RoundOf(s, t, due)
<1>0. S = {t[id] : id \in due}
  OBVIOUS
<1>1. IsFiniteSet(S)
  <2>1. IsFiniteSet(sc_Jobs \cup {Scheduler!Beat})
    BY FS_Singleton, FS_Union
  <2>2. IsFiniteSet(due)
    BY <2>1, FS_Subset DEF IsTable, Ids
  <2> DEFINE g == [id \in due |-> t[id]]
  <2>3. g \in Surjection(due, S)
    BY <1>0 DEF Surjection
  <2> HIDE DEF g
  <2>. QED  BY <2>2, <2>3, FS_Surjection
<1>2. PICK n \in Nat : /\ s \in [1..n -> S]
                       /\ \A i, k \in 1..n : i # k => s[i] # s[k]
  <2>1. Scheduler!Cardinality(S) \in Nat
    <3>1. Scheduler!Cardinality(S) = Cardinality(S)
      BY DEF Scheduler!Cardinality, Cardinality
    <3>. QED  BY <1>1, <3>1, FS_CardinalityType
  <2>2. /\ s \in [1..Scheduler!Cardinality(S) -> S]
        /\ \A i, k \in 1..Scheduler!Cardinality(S) : i # k => s[i] # s[k]
    BY DEF Scheduler!SetToSeqs
  <2>. QED  BY <2>1, <2>2
<1>3. S \subseteq TaskObjects
  BY DEF IsTable
<1>4. s \in Seq(TaskObjects) /\ Len(s) = n
  <2>. QED  BY <1>2, <1>3
<1>5. \A i \in 1..n : s[i].id \in due /\ s[i] = t[s[i].id]
  <2>1. ASSUME NEW i \in 1..n PROVE s[i].id \in due /\ s[i] = t[s[i].id]
    <3>1. PICK id \in due : s[i] = t[id]
      BY <1>2
    <3>2. t[id].id = id
      BY DEF IsTable
    <3>. QED  BY <3>1, <3>2
  <2>. QED  BY <2>1
<1>. QED  BY <1>2, <1>4, <1>5 DEF RoundOf

LEMMA LoadedIsTable ==
    ASSUME SlotInv
    PROVE  /\ IsTable(Scheduler!Loaded) /\ sc_Jobs \subseteq DOMAIN Scheduler!Loaded /\ DOMAIN sc_table \subseteq DOMAIN Scheduler!Loaded
           /\ IsTable(Scheduler!WithBeat(Scheduler!Loaded)) /\ sc_Jobs \subseteq DOMAIN Scheduler!WithBeat(Scheduler!Loaded)
<1>1. ASSUME NEW id \in sc_Jobs \cup DOMAIN sc_table
      PROVE  Scheduler!Loaded[id] \in TaskObjects /\ Scheduler!Loaded[id].id = id
  <2>1. CASE id \in sc_Jobs
    <3> DEFINE next == IF sc_file[id].next = Scheduler!Never /\ id \notin sc_At THEN Scheduler!ComputeNext(id) ELSE sc_file[id].next
               new == [id |-> id, serial |-> sc_loads + 1, on |-> sc_file[id].on, next |-> next]
    <3>1. next \in Nat /\ sc_file[id].on \in BOOLEAN /\ sc_loads + 1 \in Nat
      BY <2>1 DEF SlotInv, Scheduler!ComputeNext, Scheduler!Never
    <3>2. Scheduler!Loaded[id] = new
      BY <2>1 DEF Scheduler!Loaded
    <3> HIDE DEF next
    <3>. QED  BY <2>1, <3>1, <3>2 DEF TaskObjects, Ids
  <2>2. CASE id \notin sc_Jobs
    BY <2>2 DEF Scheduler!Loaded, SlotInv, IsTable
  <2>. QED  BY <2>1, <2>2
<1>2. DOMAIN Scheduler!Loaded = sc_Jobs \cup DOMAIN sc_table /\ Scheduler!Loaded = [id \in sc_Jobs \cup DOMAIN sc_table |-> Scheduler!Loaded[id]]
  BY DEF Scheduler!Loaded
<1>3. DOMAIN sc_table \subseteq Ids
  BY DEF SlotInv, IsTable
<1>4. IsTable(Scheduler!Loaded)
  BY <1>1, <1>2, <1>3 DEF IsTable, Ids
<1>5. ASSUME NEW id \in DOMAIN Scheduler!Loaded \cup {Scheduler!Beat}
      PROVE  Scheduler!WithBeat(Scheduler!Loaded)[id] \in TaskObjects /\ Scheduler!WithBeat(Scheduler!Loaded)[id].id = id
  <2>1. CASE id = Scheduler!Beat
    <3>1. Scheduler!WithBeat(Scheduler!Loaded)[id] = [id |-> Scheduler!Beat, serial |-> sc_loads + 1, on |-> TRUE, next |-> sc_now + 2]
      BY <2>1 DEF Scheduler!WithBeat
    <3>2. sc_loads + 1 \in Nat /\ sc_now + 2 \in Nat
      BY DEF SlotInv
    <3>. QED  BY <2>1, <3>1, <3>2 DEF TaskObjects, Ids
  <2>2. CASE id # Scheduler!Beat
    BY <1>4, <2>2 DEF Scheduler!WithBeat, IsTable
  <2>. QED  BY <2>1, <2>2
<1>6. DOMAIN Scheduler!WithBeat(Scheduler!Loaded) = DOMAIN Scheduler!Loaded \cup {Scheduler!Beat}
      /\ Scheduler!WithBeat(Scheduler!Loaded) = [id \in DOMAIN Scheduler!Loaded \cup {Scheduler!Beat} |-> Scheduler!WithBeat(Scheduler!Loaded)[id]]
  BY DEF Scheduler!WithBeat
<1>7. IsTable(Scheduler!WithBeat(Scheduler!Loaded))
  BY <1>2, <1>3, <1>5, <1>6 DEF IsTable, Ids
<1>. QED  BY <1>2, <1>4, <1>6, <1>7

LEMMA SlotStep == ASSUME IsFiniteSet(sc_Jobs), SlotInv, [Scheduler!Next]_(Scheduler!vars) PROVE SlotInv'
<1>1. ASSUME NEW t, IsTable(t), sc_Jobs \subseteq DOMAIN t, DOMAIN sc_table \subseteq DOMAIN t,
             sc_table' = t, sc_fresh' = {}, sc_loads' = sc_loads + 1,
             sc_loop' \in {"off", "idle", "round", "running"}, sc_loop' = "running" => sc_batch # <<>>,
             UNCHANGED <<sc_file, sc_batch, sc_now>>
      PROVE  SlotInv'
  <2>1. GoneOn(sc_table, sc_fresh, Head_)'
    BY <1>1 DEF GoneOn
  <2>2. IsTable(sc_table') /\ sc_Jobs \subseteq DOMAIN sc_table' /\ sc_loads' \in Nat
    BY <1>1 DEF SlotInv
  <2>3. \A i \in 1..Len(sc_batch) : sc_batch[i].id \in DOMAIN sc_table'
    BY <1>1 DEF SlotInv
  <2>. QED  BY <1>1, <2>1, <2>2, <2>3 DEF SlotInv
<1>2. CASE Scheduler!Start
  BY <1>1, <1>2, LoadedIsTable DEF Scheduler!Start, Scheduler!WithBeat
<1>3. CASE Scheduler!Reload
  BY <1>1, <1>3, LoadedIsTable DEF Scheduler!Reload, SlotInv
<1>4. CASE Scheduler!Stop
  <2>1. IsTable(<<>>)
    BY DEF IsTable
  <2>2. GoneOn(sc_table, sc_fresh, Head_)'
    BY <1>4 DEF Scheduler!Stop, GoneOn
  <2>. QED  BY <1>4, <2>1, <2>2 DEF Scheduler!Stop, SlotInv
<1>5. ASSUME UNCHANGED <<sc_table, sc_loop, sc_batch, sc_fresh>>, sc_now' \in Nat, sc_now <= sc_now', sc_loads' \in Nat,
             sc_file' \in [sc_Jobs -> [on : BOOLEAN, next : Nat]]
      PROVE  SlotInv'
  <2>1. GoneOn(sc_table, sc_fresh, Head_)'
    BY <1>5 DEF GoneOn, Head_, SlotInv
  <2>2. \A i \in 1..Len(sc_batch) : sc_batch[i].next <= sc_now'
    <3>1. ASSUME NEW i \in 1..Len(sc_batch) PROVE sc_batch[i].next \in Nat /\ sc_batch[i].next <= sc_now
      <4>1. sc_batch \in Seq(TaskObjects) /\ sc_batch[i].next <= sc_now
        BY DEF SlotInv
      <4>2. sc_batch[i] \in TaskObjects
        BY <4>1
      <4>. QED  BY <4>1, <4>2 DEF TaskObjects
    <3>2. sc_now \in Nat
      BY DEF SlotInv
    <3>. QED  BY <1>5, <3>1, <3>2
  <2>3. \A x \in sc_fresh : x[2] <= sc_now'
    BY <1>5 DEF SlotInv
  <2>. QED  BY <1>5, <2>1, <2>2, <2>3 DEF SlotInv
<1>6. ASSUME NEW j \in sc_Jobs, Scheduler!Edit(j) PROVE SlotInv'
  <2>1. sc_file' \in [sc_Jobs -> [on : BOOLEAN, next : Nat]]
    BY <1>6 DEF Scheduler!Edit, SlotInv
  <2>. QED  BY <1>5, <1>6, <2>1 DEF Scheduler!Edit, SlotInv
<1>7. CASE Scheduler!Round
  <2> DEFINE due == {i \in DOMAIN sc_table : Scheduler!ShouldRun(sc_table[i])}
  <2>1. /\ sc_batch' \in Scheduler!SetToSeqs({sc_table[id] : id \in due}) /\ due \in SUBSET DOMAIN sc_table
        /\ sc_loop' = "round" /\ UNCHANGED <<sc_file, sc_table, sc_now, sc_loads, sc_fresh>>
    BY <1>7 DEF Scheduler!Round
  <2>2. \A id \in due : sc_table[id].next # Scheduler!Never /\ sc_table[id].next <= sc_now
    BY DEF Scheduler!ShouldRun, SlotInv, IsTable, TaskObjects
  <2> HIDE DEF due
  <2>3. /\ sc_batch' \in Seq(TaskObjects)
        /\ \A i \in 1..Len(sc_batch') : sc_batch'[i].id \in due /\ sc_batch'[i] = sc_table[sc_batch'[i].id]
        /\ \A i, k \in 1..Len(sc_batch') : i # k => sc_batch'[i].id # sc_batch'[k].id
    <3>1. IsTable(sc_table)
      BY DEF SlotInv
    <3>2. PICK s, S, t, d : /\ s = sc_batch' /\ t = sc_table /\ d = due
                            /\ S = {sc_table[id] : id \in due}
      OBVIOUS
    <3>3. s \in Scheduler!SetToSeqs(S) /\ d \in SUBSET DOMAIN t /\ IsTable(t)
      BY <2>1, <3>1, <3>2
    <3>5. \A x : x \in S <=> \E id \in d : x = t[id]
      BY <3>2
    <3>4. RoundOf(s, t, d)
      <4>1. IsFiniteSet(sc_Jobs)
        OBVIOUS
      <4>. QED  BY <3>3, <3>5, <4>1, DueObjects
    <3>. QED  BY <3>2, <3>4 DEF RoundOf
  <2>4. ASSUME NEW i \in 1..Len(sc_batch') PROVE Slot(sc_batch'[i]) \notin sc_fresh
    <3>1. PICK t : t = sc_batch'[i] /\ t.id \in due /\ t = sc_table[t.id]
      BY <2>3
    <3>2. sc_loop # "running"
      BY <1>7 DEF Scheduler!Round
    <3>3. t.next # Scheduler!Never /\ t.id \in DOMAIN sc_table /\ t.next \in Nat
      BY <2>1, <2>2, <3>1 DEF SlotInv, IsTable, TaskObjects
    <3>5. ASSUME Slot(t) \in sc_fresh PROVE Head_ = <<t.id, t.serial>>
      <4>1. PICK x \in sc_fresh : x = Slot(t)
        BY <3>5
      <4>2. x[1] = t.id /\ x[2] = t.next /\ x[3] = t.serial
        BY <4>1 DEF Slot
      <4>3. x[1] \in DOMAIN sc_table /\ sc_table[x[1]] = t
        BY <3>1, <3>3, <4>2
      <4>4. GoneOn(sc_table, sc_fresh, Head_)
        BY DEF SlotInv
      <4>5. t.next = Scheduler!Never \/ t.next > t.next \/ <<t.id, t.serial>> = Head_
        BY <4>2, <4>3, <4>4 DEF GoneOn
      <4>. QED  BY <3>3, <4>5
    <3>. QED  BY <3>1, <3>2, <3>5 DEF Head_
  <2>5. GoneOn(sc_table, sc_fresh, Head_)'
    <3>1. sc_loop # "running"
      BY <1>7 DEF Scheduler!Round
    <3>. QED  BY <2>1, <3>1 DEF SlotInv, GoneOn, Head_
  <2>6. \A i \in 1..Len(sc_batch') : sc_batch'[i].next <= sc_now /\ sc_batch'[i].id \in DOMAIN sc_table
    BY <2>1, <2>2, <2>3
  <2>7. /\ sc_now' \in Nat /\ sc_loads' \in Nat /\ sc_file' \in [sc_Jobs -> [on : BOOLEAN, next : Nat]]
        /\ IsTable(sc_table') /\ sc_Jobs \subseteq DOMAIN sc_table'
        /\ sc_fresh' \subseteq Ids \X Nat \X Nat /\ \A x \in sc_fresh' : x[2] <= sc_now'
    BY <1>7, <2>1 DEF Scheduler!Round, SlotInv
  <2>. QED  BY <2>1, <2>3, <2>4, <2>5, <2>6, <2>7 DEF SlotInv
<1>8. CASE Scheduler!Execute
  <2>1. /\ sc_loop = "round" /\ sc_batch # <<>> /\ sc_loop' = "running" /\ Head(sc_batch) = sc_batch[1]
        /\ sc_fresh' = sc_fresh \cup {Slot(sc_batch[1])} /\ UNCHANGED <<sc_file, sc_table, sc_batch, sc_now, sc_loads>>
    BY <1>8 DEF Scheduler!Execute, Slot, SlotInv
  <2>2. 1 \in 1..Len(sc_batch) /\ sc_batch[1] \in TaskObjects
    BY <2>1 DEF SlotInv
  <2>3. sc_fresh' \subseteq Ids \X Nat \X Nat /\ \A x \in sc_fresh' : x[2] <= sc_now
    BY <2>1, <2>2 DEF SlotInv, Slot, TaskObjects
  <2>4. \A i \in 1..Len(sc_batch) : i > 1 => Slot(sc_batch[i]) \notin sc_fresh'
    <3>1. \A i \in 1..Len(sc_batch) : i > 1 => sc_batch[i].id # sc_batch[1].id
      BY <2>2 DEF SlotInv
    <3>. QED  BY <2>1, <3>1 DEF SlotInv, Slot
  <2>5. GoneOn(sc_table, sc_fresh, Head_)'
    <3>1. Head_' = <<sc_batch[1].id, sc_batch[1].serial>>
      BY <2>1 DEF Head_
    <3>2. Head_ = <<>>
      BY <2>1 DEF Head_
    <3>3. \A a, b : <<a, b>> # <<>>
      OBVIOUS
    <3>. QED  BY <2>1, <3>1, <3>2, <3>3 DEF SlotInv, GoneOn, Slot
  <2>. QED  BY <2>1, <2>3, <2>4, <2>5 DEF SlotInv
<1>9. ASSUME NEW ok \in BOOLEAN, Scheduler!Executed(ok) PROVE SlotInv'
  <2>1. PICK t : t = sc_batch[1] /\ t \in TaskObjects /\ t = Head(sc_batch) /\ t.id \in DOMAIN sc_table
                 /\ 1 \in 1..Len(sc_batch)
    BY <1>9 DEF Scheduler!Executed, SlotInv
  <2>2. PICK new : new = Scheduler!Advanced(t, ok)
    OBVIOUS
  <2>3. PICK next \in Nat : /\ new = [t EXCEPT !.next = next]
                            /\ next = Scheduler!Never \/ next > sc_now
    <3>1. Scheduler!ComputeNext(t.id) \in Nat /\ (Scheduler!ComputeNext(t.id) = Scheduler!Never \/ Scheduler!ComputeNext(t.id) > sc_now)
      BY DEF Scheduler!ComputeNext, SlotInv, Scheduler!Never
    <3>. QED  BY <2>2, <3>1 DEF Scheduler!Advanced
  <2>4. new \in TaskObjects /\ new.id = t.id /\ new.serial = t.serial /\ new.next = next
    BY <2>1, <2>3 DEF TaskObjects
  <2>5. /\ sc_table' = IF sc_table[t.id].serial = t.serial THEN [sc_table EXCEPT ![t.id] = new] ELSE sc_table
        /\ sc_loop = "running" /\ sc_loop' = "round" /\ sc_batch' = Tail(sc_batch)
        /\ UNCHANGED <<sc_file, sc_now, sc_loads, sc_fresh>>
    BY <1>9, <2>1, <2>2 DEF Scheduler!Executed
  <2>6. IsTable(sc_table') /\ DOMAIN sc_table' = DOMAIN sc_table
    BY <2>1, <2>4, <2>5 DEF SlotInv, IsTable
  <2>7. /\ sc_batch' \in Seq(TaskObjects) /\ Len(sc_batch') = Len(sc_batch) - 1 /\ Len(sc_batch) \in Nat
        /\ \A i \in 1..Len(sc_batch') : sc_batch'[i] = sc_batch[i + 1] /\ i + 1 \in 1..Len(sc_batch) /\ i + 1 > 1
    BY <2>1, <2>5 DEF SlotInv
  <2>8. GoneOn(sc_table', sc_fresh, <<>>)
    <3>1. Head_ = <<t.id, t.serial>>
      BY <2>1, <2>5 DEF Head_
    <3>2. ASSUME NEW x \in sc_fresh, x[1] \in DOMAIN sc_table', sc_table'[x[1]].serial = x[3]
          PROVE  sc_table'[x[1]].next = Scheduler!Never \/ sc_table'[x[1]].next > x[2]
      <4>1. x[2] \in Nat /\ x[2] <= sc_now /\ sc_now \in Nat /\ x[1] \in DOMAIN sc_table
        BY <2>6, <3>2 DEF SlotInv
      <4>2. CASE x[1] = t.id /\ sc_table[t.id].serial = t.serial
        <5>1. sc_table'[x[1]].next = next
          BY <2>1, <2>4, <2>5, <4>2 DEF SlotInv, IsTable
        <5>. QED  BY <2>3, <4>1, <5>1
      <4>3. CASE ~(x[1] = t.id /\ sc_table[t.id].serial = t.serial)
        <5>1. sc_table'[x[1]] = sc_table[x[1]]
          BY <2>5, <4>1, <4>3 DEF SlotInv, IsTable
        <5>2. <<x[1], x[3]>> # <<t.id, t.serial>>
          BY <3>2, <4>3, <5>1
        <5>. QED  BY <3>1, <3>2, <4>1, <5>1, <5>2 DEF SlotInv, GoneOn
      <4>. QED  BY <4>2, <4>3
    <3>. QED  BY <3>2 DEF GoneOn
  <2>9. GoneOn(sc_table, sc_fresh, Head_)'
    BY <2>5, <2>8 DEF Head_
  <2>10. \A i, k \in 1..Len(sc_batch') : i # k => sc_batch'[i].id # sc_batch'[k].id
    <3>1. ASSUME NEW i \in 1..Len(sc_batch'), NEW k \in 1..Len(sc_batch'), i # k
          PROVE  sc_batch'[i].id # sc_batch'[k].id
      <4>1. i + 1 # k + 1 /\ i + 1 \in 1..Len(sc_batch) /\ k + 1 \in 1..Len(sc_batch)
        BY <2>7, <3>1
      <4>. QED  BY <2>7, <4>1 DEF SlotInv
    <3>. QED  BY <3>1
  <2>11. \A i \in 1..Len(sc_batch') : /\ sc_batch'[i].next <= sc_now' /\ sc_batch'[i].id \in DOMAIN sc_table'
                                      /\ Slot(sc_batch'[i]) \notin sc_fresh'
    BY <2>5, <2>6, <2>7 DEF SlotInv
  <2>. QED  BY <2>5, <2>6, <2>7, <2>9, <2>10, <2>11 DEF SlotInv
<1>10. ASSUME NEW ok \in BOOLEAN, Scheduler!Save(ok) PROVE SlotInv'
  <2>1. sc_file' \in [sc_Jobs -> [on : BOOLEAN, next : Nat]]
    <3>1. ASSUME NEW j \in sc_Jobs PROVE sc_table[j].on \in BOOLEAN /\ sc_table[j].next \in Nat
      BY <1>10 DEF Scheduler!Save, SlotInv, IsTable, TaskObjects
    <3>. QED  BY <1>10, <3>1 DEF Scheduler!Save, SlotInv
  <2>2. sc_batch = <<>> /\ sc_loop = "round" /\ sc_loop' = "idle" /\ UNCHANGED <<sc_table, sc_batch, sc_now, sc_loads, sc_fresh>>
    BY <1>10 DEF Scheduler!Save
  <2>3. GoneOn(sc_table, sc_fresh, Head_)'
    BY <2>2 DEF SlotInv, GoneOn, Head_
  <2>. QED  BY <2>1, <2>2, <2>3 DEF SlotInv
<1>11. CASE Scheduler!Sleeps \/ Scheduler!Tick \/ Scheduler!Cease \/ UNCHANGED Scheduler!vars
  BY <1>5, <1>11 DEF Scheduler!Sleeps, Scheduler!Tick, Scheduler!Cease, Scheduler!vars,
       SlotInv
<1>12. CASE Scheduler!Time
  BY <1>5, <1>12 DEF Scheduler!Time, SlotInv
<1>. QED  BY <1>2, <1>3, <1>4, <1>6, <1>7, <1>8, <1>9, <1>10, <1>11, <1>12 DEF
     Scheduler!Next

LEMMA SlotInit == Scheduler!Init => SlotInv
BY DEF Scheduler!Init, SlotInv, IsTable, GoneOn

LEMMA SlotShows == SlotInv => Scheduler!SlotOnce
BY DEF SlotInv, Scheduler!SlotOnce, Slot

LEMMA SchedulerSteps == [AllNext]_All => [Scheduler!Next]_(Scheduler!vars)
BY DEF AllNext, All, Scheduler!vars, schedulerVars

(* For any finite set of jobs, any order of a round and any reloads: a slot    *)
(* that was executed is not executed again from the same table                *)
(* (cron/scheduler.py: the next run is set whether the callback raised or not).*)
THEOREM SlotsRunOnce ==
    ASSUME IsFiniteSet(sc_Jobs)
    PROVE  AllSpec => []SlotOnce
<1>1. AllInit => SlotInv
  BY SlotInit DEF AllInit
<1>2. SlotInv /\ [AllNext]_All => SlotInv'
  BY SlotStep, SchedulerSteps
<1>3. SlotInv => SlotOnce
  BY SlotShows DEF SlotOnce
<1>. QED  BY <1>1, <1>2, <1>3, PTL DEF AllSpec

------------------------------------------------------------------------------
(* The personal WeChat channel and its files. *)

\* Dealt with, or still to be: what the cursor has passed, in memory and on disk.
InHand(m) == m \in wx_over \/ m = wx_current \/ \E i \in DOMAIN wx_batch : wx_batch[i] = m
PassedInv ==
    /\ wx_server \in Seq(wx_Users \cup {wx_Bot}) /\ wx_batch \in Seq(Nat) /\ wx_current \in Nat
    /\ wx_cursor \in Nat /\ wx_disk.cursor \in Nat
    /\ \A m \in Nat \ {0} : m <= wx_cursor \/ m <= wx_disk.cursor => InHand(m)

LEMMA PassedStep == ASSUME PassedInv, [Weixin!Next]_(Weixin!vars) PROVE PassedInv'
<1>1. ASSUME wx_server' \in Seq(wx_Users \cup {wx_Bot}), UNCHANGED <<Weixin!inhand, wx_over>>,
             wx_cursor' \in {wx_cursor, wx_disk.cursor, 0}, wx_disk'.cursor \in {wx_cursor, wx_disk.cursor}
      PROVE  PassedInv'
  <2>1. /\ wx_batch' = wx_batch /\ wx_current' = wx_current /\ wx_over' = wx_over
        /\ wx_cursor' \in Nat /\ wx_disk'.cursor \in Nat
    BY <1>1 DEF Weixin!inhand, PassedInv
  <2>2. \A m \in Nat \ {0} : m <= wx_cursor' \/ m <= wx_disk'.cursor => m <= wx_cursor \/ m <= wx_disk.cursor
    BY <1>1 DEF PassedInv
  <2>. QED  BY <1>1, <2>1, <2>2 DEF PassedInv, InHand
<1>2. ASSUME NEW u \in wx_Users \cup {wx_Bot}, Weixin!UserWrites(u) PROVE PassedInv'
  <2>1. wx_server' \in Seq(wx_Users \cup {wx_Bot})
    BY <1>2 DEF Weixin!UserWrites, PassedInv
  <2>. QED  BY <1>1, <1>2, <2>1 DEF Weixin!UserWrites, Weixin!account
<1>3. CASE Weixin!Start
  BY <1>1, <1>3 DEF Weixin!Start, PassedInv
<1>4. CASE Weixin!QrConfirmed \/ Weixin!QrFails \/ Weixin!QrExpired
  BY <1>1, <1>4 DEF Weixin!QrConfirmed, Weixin!QrFails, Weixin!QrExpired, Weixin!LoginEnds,
       PassedInv
<1>5. ASSUME NEW n \in 1..wx_MaxMessages, NEW b \in BOOLEAN, Weixin!PollOk(n, b) PROVE PassedInv'
  <2>1. /\ wx_batch = <<>> /\ wx_current = 0 /\ n \in wx_cursor + 1 .. Len(wx_server)
        /\ wx_batch' = [i \in 1..n - wx_cursor |-> wx_cursor + i] /\ n \in Nat /\ wx_cursor \in Nat
        /\ UNCHANGED <<wx_server, wx_current, wx_over>>
        /\ wx_cursor' = IF b THEN n ELSE wx_cursor
        /\ wx_disk'.cursor = IF b THEN n ELSE wx_disk.cursor
    BY <1>5 DEF Weixin!PollOk, Weixin!Polling, PassedInv
  <2>2. n - wx_cursor \in Nat /\ wx_batch' \in Seq(Nat)
    BY <2>1
  <2>3. ASSUME NEW m \in Nat \ {0}, m <= wx_cursor' \/ m <= wx_disk'.cursor PROVE InHand(m)'
    <3>1. CASE m <= wx_cursor \/ m <= wx_disk.cursor
      BY <2>1, <3>1 DEF InHand, PassedInv
    <3>2. CASE m > wx_cursor /\ m <= n
      <4>1. m - wx_cursor \in 1..n - wx_cursor /\ wx_cursor + (m - wx_cursor) = m
        BY <2>1, <3>2
      <4>2. wx_batch'[m - wx_cursor] = m
        BY <2>1, <4>1
      <4>3. DOMAIN wx_batch' = 1..n - wx_cursor
        BY <2>1
      <4>. QED  BY <4>1, <4>2, <4>3 DEF InHand
    <3>. QED  BY <2>1, <2>3, <3>1, <3>2
  <2>. QED  BY <2>1, <2>2, <2>3 DEF PassedInv
<1>6. CASE Weixin!PollFails \/ Weixin!SessionExpired \/ Weixin!PauseEnds
  BY <1>1, <1>6 DEF Weixin!PollFails, Weixin!SessionExpired, Weixin!PauseEnds, Weixin!Pause,
       Weixin!account, PassedInv
<1>7. CASE Weixin!Take
  <2>1. PICK h \in Nat : h = Head(wx_batch)
    BY <1>7 DEF Weixin!Take, PassedInv
  <2>2. /\ wx_batch # <<>> /\ wx_current = 0 /\ wx_batch' = Tail(wx_batch) /\ UNCHANGED <<wx_server, wx_cursor>>
        /\ \/ wx_over' = wx_over \cup {h} /\ UNCHANGED <<wx_current, wx_disk>>
           \/ wx_current' = h /\ wx_disk'.cursor = wx_cursor /\ wx_over' = wx_over
    BY <1>7, <2>1 DEF Weixin!Take
  <2>3. /\ wx_batch' \in Seq(Nat) /\ h = wx_batch[1]
        /\ \A i \in DOMAIN wx_batch : i = 1 \/ (i - 1 \in DOMAIN wx_batch' /\ wx_batch'[i - 1] = wx_batch[i])
    <3>1. wx_batch \in Seq(Nat) /\ wx_batch # <<>>
      BY <2>2 DEF PassedInv
    <3>2. PICK q \in Seq(Nat) : q = wx_batch /\ q # <<>>
      BY <3>1
    <3>3. /\ Tail(q) \in Seq(Nat) /\ Head(q) = q[1] /\ DOMAIN Tail(q) = 1..(Len(q) - 1)
          /\ DOMAIN q = 1..Len(q) /\ \A i \in 1..(Len(q) - 1) : Tail(q)[i] = q[i + 1]
      BY <3>2
    <3>4. ASSUME NEW i \in DOMAIN q, i # 1
          PROVE  i - 1 \in DOMAIN Tail(q) /\ Tail(q)[i - 1] = q[i]
      <4>1. i - 1 \in 1..(Len(q) - 1) /\ (i - 1) + 1 = i
        BY <3>2, <3>3, <3>4
      <4>. QED  BY <4>1, <3>3
    <3>. QED  BY <2>1, <2>2, <3>2, <3>3, <3>4
  <2>4. \A m \in Nat \ {0} : InHand(m) => InHand(m)'
    BY <2>2, <2>3 DEF InHand
  <2>. QED  BY <2>1, <2>2, <2>3, <2>4 DEF PassedInv
<1>8. ASSUME NEW t \in BOOLEAN, NEW p \in BOOLEAN, Weixin!Done(t, p) PROVE PassedInv'
  BY <1>8 DEF Weixin!Done, Weixin!account, PassedInv, InHand
<1>9. CASE (\E u \in wx_Users, k \in 1..2 : Weixin!Send(u, k)) \/ \E b \in BOOLEAN : Weixin!SendPart(b)
  BY <1>1, <1>9 DEF Weixin!Send, Weixin!SendPart, Weixin!account, PassedInv
<1>10. ASSUME NEW b \in BOOLEAN, Weixin!Down(b) PROVE PassedInv'
  <2>1. /\ wx_batch' = <<>> /\ wx_current' = 0 /\ wx_cursor' = 0 /\ UNCHANGED wx_server
        /\ wx_disk'.cursor = IF b THEN wx_cursor ELSE wx_disk.cursor
        /\ wx_over' = wx_over \cup {wx_batch[i] : i \in DOMAIN wx_batch} \cup ({wx_current} \ {0})
    BY <1>10 DEF Weixin!Down
  <2>2. \A m \in Nat \ {0} : InHand(m) => m \in wx_over'
    BY <2>1 DEF InHand
  <2>3. ASSUME NEW m \in Nat \ {0}, m <= wx_cursor' \/ m <= wx_disk'.cursor PROVE InHand(m)'
    BY <2>1, <2>2, <2>3 DEF InHand, PassedInv
  <2>. QED  BY <2>1, <2>3 DEF PassedInv
<1>11. CASE UNCHANGED Weixin!vars
  BY <1>1, <1>11 DEF Weixin!vars, Weixin!account, PassedInv
<1>. QED  BY <1>2, <1>3, <1>4, <1>5, <1>6, <1>7, <1>8, <1>9, <1>10, <1>11
          DEF Weixin!Next, Weixin!Leave, Weixin!Publish, Weixin!Stop, Weixin!Crash

LEMMA PassedInit == Weixin!Init => PassedInv
BY DEF Weixin!Init, Weixin!NoFile, PassedInv, InHand

LEMMA PassedShows == PassedInv => Weixin!NothingSkipped
BY DEF PassedInv, Weixin!NothingSkipped, InHand

LEMMA WeixinSteps == [AllNext]_All => [Weixin!Next]_(Weixin!vars)
BY DEF AllNext, All, Weixin!vars, weixinVars, Weixin!account, Weixin!inhand

(* For any users, any window and any crashes: every message the cursor has     *)
(* passed was dealt with or is still in hand (weixin.py: the cursor is saved   *)
(* before the messages of the poll are processed).                             *)
THEOREM NoMessageSkipped == AllSpec => []NothingSkipped
<1>1. AllInit => PassedInv
  BY PassedInit DEF AllInit
<1>2. PassedInv /\ [AllNext]_All => PassedInv'
  BY PassedStep, WeixinSteps
<1>3. PassedInv => NothingSkipped
  BY PassedShows DEF NothingSkipped
<1>. QED  BY <1>1, <1>2, <1>3, PTL DEF AllSpec

\* What the CDN holds of a file: its bytes, or its blocks padded.
MediaInv ==
    /\ md_file \in Seq(Nat)
    /\ md_step \in {"uploaded", "sent", "stored"} =>
          /\ md_size = Len(md_wire.bytes)
          /\ md_wire.bytes = IF md_wire.key = "none" THEN md_file ELSE Media!Padded(md_file)
    /\ md_step = "stored" /\ md_wire.key # "bad" => md_stored = md_file

LEMMA Quotients ==
    ASSUME NEW n \in Nat, NEW b \in Nat \ {0}
    PROVE  \E q \in Nat, r \in 0..b - 1 : q = n \div b /\ r = n % b /\ q * b + r = n
<1>1. n % b = n - (n \div b) * b /\ n % b \in 0..b - 1 /\ n \div b \in Nat
  OBVIOUS
<1>. QED  BY <1>1

\* A product by something positive is 0 or as large as the factor.
LEMMA Spacing ==
    ASSUME NEW b \in Nat \ {0}, NEW p \in Nat, NEW q \in Nat, NEW r \in 0..b - 1, NEW s \in 0..b - 1,
           p * b + r = q * b + s
    PROVE  p = q /\ r = s
<1>1. ASSUME NEW x \in Nat, NEW y \in Nat, x < y PROVE y * b >= x * b + b
  <2>1. PICK d \in Nat : y = x + 1 + d
    <3>1. y - x - 1 \in Nat /\ y = x + 1 + (y - x - 1)
      BY <1>1
    <3>. QED  BY <3>1
  <2>2. y * b = x * b + b + d * b /\ d * b \in Nat
    BY <2>1
  <2>. QED  BY <2>2
<1>2. p * b \in Nat /\ q * b \in Nat
  OBVIOUS
<1>3. CASE p < q
  BY <1>1, <1>2, <1>3
<1>4. CASE q < p
  BY <1>1, <1>2, <1>4
<1>. QED  BY <1>2, <1>3, <1>4

LEMMA NextBlock ==
    ASSUME NEW n \in Nat, NEW b \in Nat \ {0}
    PROVE  /\ ((n + 1 + (b - 1)) \div b) * b = n + (b - (n % b))
           /\ (n + (b - (n % b))) % b = 0
<1>1. PICK q \in Nat, r \in 0..b - 1 : r = n % b /\ q * b + r = n
  BY Quotients
<1>2. PICK m \in Nat : m = n + 1 + (b - 1) /\ m = n + b
  OBVIOUS
<1>3. PICK u \in Nat, v \in 0..b - 1 : u = m \div b /\ u * b + v = m
  BY Quotients
<1>4. q + 1 \in Nat /\ (q + 1) * b = q * b + b /\ q * b \in Nat
  OBVIOUS
<1>5. u = q + 1
  <2>1. u * b + v = (q + 1) * b + r
    BY <1>1, <1>2, <1>3, <1>4
  <2>. QED  BY <1>4, <2>1, Spacing
<1>6. (m \div b) * b = n + (b - r)
  BY <1>1, <1>3, <1>4, <1>5
<1>7. PICK k \in Nat : k = n + (b - r) /\ k = (q + 1) * b
  BY <1>1, <1>4
<1>8. PICK x \in Nat, y \in 0..b - 1 : y = k % b /\ x * b + y = k
  BY Quotients
<1>9. y = 0
  <2>1. x * b + y = (q + 1) * b + 0 /\ 0 \in 0..b - 1
    BY <1>4, <1>7, <1>8
  <2>. QED  BY <1>4, <2>1, Spacing
<1>10. n % b = r
  BY <1>1
<1>11. (n + (b - (n % b))) % b = 0
  <2>1. n + (b - (n % b)) = k
    BY <1>7, <1>10
  <2>. QED  BY <1>8, <1>9, <2>1
<1>12. ((n + 1 + (b - 1)) \div b) * b = n + (b - (n % b))
  <2>1. n + 1 + (b - 1) = m
    BY <1>2
  <2>. QED  BY <1>6, <1>10, <2>1
<1>. QED  BY <1>11, <1>12

\* The announced size is that of the padded file, and the padding comes off again.
LEMMA PaddingIsUndone ==
    ASSUME NEW f \in Seq(Nat), md_Block \in Nat \ {0}
    PROVE  Len(Media!Padded(f)) = Media!PaddedSize(Len(f)) /\ Media!Unpadded(Media!Padded(f)) = f
<1>1. PICK n \in Nat : n = Len(f)
  OBVIOUS
<1>2. PICK p \in Nat : p = md_Block - (n % md_Block) /\ p \in 1..md_Block
  <2>1. PICK r \in 0..md_Block - 1 : r = n % md_Block
    BY Quotients
  <2>2. md_Block - r \in Nat /\ md_Block - r \in 1..md_Block
    BY <2>1
  <2>. QED  BY <2>1, <2>2
<1>3. n + p = Media!PaddedSize(n) /\ (n + p) % md_Block = 0
  BY <1>2, NextBlock DEF Media!PaddedSize
<1>4. PICK d : d = Media!Padded(f)
  OBVIOUS
<1>5. d = f \o [i \in 1..p |-> p]
  BY <1>1, <1>2, <1>4 DEF Media!Padded, Media!Fill
<1>6. /\ d \in Seq(Nat) /\ Len(d) = n + p
      /\ \A i \in 1..n : d[i] = f[i]
      /\ \A i \in n + 1 .. n + p : d[i] = p
  <2>1. PICK e \in Seq(Nat) : e = [i \in 1..p |-> p] /\ Len(e) = p /\ \A i \in 1..p : e[i] = p
    <3> DEFINE e == [i \in 1..p |-> p]
    <3>1. e \in Seq(Nat) /\ Len(e) = p /\ \A i \in 1..p : e[i] = p
      OBVIOUS
    <3> HIDE DEF e
    <3>. QED  BY <3>1 DEF e
  <2>2. d = f \o e
    BY <1>5, <2>1
  <2>3. d \in Seq(Nat) /\ Len(d) = n + p
    BY <1>1, <1>2, <2>1, <2>2
  <2>4. ASSUME NEW i \in 1..n PROVE d[i] = f[i]
    BY <1>1, <2>2
  <2>5. ASSUME NEW i \in n + 1 .. n + p PROVE d[i] = p
    <3>1. i - n \in 1..p
      BY <1>1, <1>2
    <3>2. i \in 1 .. n + p /\ ~(i <= n)
      BY <1>1, <1>2
    <3>3. d[i] = e[i - n]
      BY <1>1, <1>2, <2>1, <2>2, <3>2, ConcatProperties
    <3>. QED  BY <2>1, <3>1, <3>3
  <2>. QED  BY <2>3, <2>4, <2>5
<1>7. d # <<>> /\ d[Len(d)] = p /\ Len(d) - p + 1 = n + 1 /\ Len(d) - p = n
  BY <1>2, <1>6
<1>8. Media!LooksPadded(d)
  BY <1>2, <1>3, <1>6, <1>7 DEF Media!LooksPadded, Media!PadLength
<1>9. Media!Unpadded(d) = SubSeq(d, 1, n)
  BY <1>7, <1>8 DEF Media!Unpadded, Media!PadLength
<1>10. SubSeq(d, 1, n) = f
  BY <1>1, <1>2, <1>6
<1>. QED  BY <1>1, <1>3, <1>4, <1>6, <1>9, <1>10

LEMMA MediaStep == ASSUME md_Block \in Nat \ {0}, MediaInv, [Media!Next]_(Media!vars) PROVE MediaInv'
<1>1. ASSUME NEW f \in Media!Files, NEW k \in Media!MediaTypes, Media!Choose(f, k) PROVE MediaInv'
  <2>1. f \in Seq(Nat)
    <3>1. PICK n \in 0..md_MaxLength : f \in [1..n -> Media!Bytes]
      BY DEF Media!Files
    <3>2. n \in Nat /\ Media!Bytes \subseteq Nat
      BY <3>1 DEF Media!Bytes
    <3>3. f \in [1..n -> Nat]
      BY <3>1, <3>2
    <3>. QED  BY <3>2, <3>3
  <2>. QED  BY <1>1, <2>1 DEF Media!Choose, MediaInv
<1>2. ASSUME NEW a \in BOOLEAN, NEW p \in BOOLEAN, Media!Upload(a, p) PROVE MediaInv'
  <2>1. Len(Media!Padded(md_file)) = Media!PaddedSize(Len(md_file))
    BY PaddingIsUndone DEF MediaInv
  <2>. QED  BY <1>2, <2>1 DEF Media!Upload, MediaInv, Media!Padded
<1>3. ASSUME NEW b \in BOOLEAN, Media!SendItem(b) PROVE MediaInv'
  BY <1>3 DEF Media!SendItem, MediaInv, Media!Padded
<1>4. ASSUME NEW k \in Media!KeyForms, Media!PeerSends(k) PROVE MediaInv'
  BY <1>4 DEF Media!PeerSends, MediaInv, Media!Padded
<1>5. ASSUME NEW a \in Media!Addresses, NEW r \in [1..2 -> Media!Answers], Media!Download(a, r) PROVE MediaInv'
  <2>1. Media!Unpadded(Media!Padded(md_file)) = md_file
    BY PaddingIsUndone DEF MediaInv
  <2>2. /\ md_step = "sent" /\ UNCHANGED <<md_file, md_size, md_wire>>
        /\ \/ md_step' = "stored" /\ md_stored' = Media!Decrypted(md_wire)
           \/ md_step' = "failed" /\ UNCHANGED md_stored
    BY <1>5 DEF Media!Download
  <2>3. md_wire.key # "bad" => Media!Decrypted(md_wire) = md_file
    BY <2>1, <2>2 DEF Media!Decrypted, MediaInv
  <2>4. md_wire'.bytes = IF md_wire'.key = "none" THEN md_file' ELSE Media!Padded(md_file')
    BY <2>2 DEF MediaInv
  <2>. QED  BY <2>2, <2>3 DEF MediaInv, Media!Padded
<1>6. CASE UNCHANGED Media!vars
  BY <1>6 DEF Media!vars, MediaInv, Media!Padded
<1>. QED  BY <1>1, <1>2, <1>3, <1>4, <1>5, <1>6 DEF Media!Next

LEMMA MediaInit == Media!Init => MediaInv
BY DEF Media!Init, MediaInv

LEMMA MediaShows == MediaInv => Media!FilesSurvive
BY DEF MediaInv, Media!FilesSurvive

LEMMA MediaSteps == [AllNext]_All => [Media!Next]_(Media!vars)
BY DEF AllNext, All, Media!vars, mediaVars

(* For every length of a block and every file: the size announced before the   *)
(* encryption is that of what is uploaded, and a file that is stored is the    *)
(* one that was sent, unless its key could not be parsed (weixin.py).          *)
THEOREM FilesComeBack ==
    ASSUME md_Block \in Nat \ {0}
    PROVE  AllSpec => []FilesSurvive
<1>1. AllInit => MediaInv
  BY MediaInit DEF AllInit
<1>2. MediaInv /\ [AllNext]_All => MediaInv'
  BY MediaStep, MediaSteps
<1>3. MediaInv => FilesSurvive
  BY MediaShows DEF FilesSurvive
<1>. QED  BY <1>1, <1>2, <1>3, PTL DEF AllSpec

------------------------------------------------------------------------------
(* WhatsApp and its bridge. *)

Up == WhatsApp!Frame("connected")
Ended == WhatsApp!Frame("disconnected")
DownFrames == {Up, Ended} \cup {WhatsApp!Message(n) : n \in Nat}
\* No frame of d takes back what was told before, or the last state it tells is
\* that WhatsApp is connected.
Quiet(d) == \A j \in 1..Len(d) : d[j] # Ended
TellsUp(d) == \E i \in 1..Len(d) : d[i] = Up /\ \A j \in i..Len(d) : d[j] # Ended
\* The flag and the timeout of the bridge go together; a client that is not set
\* up yet takes WhatsApp for connected and has nothing to read; and a member
\* knows that WhatsApp is open, or reads it last.
BridgeInv == /\ wa_wa = "closed" => wa_timer
             /\ wa_reconnecting => wa_timer
MemberInv ==
    /\ wa_down \in Seq(DownFrames) /\ wa_posted \in Nat
    /\ wa_client # "none" => wa_chan = "up"
    /\ wa_client = "greeting" => wa_connected /\ wa_down = <<>>
    /\ wa_client = "member" /\ wa_wa = "open" => (wa_connected /\ Quiet(wa_down)) \/ TellsUp(wa_down)
WhatsAppInv == BridgeInv /\ MemberInv

LEMMA BridgeStep == ASSUME BridgeInv, [WhatsApp!Next]_(WhatsApp!vars) PROVE BridgeInv'
<1>1. CASE UNCHANGED WhatsApp!service
  BY <1>1 DEF WhatsApp!service, BridgeInv
<1>2. CASE WhatsApp!BridgeStarts \/ WhatsApp!WaConnects \/ WhatsApp!BridgeEnds \/ WhatsApp!WaOpens \/ WhatsApp!TimerFires
  BY <1>2 DEF WhatsApp!BridgeStarts, WhatsApp!WaConnects, WhatsApp!BridgeEnds,
       WhatsApp!WaOpens, WhatsApp!TimerFires, BridgeInv
<1>3. ASSUME NEW b \in BOOLEAN, WhatsApp!WaCloses(b) PROVE BridgeInv'
  BY <1>3 DEF WhatsApp!WaCloses, BridgeInv
<1>4. CASE \/ WhatsApp!Start \/ WhatsApp!Connect \/ WhatsApp!ConnectFails \/ WhatsApp!Stop \/ \E b \in BOOLEAN : WhatsApp!Lost(b)
           \/ WhatsApp!ReadGreeting \/ WhatsApp!AuthTimeout \/ WhatsApp!HandleCommand
           \/ \E n \in wa_relaying, ok \in BOOLEAN : WhatsApp!Relayed(n, ok)
           \/ WhatsApp!UserWrites \/ WhatsApp!HandleBridgeMessage \/ WhatsApp!Send \/ UNCHANGED WhatsApp!vars
  BY <1>1, <1>4 DEF WhatsApp!Start, WhatsApp!Connect, WhatsApp!ConnectFails, WhatsApp!Stop,
       WhatsApp!Lost, WhatsApp!ReadGreeting, WhatsApp!AuthTimeout,
     WhatsApp!HandleCommand, WhatsApp!Relayed, WhatsApp!UserWrites, WhatsApp!HandleBridgeMessage, WhatsApp!Send, WhatsApp!vars
<1>. QED  BY <1>2, <1>3, <1>4 DEF WhatsApp!Next

\* One more frame that takes nothing back.
LEMMA OneMore ==
    ASSUME NEW d \in Seq(DownFrames), NEW f \in DownFrames, f # Ended
    PROVE  /\ Append(d, f) \in Seq(DownFrames)
           /\ Quiet(d) => Quiet(Append(d, f))
           /\ TellsUp(d) => TellsUp(Append(d, f))
           /\ f = Up => TellsUp(Append(d, f))
<1> DEFINE e == Append(d, f)
<1>1. /\ e \in Seq(DownFrames) /\ Len(e) = Len(d) + 1 /\ Len(d) \in Nat
      /\ e[Len(d) + 1] = f /\ \A i \in 1..Len(d) : e[i] = d[i]
  OBVIOUS
<1> HIDE DEF e
<1>2. ASSUME Quiet(d) PROVE Quiet(e)
  <2>1. ASSUME NEW j \in 1..Len(e) PROVE e[j] # Ended
    <3>1. j = Len(d) + 1 \/ j \in 1..Len(d)
      BY <1>1
    <3>. QED  BY <1>1, <1>2, <3>1 DEF Quiet
  <2>. QED  BY <2>1 DEF Quiet
<1>3. ASSUME TellsUp(d) PROVE TellsUp(e)
  <2>1. PICK i \in 1..Len(d) : d[i] = Up /\ \A j \in i..Len(d) : d[j] # Ended
    BY <1>3 DEF TellsUp
  <2>2. i \in 1..Len(e) /\ e[i] = Up
    BY <1>1, <2>1
  <2>3. ASSUME NEW j \in i..Len(e) PROVE e[j] # Ended
    <3>1. j = Len(d) + 1 \/ j \in i..Len(d)
      BY <1>1
    <3>2. i..Len(d) \subseteq 1..Len(d)
      OBVIOUS
    <3>. QED  BY <1>1, <2>1, <3>1, <3>2
  <2>. QED  BY <2>2, <2>3 DEF TellsUp
<1>4. ASSUME f = Up PROVE TellsUp(e)
  <2>1. Len(e) \in 1..Len(e) /\ e[Len(e)] = Up /\ \A j \in Len(e)..Len(e) : j = Len(e)
    BY <1>1, <1>4
  <2>. QED  BY <2>1, <1>4 DEF TellsUp
<1>. QED  BY <1>1, <1>2, <1>3, <1>4 DEF e

\* The next frame is read.
LEMMA OneLess ==
    ASSUME NEW d \in Seq(DownFrames), d # <<>>
    PROVE  /\ Tail(d) \in Seq(DownFrames) /\ Head(d) \in DownFrames
           /\ Quiet(d) => Quiet(Tail(d)) /\ Head(d) # Ended
           /\ TellsUp(d) => TellsUp(Tail(d)) \/ (Quiet(Tail(d)) /\ Head(d) = Up)
<1> DEFINE e == Tail(d)
<1>1. /\ e \in Seq(DownFrames) /\ Len(d) = Len(e) + 1 /\ Len(e) \in Nat /\ Head(d) = d[1]
      /\ 1 \in 1..Len(d) /\ \A i \in 1..Len(e) : e[i] = d[i + 1] /\ i + 1 \in 1..Len(d)
  OBVIOUS
<1> HIDE DEF e
<1>2. Quiet(d) => Quiet(e) /\ Head(d) # Ended
  BY <1>1 DEF Quiet
<1>3. ASSUME TellsUp(d) PROVE TellsUp(e) \/ (Quiet(e) /\ Head(d) = Up)
  <2>1. PICK i \in 1..Len(d) : d[i] = Up /\ \A j \in i..Len(d) : d[j] # Ended
    BY <1>3 DEF TellsUp
  <2>2. CASE i = 1
    <3>1. ASSUME NEW j \in 1..Len(e) PROVE e[j] # Ended
      <4>1. j + 1 \in i..Len(d) /\ e[j] = d[j + 1]
        BY <1>1, <2>2
      <4>. QED  BY <2>1, <4>1
    <3>. QED  BY <1>1, <2>1, <2>2, <3>1 DEF Quiet
  <2>3. CASE i # 1
    <3>1. i - 1 \in 1..Len(e) /\ (i - 1) + 1 = i
      BY <1>1, <2>3
    <3>3. e[i - 1] = d[i]
      BY <1>1, <3>1
    <3>2. ASSUME NEW j \in i - 1 .. Len(e) PROVE e[j] # Ended
      <4>1. j + 1 \in i..Len(d) /\ e[j] = d[j + 1]
        BY <1>1, <2>3
      <4>. QED  BY <2>1, <4>1
    <3>. QED  BY <2>1, <3>1, <3>2, <3>3 DEF TellsUp
  <2>. QED  BY <2>2, <2>3
<1>4. Head(d) \in DownFrames
  BY <1>1
<1>. QED  BY <1>1, <1>2, <1>3, <1>4 DEF e

LEMMA FramesDiffer ==
    /\ Up \in DownFrames /\ Ended \in DownFrames /\ Up # Ended /\ Up[1] # "message"
    /\ \A n \in Nat : WhatsApp!Message(n) \in DownFrames /\ WhatsApp!Message(n) # Ended
    /\ \A f \in DownFrames : f = Up \/ f = Ended \/ (f[1] = "message" /\ f # Up)
<1>1. ASSUME NEW n \in Nat
      PROVE  WhatsApp!Message(n) # Ended /\ WhatsApp!Message(n) # Up /\ WhatsApp!Message(n)[1] = "message"
  BY DEF WhatsApp!Message, Ended, Up, WhatsApp!Frame
<1>2. Up # Ended /\ Up[1] # "message"
  BY DEF Ended, Up, WhatsApp!Frame
<1>. QED  BY <1>1, <1>2 DEF DownFrames

LEMMA MemberStep == ASSUME MemberInv, [WhatsApp!Next]_(WhatsApp!vars) PROVE MemberInv'
<1>1. ASSUME wa_client' = wa_client, wa_chan' = wa_chan, wa_down' = wa_down, wa_connected' = wa_connected,
             wa_posted' = wa_posted, wa_wa' = "open" => wa_wa = "open"
      PROVE  MemberInv'
  BY <1>1 DEF MemberInv
<1>2. ASSUME wa_client' \in {"none", "refused"}, wa_client' = "refused" => wa_client # "none" /\ wa_chan' = wa_chan,
             wa_down' = <<>> \/ wa_down' = wa_down, wa_posted' = wa_posted
      PROVE  MemberInv'
  <2>1. <<>> \in Seq(DownFrames)
    OBVIOUS
  <2>2. wa_down' \in Seq(DownFrames) /\ wa_client' # "greeting" /\ wa_client' # "member" /\ wa_posted' \in Nat
    BY <1>2, <2>1 DEF MemberInv
  <2>. QED  BY <1>2, <2>2 DEF MemberInv
<1>3. CASE WhatsApp!BridgeStarts \/ WhatsApp!WaConnects \/ WhatsApp!TimerFires \/ WhatsApp!HandleCommand \/ WhatsApp!Send
           \/ (\E n \in wa_relaying, ok \in BOOLEAN : WhatsApp!Relayed(n, ok)) \/ UNCHANGED WhatsApp!vars
  BY <1>1, <1>3 DEF WhatsApp!BridgeStarts, WhatsApp!WaConnects, WhatsApp!TimerFires,
       WhatsApp!HandleCommand, WhatsApp!Send, WhatsApp!Relayed, WhatsApp!vars,
     WhatsApp!service, WhatsApp!link, WhatsApp!flags, WhatsApp!inbox
<1>4. CASE WhatsApp!BridgeEnds \/ WhatsApp!Stop \/ \E b \in BOOLEAN : WhatsApp!Lost(b)
  BY <1>2, <1>4 DEF WhatsApp!BridgeEnds, WhatsApp!Stop, WhatsApp!Lost, WhatsApp!NoLink,
       WhatsApp!inbox
<1>5. CASE WhatsApp!WaOpens
  <2>1. /\ UNCHANGED <<wa_client, wa_chan, wa_connected, wa_posted>>
        /\ wa_down' = IF wa_client = "member" THEN Append(wa_down, Up) ELSE wa_down
    BY <1>5 DEF WhatsApp!WaOpens, WhatsApp!Broadcast, WhatsApp!flags, WhatsApp!inbox, Up
  <2>2. CASE wa_client = "member"
    BY <2>1, <2>2, OneMore, FramesDiffer DEF MemberInv
  <2>3. CASE wa_client # "member"
    BY <2>1, <2>3 DEF MemberInv
  <2>. QED  BY <2>2, <2>3
<1>6. ASSUME NEW b \in BOOLEAN, WhatsApp!WaCloses(b) PROVE MemberInv'
  <2>1. /\ UNCHANGED <<wa_client, wa_chan, wa_connected, wa_posted>> /\ wa_wa' # "open"
        /\ wa_down' = IF wa_client = "member" THEN Append(wa_down, Ended) ELSE wa_down
    BY <1>6 DEF WhatsApp!WaCloses, WhatsApp!Broadcast, WhatsApp!flags, WhatsApp!inbox, Ended
  <2>2. Append(wa_down, Ended) \in Seq(DownFrames)
    BY FramesDiffer DEF MemberInv
  <2>. QED  BY <2>1, <2>2 DEF MemberInv
<1>7. CASE WhatsApp!Start \/ WhatsApp!ConnectFails
  BY <1>7 DEF WhatsApp!Start, WhatsApp!ConnectFails, WhatsApp!flags, WhatsApp!link,
       WhatsApp!inbox, WhatsApp!service, MemberInv
<1>8. CASE WhatsApp!Connect
  BY <1>8 DEF WhatsApp!Connect, WhatsApp!inbox, MemberInv, Quiet
<1>9. CASE WhatsApp!ReadGreeting \/ WhatsApp!AuthTimeout
  BY <1>9 DEF WhatsApp!ReadGreeting, WhatsApp!AuthTimeout, WhatsApp!flags, WhatsApp!inbox,
       WhatsApp!service, MemberInv, Quiet
<1>10. CASE WhatsApp!UserWrites
  <2>1. /\ UNCHANGED <<wa_client, wa_chan, wa_connected, wa_wa>> /\ wa_posted' = wa_posted + 1
        /\ wa_down' = IF wa_client = "member" THEN Append(wa_down, WhatsApp!Message(wa_posted + 1)) ELSE wa_down
    BY <1>10 DEF WhatsApp!UserWrites, WhatsApp!Broadcast, WhatsApp!flags, WhatsApp!service
  <2>2. wa_posted + 1 \in Nat
    BY DEF MemberInv
  <2>3. CASE wa_client = "member"
    BY <2>1, <2>2, <2>3, OneMore, FramesDiffer DEF MemberInv
  <2>4. CASE wa_client # "member"
    BY <2>1, <2>2, <2>4 DEF MemberInv
  <2>. QED  BY <2>3, <2>4
<1>11. CASE WhatsApp!HandleBridgeMessage
  <2>1. /\ UNCHANGED <<wa_client, wa_chan, wa_posted, wa_wa>> /\ wa_down # <<>> /\ wa_down' = Tail(wa_down)
        /\ wa_connected' = IF Head(wa_down)[1] # "message" THEN Head(wa_down) = Up ELSE wa_connected
    BY <1>11 DEF WhatsApp!HandleBridgeMessage, WhatsApp!service, Up
  <2>2. PICK d \in Seq(DownFrames) : d = wa_down
    BY DEF MemberInv
  <2>3. /\ Tail(d) \in Seq(DownFrames) /\ d # <<>>
        /\ Quiet(d) => Quiet(Tail(d)) /\ Head(d) # Ended
        /\ TellsUp(d) => TellsUp(Tail(d)) \/ (Quiet(Tail(d)) /\ Head(d) = Up)
    BY <2>1, <2>2, OneLess
  <2>4. PICK h \in DownFrames : h = Head(d)
    BY <2>2, <2>3
  <2>5. h = Up \/ h = Ended \/ (h[1] = "message" /\ h # Up)
    BY FramesDiffer
  <2>6. CASE wa_client = "member" /\ wa_wa = "open" /\ wa_connected /\ Quiet(d)
    <3>1. wa_connected' /\ Quiet(Tail(d))
      BY <2>1, <2>2, <2>3, <2>4, <2>5, <2>6, FramesDiffer
    <3>. QED  BY <2>1, <2>2, <2>3, <2>6, <3>1 DEF MemberInv
  <2>7. CASE wa_client = "member" /\ wa_wa = "open" /\ TellsUp(d)
    <3>1. TellsUp(Tail(d)) \/ (Quiet(Tail(d)) /\ wa_connected')
      BY <2>1, <2>2, <2>3, <2>7, FramesDiffer
    <3>. QED  BY <2>1, <2>2, <2>3, <2>7, <3>1 DEF MemberInv
  <2>8. CASE ~(wa_client = "member" /\ wa_wa = "open")
    <3>1. wa_client # "greeting"
      BY <2>1 DEF MemberInv
    <3>. QED  BY <2>1, <2>2, <2>3, <2>8, <3>1 DEF MemberInv
  <2>. QED  BY <2>2, <2>6, <2>7, <2>8 DEF MemberInv
<1>. QED  BY <1>3, <1>4, <1>5, <1>6, <1>7, <1>8, <1>9, <1>10, <1>11 DEF WhatsApp!Next

LEMMA WhatsAppStep == WhatsAppInv /\ [WhatsApp!Next]_(WhatsApp!vars) => WhatsAppInv'
BY BridgeStep, MemberStep DEF WhatsAppInv

LEMMA WhatsAppInit == WhatsApp!Init => WhatsAppInv
BY DEF WhatsApp!Init, WhatsAppInv, BridgeInv, MemberInv

LEMMA WhatsAppShows == WhatsAppInv => WhatsApp!StaysInTouch
<1> SUFFICES ASSUME WhatsAppInv PROVE WhatsApp!StaysInTouch
  OBVIOUS
<1>1. WhatsApp!ComesBack
  BY DEF WhatsApp!ComesBack, WhatsAppInv, BridgeInv
<1>2. WhatsApp!NotSilent
  BY DEF WhatsApp!NotSilent, WhatsAppInv, MemberInv, TellsUp, Quiet, Up, Ended
<1>. QED  BY <1>1, <1>2 DEF WhatsApp!StaysInTouch

LEMMA WhatsAppSteps == [AllNext]_All => [WhatsApp!Next]_(WhatsApp!vars)
BY DEF AllNext, All, WhatsApp!vars, whatsappVars, WhatsApp!service, WhatsApp!link, WhatsApp!flags, WhatsApp!agent, WhatsApp!inbox

(* Through any number of reconnects: no answer is refused that could be sent,  *)
(* and a closed socket to WhatsApp has its timeout pending (whatsapp.py, and   *)
(* bridge/src).                                                               *)
THEOREM WhatsAppComesBack == AllSpec => []StaysInTouch
<1>1. AllInit => WhatsAppInv
  BY WhatsAppInit DEF AllInit
<1>2. WhatsAppInv /\ [AllNext]_All => WhatsAppInv'
  BY WhatsAppStep, WhatsAppSteps
<1>3. WhatsAppInv => StaysInTouch
  BY WhatsAppShows DEF StaysInTouch
<1>. QED  BY <1>1, <1>2, <1>3, PTL DEF AllSpec

------------------------------------------------------------------------------
(* The configuration and the pages that edit it. *)

Contents == [cf_Fields -> Int]
Pages == [pc : {"closed", "read", "open", "write"}, val : Contents, hash : Int,
          base : Contents, mine : SUBSET cf_Fields, raced : BOOLEAN]
\* A page shows the settings of the file, but for those its user changed.
Shows(e, now) ==
    /\ ~now.broken
    /\ \A f \in cf_Fields \ e.mine :
          e.val[f] = IF f \in cf_Secrets /\ now.val[f] # 0 THEN Config!MASKED ELSE now.val[f]
\* Only a save that fell between two looks of a page, or that it will notice by
\* the time of the file, makes it differ.
PageInv(e, now) ==
    /\ e.pc = "open" => e.hash <= now.time
    /\ ~e.raced /\ (e.pc \in {"read", "write"} \/ (e.pc = "open" /\ e.hash = now.time)) =>
          Shows(e, now)
    /\ ~e.raced /\ e.pc = "write" => e.base = now.val
ConfigInv ==
    /\ cf_file \in [val : Contents, broken : BOOLEAN, time : Nat]
    /\ cf_wizard \in SUBSET Contents /\ cf_editors \in [cf_Editors -> Pages]
    /\ \A c \in cf_Editors : PageInv(cf_editors[c], cf_file)

LEMMA ClosedIsPage == Config!Closed \in Pages /\ Config!Closed.pc = "closed" /\ Config!Default \in Contents
BY DEF Config!Closed, Pages, Contents, Config!Default

\* A save leaves only pages that were between two looks, and marks them.
LEMMA SaveKeeps ==
    ASSUME ConfigInv, NEW es \in [cf_Editors -> Pages],
           \A c \in cf_Editors : es[c].pc = "open" => es[c].hash <= cf_file.time,
           NEW val \in Contents, NEW broken \in BOOLEAN, Config!Save(val, broken),
           cf_editors' = Config!Raced(es), cf_wizard' \in SUBSET Contents
    PROVE  ConfigInv'
<1>1. cf_file' \in [val : Contents, broken : BOOLEAN, time : Nat] /\ cf_file'.time = cf_file.time + 1
  BY DEF Config!Save, ConfigInv
<1>2. ASSUME NEW c \in cf_Editors
      PROVE  cf_editors'[c] \in Pages /\ PageInv(cf_editors'[c], cf_file')
  <2>1. PICK old : old = es[c] /\ old \in Pages
    OBVIOUS
  <2>2. cf_editors'[c] = [old EXCEPT !.raced = old.raced \/ old.pc \in {"read", "write"}]
    BY <2>1 DEF Config!Raced
  <2>3. PICK r \in BOOLEAN : r = (old.raced \/ old.pc \in {"read", "write"})
    BY <2>1 DEF Pages
  <2>4. PICK new : new = cf_editors'[c] /\ new \in Pages /\ new.raced = r /\ new.pc = old.pc
                   /\ new.hash = old.hash
    BY <2>1, <2>2, <2>3 DEF Pages
  <2>5. new.pc = "open" => new.hash < cf_file'.time /\ new.hash # cf_file'.time
    <3>1. cf_file.time \in Nat /\ old.hash \in Int
      BY <2>1 DEF ConfigInv, Pages
    <3>2. new.pc = "open" => new.hash <= cf_file.time
      BY <2>1, <2>4
    <3>. QED  BY <1>1, <2>4, <3>1, <3>2
  <2>6. new.pc \in {"read", "write"} => new.raced
    BY <2>3, <2>4
  <2>7. new.pc = "open" => new.hash <= cf_file'.time
    BY <1>1, <2>1, <2>4, <2>5 DEF Pages
  <2>. QED  BY <2>4, <2>5, <2>6, <2>7 DEF PageInv
<1>3. cf_editors' = [c \in cf_Editors |-> cf_editors'[c]]
  BY DEF Config!Raced
<1>. QED  BY <1>1, <1>2, <1>3 DEF ConfigInv

\* Every other step changes one page and no file.
LEMMA PageKeeps ==
    ASSUME ConfigInv, NEW c \in cf_Editors, NEW new \in Pages, PageInv(new, cf_file),
           cf_editors' = [cf_editors EXCEPT ![c] = new], UNCHANGED <<cf_file, cf_wizard>>
    PROVE  ConfigInv'
<1>1. cf_editors' \in [cf_Editors -> Pages] /\ cf_editors'[c] = new
      /\ \A d \in cf_Editors \ {c} : cf_editors'[d] = cf_editors[d]
  BY DEF ConfigInv
<1>. QED  BY <1>1 DEF ConfigInv

LEMMA ConfigStep ==
    ASSUME cf_Values \in SUBSET Int, ConfigInv, [Config!Next]_(Config!vars)
    PROVE  ConfigInv'
<1>1. ASSUME NEW f \in cf_Fields, NEW v \in cf_Values, NEW b \in BOOLEAN, Config!Edit(f, v, b)
      PROVE  ConfigInv'
  <2>1. [cf_file.val EXCEPT ![f] = v] \in Contents
    BY DEF ConfigInv, Contents
  <2>2. \A c \in cf_Editors : cf_editors[c].pc = "open" => cf_editors[c].hash <= cf_file.time
    BY DEF ConfigInv, PageInv
  <2>. QED  BY <1>1, <2>1, <2>2, SaveKeeps DEF Config!Edit, ConfigInv
<1>2. ASSUME NEW c \in cf_Editors, Config!OpenRead(c) PROVE ConfigInv'
  <2> DEFINE val == [f \in cf_Fields |-> IF f \in cf_Secrets /\ cf_file.val[f] # 0 THEN Config!MASKED ELSE cf_file.val[f]]
             new == [Config!Closed EXCEPT !.pc = "read", !.val = val]
  <2>1. val \in Contents
    BY DEF ConfigInv, Contents, Config!MASKED
  <2>2. new \in Pages /\ new.pc = "read" /\ new.val = val
    BY <2>1, ClosedIsPage DEF Pages
  <2>3. ~cf_file.broken
    BY <1>2 DEF Config!OpenRead
  <2>4. PageInv(new, cf_file)
    BY <2>2, <2>3 DEF PageInv, Shows
  <2>5. cf_editors' = [cf_editors EXCEPT ![c] = new] /\ UNCHANGED <<cf_file, cf_wizard>>
    BY <1>2 DEF Config!OpenRead
  <2> HIDE DEF new, val
  <2>. QED  BY <2>2, <2>4, <2>5, PageKeeps
<1>3. ASSUME NEW c \in cf_Editors, Config!OpenStat(c) PROVE ConfigInv'
  <2> DEFINE old == cf_editors[c]
             new == [old EXCEPT !.pc = "open", !.hash = cf_file.time]
  <2>1. old \in Pages /\ PageInv(old, cf_file) /\ old.pc = "read" /\ cf_file.time \in Nat
    BY <1>3 DEF Config!OpenStat, ConfigInv
  <2>2. new \in Pages /\ new.pc = "open" /\ new.hash = cf_file.time /\ new.val = old.val
        /\ new.mine = old.mine /\ new.raced = old.raced
    <3>1. PICK t \in Int : t = cf_file.time
      BY <2>1
    <3> HIDE DEF old
    <3>. QED  BY <2>1, <3>1 DEF Pages
  <2>3. cf_editors' = [cf_editors EXCEPT ![c] = new] /\ UNCHANGED <<cf_file, cf_wizard>>
    BY <1>3 DEF Config!OpenStat, ConfigInv
  <2> HIDE DEF old, new
  <2>4. PageInv(new, cf_file)
    <3>1. ~old.raced => Shows(old, cf_file)
      BY <2>1 DEF PageInv
    <3>2. Shows(old, cf_file) => Shows(new, cf_file)
      BY <2>2 DEF Shows
    <3>3. cf_file.time <= cf_file.time
      BY <2>1
    <3>. QED  BY <2>2, <3>1, <3>2, <3>3 DEF PageInv
  <2>. QED  BY <2>2, <2>3, <2>4, PageKeeps
<1>4. ASSUME NEW c \in cf_Editors, NEW f \in cf_Fields, NEW v \in cf_Values, Config!Change(c, f, v)
      PROVE  ConfigInv'
  <2> DEFINE old == cf_editors[c]
             new == [old EXCEPT !.val = [old.val EXCEPT ![f] = v], !.mine = old.mine \cup {f}]
  <2>1. old \in Pages /\ PageInv(old, cf_file) /\ old.pc = "open"
    BY <1>4 DEF Config!Change, ConfigInv
  <2>2. [old.val EXCEPT ![f] = v] \in Contents /\ old.mine \cup {f} \in SUBSET cf_Fields
    BY <2>1 DEF Pages, Contents
  <2>3. new \in Pages /\ new.pc = "open" /\ new.hash = old.hash /\ new.raced = old.raced
        /\ new.mine = old.mine \cup {f} /\ \A g \in cf_Fields \ {f} : new.val[g] = old.val[g]
    BY <2>1, <2>2 DEF Pages, Contents
  <2>4. cf_editors' = [cf_editors EXCEPT ![c] = new] /\ UNCHANGED <<cf_file, cf_wizard>>
    BY <1>4 DEF Config!Change, ConfigInv
  <2> HIDE DEF old, new
  <2>5. PageInv(new, cf_file)
    BY <2>1, <2>3 DEF PageInv, Shows
  <2>. QED  BY <2>3, <2>4, <2>5, PageKeeps
<1>5. ASSUME NEW c \in cf_Editors, Config!Post(c) PROVE ConfigInv'
  <2> DEFINE old == cf_editors[c]
             base == IF cf_file.broken THEN Config!Default ELSE cf_file.val
             new == [old EXCEPT !.pc = "write", !.base = base]
  <2>1. old \in Pages /\ PageInv(old, cf_file) /\ old.pc = "open" /\ old.hash = cf_file.time
    BY <1>5 DEF Config!Post, Config!Unchanged, ConfigInv
  <2>2. base \in Contents
    BY ClosedIsPage DEF ConfigInv
  <2>3. new \in Pages /\ new.pc = "write" /\ new.base = base /\ new.val = old.val
        /\ new.mine = old.mine /\ new.raced = old.raced
    BY <2>1, <2>2 DEF Pages
  <2>4. cf_editors' = [cf_editors EXCEPT ![c] = new] /\ UNCHANGED <<cf_file, cf_wizard>>
    BY <1>5 DEF Config!Post, ConfigInv
  <2>5. ~cf_file.broken => base = cf_file.val
    OBVIOUS
  <2> HIDE DEF old, new, base
  <2>6. PageInv(new, cf_file)
    BY <2>1, <2>3, <2>5 DEF PageInv, Shows
  <2>. QED  BY <2>3, <2>4, <2>6, PageKeeps
<1>6. ASSUME NEW c \in cf_Editors, Config!Write(c) PROVE ConfigInv'
  <2> DEFINE es == [cf_editors EXCEPT ![c] = Config!Closed]
             val == Config!Merged(cf_editors[c].base, cf_editors[c].val)
  <2>1. es \in [cf_Editors -> Pages] /\ es[c].pc = "closed"
        /\ \A d \in cf_Editors \ {c} : es[d] = cf_editors[d]
    BY ClosedIsPage DEF ConfigInv
  <2>2. val \in Contents
    <3>1. cf_editors[c].base \in Contents /\ cf_editors[c].val \in Contents
      BY DEF ConfigInv, Pages
    <3>. QED  BY <3>1 DEF Config!Merged, Contents
  <2>3. \A d \in cf_Editors : es[d].pc = "open" => es[d].hash <= cf_file.time
    BY <2>1 DEF ConfigInv, PageInv
  <2>4. Config!Save(val, FALSE) /\ cf_editors' = Config!Raced(es) /\ UNCHANGED cf_wizard
    BY <1>6 DEF Config!Write
  <2> HIDE DEF es, val
  <2>. QED  BY <2>1, <2>2, <2>3, <2>4, SaveKeeps DEF ConfigInv
<1>7. ASSUME NEW c \in cf_Editors, Config!Close(c) PROVE ConfigInv'
  <2>1. PageInv(Config!Closed, cf_file)
    BY ClosedIsPage DEF PageInv
  <2>. QED  BY <1>7, <2>1, ClosedIsPage, PageKeeps DEF Config!Close
<1>8. ASSUME NEW val \in Contents, Config!Save(val, FALSE), cf_editors' = Config!Raced(cf_editors),
             cf_wizard' \in SUBSET Contents
      PROVE  ConfigInv'
  <2>1. \A c \in cf_Editors : cf_editors[c].pc = "open" => cf_editors[c].hash <= cf_file.time
    BY DEF ConfigInv, PageInv
  <2>. QED  BY <1>8, <2>1, SaveKeeps DEF ConfigInv
<1>9. ASSUME NEW f \in cf_Secrets, NEW v \in cf_Values \ {0}, Config!Answer(f, v) PROVE ConfigInv'
  <2>1. PICK loaded \in cf_wizard : Config!Save([loaded EXCEPT ![f] = v], FALSE)
    BY <1>9 DEF Config!Answer
  <2>2. [loaded EXCEPT ![f] = v] \in Contents
    BY DEF ConfigInv, Contents
  <2>. QED  BY <1>8, <1>9, <2>1, <2>2 DEF Config!Answer
<1>10. ASSUME NEW r \in BOOLEAN, Config!Onboard(r) PROVE ConfigInv'
  <2>1. (IF r THEN Config!Default ELSE cf_file.val) \in Contents
    BY ClosedIsPage DEF ConfigInv
  <2>. QED  BY <1>8, <1>10, <2>1 DEF Config!Onboard, ConfigInv
<1>11. ASSUME UNCHANGED <<cf_file, cf_editors>>, cf_wizard' \in SUBSET Contents PROVE ConfigInv'
  BY <1>11 DEF ConfigInv
<1>12. ASSUME NEW f \in cf_Secrets, Config!Ask(f) PROVE ConfigInv'
  BY <1>11, <1>12 DEF Config!Ask, ConfigInv
<1>13. CASE Config!GetConfig \/ Config!Reload \/ UNCHANGED Config!vars
  BY <1>11, <1>13 DEF Config!GetConfig, Config!Reload, Config!vars, ConfigInv
<1>. QED  BY <1>1, <1>2, <1>3, <1>4, <1>5, <1>6, <1>7, <1>9, <1>10, <1>12, <1>13 DEF
     Config!Next

LEMMA ConfigInit == Config!Init => ConfigInv
<1>1. ASSUME Config!Init, NEW c \in cf_Editors PROVE cf_editors[c] = Config!Closed
  BY <1>1 DEF Config!Init
<1>2. ASSUME Config!Init PROVE cf_file \in [val : Contents, broken : BOOLEAN, time : Nat]
  BY <1>2, ClosedIsPage DEF Config!Init
<1>3. ASSUME NEW f PROVE PageInv(Config!Closed, f)
  BY ClosedIsPage DEF PageInv
<1>. QED  BY <1>1, <1>2, <1>3, ClosedIsPage DEF Config!Init, ConfigInv

\* What a page writes, that did not race, differs from the file in its own changes.
OwnChanges ==
    \A c \in cf_Editors :
        cf_editors[c].pc = "write" /\ cf_editors'[c].pc = "closed" /\ ~cf_editors[c].raced =>
            \A f \in cf_Fields \ cf_editors[c].mine : cf_file'.val[f] = cf_file.val[f]

LEMMA WritesOwn ==
    ASSUME cf_Values \in SUBSET Int, ConfigInv, [Config!Next]_(Config!vars)
    PROVE  OwnChanges
<1> SUFFICES ASSUME NEW c \in cf_Editors, cf_editors[c].pc = "write", cf_editors'[c].pc = "closed",
                    ~cf_editors[c].raced, NEW f \in cf_Fields \ cf_editors[c].mine
             PROVE  cf_file'.val[f] = cf_file.val[f]
  BY DEF OwnChanges
<1>1. cf_editors[c] \in Pages /\ PageInv(cf_editors[c], cf_file)
  BY DEF ConfigInv
<1>2. CASE Config!Write(c)
  <2>1. cf_file'.val = Config!Merged(cf_editors[c].base, cf_editors[c].val)
    BY <1>2 DEF Config!Write, Config!Save
  <2>2. cf_editors[c].base = cf_file.val /\ Shows(cf_editors[c], cf_file)
    BY <1>1 DEF PageInv
  <2>3. cf_editors[c].val[f] = IF f \in cf_Secrets /\ cf_file.val[f] # 0 THEN Config!MASKED ELSE cf_file.val[f]
    BY <2>2 DEF Shows
  <2>. QED  BY <2>1, <2>2, <2>3 DEF Config!Merged
<1>3. ASSUME NEW d \in cf_Editors \ {c}, Config!Write(d) PROVE FALSE
  <2>1. cf_editors'[c].pc = cf_editors[c].pc
    BY <1>1, <1>3 DEF Config!Write, Config!Raced, ConfigInv, Pages
  <2>. QED  BY <2>1
<1>4. ASSUME cf_editors' = Config!Raced(cf_editors) PROVE FALSE
  <2>1. cf_editors'[c].pc = cf_editors[c].pc
    BY <1>1, <1>4 DEF Config!Raced, Pages
  <2>. QED  BY <2>1
<1>5. ASSUME UNCHANGED cf_file PROVE cf_file'.val[f] = cf_file.val[f]
  BY <1>5
<1>6. CASE \E g \in cf_Fields, v \in cf_Values, b \in BOOLEAN : Config!Edit(g, v, b)
  BY <1>4, <1>6 DEF Config!Edit
<1>7. CASE \E g \in cf_Secrets, v \in cf_Values \ {0} : Config!Answer(g, v)
  BY <1>4, <1>7 DEF Config!Answer
<1>8. CASE \E r \in BOOLEAN : Config!Onboard(r)
  BY <1>4, <1>8 DEF Config!Onboard
<1>9. CASE \E d \in cf_Editors : Config!OpenRead(d) \/ Config!OpenStat(d) \/ Config!Post(d) \/ Config!Close(d)
  BY <1>5, <1>9 DEF Config!OpenRead, Config!OpenStat, Config!Post, Config!Close
<1>10. CASE \E d \in cf_Editors, g \in cf_Fields, v \in cf_Values : Config!Change(d, g, v)
  BY <1>5, <1>10 DEF Config!Change
<1>11. CASE Config!GetConfig \/ Config!Reload \/ UNCHANGED Config!vars \/ \E g \in cf_Secrets : Config!Ask(g)
  BY <1>5, <1>11 DEF Config!GetConfig, Config!Reload, Config!Ask, Config!vars
<1>. QED  BY <1>2, <1>3, <1>6, <1>7, <1>8, <1>9, <1>10, <1>11 DEF Config!Next

LEMMA ConfigSteps == [AllNext]_All => [Config!Next]_(Config!vars)
BY DEF AllNext, All, Config!vars, configVars

(* For any fields and any pages: a page that did not race with another writer  *)
(* changes no setting but those its user changed (dashboard/app.py, the merge  *)
(* of masked secrets).                                                        *)
THEOREM EditorsWriteTheirOwn ==
    ASSUME cf_Values \in SUBSET Int
    PROVE  AllSpec => OnlyOwnChanges
<1>1. AllInit => ConfigInv
  BY ConfigInit DEF AllInit
<1>2. ConfigInv /\ [AllNext]_All => ConfigInv' /\ [OwnChanges]_(Config!vars)
  BY ConfigStep, WritesOwn, ConfigSteps
<1>. QED  BY <1>1, <1>2, PTL DEF AllSpec, OnlyOwnChanges, Config!OnlyOwnChanges, OwnChanges

------------------------------------------------------------------------------
(* Discord: typing and heartbeats. *)

\* Who types is owed an answer, and a stopped channel neither types nor answers.
TypingInv ==
    /\ di_chat \in Seq(di_Chats) /\ di_owed \subseteq 1..Len(di_chat) /\ di_handling \in 0..Len(di_chat)
    /\ di_sending \in [msg : Nat, attempt : Nat]
    /\ di_sending # Discord!NotSending => di_sending.msg \in di_owed
    /\ di_http = di_running /\ (~di_running => di_typing = {})
    /\ Discord!TypingIsOwed
BeatInv == /\ di_beats \in 0..1 /\ di_running \in BOOLEAN /\ di_hello \in BOOLEAN /\ di_failed \in BOOLEAN
           /\ Discord!OneHeartbeat
DiscordInv == TypingInv /\ BeatInv

LEMMA TypingStep == ASSUME TypingInv, [Discord!Next]_(Discord!vars) PROVE TypingInv'
<1>1. ASSUME UNCHANGED <<di_running, di_http, di_typing, di_chat, di_owed, di_sending, di_handling>>
      PROVE  TypingInv'
  BY <1>1 DEF TypingInv, Discord!TypingIsOwed, Discord!NotSending
<1>2. CASE Discord!Start
  BY <1>2 DEF Discord!Start, TypingInv, Discord!TypingIsOwed, Discord!NotSending
<1>3. CASE Discord!Connect \/ Discord!PauseEnds \/ Discord!Hello \/ Discord!Ready \/ Discord!HeartbeatFails
          \/ \E b \in BOOLEAN : Discord!Closed(b)
  BY <1>1, <1>3 DEF Discord!Connect, Discord!PauseEnds, Discord!Hello, Discord!Ready,
       Discord!HeartbeatFails, Discord!Closed, Discord!gateway
<1>4. CASE Discord!Stop
  BY <1>4 DEF Discord!Stop, TypingInv, Discord!TypingIsOwed, Discord!NotSending
<1>5. ASSUME NEW c \in di_Chats, Discord!MessageCreate(c) PROVE TypingInv'
  <2>1. /\ di_chat' \in Seq(di_Chats) /\ Len(di_chat') = Len(di_chat) + 1 /\ Len(di_chat) \in Nat
        /\ \A i \in 1..Len(di_chat) : di_chat'[i] = di_chat[i]
    BY <1>5 DEF Discord!MessageCreate, TypingInv
  <2>. QED  BY <1>5, <2>1 DEF Discord!MessageCreate, TypingInv, Discord!TypingIsOwed,
       Discord!NotSending, Discord!gateway
<1>6. CASE Discord!HandOver
  <2>1. di_handling \in 1..Len(di_chat) /\ di_owed' = di_owed \cup {di_handling} /\ di_handling' = 0
        /\ UNCHANGED <<di_running, di_http, di_chat, di_sending>>
    BY <1>6 DEF Discord!HandOver, TypingInv, Discord!gateway
  <2>2. Discord!TypingIsOwed' /\ (~di_running => di_typing' = {})
    BY <1>6, <2>1 DEF Discord!HandOver, TypingInv, Discord!TypingIsOwed
  <2>. QED  BY <2>1, <2>2 DEF TypingInv, Discord!NotSending
<1>7. ASSUME NEW m \in di_owed, Discord!Answer(m) PROVE TypingInv'
  <2>1. CASE di_http
    <3>1. di_sending'.msg = m /\ di_sending' \in [msg : Nat, attempt : Nat]
      BY <1>7, <2>1 DEF Discord!Answer, TypingInv
    <3>. QED  BY <1>7, <2>1, <3>1 DEF Discord!Answer, TypingInv, Discord!TypingIsOwed,
         Discord!gateway
  <2>2. CASE ~di_http
    BY <1>7, <2>2 DEF Discord!Answer, TypingInv, Discord!TypingIsOwed, Discord!NotSending,
         Discord!gateway
  <2>. QED  BY <2>1, <2>2
<1>8. ASSUME NEW ok \in BOOLEAN, Discord!Attempt(ok) PROVE TypingInv'
  <2>1. CASE ok \/ di_sending.attempt = 3
    BY <1>8, <2>1 DEF Discord!Attempt, TypingInv, Discord!TypingIsOwed, Discord!NotSending,
         Discord!gateway
  <2>2. CASE ~(ok \/ di_sending.attempt = 3)
    <3>1. di_sending'.msg = di_sending.msg /\ di_sending' \in [msg : Nat, attempt : Nat]
      BY <1>8, <2>2 DEF Discord!Attempt, TypingInv
    <3>. QED  BY <1>8, <2>2, <3>1 DEF Discord!Attempt, TypingInv, Discord!TypingIsOwed,
         Discord!gateway
  <2>. QED  BY <2>1, <2>2
<1>9. CASE UNCHANGED Discord!vars
  BY <1>1, <1>9 DEF Discord!vars
<1>. QED  BY <1>2, <1>3, <1>4, <1>5, <1>6, <1>7, <1>8, <1>9 DEF Discord!Next

LEMMA BeatStep == ASSUME BeatInv, [Discord!Next]_(Discord!vars) PROVE BeatInv'
<1>1. CASE Discord!Start \/ Discord!Connect \/ Discord!PauseEnds
  BY <1>1 DEF Discord!Start, Discord!Connect, Discord!PauseEnds, BeatInv,
       Discord!OneHeartbeat
<1>10. CASE Discord!Stop
  <2>1. di_beats' = 0 /\ di_running' = FALSE /\ UNCHANGED <<di_hello, di_failed>>
    BY <1>10 DEF Discord!Stop
  <2>2. di_beats' \in 0..1 /\ di_beats' <= 1
    BY <2>1
  <2>. QED  BY <2>1, <2>2, Zenon DEF BeatInv, Discord!OneHeartbeat
<1>5. CASE Discord!Hello
  BY <1>5 DEF Discord!Hello, BeatInv, Discord!OneHeartbeat
<1>6. CASE Discord!HeartbeatFails
  <2>1. di_beats = 1 /\ di_beats' = 0 /\ di_failed' = (di_failed \/ di_link = "open")
        /\ UNCHANGED <<di_running, di_link, di_hello>>
    BY <1>6 DEF Discord!HeartbeatFails, BeatInv
  <2>. QED  BY <2>1 DEF BeatInv, Discord!OneHeartbeat
<1>2. ASSUME NEW b \in BOOLEAN, Discord!Closed(b) PROVE BeatInv'
  BY <1>2 DEF Discord!Closed, BeatInv, Discord!OneHeartbeat
<1>3. ASSUME UNCHANGED Discord!gateway PROVE BeatInv'
  BY <1>3 DEF Discord!gateway, BeatInv, Discord!OneHeartbeat
<1>4. CASE Discord!Ready \/ Discord!HandOver \/ UNCHANGED Discord!vars
  BY <1>3, <1>4 DEF Discord!Ready, Discord!HandOver, Discord!vars, Discord!gateway
<1>7. ASSUME NEW m \in di_owed, Discord!Answer(m) PROVE BeatInv'
  BY <1>3, <1>7 DEF Discord!Answer
<1>8. ASSUME NEW c \in di_Chats, Discord!MessageCreate(c) PROVE BeatInv'
  BY <1>3, <1>8 DEF Discord!MessageCreate
<1>9. ASSUME NEW b \in BOOLEAN, Discord!Attempt(b) PROVE BeatInv'
  BY <1>3, <1>9 DEF Discord!Attempt
<1>. QED  BY <1>1, <1>2, <1>4, <1>5, <1>6, <1>7, <1>8, <1>9, <1>10 DEF Discord!Next

LEMMA DiscordStep == DiscordInv /\ [Discord!Next]_(Discord!vars) => DiscordInv'
BY TypingStep, BeatStep DEF DiscordInv

LEMMA DiscordInit == Discord!Init => DiscordInv
<1> SUFFICES ASSUME Discord!Init PROVE DiscordInv
  OBVIOUS
<1>1. di_chat \in Seq(di_Chats) /\ 0 \in 0..Len(di_chat)
  BY DEF Discord!Init
<1>2. TypingInv
  BY <1>1 DEF Discord!Init, TypingInv, Discord!TypingIsOwed, Discord!NotSending
<1>3. BeatInv
  <2>1. di_beats = 0 /\ di_running = FALSE /\ di_hello = FALSE /\ di_failed = FALSE
    BY DEF Discord!Init
  <2>2. di_beats \in 0..1 /\ di_beats <= 1
    BY <2>1
  <2>. QED  BY <2>1, <2>2, Zenon DEF BeatInv, Discord!OneHeartbeat
<1>. QED  BY <1>2, <1>3 DEF DiscordInv

LEMMA DiscordShows == DiscordInv => Discord!NothingLeftRunning
BY DEF DiscordInv, TypingInv, BeatInv, Discord!NothingLeftRunning

LEMMA DiscordSteps == [AllNext]_All => [Discord!Next]_(Discord!vars)
BY DEF AllNext, All, Discord!vars, discordVars

(* For any chats: a typing task is one whose answer is still owed, none is left *)
(* after a stop, and no connection has two heartbeats (discord.py).           *)
THEOREM TypingEnds == AllSpec => []NothingLeftRunning
<1>1. AllInit => DiscordInv
  BY DiscordInit DEF AllInit
<1>2. DiscordInv /\ [AllNext]_All => DiscordInv'
  BY DiscordStep, DiscordSteps
<1>3. DiscordInv => NothingLeftRunning
  BY DiscordShows DEF NothingLeftRunning
<1>. QED  BY <1>1, <1>2, <1>3, PTL DEF AllSpec

------------------------------------------------------------------------------
(* The notices of the dashboard. *)

\* A page that is owed a notice is open and registered, and has the frames of
\* the phases that are over, or is still to come in the one under way.
Phases == {"none", "wait", "try", "log", "note", "done"}
Notices == [phase : Phases, polls : Nat, try : Nat, todo : SUBSET db_Sockets]
Has(s, p, frame) == <<s, frame>> \in db_seen[p]
NoticeInv ==
    /\ db_owed \in [db_Sessions -> SUBSET db_Sockets] /\ db_notice \in [db_Sessions -> Notices]
    /\ db_active \subseteq db_Sockets /\ db_socket \in [db_Sockets -> {"new", "open", "broken", "closed"}]
    /\ db_seen \in [db_Sockets -> SUBSET (db_Sessions \X Phases)]
    /\ \A s \in db_Sessions, p \in db_Sockets : p \in db_owed[s] => p \in Dashboard!Pages /\ db_socket[p] = "open"
    /\ \A s \in db_Sessions, p \in db_Sockets : p \in db_owed[s] =>
          /\ db_notice[s].phase = "log" => p \in db_notice[s].todo \/ Has(s, p, "log")
          /\ db_notice[s].phase = "note" => Has(s, p, "log") /\ (p \in db_notice[s].todo \/ Has(s, p, "note"))
          /\ db_notice[s].phase = "done" => Has(s, p, "log") /\ Has(s, p, "note")

LEMMA NoticeStep == ASSUME db_Polls \in Nat, NoticeInv, [Dashboard!Next]_(Dashboard!vars) PROVE NoticeInv'
<1> USE DEF Dashboard!Pages, Has, Notices, Phases
<1>1. ASSUME UNCHANGED <<db_socket, db_active, db_notice, db_seen, db_owed>> PROVE NoticeInv'
  BY <1>1 DEF NoticeInv
<1>2. CASE Dashboard!Start
  BY <1>2 DEF Dashboard!Start, NoticeInv, Dashboard!Silent
<1>3. CASE Dashboard!Crash
  BY <1>3 DEF Dashboard!Crash, NoticeInv, Dashboard!Silent
<1>4. ASSUME NEW s \in db_Sessions, Dashboard!Work(s) \/ Dashboard!Dispatch(s) PROVE NoticeInv'
  BY <1>1, <1>4 DEF Dashboard!Work, Dashboard!Dispatch
<1>5. ASSUME NEW s \in db_Sessions, Dashboard!Poll(s) PROVE NoticeInv'
  <2>1. PICK new : db_notice' = [db_notice EXCEPT ![s] = new] /\ new \in Notices /\ new.phase \in {"wait", "try"}
    <3> DEFINE old == db_notice[s]
    <3>1. old \in Notices /\ old.phase = "wait"
      BY <1>5 DEF Dashboard!Poll, NoticeInv
    <3> DEFINE tried == [old EXCEPT !.phase = "try"]
               polled == [old EXCEPT !.polls = old.polls - 1]
    <3>2. tried \in Notices /\ tried.phase = "try"
      BY <3>1
    <3>3. old.polls # 0 => polled \in Notices /\ polled.phase = "wait"
      BY <3>1
    <3>4. db_notice' = [db_notice EXCEPT ![s] = IF Dashboard!Pages # {} \/ old.polls = 0 THEN tried ELSE polled]
      BY <1>5 DEF Dashboard!Poll
    <3> HIDE DEF tried, polled
    <3>. QED  BY <3>2, <3>3, <3>4
  <2>. QED  BY <1>5, <2>1 DEF Dashboard!Poll, NoticeInv
<1>6. ASSUME NEW s \in db_Sessions, Dashboard!Try(s) PROVE NoticeInv'
  <2>1. PICK new \in Notices : /\ db_notice' = [db_notice EXCEPT ![s] = new]
                              /\ new.phase = "log" /\ new.todo = Dashboard!Pages
    <3> DEFINE old == db_notice[s]
    <3>1. old \in Notices
      BY DEF NoticeInv
    <3> DEFINE new == [old EXCEPT !.phase = "log", !.todo = Dashboard!Pages]
    <3>2. new \in Notices /\ new.phase = "log" /\ new.todo = Dashboard!Pages
      BY <3>1 DEF NoticeInv
    <3>3. db_notice' = [db_notice EXCEPT ![s] = new]
      BY <1>6, <3>1 DEF Dashboard!Try, NoticeInv
    <3> HIDE DEF new
    <3>. QED  BY <3>2, <3>3
  <2>2. /\ UNCHANGED <<db_socket, db_active, db_seen>>
        /\ db_owed' = [db_owed EXCEPT ![s] = @ \cup {p \in Dashboard!Pages : db_socket[p] = "open"}]
    BY <1>6 DEF Dashboard!Try
  <2>. QED  BY <2>1, <2>2 DEF NoticeInv
<1>7. ASSUME NEW s \in db_Sessions, Dashboard!PushEnds(s) PROVE NoticeInv'
  <2> DEFINE old == db_notice[s]
  <2>1. old \in Notices
    BY DEF NoticeInv
  <2> DEFINE note  == [old EXCEPT !.phase = "note", !.todo = Dashboard!Pages]
             again == [old EXCEPT !.phase = "try", !.try = old.try + 1]
             over  == [Dashboard!Silent EXCEPT !.phase = "done"]
  <2>2. note \in Notices /\ note.phase = "note" /\ note.todo = Dashboard!Pages
    BY <2>1 DEF NoticeInv
  <2>3. again \in Notices /\ again.phase = "try"
    <3>1. PICK n : n = old /\ n \in Notices /\ n.try + 1 \in Nat
      BY <2>1
    <3>2. again = [n EXCEPT !.phase = "try", !.try = n.try + 1]
      BY <3>1
    <3>3. PICK m : m = n.try + 1 /\ m \in Nat
      BY <3>1
    <3>4. again = [n EXCEPT !.phase = "try", !.try = m]
      BY <3>2, <3>3
    <3> HIDE DEF again, old
    <3>. QED  BY <3>1, <3>3, <3>4
  <2>4. over \in Notices /\ over.phase = "done"
    BY DEF Dashboard!Silent
  <2>5. /\ db_notice' = [db_notice EXCEPT ![s] = IF old.phase = "log" THEN note
                                                ELSE IF old.try < db_Tries THEN again ELSE over]
        /\ old.phase \in {"log", "note"} /\ old.todo = {}
        /\ UNCHANGED <<db_socket, db_active, db_seen, db_owed>>
    BY <1>7 DEF Dashboard!PushEnds
  <2>6. PICK new \in Notices :
          /\ db_notice' = [db_notice EXCEPT ![s] = new]
          /\ \/ old.phase = "log" /\ new.phase = "note" /\ new.todo = Dashboard!Pages
             \/ old.phase = "note" /\ new.phase \in {"try", "done"}
    <3> HIDE DEF note, again, over
    <3>. QED  BY <2>2, <2>3, <2>4, <2>5
  <2>. QED  BY <2>5, <2>6 DEF NoticeInv
<1>8. ASSUME NEW s \in db_Sessions, NEW p \in db_Sockets, Dashboard!PushTo(s, p) PROVE NoticeInv'
  <2> DEFINE old == db_notice[s]
  <2>1. old \in Notices /\ p \in old.todo
    BY <1>8 DEF Dashboard!PushTo, NoticeInv
  <2>2. PICK new \in Notices : /\ db_notice' = [db_notice EXCEPT ![s] = new]
                              /\ new.phase = old.phase /\ new.todo = old.todo \ {p}
    <3> DEFINE new == [old EXCEPT !.todo = old.todo \ {p}]
    <3>1. new \in Notices /\ new.phase = old.phase /\ new.todo = old.todo \ {p}
      BY <2>1
    <3>2. db_notice' = [db_notice EXCEPT ![s] = new]
      BY <1>8 DEF Dashboard!PushTo
    <3> HIDE DEF new
    <3>. QED  BY <3>1, <3>2
  <2>3. /\ UNCHANGED <<db_socket, db_owed>> /\ db_seen' \in [db_Sockets -> SUBSET (db_Sessions \X Phases)]
        /\ \A q \in db_Sockets : db_seen[q] \subseteq db_seen'[q]
        /\ db_socket[p] = "open" => <<s, old.phase>> \in db_seen'[p]
        /\ db_active' = IF db_socket[p] = "open" THEN db_active ELSE db_active \ {p}
    BY <1>8, <2>1 DEF Dashboard!PushTo, Dashboard!SendTo, NoticeInv
  <2>4. /\ db_notice' \in [db_Sessions -> Notices] /\ db_active' \subseteq db_Sockets
        /\ db_owed \in [db_Sessions -> SUBSET db_Sockets] /\ db_socket \in [db_Sockets -> {"new", "open", "broken", "closed"}]
    BY <2>2, <2>3 DEF NoticeInv
  <2>5. \A r \in db_Sessions \ {s} : db_notice'[r] = db_notice[r]
    BY <2>2 DEF NoticeInv
  <2>6. db_notice'[s] = new
    BY <2>2 DEF NoticeInv
  <2>7. ASSUME NEW q \in db_Sockets, NEW r \in db_Sessions, NEW frame, Has(r, q, frame)
        PROVE  Has(r, q, frame)'
    BY <2>3, <2>7 DEF Has
  <2>8. ASSUME NEW r \in db_Sessions, NEW q \in db_Sockets, q \in db_owed[r]
        PROVE  /\ q \in Dashboard!Pages' /\ db_socket[q] = "open"
               /\ db_notice'[r].phase = "log" => q \in db_notice'[r].todo \/ Has(r, q, "log")'
               /\ db_notice'[r].phase = "note" => Has(r, q, "log")' /\ (q \in db_notice'[r].todo \/ Has(r, q, "note")')
               /\ db_notice'[r].phase = "done" => Has(r, q, "log")' /\ Has(r, q, "note")'
    <3>1. q \in Dashboard!Pages /\ db_socket[q] = "open"
      BY <2>8 DEF NoticeInv
    <3>2. q \in Dashboard!Pages'
      BY <2>3, <3>1 DEF Dashboard!Pages
    <3>3. CASE r # s
      BY <2>5, <2>7, <2>8, <3>1, <3>2, <3>3 DEF NoticeInv
    <3>4. CASE r = s /\ q # p
      BY <2>2, <2>6, <2>7, <2>8, <3>1, <3>2, <3>4 DEF NoticeInv
    <3>5. CASE r = s /\ q = p
      <4>1. Has(s, p, new.phase)'
        BY <2>2, <2>3, <3>1, <3>5 DEF Has
      <4>. QED  BY <2>2, <2>6, <2>7, <2>8, <3>1, <3>2, <3>5, <4>1 DEF NoticeInv
    <3>. QED  BY <3>3, <3>4, <3>5
  <2>. QED  BY <2>3, <2>4, <2>8 DEF NoticeInv
<1>9. ASSUME NEW p \in db_Sockets, Dashboard!Breaks(p) PROVE NoticeInv'
  BY <1>9 DEF Dashboard!Breaks, Dashboard!Forget, NoticeInv
<1>10. ASSUME NEW p \in db_Sockets, Dashboard!Elapse(p) PROVE NoticeInv'
  BY <1>1, <1>10 DEF Dashboard!Elapse
<1>11. ASSUME NEW p \in db_Sockets, NEW b \in BOOLEAN, Dashboard!Connect(p, b) PROVE NoticeInv'
  BY <1>11 DEF Dashboard!Connect, NoticeInv
<1>12. ASSUME NEW p \in db_Sockets, NEW b \in BOOLEAN, Dashboard!Leave(p, b) PROVE NoticeInv'
  BY <1>12 DEF Dashboard!Leave, Dashboard!Forget, NoticeInv
<1>13. ASSUME NEW p \in db_Sockets, NEW b \in BOOLEAN, Dashboard!Say(p, b) PROVE NoticeInv'
  BY <1>1, <1>13 DEF Dashboard!Say
<1>14. ASSUME NEW kind, Dashboard!Event(kind) PROVE NoticeInv'
  BY <1>1, <1>14 DEF Dashboard!Event
<1>15. ASSUME NEW b \in db_pushes, NEW p \in db_Sockets, Dashboard!Broadcast(b, p) PROVE NoticeInv'
  <2>1. /\ UNCHANGED <<db_socket, db_owed, db_notice>> /\ db_seen' \in [db_Sockets -> SUBSET (db_Sessions \X Phases)]
        /\ \A q \in db_Sockets : db_seen[q] \subseteq db_seen'[q]
        /\ db_active' = IF db_socket[p] = "open" THEN db_active ELSE db_active \ {p}
    BY <1>15 DEF Dashboard!Broadcast, Dashboard!SendTo, NoticeInv
  <2>. QED  BY <2>1 DEF NoticeInv
<1>16. ASSUME NEW b \in db_pushes, Dashboard!BroadcastEnds(b) PROVE NoticeInv'
  BY <1>1, <1>16 DEF Dashboard!BroadcastEnds
<1>17. CASE UNCHANGED Dashboard!vars
  BY <1>1, <1>17 DEF Dashboard!vars
<1>. QED  BY <1>2, <1>3, <1>4, <1>5, <1>6, <1>7, <1>8, <1>9, <1>10, <1>11, <1>12, <1>13,
             <1>14, <1>15, <1>16, <1>17 DEF Dashboard!Next

LEMMA NoticeInit == Dashboard!Init => NoticeInv
BY DEF Dashboard!Init, NoticeInv, Dashboard!Silent, Has, Notices, Phases

LEMMA NoticeShows == NoticeInv => Dashboard!NoticeShown
BY DEF NoticeInv, Dashboard!NoticeShown, Has

LEMMA DashboardSteps == [AllNext]_All => [Dashboard!Next]_(Dashboard!vars)
BY DEF AllNext, All, Dashboard!vars, dashboardVars

(* For any sessions, sockets and numbers of tries: a page that stays connected *)
(* is shown the notice of a crash, whatever the others do.                    *)
THEOREM NoticesAreShown ==
    ASSUME db_Polls \in Nat
    PROVE  AllSpec => []NoticeShown
<1>1. AllInit => NoticeInv
  BY NoticeInit DEF AllInit
<1>2. NoticeInv /\ [AllNext]_All => NoticeInv'
  BY NoticeStep, DashboardSteps
<1>3. NoticeInv => NoticeShown
  BY NoticeShows DEF NoticeShown
<1>. QED  BY <1>1, <1>2, <1>3, PTL DEF AllSpec

------------------------------------------------------------------------------
(* Telegram: an answer in pieces. Letters and Joined are recursive functions:   *)
(* each is a CHOSEn solution of its equation, which Recursion shows to exist;  *)
(* Counting carries a fact from 0 up to a length.                              *)

LEMMA LeastElement ==
    ASSUME NEW S \in SUBSET Nat, S # {}
    PROVE  \E x \in S : \A y \in S : x <= y
<1> DEFINE R == OpToRel(<, Nat)
<1>1. PICK x \in S : \A y \in S : ~ (<<y, x>> \in R)
  <2>1. IsWellFoundedOn(R, Nat)
    BY NatLessThanWellFounded
  <2> HIDE DEF R
  <2>. QED  BY <2>1, WFMin
<1>2. \A y \in S : ~ (y < x)
  BY <1>1 DEF OpToRel
<1>. QED  BY <1>2

\* What holds of 0 and goes from each number to the next holds up to n.
LEMMA Counting ==
    ASSUME NEW n \in Nat, NEW S, 0 \in S,
           \A j \in 0..n : j \in S /\ j < n => j + 1 \in S
    PROVE  \A j \in 0..n : j \in S
<1> SUFFICES ASSUME NEW k \in 0..n, k \notin S PROVE FALSE
  OBVIOUS
<1>1. PICK x \in {j \in 0..n : j \notin S} : \A y \in {j \in 0..n : j \notin S} : x <= y
  <2>1. {j \in 0..n : j \notin S} \in SUBSET Nat
    OBVIOUS
  <2>. QED  BY <2>1, LeastElement
<1>2. x # 0 /\ x - 1 \in 0..n /\ (x - 1) + 1 = x /\ x - 1 < n
  BY <1>1
<1>3. x - 1 \in S
  BY <1>1, <1>2
<1>. QED  BY <1>1, <1>2, <1>3

\* A function defined by its value at 0 and a step has a value up to n.
Unrolls(f, n, b, F) == f[0] = b /\ \A j \in 1..n : f[j] = F[<<f[j - 1], j>>]

LEMMA Recursion ==
    ASSUME NEW n \in Nat, NEW A, NEW b \in A, NEW F \in [A \X (1..n) -> A]
    PROVE  \E f \in [0..n -> A] : Unrolls(f, n, b, F)
<1> DEFINE Reached(m) == \E f \in [0..m -> A] : f[0] = b /\ \A j \in 1..m : f[j] = F[<<f[j - 1], j>>]
           S == {m \in 0..n : Reached(m)}
<1>1. 0 \in S
  <2>1. PICK f \in [0..0 -> A] : f = [i \in 0..0 |-> b]
    OBVIOUS
  <2>2. f[0] = b /\ \A j \in 1..0 : f[j] = F[<<f[j - 1], j>>]
    BY <2>1
  <2>. QED  BY <2>2
<1>2. ASSUME NEW m \in 0..n, m \in S, m < n PROVE m + 1 \in S
  <2>1. PICK f \in [0..m -> A] : f[0] = b /\ \A j \in 1..m : f[j] = F[<<f[j - 1], j>>]
    BY <1>2
  <2>2. m \in 0..m /\ m + 1 \in 1..n /\ m + 1 \in 0..n /\ f[m] \in A
    BY <1>2
  <2>3. PICK e \in A : e = F[<<f[m], m + 1>>]
    BY <2>2
  <2>4. PICK g : g = [i \in 0..(m + 1) |-> IF i \in 0..m THEN f[i] ELSE e]
    OBVIOUS
  <2>5. /\ g \in [0..(m + 1) -> A] /\ g[0] = b /\ g[m + 1] = e
        /\ \A i \in 0..m : g[i] = f[i]
    BY <2>1, <2>4
  <2>6. ASSUME NEW j \in 1..(m + 1) PROVE g[j] = F[<<g[j - 1], j>>]
    <3>1. CASE j = m + 1
      <4>1. j - 1 = m /\ g[j - 1] = f[m]
        BY <3>1, <2>2, <2>5
      <4>. QED  BY <3>1, <4>1, <2>3, <2>5
    <3>2. CASE j # m + 1
      <4>1. j \in 1..m /\ j \in 0..m /\ j - 1 \in 0..m
        BY <3>2
      <4>. QED  BY <4>1, <2>1, <2>5
    <3>. QED  BY <3>1, <3>2
  <2>7. Reached(m + 1)
    BY <2>5, <2>6
  <2>. QED  BY <2>2, <2>7
<1> HIDE DEF S
<1>3. \A j \in 0..n : j \in S /\ j < n => j + 1 \in S
  BY <1>2
<1>4. \A j \in 0..n : j \in S
  BY <1>1, <1>3, Counting
<1>5. n \in S
  BY <1>4
<1>. QED  BY <1>5 DEF S, Unrolls

Body(f, s) == [n \in 0..Len(s) |-> IF n = 0 THEN <<>>
                                   ELSE IF Telegram!Blank(s[n]) THEN f[n - 1]
                                   ELSE Append(f[n - 1], s[n])]

Found(s) == CHOOSE f : f = Body(f, s)

\* The letters up to each place.
FoundSo(f, s) ==
    /\ f[0] = <<>>
    /\ \A j \in 1..Len(s) : f[j] = IF Telegram!Blank(s[j]) THEN f[j - 1] ELSE Append(f[j - 1], s[j])

LEMMA LettersAre ==
    ASSUME NEW s
    PROVE  Telegram!Letters(s) = Found(s)[Len(s)]
BY DEF Telegram!Letters, Found, Body

LEMMA FoundBody ==
    ASSUME NEW s \in Seq(Telegram!Chars)
    PROVE  Found(s) = Body(Found(s), s)
<1>1. PICK n \in Nat : n = Len(s)
  OBVIOUS
<1>2. PICK F \in [Seq(Telegram!Chars) \X (1..n) -> Seq(Telegram!Chars)] :
        F = [p \in Seq(Telegram!Chars) \X (1..n) |->
               IF Telegram!Blank(s[p[2]]) THEN p[1] ELSE Append(p[1], s[p[2]])]
  <2>1. ASSUME NEW p \in Seq(Telegram!Chars) \X (1..n)
        PROVE  (IF Telegram!Blank(s[p[2]]) THEN p[1] ELSE Append(p[1], s[p[2]])) \in Seq(Telegram!Chars)
    <3>1. p[1] \in Seq(Telegram!Chars) /\ p[2] \in 1..n
      OBVIOUS
    <3>2. s[p[2]] \in Telegram!Chars
      BY <1>1, <3>1
    <3>. QED  BY <3>1, <3>2
  <2>. QED  BY <2>1
<1>3. PICK A, e : A = Seq(Telegram!Chars) /\ e = <<>>
  OBVIOUS
<1>4. PICK f \in [0..n -> A] :
        f[0] = e /\ \A j \in 1..n : f[j] = F[<<f[j - 1], j>>]
  <2>1. e \in A /\ F \in [A \X (1..n) -> A]
    BY <1>3
  <2>2. \E f \in [0..n -> A] : Unrolls(f, n, e, F)
    BY <2>1, Recursion
  <2>. QED  BY <2>2 DEF Unrolls
<1>5. ASSUME NEW j \in 1..n
      PROVE  f[j] = IF Telegram!Blank(s[j]) THEN f[j - 1] ELSE Append(f[j - 1], s[j])
  <2>1. j - 1 \in 0..n
    OBVIOUS
  <2>2. <<f[j - 1], j>> \in Seq(Telegram!Chars) \X (1..n)
    BY <1>3, <1>4, <2>1
  <2>. QED  BY <1>2, <1>4, <2>2
<1>6. f = Body(f, s)
  <2>1. \A i \in 0..n : f[i] = IF i = 0 THEN <<>>
                               ELSE IF Telegram!Blank(s[i]) THEN f[i - 1]
                               ELSE Append(f[i - 1], s[i])
    <3>1. \A i \in 0..n : i # 0 => i \in 1..n
      OBVIOUS
    <3>. QED  BY <3>1, <1>3, <1>4, <1>5
  <2>2. f = [i \in 0..n |-> f[i]]
    BY <1>4
  <2>. QED  BY <1>1, <2>1, <2>2 DEF Body
<1>. QED  BY <1>6 DEF Found

LEMMA FoundAre ==
    ASSUME NEW s \in Seq(Telegram!Chars)
    PROVE  FoundSo(Found(s), s)
<1>1. PICK n \in Nat : n = Len(s)
  OBVIOUS
<1>2. PICK f : f = Found(s)
  OBVIOUS
<1>3. f = Body(f, s)
  BY <1>2, FoundBody
<1>4. \A i \in 0..n : f[i] = IF i = 0 THEN <<>>
                             ELSE IF Telegram!Blank(s[i]) THEN f[i - 1]
                             ELSE Append(f[i - 1], s[i])
  BY <1>1, <1>3 DEF Body
<1>5. f[0] = <<>>
  <2>1. 0 \in 0..n
    OBVIOUS
  <2>. QED  BY <1>4, <2>1
<1>6. ASSUME NEW j \in 1..n
      PROVE  f[j] = IF Telegram!Blank(s[j]) THEN f[j - 1] ELSE Append(f[j - 1], s[j])
  <2>1. j \in 0..n /\ j # 0
    OBVIOUS
  <2>. QED  BY <1>4, <2>1
<1>. QED  BY <1>1, <1>2, <1>5, <1>6 DEF FoundSo

LEMMA LettersType ==
    ASSUME NEW s \in Seq(Telegram!Chars)
    PROVE  \A j \in 0..Len(s) : Found(s)[j] \in Seq(Telegram!Chars)
<1>1. PICK n \in Nat : n = Len(s)
  OBVIOUS
<1>2. PICK f : f = Found(s)
  OBVIOUS
<1>3. f[0] = <<>> /\ \A j \in 1..n : f[j] = IF Telegram!Blank(s[j]) THEN f[j - 1] ELSE Append(f[j - 1], s[j])
  BY <1>1, <1>2, FoundAre DEF FoundSo
<1> DEFINE S == {j \in 0..n : f[j] \in Seq(Telegram!Chars)}
<1>4. 0 \in S
  <2>1. f[0] = <<>> /\ 0 \in 0..n
    BY <1>3
  <2>2. f[0] \in Seq(Telegram!Chars)
    BY <2>1
  <2>. QED  BY <2>1, <2>2
<1>5. ASSUME NEW j \in 0..n, j \in S, j < n PROVE j + 1 \in S
  <2>1. j + 1 \in 1..n /\ (j + 1) - 1 = j /\ j + 1 \in 0..n
    BY <1>5
  <2>2. s[j + 1] \in Telegram!Chars
    BY <1>1, <2>1
  <2>3. f[j + 1] = IF Telegram!Blank(s[j + 1]) THEN f[j] ELSE Append(f[j], s[j + 1])
    BY <1>3, <2>1
  <2>4. f[j] \in Seq(Telegram!Chars)
    BY <1>5
  <2>5. f[j + 1] \in Seq(Telegram!Chars)
    <3>1. CASE Telegram!Blank(s[j + 1])
      BY <2>3, <2>4, <3>1
    <3>2. CASE ~Telegram!Blank(s[j + 1])
      BY <2>2, <2>3, <2>4, <3>2
    <3>. QED  BY <3>1, <3>2
  <2>. QED  BY <2>1, <2>5
<1> HIDE DEF S
<1>6. \A j \in 0..n : j \in S
  BY <1>4, <1>5, Counting
<1>. QED  BY <1>1, <1>2, <1>6 DEF S

\* A text of blanks has no letters.
LEMMA BlanksHaveNone ==
    ASSUME NEW s \in Seq(Telegram!Chars), \A i \in 1..Len(s) : Telegram!Blank(s[i])
    PROVE  Telegram!Letters(s) = <<>>
<1>1. PICK n \in Nat : n = Len(s)
  OBVIOUS
<1>2. PICK f : f = Found(s)
  OBVIOUS
<1>3. f[0] = <<>> /\ \A j \in 1..n : f[j] = f[j - 1]
  BY <1>1, <1>2, FoundAre DEF FoundSo
<1> DEFINE S == {j \in 0..n : f[j] = <<>>}
<1>4. 0 \in S
  BY <1>3
<1>5. ASSUME NEW j \in 0..n, j \in S, j < n PROVE j + 1 \in S
  <2>1. j + 1 \in 1..n /\ (j + 1) - 1 = j /\ j + 1 \in 0..n
    BY <1>5
  <2>2. f[j + 1] = f[j] /\ f[j] = <<>>
    BY <1>3, <1>5, <2>1
  <2>. QED  BY <2>1, <2>2
<1> HIDE DEF S
<1>6. \A j \in 0..n : j \in S
  BY <1>4, <1>5, Counting
<1>. QED  BY <1>1, <1>2, <1>6, LettersAre DEF S

Regroups(u, v, w) == (u \o v) \o w = u \o (v \o w)

Moves(u, v, c) == Append(u \o v, c) = u \o Append(v, c)

LEMMA AppendToConcat ==
    ASSUME NEW X, NEW u \in Seq(X), NEW v \in Seq(X), NEW c \in X
    PROVE  Moves(u, v, c)
<1>1. Append(u \o v, c) = (u \o v) \o <<c>>
  <2>1. u \o v \in Seq(X)
    BY ConcatProperties
  <2>. QED  BY <2>1, AppendIsConcat
<1>2. Append(v, c) = v \o <<c>>
  BY AppendIsConcat
<1>3. <<c>> \in Seq(X)
  OBVIOUS
<1>4. Regroups(u, v, <<c>>)
  BY <1>3, ConcatAssociative DEF Regroups
<1>. QED  BY <1>1, <1>2, <1>4 DEF Moves, Regroups

\* Cutting a text cuts its letters.
Splits(s, a, b) == Telegram!Letters(s) = Telegram!Letters(a) \o Telegram!Letters(b)

LEMMA LettersSplit ==
    ASSUME NEW s \in Seq(Telegram!Chars), NEW a \in Seq(Telegram!Chars), NEW b \in Seq(Telegram!Chars),
           Len(s) = Len(a) + Len(b),
           \A i \in 1..Len(a) : s[i] = a[i],
           \A i \in 1..Len(b) : s[Len(a) + i] = b[i]
    PROVE  Splits(s, a, b)
<1>1. PICK n, m, k \in Nat : n = Len(s) /\ m = Len(a) /\ k = Len(b)
  OBVIOUS
<1>2. PICK f, g, h : f = Found(s) /\ g = Found(a) /\ h = Found(b)
  OBVIOUS
<1>3. f[0] = <<>> /\ \A j \in 1..n : f[j] = IF Telegram!Blank(s[j]) THEN f[j - 1] ELSE Append(f[j - 1], s[j])
  BY <1>1, <1>2, FoundAre DEF FoundSo
<1>4. g[0] = <<>> /\ \A j \in 1..m : g[j] = IF Telegram!Blank(a[j]) THEN g[j - 1] ELSE Append(g[j - 1], a[j])
  BY <1>1, <1>2, FoundAre DEF FoundSo
<1>5. h[0] = <<>> /\ \A j \in 1..k : h[j] = IF Telegram!Blank(b[j]) THEN h[j - 1] ELSE Append(h[j - 1], b[j])
  BY <1>1, <1>2, FoundAre DEF FoundSo
<1>6. \A j \in 0..m : g[j] \in Seq(Telegram!Chars)
  BY <1>1, <1>2, LettersType
<1>7. \A j \in 0..k : h[j] \in Seq(Telegram!Chars)
  BY <1>1, <1>2, LettersType
<1>8. f[m] = g[m]
  <2> DEFINE S == {j \in 0..m : f[j] = g[j]}
  <2>1. 0 \in S
    <3>1. 0 \in 0..m
      OBVIOUS
    <3>2. f[0] = g[0]
      BY <1>3, <1>4
    <3>. QED  BY <3>1, <3>2
  <2>2. ASSUME NEW j \in 0..m, j \in S, j < m PROVE j + 1 \in S
    <3>1. j + 1 \in 1..m /\ j + 1 \in 1..n /\ (j + 1) - 1 = j /\ j + 1 \in 0..m
      BY <1>1, <2>2
    <3>2. s[j + 1] = a[j + 1] /\ f[j] = g[j]
      BY <1>1, <2>2, <3>1
    <3>3. f[j + 1] = IF Telegram!Blank(s[j + 1]) THEN f[j] ELSE Append(f[j], s[j + 1])
      BY <1>3, <3>1
    <3>4. g[j + 1] = IF Telegram!Blank(a[j + 1]) THEN g[j] ELSE Append(g[j], a[j + 1])
      BY <1>4, <3>1
    <3>5. f[j + 1] = g[j + 1]
      BY <3>2, <3>3, <3>4
    <3>. QED  BY <3>1, <3>5
  <2> HIDE DEF S
  <2>3. \A j \in 0..m : j \in S
    BY <2>1, <2>2, Counting
  <2>4. m \in S
    <3>1. m \in 0..m
      OBVIOUS
    <3>. QED  BY <2>3, <3>1
  <2>. QED  BY <2>4 DEF S
<1>9. f[m + k] = g[m] \o h[k]
  <2> DEFINE S == {j \in 0..k : f[m + j] = g[m] \o h[j]}
  <2>0. g[m] \in Seq(Telegram!Chars)
    BY <1>6
  <2>1. 0 \in S
    <3>1. 0 \in 0..k /\ m + 0 = m
      OBVIOUS
    <3>2. g[m] \o <<>> = g[m]
      BY <2>0
    <3>3. f[m + 0] = g[m] \o h[0]
      BY <1>5, <1>8, <3>1, <3>2
    <3>. QED  BY <3>1, <3>3
  <2>2. ASSUME NEW j \in 0..k, j \in S, j < k PROVE j + 1 \in S
    <3>1. /\ j + 1 \in 1..k /\ (j + 1) - 1 = j /\ j + 1 \in 0..k
          /\ m + (j + 1) \in 1..n /\ (m + (j + 1)) - 1 = m + j
      BY <1>1, <2>2
    <3>2. s[m + (j + 1)] = b[j + 1] /\ f[m + j] = g[m] \o h[j]
      BY <1>1, <2>2, <3>1
    <3>3. f[m + (j + 1)] = IF Telegram!Blank(s[m + (j + 1)]) THEN f[m + j]
                           ELSE Append(f[m + j], s[m + (j + 1)])
      BY <1>3, <3>1
    <3>4. h[j + 1] = IF Telegram!Blank(b[j + 1]) THEN h[j] ELSE Append(h[j], b[j + 1])
      BY <1>5, <3>1
    <3>5. h[j] \in Seq(Telegram!Chars) /\ b[j + 1] \in Telegram!Chars
      BY <1>1, <1>7, <3>1
    <3>6. f[m + (j + 1)] = g[m] \o h[j + 1]
      <4>1. CASE Telegram!Blank(b[j + 1])
        BY <3>2, <3>3, <3>4, <4>1
      <4>2. CASE ~Telegram!Blank(b[j + 1])
        <5>1. PICK u, v \in Seq(Telegram!Chars), c \in Telegram!Chars : u = g[m] /\ v = h[j] /\ c = b[j + 1]
          BY <2>0, <3>5
        <5>2. Append(u \o v, c) = u \o Append(v, c)
          <6>1. Moves(u, v, c)
            BY AppendToConcat
          <6>. QED  BY <6>1 DEF Moves
        <5>. QED  BY <3>2, <3>3, <3>4, <4>2, <5>1, <5>2
      <4>. QED  BY <4>1, <4>2
    <3>. QED  BY <3>1, <3>6
  <2> HIDE DEF S
  <2>3. \A j \in 0..k : j \in S
    BY <2>1, <2>2, Counting
  <2>4. k \in S
    BY <2>3
  <2>. QED  BY <2>4 DEF S
<1>10. n = m + k
  BY <1>1
<1>. QED  BY <1>1, <1>2, <1>9, <1>10, LettersAre DEF Splits

LEMMA LettersTyped ==
    ASSUME NEW s \in Seq(Telegram!Chars)
    PROVE  Telegram!Letters(s) \in Seq(Telegram!Chars)
<1>1. Len(s) \in 0..Len(s)
  OBVIOUS
<1>. QED  BY <1>1, LettersType, LettersAre

LEMMA LettersJoin ==
    ASSUME NEW a \in Seq(Telegram!Chars), NEW b \in Seq(Telegram!Chars)
    PROVE  Splits(a \o b, a, b)
<1>1. PICK s : s = a \o b
  OBVIOUS
<1>2. /\ s \in Seq(Telegram!Chars) /\ Len(s) = Len(a) + Len(b)
      /\ \A i \in 1..(Len(a) + Len(b)) : s[i] = IF i <= Len(a) THEN a[i] ELSE b[i - Len(a)]
  BY <1>1, ConcatProperties
<1>3. PICK m, k \in Nat : m = Len(a) /\ k = Len(b)
  OBVIOUS
<1>4. \A i \in 1..m : s[i] = a[i]
  BY <1>2, <1>3
<1>5. ASSUME NEW i \in 1..k PROVE s[m + i] = b[i]
  <2>1. m + i \in 1..(m + k) /\ ~(m + i <= m) /\ (m + i) - m = i
    OBVIOUS
  <2>. QED  BY <1>2, <1>3, <2>1
<1>6. Splits(s, a, b)
  BY <1>2, <1>3, <1>4, <1>5, LettersSplit
<1>. QED  BY <1>1, <1>6

LEMMA LeastIs ==
    ASSUME NEW S \in SUBSET Nat, S # {}
    PROVE  Telegram!Min(S) \in S /\ \A y \in S : Telegram!Min(S) <= y
<1>1. \E x \in S : \A y \in S : x <= y
  BY LeastElement
<1>. QED  BY <1>1 DEF Telegram!Min

LEMMA GreatestIs ==
    ASSUME NEW n \in Nat, NEW S \in SUBSET (0..n), S # {}
    PROVE  Telegram!Max(S) \in S /\ \A y \in S : Telegram!Max(S) >= y
<1> DEFINE D == {n - i : i \in S}
<1>1. PICK x \in D : \A y \in D : x <= y
  <2>1. \A i \in S : n - i \in Nat
    <3>1. \A i \in S : i \in 0..n
      OBVIOUS
    <3>. QED  BY <3>1
  <2>2. D \subseteq Nat
    BY <2>1
  <2>3. D # {}
    OBVIOUS
  <2> HIDE DEF D
  <2>. QED  BY <2>2, <2>3, LeastElement
<1>2. PICK i \in S : x = n - i
  BY <1>1
<1>3. ASSUME NEW j \in S PROVE i >= j
  <2>1. n - i <= n - j /\ i \in 0..n /\ j \in 0..n
    BY <1>1, <1>2
  <2>. QED  BY <2>1
<1>4. \E k \in S : \A j \in S : k >= j
  BY <1>3
<1>. QED  BY <1>4 DEF Telegram!Max

\* Stripping loses blanks only, and what is left begins with a letter.
LEMMA StrippedIs ==
    ASSUME NEW s \in Seq(Telegram!Chars)
    PROVE  /\ Telegram!Stripped(s) \in Seq(Telegram!Chars)
           /\ Telegram!Letters(Telegram!Stripped(s)) = Telegram!Letters(s)
           /\ Telegram!Stripped(s) # <<>> => ~Telegram!Blank(Telegram!Stripped(s)[1])
<1>1. PICK n \in Nat : n = Len(s)
  OBVIOUS
<1>2. PICK S : S = {i \in DOMAIN s : ~Telegram!Blank(s[i])} \union {Len(s) + 1}
  OBVIOUS
<1>3. /\ S \in SUBSET Nat /\ S # {} /\ S \subseteq 1..(n + 1)
      /\ \A i \in 1..n : i \in S <=> ~Telegram!Blank(s[i])
  BY <1>1, <1>2
<1>4. PICK m : m = Telegram!Min(S)
  OBVIOUS
<1>5. m \in S /\ \A y \in S : m <= y
  BY <1>3, <1>4, LeastIs
<1>6. PICK b : b = SubSeq(s, m, n)
  OBVIOUS
<1>7. Telegram!Stripped(s) = b
  BY <1>1, <1>2, <1>4, <1>6 DEF Telegram!Stripped
<1>8. m \in 1..(n + 1)
  BY <1>3, <1>5
<1>9. /\ b \in Seq(Telegram!Chars) /\ Len(b) = n - m + 1
      /\ \A i \in 1..(n - m + 1) : b[i] = s[m + i - 1]
  <2>1. m \in Int /\ n \in Int /\ \A i \in m..n : s[i] \in Telegram!Chars
    BY <1>1, <1>8
  <2>2. /\ b \in Seq(Telegram!Chars) /\ Len(b) = IF m <= n THEN n - m + 1 ELSE 0
        /\ \A i \in 1..(n - m + 1) : b[i] = s[m + i - 1]
    BY <1>6, <2>1, SubSeqProperties
  <2>. QED  BY <1>8, <2>2
<1>10. PICK a : a = SubSeq(s, 1, m - 1)
  OBVIOUS
<1>11. a \in Seq(Telegram!Chars) /\ Len(a) = m - 1 /\ \A i \in 1..(m - 1) : a[i] = s[i]
  <2>1. 1 \in Int /\ m - 1 \in Int /\ \A i \in 1..(m - 1) : s[i] \in Telegram!Chars
    BY <1>1, <1>8
  <2>2. /\ a \in Seq(Telegram!Chars) /\ Len(a) = IF 1 <= m - 1 THEN (m - 1) - 1 + 1 ELSE 0
        /\ \A i \in 1..((m - 1) - 1 + 1) : a[i] = s[1 + i - 1]
    BY <1>10, <2>1, SubSeqProperties
  <2>. QED  BY <1>8, <2>2
<1>12. Telegram!Letters(a) = <<>>
  <2>1. \A i \in 1..Len(a) : Telegram!Blank(a[i])
    <3>1. ASSUME NEW i \in 1..(m - 1) PROVE Telegram!Blank(a[i])
      <4>1. i \in 1..n /\ ~(m <= i)
        BY <1>8
      <4>2. i \notin S
        BY <1>5, <4>1
      <4>. QED  BY <1>3, <1>11, <4>1, <4>2
    <3>. QED  BY <1>11, <3>1
  <2>. QED  BY <1>11, <2>1, BlanksHaveNone
<1>13. Splits(s, a, b)
  <2>1. Len(s) = Len(a) + Len(b) /\ \A i \in 1..Len(a) : s[i] = a[i]
    BY <1>1, <1>8, <1>9, <1>11
  <2>2. ASSUME NEW i \in 1..Len(b) PROVE s[Len(a) + i] = b[i]
    <3>1. Len(a) + i = m + i - 1 /\ i \in 1..(n - m + 1)
      BY <1>8, <1>9, <1>11
    <3>. QED  BY <1>9, <3>1
  <2>. QED  BY <1>9, <1>11, <2>1, <2>2, LettersSplit
<1>14. Telegram!Letters(s) = Telegram!Letters(b)
  <2>1. Telegram!Letters(b) \in Seq(Telegram!Chars)
    BY <1>9, LettersTyped
  <2>2. <<>> \o Telegram!Letters(b) = Telegram!Letters(b)
    BY <2>1
  <2>. QED  BY <1>12, <1>13, <2>2 DEF Splits
<1>15. b # <<>> => ~Telegram!Blank(b[1])
  <2> SUFFICES ASSUME b # <<>> PROVE ~Telegram!Blank(b[1])
    OBVIOUS
  <2>1. n - m + 1 >= 1
    <3>1. Len(b) # 0
      BY <1>9
    <3>. QED  BY <1>8, <1>9, <3>1
  <2>2. m \in 1..n /\ 1 \in 1..(n - m + 1) /\ m + 1 - 1 = m
    BY <1>8, <2>1
  <2>3. b[1] = s[m]
    BY <1>9, <2>2
  <2>. QED  BY <1>3, <1>5, <2>2, <2>3
<1>. QED  BY <1>7, <1>9, <1>14, <1>15

LEMMA LastOfIs ==
    ASSUME NEW c, NEW s \in Seq(Telegram!Chars)
    PROVE  Telegram!LastOf(c, s) \in 0..Len(s) /\ (Telegram!LastOf(c, s) > 0 => s[Telegram!LastOf(c, s)] = c)
<1>1. PICK n \in Nat : n = Len(s)
  OBVIOUS
<1>2. PICK S : S = {0} \union {i \in DOMAIN s : s[i] = c}
  OBVIOUS
<1>3. S \in SUBSET (0..n) /\ S # {} /\ \A i \in S : i > 0 => s[i] = c
  BY <1>1, <1>2
<1>4. Telegram!Max(S) \in S
  BY <1>3, GreatestIs
<1>. QED  BY <1>1, <1>2, <1>3, <1>4 DEF Telegram!LastOf

CutSo(s, c) ==
    /\ c.piece \in Seq(Telegram!Chars) /\ c.rest \in Seq(Telegram!Chars)
    /\ Len(c.piece) <= tg_MaxLen
    /\ Telegram!Letters(s) = Telegram!Letters(c.piece) \o Telegram!Letters(c.rest)
    /\ c.rest # <<>> => ~Telegram!Blank(c.rest[1])
    /\ ~Telegram!Blank(s[1]) => c.piece # <<>>

\* A round of _split_message loses blanks only.
LEMMA CutIs ==
    ASSUME tg_MaxLen \in Nat \ {0}, NEW s \in Seq(Telegram!Chars), Len(s) > tg_MaxLen
    PROVE  CutSo(s, Telegram!Cut(s))
<1>1. PICK n \in Nat : n = Len(s)
  OBVIOUS
<1>2. PICK head : head = SubSeq(s, 1, tg_MaxLen)
  OBVIOUS
<1>3. head \in Seq(Telegram!Chars) /\ Len(head) = tg_MaxLen /\ \A i \in 1..tg_MaxLen : head[i] = s[i]
  <2>1. 1 \in Int /\ tg_MaxLen \in Int /\ \A i \in 1..tg_MaxLen : s[i] \in Telegram!Chars
    BY <1>1
  <2>2. /\ head \in Seq(Telegram!Chars) /\ Len(head) = IF 1 <= tg_MaxLen THEN tg_MaxLen - 1 + 1 ELSE 0
        /\ \A i \in 1..(tg_MaxLen - 1 + 1) : head[i] = s[1 + i - 1]
    BY <1>2, <2>1, SubSeqProperties
  <2>. QED  BY <2>2
<1>4. PICK line, blank : line = Telegram!LastOf("/", head) /\ blank = Telegram!LastOf(" ", head)
  OBVIOUS
<1>5. /\ line \in 0..tg_MaxLen /\ (line > 0 => head[line] = "/")
      /\ blank \in 0..tg_MaxLen /\ (blank > 0 => head[blank] = " ")
  BY <1>3, <1>4, LastOfIs
<1>6. PICK pos : pos = IF line > 0 THEN line - 1 ELSE IF blank > 0 THEN blank - 1 ELSE tg_MaxLen
  OBVIOUS
<1>a. line \in 0..tg_MaxLen /\ blank \in 0..tg_MaxLen
  BY <1>5
<1>7. pos \in 0..tg_MaxLen
  <2>1. CASE line > 0
    BY <1>a, <1>6, <2>1
  <2>2. CASE ~(line > 0) /\ blank > 0
    BY <1>a, <1>6, <2>2
  <2>3. CASE ~(line > 0) /\ ~(blank > 0)
    BY <1>a, <1>6, <2>3
  <2>. QED  BY <2>1, <2>2, <2>3
<1>8. PICK p, q : p = SubSeq(s, 1, pos) /\ q = SubSeq(s, pos + 1, n)
  OBVIOUS
<1>9. Telegram!Cut(s) = [piece |-> p, rest |-> Telegram!Stripped(q)]
  BY <1>1, <1>2, <1>4, <1>6, <1>8 DEF Telegram!Cut
<1>10. p \in Seq(Telegram!Chars) /\ Len(p) = pos /\ \A i \in 1..pos : p[i] = s[i]
  <2>1. 1 \in Int /\ pos \in Int /\ \A i \in 1..pos : s[i] \in Telegram!Chars
    BY <1>1, <1>7
  <2>2. /\ p \in Seq(Telegram!Chars) /\ Len(p) = IF 1 <= pos THEN pos - 1 + 1 ELSE 0
        /\ \A i \in 1..(pos - 1 + 1) : p[i] = s[1 + i - 1]
    BY <1>8, <2>1, SubSeqProperties
  <2>. QED  BY <1>7, <2>2
<1>11. q \in Seq(Telegram!Chars) /\ Len(q) = n - pos /\ \A i \in 1..(n - pos) : q[i] = s[pos + i]
  <2>1. pos + 1 \in Int /\ n \in Int /\ \A i \in (pos + 1)..n : s[i] \in Telegram!Chars
    BY <1>1, <1>7
  <2>2. /\ q \in Seq(Telegram!Chars) /\ Len(q) = IF pos + 1 <= n THEN n - (pos + 1) + 1 ELSE 0
        /\ \A i \in 1..(n - (pos + 1) + 1) : q[i] = s[(pos + 1) + i - 1]
    BY <1>8, <2>1, SubSeqProperties
  <2>3. pos + 1 <= n /\ n - (pos + 1) + 1 = n - pos
    BY <1>1, <1>7
  <2>4. ASSUME NEW i \in 1..(n - pos) PROVE q[i] = s[pos + i]
    <3>1. (pos + 1) + i - 1 = pos + i
      BY <1>7
    <3>. QED  BY <2>2, <2>3, <3>1
  <2>. QED  BY <2>2, <2>3, <2>4
<1>12. Splits(s, p, q)
  <2>0. n = pos + (n - pos)
    BY <1>7
  <2>1. Len(s) = Len(p) + Len(q)
    BY <1>1, <1>10, <1>11, <2>0
  <2>3. \A i \in 1..Len(p) : s[i] = p[i]
    BY <1>10
  <2>2. \A i \in 1..Len(q) : s[Len(p) + i] = q[i]
    BY <1>10, <1>11
  <2>. QED  BY <1>10, <1>11, <2>1, <2>2, <2>3, LettersSplit
<1>13. PICK r : r = Telegram!Stripped(q)
  OBVIOUS
<1>14. r \in Seq(Telegram!Chars) /\ Telegram!Letters(r) = Telegram!Letters(q) /\ (r # <<>> => ~Telegram!Blank(r[1]))
  BY <1>11, <1>13, StrippedIs
<1>15. ~Telegram!Blank(s[1]) => p # <<>>
  <2> SUFFICES ASSUME ~Telegram!Blank(s[1]) PROVE p # <<>>
    OBVIOUS
  <2>1. s[1] = "x"
    BY DEF Telegram!Blank
  <2>2. head[1] = "x"
    BY <1>3, <2>1
  <2>3. line # 1 /\ blank # 1
    <3>1. 1 > 0
      OBVIOUS
    <3>2. line = 1 => head[1] = "/"
      BY <1>5, <3>1
    <3>3. blank = 1 => head[1] = " "
      BY <1>5, <3>1
    <3>. QED  BY <2>2, <3>2, <3>3
  <2>4. pos >= 1
    <3>1. CASE line > 0
      BY <1>a, <1>6, <2>3, <3>1
    <3>2. CASE ~(line > 0) /\ blank > 0
      BY <1>a, <1>6, <2>3, <3>2
    <3>3. CASE ~(line > 0) /\ ~(blank > 0)
      BY <1>a, <1>6, <3>3
    <3>. QED  BY <3>1, <3>2, <3>3
  <2>5. Len(p) # 0
    BY <1>7, <1>10, <2>4
  <2>. QED  BY <2>5
<1>16. PICK c : c = [piece |-> p, rest |-> r]
  OBVIOUS
<1>17. CutSo(s, c)
  BY <1>7, <1>10, <1>12, <1>14, <1>15, <1>16 DEF CutSo, Splits
<1>. QED  BY <1>9, <1>13, <1>16, <1>17
PieceSo(s, c) ==
    /\ c.piece \in Seq(Telegram!Chars) /\ Len(c.piece) <= tg_MaxLen
    /\ c.rest = Telegram!Done => Telegram!Letters(s) = Telegram!Letters(c.piece)
    /\ c.rest # Telegram!Done => /\ c.rest \in Seq(Telegram!Chars) /\ c.rest # <<>> /\ ~Telegram!Blank(c.rest[1])
                                 /\ Telegram!Letters(s) = Telegram!Letters(c.piece) \o Telegram!Letters(c.rest)
    /\ s # <<>> /\ ~Telegram!Blank(s[1]) => c.piece # <<>>

LEMMA DoneIsNoText == Telegram!Done \notin Seq(Telegram!Chars)
<1> SUFFICES ASSUME Telegram!Done \in Seq(Telegram!Chars) PROVE FALSE
  OBVIOUS
<1>1. Telegram!Done[1] \in Telegram!Chars
  <2>1. Len(Telegram!Done) = 1
    BY DEF Telegram!Done
  <2>. QED  BY <2>1
<1>. QED  BY <1>1 DEF Telegram!Done, Telegram!Chars

LEMMA PieceIs ==
    ASSUME tg_MaxLen \in Nat \ {0}, NEW s \in Seq(Telegram!Chars)
    PROVE  PieceSo(s, Telegram!Piece(s))
<1>1. CASE Len(s) <= tg_MaxLen
  <2>1. PICK c : c = [piece |-> s, rest |-> Telegram!Done]
    OBVIOUS
  <2>2. c.piece = s /\ c.rest = Telegram!Done
    BY <2>1
  <2>3. PieceSo(s, c)
    BY <1>1, <2>2 DEF PieceSo
  <2>. QED  BY <1>1, <2>1, <2>3 DEF Telegram!Piece
<1>2. CASE ~(Len(s) <= tg_MaxLen)
  <2>0. Len(s) > tg_MaxLen
    BY <1>2
  <2>1. PICK p, r : p = Telegram!Cut(s).piece /\ r = Telegram!Cut(s).rest
    OBVIOUS
  <2>2. CutSo(s, Telegram!Cut(s))
    BY <2>0, CutIs
  <2>3. /\ p \in Seq(Telegram!Chars) /\ r \in Seq(Telegram!Chars) /\ Len(p) <= tg_MaxLen
        /\ Telegram!Letters(s) = Telegram!Letters(p) \o Telegram!Letters(r)
        /\ r # <<>> => ~Telegram!Blank(r[1])
        /\ ~Telegram!Blank(s[1]) => p # <<>>
    BY <2>1, <2>2 DEF CutSo
  <2>4. PICK e : e = IF r = <<>> THEN Telegram!Done ELSE r
    OBVIOUS
  <2>5. PICK c : c = Telegram!Piece(s)
    OBVIOUS
  <2>6. c.piece = p /\ c.rest = e
    <3>1. c = [Telegram!Cut(s) EXCEPT !.rest = e]
      BY <1>2, <2>1, <2>4, <2>5 DEF Telegram!Piece
    <3>2. PICK q, u : Telegram!Cut(s) = [piece |-> q, rest |-> u]
      BY DEF Telegram!Cut
    <3>. QED  BY <2>1, <3>1, <3>2
  <2>7. CASE r = <<>>
    <3>1. Telegram!Letters(r) = <<>>
      <4>1. \A i \in 1..Len(r) : Telegram!Blank(r[i])
        BY <2>7
      <4>. QED  BY <2>3, <4>1, BlanksHaveNone
    <3>2. Telegram!Letters(s) = Telegram!Letters(p)
      <4>1. Telegram!Letters(p) \in Seq(Telegram!Chars)
        BY <2>3, LettersTyped
      <4>2. Telegram!Letters(p) \o <<>> = Telegram!Letters(p)
        BY <4>1
      <4>. QED  BY <2>3, <3>1, <4>2
    <3>3. e = Telegram!Done
      BY <2>4, <2>7
    <3>4. PieceSo(s, c)
      BY <2>3, <2>6, <3>2, <3>3 DEF PieceSo
    <3>. QED  BY <2>5, <3>4
  <2>8. CASE r # <<>>
    <3>1. e = r /\ e # Telegram!Done
      BY <2>3, <2>4, <2>8, DoneIsNoText
    <3>2. PieceSo(s, c)
      BY <2>3, <2>6, <2>8, <3>1 DEF PieceSo
    <3>. QED  BY <2>5, <3>2
  <2>. QED  BY <2>7, <2>8
<1>. QED  BY <1>1, <1>2

Bubbles == [text : Seq(Telegram!Chars), how : {"html", "plain", "logged"}]

JoinBody(f, ps) == [n \in 0..Len(ps) |-> IF n = 0 THEN <<>> ELSE f[n - 1] \o ps[n].text]
JoinOf(ps) == CHOOSE f : f = JoinBody(f, ps)
JoinSo(f, ps) == f[0] = <<>> /\ \A j \in 1..Len(ps) : f[j] = f[j - 1] \o ps[j].text

LEMMA JoinedAre ==
    ASSUME NEW ps
    PROVE  Telegram!Joined(ps) = JoinOf(ps)[Len(ps)]
BY DEF Telegram!Joined, JoinOf, JoinBody

LEMMA JoinFound ==
    ASSUME NEW ps \in Seq(Bubbles)
    PROVE  JoinOf(ps) = JoinBody(JoinOf(ps), ps)
<1>1. PICK n \in Nat : n = Len(ps)
  OBVIOUS
<1>2. PICK F \in [Seq(Telegram!Chars) \X (1..n) -> Seq(Telegram!Chars)] :
        F = [p \in Seq(Telegram!Chars) \X (1..n) |-> p[1] \o ps[p[2]].text]
  <2>1. ASSUME NEW p \in Seq(Telegram!Chars) \X (1..n)
        PROVE  p[1] \o ps[p[2]].text \in Seq(Telegram!Chars)
    <3>1. p[1] \in Seq(Telegram!Chars) /\ p[2] \in 1..n
      OBVIOUS
    <3>2. ps[p[2]] \in Bubbles
      BY <1>1, <3>1
    <3>3. ps[p[2]].text \in Seq(Telegram!Chars)
      BY <3>2 DEF Bubbles
    <3>. QED  BY <3>1, <3>3, ConcatProperties
  <2>. QED  BY <2>1
<1>3. PICK A, e : A = Seq(Telegram!Chars) /\ e = <<>>
  OBVIOUS
<1>4. PICK f \in [0..n -> A] :
        f[0] = e /\ \A j \in 1..n : f[j] = F[<<f[j - 1], j>>]
  <2>1. e \in A /\ F \in [A \X (1..n) -> A]
    BY <1>3
  <2>2. \E f \in [0..n -> A] : Unrolls(f, n, e, F)
    BY <2>1, Recursion
  <2>. QED  BY <2>2 DEF Unrolls
<1>5. ASSUME NEW j \in 1..n
      PROVE  f[j] = f[j - 1] \o ps[j].text
  <2>1. j - 1 \in 0..n
    OBVIOUS
  <2>2. <<f[j - 1], j>> \in Seq(Telegram!Chars) \X (1..n)
    BY <1>3, <1>4, <2>1
  <2>. QED  BY <1>2, <1>4, <2>2
<1>6. f = JoinBody(f, ps)
  <2>1. \A i \in 0..n : f[i] = IF i = 0 THEN <<>> ELSE f[i - 1] \o ps[i].text
    <3>1. \A i \in 0..n : i # 0 => i \in 1..n
      OBVIOUS
    <3>. QED  BY <3>1, <1>3, <1>4, <1>5
  <2>2. f = [i \in 0..n |-> f[i]]
    BY <1>4
  <2>. QED  BY <1>1, <2>1, <2>2 DEF JoinBody
<1>. QED  BY <1>6 DEF JoinOf

LEMMA JoinIs ==
    ASSUME NEW ps \in Seq(Bubbles)
    PROVE  JoinSo(JoinOf(ps), ps)
<1>1. PICK n \in Nat : n = Len(ps)
  OBVIOUS
<1>2. PICK f : f = JoinOf(ps)
  OBVIOUS
<1>3. f = JoinBody(f, ps)
  BY <1>2, JoinFound
<1>4. \A i \in 0..n : f[i] = IF i = 0 THEN <<>> ELSE f[i - 1] \o ps[i].text
  BY <1>1, <1>3 DEF JoinBody
<1>5. f[0] = <<>>
  <2>1. 0 \in 0..n
    OBVIOUS
  <2>. QED  BY <1>4, <2>1
<1>6. ASSUME NEW j \in 1..n PROVE f[j] = f[j - 1] \o ps[j].text
  <2>1. j \in 0..n /\ j # 0
    OBVIOUS
  <2>. QED  BY <1>4, <2>1
<1>. QED  BY <1>1, <1>2, <1>5, <1>6 DEF JoinSo

\* What was sent so far is a text.
LEMMA JoinTyped ==
    ASSUME NEW ps \in Seq(Bubbles)
    PROVE  Telegram!Joined(ps) \in Seq(Telegram!Chars)
<1>1. PICK n \in Nat : n = Len(ps)
  OBVIOUS
<1>2. PICK f : f = JoinOf(ps)
  OBVIOUS
<1>3. f[0] = <<>> /\ \A j \in 1..n : f[j] = f[j - 1] \o ps[j].text
  BY <1>1, <1>2, JoinIs DEF JoinSo
<1> DEFINE S == {j \in 0..n : f[j] \in Seq(Telegram!Chars)}
<1>4. 0 \in S
  <2>1. f[0] = <<>> /\ 0 \in 0..n
    BY <1>3
  <2>2. f[0] \in Seq(Telegram!Chars)
    BY <2>1
  <2>. QED  BY <2>1, <2>2
<1>5. ASSUME NEW j \in 0..n, j \in S, j < n PROVE j + 1 \in S
  <2>1. j + 1 \in 1..n /\ (j + 1) - 1 = j /\ j + 1 \in 0..n
    BY <1>5
  <2>2. ps[j + 1] \in Bubbles
    BY <1>1, <2>1
  <2>3. ps[j + 1].text \in Seq(Telegram!Chars) /\ f[j] \in Seq(Telegram!Chars)
    BY <1>5, <2>2 DEF Bubbles
  <2>4. f[j + 1] = f[j] \o ps[j + 1].text
    BY <1>3, <2>1
  <2>5. f[j + 1] \in Seq(Telegram!Chars)
    BY <2>3, <2>4, ConcatProperties
  <2>. QED  BY <2>1, <2>5
<1> HIDE DEF S
<1>6. \A j \in 0..n : j \in S
  BY <1>4, <1>5, Counting
<1>7. n \in S
  BY <1>6
<1>. QED  BY <1>1, <1>2, <1>7, JoinedAre DEF S

Grows(ps, x) == Telegram!Joined(Append(ps, x)) = Telegram!Joined(ps) \o x.text

LEMMA JoinGrows ==
    ASSUME NEW ps \in Seq(Bubbles), NEW x \in Bubbles
    PROVE  Grows(ps, x)
<1>1. PICK n \in Nat : n = Len(ps)
  OBVIOUS
<1>2. PICK qs \in Seq(Bubbles) : qs = Append(ps, x)
  <2>1. Append(ps, x) \in Seq(Bubbles)
    BY AppendProperties
  <2>. QED  BY <2>1, Zenon
<1>3. Len(qs) = n + 1 /\ qs[n + 1] = x /\ \A i \in 1..n : qs[i] = ps[i]
  BY <1>1, <1>2
<1>4. PICK f, g : f = JoinOf(ps) /\ g = JoinOf(qs)
  OBVIOUS
<1>5. f[0] = <<>> /\ \A j \in 1..n : f[j] = f[j - 1] \o ps[j].text
  BY <1>1, <1>4, JoinIs DEF JoinSo
<1>6. g[0] = <<>> /\ \A j \in 1..(n + 1) : g[j] = g[j - 1] \o qs[j].text
  BY <1>3, <1>4, JoinIs DEF JoinSo
<1> DEFINE S == {j \in 0..n : f[j] = g[j]}
<1>7. 0 \in S
  <2>1. 0 \in 0..n
    OBVIOUS
  <2>2. f[0] = g[0]
    BY <1>5, <1>6
  <2>. QED  BY <2>1, <2>2
<1>8. ASSUME NEW j \in 0..n, j \in S, j < n PROVE j + 1 \in S
  <2>1. j + 1 \in 1..n /\ j + 1 \in 1..(n + 1) /\ (j + 1) - 1 = j /\ j + 1 \in 0..n
    BY <1>8
  <2>2. qs[j + 1] = ps[j + 1] /\ f[j] = g[j]
    BY <1>3, <1>8, <2>1
  <2>3. f[j + 1] = f[j] \o ps[j + 1].text
    BY <1>5, <2>1
  <2>4. g[j + 1] = g[j] \o qs[j + 1].text
    BY <1>6, <2>1
  <2>5. f[j + 1] = g[j + 1]
    BY <2>2, <2>3, <2>4
  <2>. QED  BY <2>1, <2>5
<1> HIDE DEF S
<1>9. \A j \in 0..n : j \in S
  BY <1>7, <1>8, Counting
<1>10. n \in S
  BY <1>9
<1>11. f[n] = g[n]
  BY <1>10 DEF S
<1>12. g[n + 1] = g[n] \o x.text
  <2>1. n + 1 \in 1..(n + 1) /\ (n + 1) - 1 = n
    OBVIOUS
  <2>. QED  BY <1>3, <1>6, <2>1
<1>13. Telegram!Joined(ps) = f[n] /\ Telegram!Joined(qs) = g[n + 1]
  BY <1>1, <1>3, <1>4, JoinedAre
<1>. QED  BY <1>2, <1>11, <1>12, <1>13 DEF Grows

LEMMA JoinEmpty == Telegram!Joined(<<>>) = <<>>
<1>1. PICK ps \in Seq(Bubbles) : ps = <<>>
  <2>1. <<>> \in Seq(Bubbles)
    BY EmptySeq
  <2>. QED  BY <2>1, Zenon
<1>2. Len(ps) = 0
  BY <1>1
<1>3. JoinOf(ps)[0] = <<>>
  BY JoinIs DEF JoinSo
<1>. QED  BY <1>1, <1>2, <1>3, JoinedAre
\* The letters of what was sent, and of what is left, are those of the answer.
Remaining(r) == IF r = Telegram!Done THEN <<>> ELSE Telegram!Letters(r)

InPieces(sd, lf, st) ==
    /\ sd.text \in Seq(Telegram!Chars) /\ st \in Seq(Bubbles)
    /\ lf # Telegram!Done => /\ lf \in Seq(Telegram!Chars)
                             /\ st # <<>> => lf # <<>> /\ ~Telegram!Blank(lf[1])
    /\ \A i \in 1..Len(st) : Len(st[i].text) <= tg_MaxLen /\ (st[i].text = <<>> => i = 1)
    /\ Telegram!Letters(Telegram!Joined(st)) \o Remaining(lf) = Telegram!Letters(sd.text)

LEMMA PiecesKeepLetters ==
    ASSUME tg_MaxLen \in Nat \ {0},
           NEW sd, NEW lf, NEW st, NEW how \in {"html", "plain", "logged"},
           InPieces(sd, lf, st), lf # Telegram!Done
    PROVE  InPieces(sd, Telegram!Piece(lf).rest, Append(st, [text |-> Telegram!Piece(lf).piece, how |-> how]))
<1>1. /\ sd.text \in Seq(Telegram!Chars) /\ st \in Seq(Bubbles) /\ lf \in Seq(Telegram!Chars)
      /\ st # <<>> => lf # <<>> /\ ~Telegram!Blank(lf[1])
      /\ \A i \in 1..Len(st) : Len(st[i].text) <= tg_MaxLen /\ (st[i].text = <<>> => i = 1)
  BY DEF InPieces
<1>2. Telegram!Letters(Telegram!Joined(st)) \o Telegram!Letters(lf) = Telegram!Letters(sd.text)
  BY DEF InPieces, Remaining
<1>3. PICK p, r : p = Telegram!Piece(lf).piece /\ r = Telegram!Piece(lf).rest
  OBVIOUS
<1>4. PieceSo(lf, Telegram!Piece(lf))
  BY <1>1, PieceIs
<1>5. /\ p \in Seq(Telegram!Chars) /\ Len(p) <= tg_MaxLen
      /\ r = Telegram!Done => Telegram!Letters(lf) = Telegram!Letters(p)
      /\ r # Telegram!Done => /\ r \in Seq(Telegram!Chars) /\ r # <<>> /\ ~Telegram!Blank(r[1])
                              /\ Telegram!Letters(lf) = Telegram!Letters(p) \o Telegram!Letters(r)
      /\ lf # <<>> /\ ~Telegram!Blank(lf[1]) => p # <<>>
  BY <1>3, <1>4 DEF PieceSo
<1>6. PICK x : x = [text |-> p, how |-> how]
  OBVIOUS
<1>7. x \in Bubbles /\ x.text = p
  BY <1>5, <1>6 DEF Bubbles
<1>8. PICK qs : qs = Append(st, x)
  OBVIOUS
<1>9. PICK n \in Nat : n = Len(st)
  BY <1>1
<1>10. qs \in Seq(Bubbles) /\ Len(qs) = n + 1 /\ qs[n + 1] = x /\ \A i \in 1..n : qs[i] = st[i]
  BY <1>1, <1>7, <1>8, <1>9, AppendProperties
<1>11. ASSUME NEW i \in 1..(n + 1)
       PROVE  Len(qs[i].text) <= tg_MaxLen /\ (qs[i].text = <<>> => i = 1)
  <2>1. CASE i = n + 1
    <3>1. qs[i].text = p
      BY <1>7, <1>10, <2>1
    <3>2. p = <<>> => i = 1
      <4> SUFFICES ASSUME p = <<>> PROVE i = 1
        OBVIOUS
      <4>1. st = <<>>
        BY <1>1, <1>5
      <4>2. n = 0
        BY <1>9, <4>1
      <4>. QED  BY <2>1, <4>2
    <3>. QED  BY <1>5, <3>1, <3>2
  <2>2. CASE i # n + 1
    <3>1. i \in 1..n
      BY <2>2
    <3>2. qs[i] = st[i]
      BY <1>10, <3>1
    <3>. QED  BY <1>1, <1>9, <3>1, <3>2
  <2>. QED  BY <2>1, <2>2
<1>12. PICK j : j = Telegram!Joined(st)
  OBVIOUS
<1>13. j \in Seq(Telegram!Chars)
  BY <1>1, <1>12, JoinTyped
<1>14. Telegram!Letters(Telegram!Joined(qs)) = Telegram!Letters(j) \o Telegram!Letters(p)
  <2>1. Telegram!Joined(qs) = j \o p
    <3>1. Grows(st, x)
      BY <1>1, <1>7, JoinGrows
    <3>. QED  BY <1>7, <1>8, <1>12, <3>1 DEF Grows
  <2>2. Splits(j \o p, j, p)
    BY <1>5, <1>13, LettersJoin
  <2>. QED  BY <2>1, <2>2 DEF Splits
<1>15. Telegram!Letters(Telegram!Joined(qs)) \o Remaining(r) = Telegram!Letters(sd.text)
  <2>1. PICK u, v \in Seq(Telegram!Chars) : u = Telegram!Letters(j) /\ v = Telegram!Letters(p)
    BY <1>5, <1>13, LettersTyped
  <2>2. CASE r = Telegram!Done
    <3>1. (u \o v) \in Seq(Telegram!Chars)
      BY ConcatProperties
    <3>2. (u \o v) \o <<>> = u \o v
      BY <3>1
    <3>3. Remaining(r) = <<>>
      BY <2>2 DEF Remaining
    <3>4. u \o v = Telegram!Letters(sd.text)
      BY <1>2, <1>5, <1>12, <2>1, <2>2
    <3>. QED  BY <1>14, <2>1, <3>2, <3>3, <3>4
  <2>3. CASE r # Telegram!Done
    <3>1. PICK w \in Seq(Telegram!Chars) : w = Telegram!Letters(r)
      BY <1>5, <2>3, LettersTyped
    <3>2. Regroups(u, v, w)
      BY ConcatAssociative DEF Regroups
    <3>3. u \o (v \o w) = Telegram!Letters(sd.text)
      BY <1>2, <1>5, <1>12, <2>1, <2>3, <3>1
    <3>4. Remaining(r) = w
      BY <2>3, <3>1 DEF Remaining
    <3>5. (u \o v) \o w = Telegram!Letters(sd.text)
      BY <3>2, <3>3 DEF Regroups
    <3>. QED  BY <1>14, <2>1, <3>4, <3>5
  <2>. QED  BY <2>2, <2>3
<1>16. InPieces(sd, r, qs)
  <2>1. r # Telegram!Done => r \in Seq(Telegram!Chars) /\ (qs # <<>> => r # <<>> /\ ~Telegram!Blank(r[1]))
    BY <1>5
  <2>2. \A i \in 1..Len(qs) : Len(qs[i].text) <= tg_MaxLen /\ (qs[i].text = <<>> => i = 1)
    BY <1>10, <1>11
  <2>. QED  BY <1>1, <1>10, <1>15, <2>1, <2>2 DEF InPieces
<1>. QED  BY <1>3, <1>6, <1>8, <1>16

\* The answer being sent is in pieces.
Answer == [msg : Nat \ {0}, text : Seq(Telegram!Chars), files : Nat]

LettersInv ==
    /\ tg_chat \in Seq(tg_Chats) /\ tg_reading \in Nat /\ tg_owed \subseteq Nat \ {0}
    /\ tg_sending # Telegram!NotSending => tg_sending \in Answer /\ InPieces(tg_sending, tg_left, tg_sent)

LEMMA LettersInit == Telegram!Init => LettersInv
<1> SUFFICES ASSUME Telegram!Init PROVE LettersInv
  OBVIOUS
<1>1. tg_chat \in Seq(tg_Chats)
  <2>1. <<>> \in Seq(tg_Chats)
    BY EmptySeq
  <2>. QED  BY <2>1 DEF Telegram!Init
<1>. QED  BY <1>1 DEF Telegram!Init, LettersInv

LEMMA AnswerIsNone == Telegram!NotSending \notin Answer
<1> SUFFICES ASSUME Telegram!NotSending \in Answer PROVE FALSE
  OBVIOUS
<1>1. Telegram!NotSending.msg \in Nat \ {0}
  BY DEF Answer
<1>2. Telegram!NotSending.msg = 0
  BY DEF Telegram!NotSending
<1>. QED  BY <1>1, <1>2

LEMMA LettersStep ==
    ASSUME tg_MaxLen \in Nat \ {0}, LettersInv, [Telegram!Next]_(Telegram!vars)
    PROVE  LettersInv'
<1> USE DEF LettersInv
<1>i. /\ tg_chat \in Seq(tg_Chats) /\ tg_reading \in Nat /\ tg_owed \subseteq Nat \ {0}
      /\ tg_sending # Telegram!NotSending => tg_sending \in Answer /\ InPieces(tg_sending, tg_left, tg_sent)
  OBVIOUS
<1>k. ASSUME UNCHANGED <<tg_sending, tg_left, tg_sent>>
      PROVE  tg_sending' # Telegram!NotSending => tg_sending' \in Answer /\ InPieces(tg_sending', tg_left', tg_sent')
  BY <1>i, <1>k
<1>1. CASE Telegram!Start \/ Telegram!Stop \/ (\E c \in tg_Chats : Telegram!TypingFails(c)) \/ UNCHANGED Telegram!vars
  <2>1. UNCHANGED <<tg_chat, tg_reading, tg_owed, tg_sending, tg_left, tg_sent>>
    BY <1>1 DEF Telegram!Start, Telegram!Stop, Telegram!TypingFails, Telegram!vars
  <2>. QED  BY <1>i, <1>k, <2>1
<1>2. ASSUME NEW c \in tg_Chats, Telegram!OnMessage(c) PROVE LettersInv'
  <2>1. tg_chat' \in Seq(tg_Chats) /\ tg_reading' \in Nat
    <3>1. PICK ch : ch = Append(tg_chat, c)
      OBVIOUS
    <3>2. ch \in Seq(tg_Chats)
      BY <1>i, <3>1, AppendProperties
    <3>3. tg_chat' = ch /\ tg_reading' = Len(ch)
      BY <1>2, <3>1 DEF Telegram!OnMessage
    <3>. QED  BY <3>2, <3>3
  <2>2. UNCHANGED <<tg_owed, tg_sending, tg_left, tg_sent>>
    BY <1>2 DEF Telegram!OnMessage
  <2>. QED  BY <1>i, <1>k, <2>1, <2>2
<1>3. ASSUME NEW c \in tg_Chats, Telegram!ForwardCommand(c) PROVE LettersInv'
  <2>1. tg_chat' \in Seq(tg_Chats) /\ tg_owed' \subseteq Nat \ {0}
    <3>1. PICK ch : ch = Append(tg_chat, c)
      OBVIOUS
    <3>2. ch \in Seq(tg_Chats) /\ Len(ch) = Len(tg_chat) + 1
      BY <1>i, <3>1, AppendProperties
    <3>3. tg_chat' = ch /\ tg_owed' = tg_owed \union {Len(ch)}
      BY <1>3, <3>1 DEF Telegram!ForwardCommand
    <3>4. Len(ch) \in Nat \ {0}
      BY <1>i, <3>2
    <3>. QED  BY <1>i, <3>2, <3>3, <3>4
  <2>2. UNCHANGED <<tg_reading, tg_sending, tg_left, tg_sent>>
    BY <1>3 DEF Telegram!ForwardCommand
  <2>. QED  BY <1>i, <1>k, <2>1, <2>2
<1>4. CASE Telegram!HandOver
  <2>1. tg_owed' \subseteq Nat \ {0} /\ tg_reading' \in Nat
    <3>1. tg_reading # 0 /\ tg_reading' = 0
      BY <1>4 DEF Telegram!HandOver
    <3>2. tg_owed' = tg_owed \/ tg_owed' = tg_owed \union {tg_reading}
      BY <1>4 DEF Telegram!HandOver
    <3>. QED  BY <1>i, <3>1, <3>2
  <2>2. UNCHANGED <<tg_chat, tg_sending, tg_left, tg_sent>>
    BY <1>4 DEF Telegram!HandOver
  <2>. QED  BY <1>i, <1>k, <2>1, <2>2
<1>5. ASSUME NEW m \in tg_owed, NEW t \in Telegram!Texts, NEW n \in {0, 1}, Telegram!Send(m, t, n) PROVE LettersInv'
  <2>1. tg_sending' = [msg |-> m, text |-> t, files |-> n] /\ tg_left' = t /\ tg_sent' = <<>>
    BY <1>5 DEF Telegram!Send
  <2>2. UNCHANGED <<tg_chat, tg_reading, tg_owed>>
    BY <1>5 DEF Telegram!Send
  <2>3. t \in Seq(Telegram!Chars)
    <3>1. PICK k \in 1..tg_MaxText : t \in [1..k -> Telegram!Chars]
      BY DEF Telegram!Texts
    <3>2. k \in Nat
      BY <3>1
    <3>. QED  BY <3>1, <3>2
  <2>4. PICK a : a = [msg |-> m, text |-> t, files |-> n]
    OBVIOUS
  <2>5. a \in Answer /\ a.text = t
    <3>1. m \in Nat \ {0} /\ n \in Nat
      BY <1>i
    <3>. QED  BY <2>3, <2>4, <3>1 DEF Answer
  <2>6. InPieces(a, t, <<>>)
    <3>1. Telegram!Letters(Telegram!Joined(<<>>)) \o Remaining(t) = Telegram!Letters(t)
      <4>1. t # Telegram!Done
        BY <2>3, DoneIsNoText
      <4>2. Remaining(t) = Telegram!Letters(t)
        BY <4>1 DEF Remaining
      <4>3. Telegram!Letters(<<>>) = <<>>
        <5>1. PICK A : A = Telegram!Chars
          OBVIOUS
        <5>2. <<>> \in Seq(A) /\ Len(<<>>) = 0
          BY EmptySeq
        <5>3. \A i \in 1..Len(<<>>) : Telegram!Blank(<<>>[i])
          BY <5>2
        <5>. QED  BY <5>1, <5>2, <5>3, BlanksHaveNone
      <4>4. Telegram!Letters(t) \in Seq(Telegram!Chars)
        BY <2>3, LettersTyped
      <4>5. <<>> \o Telegram!Letters(t) = Telegram!Letters(t)
        BY <4>4
      <4>. QED  BY <4>2, <4>3, <4>5, JoinEmpty
    <3>2. <<>> \in Seq(Bubbles)
      BY EmptySeq
    <3>3. \A i \in 1..Len(<<>>) : FALSE
      OBVIOUS
    <3>. QED  BY <2>3, <2>5, <3>1, <3>2, <3>3 DEF InPieces
  <2>. QED  BY <1>i, <2>1, <2>2, <2>4, <2>5, <2>6
<1>6. ASSUME NEW ok \in BOOLEAN, Telegram!SendFile(ok) PROVE LettersInv'
  <2>0. UNCHANGED <<tg_chat, tg_reading, tg_sent>> /\ tg_sending.files > 0
    BY <1>6 DEF Telegram!SendFile
  <2>1. CASE ok
    <3>1. tg_sending' = [tg_sending EXCEPT !.files = @ - 1] /\ UNCHANGED <<tg_owed, tg_left>>
      BY <1>6, <2>1 DEF Telegram!SendFile
    <3>2. tg_sending # Telegram!NotSending
      BY <2>0 DEF Telegram!NotSending
    <3>3. tg_sending \in Answer /\ InPieces(tg_sending, tg_left, tg_sent)
      BY <1>i, <3>2
    <3>4. PICK a : a = [tg_sending EXCEPT !.files = @ - 1]
      OBVIOUS
    <3>5. a \in Answer /\ a.text = tg_sending.text
      BY <2>0, <3>3, <3>4 DEF Answer
    <3>6. InPieces(a, tg_left, tg_sent)
      BY <3>3, <3>5 DEF InPieces
    <3>. QED  BY <1>i, <2>0, <3>1, <3>4, <3>5, <3>6
  <2>2. CASE ~ok
    <3>1. tg_sending' = Telegram!NotSending /\ tg_owed' = tg_owed \ {tg_sending.msg}
      BY <1>6, <2>2 DEF Telegram!SendFile
    <3>. QED  BY <1>i, <2>0, <3>1
  <2>. QED  BY <2>1, <2>2
<1>7. ASSUME NEW how \in {"html", "plain", "logged"}, Telegram!SendPiece(how) PROVE LettersInv'
  <2>1. UNCHANGED <<tg_chat, tg_reading, tg_owed, tg_sending>> /\ tg_sending # Telegram!NotSending /\ tg_left # Telegram!Done
    BY <1>7 DEF Telegram!SendPiece
  <2>2. tg_sent' = Append(tg_sent, [text |-> Telegram!Piece(tg_left).piece, how |-> how]) /\ tg_left' = Telegram!Piece(tg_left).rest
    BY <1>7 DEF Telegram!SendPiece
  <2>3. tg_sending \in Answer /\ InPieces(tg_sending, tg_left, tg_sent)
    BY <1>i, <2>1
  <2>4. InPieces(tg_sending, Telegram!Piece(tg_left).rest, Append(tg_sent, [text |-> Telegram!Piece(tg_left).piece, how |-> how]))
    BY <2>1, <2>3, PiecesKeepLetters
  <2>. QED  BY <1>i, <2>1, <2>2, <2>3, <2>4
<1>8. CASE Telegram!SendEnds
  <2>1. tg_sending' = Telegram!NotSending /\ tg_owed' = tg_owed \ {tg_sending.msg} /\ UNCHANGED <<tg_chat, tg_reading>>
    BY <1>8 DEF Telegram!SendEnds
  <2>. QED  BY <1>i, <2>1
<1>. QED  BY <1>1, <1>2, <1>3, <1>4, <1>5, <1>6, <1>7, <1>8 DEF Telegram!Next

LEMMA LettersShow == LettersInv => Telegram!NothingCutOff
<1> SUFFICES ASSUME LettersInv, tg_sending # Telegram!NotSending
             PROVE  /\ \A i \in DOMAIN tg_sent : /\ Len(tg_sent[i].text) <= tg_MaxLen
                                                 /\ tg_sent[i].text = <<>> => i = 1
                    /\ tg_left = Telegram!Done => Telegram!Letters(Telegram!Joined(tg_sent)) = Telegram!Letters(tg_sending.text)
  BY DEF Telegram!NothingCutOff
<1>1. InPieces(tg_sending, tg_left, tg_sent)
  BY DEF LettersInv
<1>2. \A i \in 1..Len(tg_sent) : Len(tg_sent[i].text) <= tg_MaxLen /\ (tg_sent[i].text = <<>> => i = 1)
  BY <1>1 DEF InPieces
<1>3. tg_sent \in Seq(Bubbles) /\ DOMAIN tg_sent = 1..Len(tg_sent)
  BY <1>1 DEF InPieces
<1>4. ASSUME tg_left = Telegram!Done PROVE Telegram!Letters(Telegram!Joined(tg_sent)) = Telegram!Letters(tg_sending.text)
  <2>1. Telegram!Letters(Telegram!Joined(tg_sent)) \o <<>> = Telegram!Letters(tg_sending.text)
    BY <1>1, <1>4 DEF InPieces, Remaining
  <2>2. Telegram!Joined(tg_sent) \in Seq(Telegram!Chars)
    BY <1>3, JoinTyped
  <2>3. Telegram!Letters(Telegram!Joined(tg_sent)) \in Seq(Telegram!Chars)
    BY <2>2, LettersTyped
  <2>4. Telegram!Letters(Telegram!Joined(tg_sent)) \o <<>> = Telegram!Letters(Telegram!Joined(tg_sent))
    BY <2>3
  <2>. QED  BY <2>1, <2>4
<1>. QED  BY <1>2, <1>3, <1>4

LEMMA TelegramSteps == [AllNext]_All => [Telegram!Next]_(Telegram!vars)
BY DEF AllNext, All, Telegram!vars, telegramVars

(* For every length that the service takes and every answer: the pieces hold   *)
(* each letter of the answer in order, none is longer than the service takes,  *)
(* and only the first can be empty (telegram.py, _split_message).              *)
THEOREM NothingIsCutOff ==
    ASSUME tg_MaxLen \in Nat \ {0}
    PROVE  AllSpec => []NothingCutOff
<1>1. AllInit => LettersInv
  BY LettersInit DEF AllInit
<1>2. LettersInv /\ [AllNext]_All => LettersInv'
  BY LettersStep, TelegramSteps
<1>3. LettersInv => NothingCutOff
  BY LettersShow DEF NothingCutOff
<1>. QED  BY <1>1, <1>2, <1>3, PTL DEF AllSpec

------------------------------------------------------------------------------
(* Proxy and DingTalk: the theorems of the components, in the sum. *)

LEMMA ProxySteps == [AllNext]_All => [Proxy!Next]_(Proxy!vars)
BY DEF AllNext, All, Proxy!vars, proxyVars

(* No user of the proxy gets more through than bucket and refill.              *)
THEOREM ProxyLimits ==
    ASSUME Proxy!Numbers
    PROVE  AllSpec => []RateHolds
<1>1. AllInit => Proxy!Init
  BY DEF AllInit
<1>2. [AllNext]_All => [Proxy!Next]_(Proxy!vars)
  BY ProxySteps
<1>3. Proxy!Spec => []Proxy!RateHolds
  BY Proxy!LimiterHolds
<1>. QED  BY <1>1, <1>2, <1>3, PTL DEF AllSpec, RateHolds, Proxy!Spec

LEMMA DingTalkSteps == [AllNext]_All => [DingTalk!Next]_(DingTalk!vars)
BY DEF AllNext, All, DingTalk!vars, dingtalkVars

(* DingTalk posts with no token that has ended.                                *)
THEOREM DingTalkTokens ==
    ASSUME dt_Delay \in Nat, dt_Margin \in Nat, dt_Margin >= 2 * dt_Delay, DingTalk!LiveTokens
    PROVE  AllSpec => []TokenHolds
<1>1. AllInit => DingTalk!Init
  BY DEF AllInit
<1>2. [AllNext]_All => [DingTalk!Next]_(DingTalk!vars)
  BY DingTalkSteps
<1>3. DingTalk!Spec => []DingTalk!TokenHolds
  BY DingTalk!NoEndedToken
<1>. QED  BY <1>1, <1>2, <1>3, PTL DEF AllSpec, TokenHolds, DingTalk!Spec

------------------------------------------------------------------------------
(* The channels and what they promise: Inbox. What a channel remembers is      *)
(* bounded, so the promise is that of a window as long as what the bounds let *)
(* arrive. An id is remembered before its message is given, and only a        *)
(* restart forgets.                                                           *)

\* No element of a sequence occurs twice.
AllDiffer(s) == \A i, k \in 1..Len(s) : i # k => s[i] # s[k]

\* As many different numbers as lie between 1 and n.
LEMMA Room ==
    ASSUME NEW n \in Nat, NEW s \in Seq(1..n), AllDiffer(s)
    PROVE  Len(s) <= n
<1>1. PICK m \in Nat : m = Len(s)
  OBVIOUS
<1>2. s \in [1..m -> 1..n]
  BY <1>1
<1>3. s \in Injection(1..m, 1..n)
  BY <1>1, <1>2 DEF Injection, IsInjective, AllDiffer
<1>4. IsFiniteSet(1..m) /\ IsFiniteSet(1..n) /\ Cardinality(1..m) = m /\ Cardinality(1..n) = n
  <2>1. ASSUME NEW k \in Nat PROVE IsFiniteSet(1..k) /\ Cardinality(1..k) = k
    <3>1. IsFiniteSet(1..k) /\ Cardinality(1..k) = IF 1 > k THEN 0 ELSE k - 1 + 1
      BY FS_Interval
    <3>. QED  BY <3>1
  <2>. QED  BY <2>1
<1>5. Cardinality(1..m) <= Cardinality(1..n)
  BY <1>3, <1>4, FS_Injection
<1>. QED  BY <1>1, <1>4, <1>5

\* One more element.
LEMMA OneMoreDiffers ==
    ASSUME NEW S, NEW s \in Seq(S), NEW m \in S, AllDiffer(s), \A i \in 1..Len(s) : s[i] # m
    PROVE  /\ Append(s, m) \in Seq(S) /\ AllDiffer(Append(s, m))
           /\ Len(Append(s, m)) = Len(s) + 1
           /\ \A i \in 1..Len(s) : Append(s, m)[i] = s[i]
           /\ Append(s, m)[Len(s) + 1] = m
<1>0. Append(s, m) \in Seq(S)
  OBVIOUS
<1>1. PICK e \in Seq(S) : e = Append(s, m)
  BY <1>0
<1>2. /\ Len(e) = Len(s) + 1 /\ e[Len(s) + 1] = m /\ Len(s) \in Nat
      /\ \A i \in 1..Len(s) : e[i] = s[i]
  BY <1>1
<1>3. ASSUME NEW i \in 1..Len(e), NEW k \in 1..Len(e), i # k PROVE e[i] # e[k]
  <2>1. i \in 1..Len(s) \/ i = Len(s) + 1
    BY <1>2
  <2>2. k \in 1..Len(s) \/ k = Len(s) + 1
    BY <1>2
  <2>. QED  BY <1>2, <1>3, <2>1, <2>2 DEF AllDiffer
<1>. QED  BY <1>1, <1>2, <1>3 DEF AllDiffer

\* An element of a sequence.
Holds(s, m) == \E i \in 1..Len(s) : s[i] = m
Gains(s, m, e) == \A x : Holds(e, x) <=> Holds(s, x) \/ x = m

LEMMA HoldsOneMore ==
    ASSUME NEW S, NEW s \in Seq(S), NEW m \in S, NEW e, e = Append(s, m)
    PROVE  e \in Seq(S) /\ Gains(s, m, e)
<1>1. e \in Seq(S)
  OBVIOUS
<1>2. /\ Len(e) = Len(s) + 1 /\ e[Len(s) + 1] = m /\ Len(s) \in Nat
      /\ \A i \in 1..Len(s) : e[i] = s[i]
  BY <1>1
<1>3. \A i \in 1..Len(e) : i \in 1..Len(s) \/ i = Len(s) + 1
  BY <1>2
<1>4. 1..Len(s) \subseteq 1..Len(e) /\ Len(s) + 1 \in 1..Len(e)
  BY <1>2
<1>. QED  BY <1>1, <1>2, <1>3, <1>4 DEF Holds, Gains

\* What was given is in the window, and so is the message in hand, which was not
\* given yet.
WeixinOnce ==
    /\ wx_server \in Seq(wx_Users \cup {wx_Bot}) /\ Len(wx_server) <= wx_MaxMessages
    /\ wx_cursor \in Nat /\ wx_disk.cursor \in Nat
    /\ wx_batch \in Seq(1..wx_MaxMessages) /\ \A i \in 1..Len(wx_batch) : wx_batch[i] <= Len(wx_server)
    /\ wx_current \in 0..Len(wx_server)
    /\ wx_processed \in Seq(1..wx_MaxMessages) /\ AllDiffer(wx_processed)
    /\ wx_given \in Seq(1..wx_MaxMessages)
    /\ \A m : Holds(wx_given, m) => Holds(wx_processed, m) /\ m # wx_current
    /\ wx_current # 0 => Holds(wx_processed, wx_current)
WeixinBox == [Weixin!Box!Next]_<<DOMAIN wx_server, wx_given>>

LEMMA WeixinBoxStep ==
    ASSUME wx_MaxMessages \in Nat, wx_Window \in Nat, wx_Window >= wx_MaxMessages, WeixinOnce, [Weixin!Next]_(Weixin!vars)
    PROVE  WeixinOnce' /\ WeixinBox
<1>1. ASSUME UNCHANGED <<wx_server, Weixin!inhand, wx_processed, wx_given>>,
             wx_cursor' \in {wx_cursor, wx_disk.cursor, 0}, wx_disk'.cursor \in {wx_cursor, wx_disk.cursor}
      PROVE  WeixinOnce' /\ WeixinBox
  BY <1>1 DEF WeixinOnce, WeixinBox, Weixin!inhand
<1>2. ASSUME NEW u \in wx_Users \cup {wx_Bot}, Weixin!UserWrites(u) PROVE WeixinOnce' /\ WeixinBox
  <2>1. /\ wx_server' \in Seq(wx_Users \cup {wx_Bot}) /\ Len(wx_server') = Len(wx_server) + 1
        /\ Len(wx_server) \in Nat /\ Len(wx_server) < wx_MaxMessages
        /\ UNCHANGED <<wx_cursor, wx_disk, wx_batch, wx_current, wx_processed, wx_given>>
    BY <1>2 DEF Weixin!UserWrites, WeixinOnce, Weixin!account, Weixin!inhand
  <2>2. WeixinOnce'
    BY <2>1 DEF WeixinOnce
  <2>3. /\ DOMAIN wx_server = 1..Len(wx_server) /\ DOMAIN wx_server' = 1..Len(wx_server) + 1
    BY <2>1 DEF WeixinOnce
  <2>4. /\ Len(wx_server) + 1 \in 1..wx_MaxMessages /\ Len(wx_server) + 1 \notin DOMAIN wx_server
        /\ DOMAIN wx_server' = DOMAIN wx_server \cup {Len(wx_server) + 1}
    BY <2>1, <2>3
  <2>5. Weixin!Box!Post(Len(wx_server) + 1)
    BY <2>1, <2>4 DEF Weixin!Box!Post
  <2>. QED  BY <2>2, <2>4, <2>5 DEF WeixinBox, Weixin!Box!Next
<1>3. CASE Weixin!Start
  BY <1>1, <1>3 DEF Weixin!Start, WeixinOnce
<1>4. CASE Weixin!QrConfirmed \/ Weixin!QrFails \/ Weixin!QrExpired
  BY <1>1, <1>4 DEF Weixin!QrConfirmed, Weixin!QrFails, Weixin!QrExpired, Weixin!LoginEnds,
       WeixinOnce
<1>5. ASSUME NEW n \in 1..wx_MaxMessages, NEW b \in BOOLEAN, Weixin!PollOk(n, b)
      PROVE  WeixinOnce' /\ WeixinBox
  <2>1. /\ n \in wx_cursor + 1 .. Len(wx_server) /\ n \in Nat /\ wx_cursor \in Nat
        /\ wx_batch' = [i \in 1..n - wx_cursor |-> wx_cursor + i]
        /\ UNCHANGED <<wx_server, wx_current, wx_processed, wx_given>>
        /\ wx_cursor' = IF b THEN n ELSE wx_cursor
        /\ wx_disk'.cursor = IF b THEN n ELSE wx_disk.cursor
    BY <1>5 DEF Weixin!PollOk, Weixin!Polling, WeixinOnce
  <2>2. /\ n - wx_cursor \in Nat /\ \A i \in 1..n - wx_cursor : wx_cursor + i \in 1..wx_MaxMessages /\ wx_cursor + i <= n
    BY <2>1
  <2>3. wx_batch' \in Seq(1..wx_MaxMessages) /\ Len(wx_batch') = n - wx_cursor
    BY <2>1, <2>2
  <2>4. \A i \in 1..Len(wx_batch') : wx_batch'[i] <= Len(wx_server)
    BY <2>1, <2>2, <2>3
  <2>. QED  BY <2>1, <2>3, <2>4 DEF WeixinOnce, WeixinBox
<1>6. CASE Weixin!PollFails \/ Weixin!SessionExpired \/ Weixin!PauseEnds
  BY <1>1, <1>6 DEF Weixin!PollFails, Weixin!SessionExpired, Weixin!PauseEnds, Weixin!Pause,
       Weixin!account, WeixinOnce
<1>7. CASE Weixin!Take
  <2>1. PICK h : h = Head(wx_batch)
    OBVIOUS
  <2>2. /\ wx_batch # <<>> /\ wx_current = 0 /\ wx_batch' = Tail(wx_batch)
        /\ UNCHANGED <<wx_server, wx_cursor, wx_given>>
        /\ \/ UNCHANGED <<wx_current, wx_disk, wx_processed>>
           \/ /\ wx_current' = h /\ wx_disk'.cursor = wx_cursor /\ ~Weixin!Seen(h)
              /\ wx_processed' = Weixin!Last(Append(wx_processed, h), wx_Window)
    BY <1>7, <2>1 DEF Weixin!Take
  <2>3. /\ wx_batch' \in Seq(1..wx_MaxMessages) /\ h \in 1..wx_MaxMessages /\ h <= Len(wx_server)
        /\ \A i \in 1..Len(wx_batch') : wx_batch'[i] <= Len(wx_server)
    <3>1. /\ Tail(wx_batch) \in Seq(1..wx_MaxMessages) /\ Len(Tail(wx_batch)) = Len(wx_batch) - 1
          /\ h = wx_batch[1] /\ 1 \in 1..Len(wx_batch) /\ Len(wx_batch) \in Nat
          /\ \A i \in 1..Len(wx_batch) - 1 : Tail(wx_batch)[i] = wx_batch[i + 1] /\ i + 1 \in 1..Len(wx_batch)
      BY <2>1, <2>2 DEF WeixinOnce
    <3>. QED  BY <2>2, <3>1 DEF WeixinOnce
  <2>4. CASE UNCHANGED <<wx_current, wx_disk, wx_processed>>
    BY <2>2, <2>3, <2>4 DEF WeixinOnce, WeixinBox
  <2>5. CASE /\ wx_current' = h /\ wx_disk'.cursor = wx_cursor /\ ~Weixin!Seen(h)
             /\ wx_processed' = Weixin!Last(Append(wx_processed, h), wx_Window)
    <3>1. \A i \in 1..Len(wx_processed) : wx_processed[i] # h
      BY <2>5 DEF Weixin!Seen, WeixinOnce
    <3>2. PICK e : e = Append(wx_processed, h)
      OBVIOUS
    <3>3. e \in Seq(1..wx_MaxMessages) /\ AllDiffer(e)
      BY <2>3, <3>1, <3>2, OneMoreDiffers DEF WeixinOnce
    <3>4. Len(e) <= wx_Window
      <4>1. Len(e) <= wx_MaxMessages
        BY <3>3, Room
      <4>2. Len(e) \in Nat
        BY <3>3
      <4>. QED  BY <4>1, <4>2
    <3>5. wx_processed' = e
      BY <2>5, <3>2, <3>4 DEF Weixin!Last
    <3>6. \A x : Holds(e, x) <=> Holds(wx_processed, x) \/ x = h
      <4>1. wx_processed \in Seq(1..wx_MaxMessages)
        BY DEF WeixinOnce
      <4>2. Gains(wx_processed, h, e)
        BY <2>3, <3>2, <4>1, HoldsOneMore
      <4>. QED  BY <4>2 DEF Gains
    <3>7. ~Holds(wx_processed, h)
      BY <3>1 DEF Holds
    <3>8. \A m : Holds(wx_given, m) => Holds(e, m) /\ m # h
      BY <3>6, <3>7 DEF WeixinOnce
    <3>9. Holds(e, h) /\ h \in 0..Len(wx_server)
      BY <2>3, <3>6 DEF WeixinOnce
    <3>. QED  BY <2>2, <2>3, <2>5, <3>3, <3>5, <3>8, <3>9 DEF WeixinOnce, WeixinBox
  <2>. QED  BY <2>2, <2>4, <2>5
<1>8. ASSUME NEW t \in BOOLEAN, NEW p \in BOOLEAN, Weixin!Done(t, p) PROVE WeixinOnce' /\ WeixinBox
  <2>1. /\ UNCHANGED <<wx_server, wx_cursor, wx_disk, wx_batch, wx_processed>> /\ wx_current # 0 /\ wx_current' = 0
        /\ wx_given' = wx_given \/ wx_given' = Append(wx_given, wx_current)
    BY <1>8 DEF Weixin!Done, Weixin!account
  <2>2. CASE wx_given' = wx_given
    <3>1. \A m : Holds(wx_given, m) => m # 0
      BY DEF Holds, WeixinOnce
    <3>. QED  BY <2>1, <2>2, <3>1 DEF WeixinOnce, WeixinBox
  <2>3. CASE wx_given' = Append(wx_given, wx_current)
    <3>1. wx_current \in 1..wx_MaxMessages /\ wx_current \in DOMAIN wx_server
      BY <2>1 DEF WeixinOnce
    <3>2. wx_given' \in Seq(1..wx_MaxMessages) /\ \A x : Holds(wx_given', x) <=> Holds(wx_given, x) \/ x = wx_current
      <4>1. wx_given \in Seq(1..wx_MaxMessages)
        BY DEF WeixinOnce
      <4>2. PICK e : e = wx_given'
        OBVIOUS
      <4>3. e \in Seq(1..wx_MaxMessages) /\ Gains(wx_given, wx_current, e)
        BY <2>3, <3>1, <4>1, <4>2, HoldsOneMore
      <4>. QED  BY <4>2, <4>3 DEF Gains
    <3>3. \A x : Holds(wx_given', x) => x # 0
      BY <3>2 DEF Holds
    <3>4. WeixinOnce'
      BY <2>1, <3>2, <3>3 DEF WeixinOnce
    <3>5. Weixin!Box!Give(wx_current)
      <4>1. ASSUME NEW i \in DOMAIN wx_given PROVE wx_given[i] # wx_current
        <5>1. i \in 1..Len(wx_given)
          BY DEF WeixinOnce
        <5>2. Holds(wx_given, wx_given[i])
          BY <5>1 DEF Holds
        <5>. QED  BY <5>2 DEF WeixinOnce
      <4>. QED  BY <2>1, <2>3, <3>1, <4>1 DEF Weixin!Box!Give
    <3>. QED  BY <3>1, <3>4, <3>5 DEF WeixinBox, Weixin!Box!Next
  <2>. QED  BY <2>1, <2>2, <2>3
<1>9. CASE (\E u \in wx_Users, k \in 1..2 : Weixin!Send(u, k)) \/ \E b \in BOOLEAN : Weixin!SendPart(b)
  BY <1>1, <1>9 DEF Weixin!Send, Weixin!SendPart, Weixin!account, WeixinOnce
<1>10. ASSUME NEW b \in BOOLEAN, Weixin!Down(b) PROVE WeixinOnce' /\ WeixinBox
  <2>1. /\ wx_batch' = <<>> /\ wx_current' = 0 /\ wx_cursor' = 0 /\ wx_processed' = <<>> /\ wx_given' = <<>>
        /\ UNCHANGED wx_server /\ wx_disk'.cursor = IF b THEN wx_cursor ELSE wx_disk.cursor
    BY <1>10 DEF Weixin!Down
  <2>2. WeixinOnce'
    BY <2>1 DEF WeixinOnce, AllDiffer, Holds
  <2>3. Weixin!Box!Forget
    BY <2>1 DEF Weixin!Box!Forget
  <2>. QED  BY <2>2, <2>3 DEF WeixinBox, Weixin!Box!Next
<1>11. CASE UNCHANGED Weixin!vars
  BY <1>1, <1>11 DEF Weixin!vars, Weixin!account, WeixinOnce
<1>. QED  BY <1>2, <1>3, <1>4, <1>5, <1>6, <1>7, <1>8, <1>9, <1>10, <1>11
          DEF Weixin!Next, Weixin!Leave, Weixin!Publish, Weixin!Stop, Weixin!Crash

LEMMA WeixinBoxInit == ASSUME wx_MaxMessages \in Nat, Weixin!Init PROVE WeixinOnce /\ Weixin!Box!Init
BY DEF Weixin!Init, Weixin!NoFile, WeixinOnce, AllDiffer, Holds, Weixin!Box!Init

LEMMA WeixinImplements ==
    ASSUME wx_MaxMessages \in Nat, wx_Window \in Nat, wx_Window >= wx_MaxMessages
    PROVE  AllSpec => Weixin!WeixinInbox
<1>1. AllInit => WeixinOnce /\ Weixin!Box!Init
  BY WeixinBoxInit DEF AllInit
<1>2. WeixinOnce /\ [AllNext]_All => WeixinOnce' /\ WeixinBox
  BY WeixinBoxStep, WeixinSteps
<1>. QED  BY <1>1, <1>2, PTL DEF AllSpec, Weixin!WeixinInbox, Weixin!Box!Spec, WeixinBox

\* Nothing points beyond the log, and what was given is in the window.
Payloads == [from : Nat, to : Nat]
Positions ==
    /\ mo_log \in 0..mo_MaxEvents /\ mo_stream \in 0..mo_log
    /\ mo_cursor \in -1..mo_log /\ mo_saved \in -1..mo_log
    /\ mo_answer \in Payloads /\ mo_answer.from <= mo_answer.to /\ mo_answer.to <= mo_log
    /\ mo_pushed \in Seq(Payloads)
    /\ \A i \in 1..Len(mo_pushed) : mo_pushed[i].from <= mo_pushed[i].to /\ mo_pushed[i].to <= mo_log
    /\ mo_todo \in Seq(Nat) /\ \A i \in 1..Len(mo_todo) : mo_todo[i] \in 1..mo_log
    /\ mo_holder # "none" => mo_todo # <<>>
Remembered ==
    /\ mo_seen \in Seq(1..mo_MaxEvents) /\ AllDiffer(mo_seen) /\ mo_given \in Seq(1..mo_MaxEvents)
    /\ \A m : Holds(mo_given, m) => Holds(mo_seen, m)
MochatOnce == Positions /\ Remembered
MochatBox == [Mochat!Box!Next]_<<1..mo_log, mo_given>>

LEMMA MochatInbound ==
    ASSUME mo_MaxEvents \in Nat, mo_Window \in Nat, mo_Window >= mo_MaxEvents,
           MochatOnce, NEW m \in 1..mo_log, Mochat!Inbound(m), UNCHANGED mo_log
    PROVE  Remembered' /\ MochatBox
<1>1. m \in 1..mo_MaxEvents
  BY DEF MochatOnce, Positions
<1>2. CASE m \in Mochat!Items(mo_seen)
  <2>1. UNCHANGED <<mo_seen, mo_given>>
    BY <1>2 DEF Mochat!Inbound
  <2>. QED  BY <2>1 DEF MochatOnce, Remembered, MochatBox
<1>3. CASE m \notin Mochat!Items(mo_seen)
  <2>1. mo_seen' = Mochat!Last(Append(mo_seen, m), mo_Window) /\ mo_given' = Append(mo_given, m)
    BY <1>3 DEF Mochat!Inbound
  <2>2. mo_seen \in Seq(1..mo_MaxEvents) /\ mo_given \in Seq(1..mo_MaxEvents) /\ AllDiffer(mo_seen)
    BY DEF MochatOnce, Remembered
  <2>3. \A i \in 1..Len(mo_seen) : mo_seen[i] # m
    BY <1>3, <2>2 DEF Mochat!Items
  <2>4. PICK e, g : e = Append(mo_seen, m) /\ g = Append(mo_given, m)
    OBVIOUS
  <2>5. e \in Seq(1..mo_MaxEvents) /\ AllDiffer(e)
    BY <1>1, <2>2, <2>3, <2>4, OneMoreDiffers
  <2>6. mo_seen' = e
    <3>1. Len(e) <= mo_MaxEvents
      BY <2>5, Room
    <3>2. Len(e) \in Nat
      BY <2>5
    <3>. QED  BY <2>1, <2>4, <3>1, <3>2 DEF Mochat!Last
  <2>7. Gains(mo_seen, m, e)
    BY <1>1, <2>2, <2>4, HoldsOneMore
  <2>8. g \in Seq(1..mo_MaxEvents) /\ Gains(mo_given, m, g)
    BY <1>1, <2>2, <2>4, HoldsOneMore
  <2>9. \A x : Holds(g, x) => Holds(e, x)
    BY <2>7, <2>8 DEF Gains, MochatOnce, Remembered
  <2>10. Remembered'
    BY <2>1, <2>4, <2>5, <2>6, <2>8, <2>9 DEF Remembered
  <2>11. ASSUME NEW i \in DOMAIN mo_given PROVE mo_given[i] # m
    <3>1. i \in 1..Len(mo_given)
      BY <2>2
    <3>2. Holds(mo_given, mo_given[i])
      BY <3>1 DEF Holds
    <3>3. Holds(mo_seen, mo_given[i])
      BY <3>2 DEF MochatOnce, Remembered
    <3>. QED  BY <2>3, <3>3 DEF Holds
  <2>12. Mochat!Box!Give(m)
    BY <2>1, <2>11 DEF Mochat!Box!Give
  <2>. QED  BY <1>1, <2>10, <2>12 DEF MochatBox, Mochat!Box!Next
<1>. QED  BY <1>2, <1>3

LEMMA MochatHandles ==
    ASSUME mo_MaxEvents \in Nat, MochatOnce, NEW who \in {"socket", "worker"},
           NEW p \in Payloads, p.from <= p.to, p.to <= mo_log, Mochat!Handle(who, p)
    PROVE  /\ mo_cursor' \in -1..mo_log
           /\ mo_todo' \in Seq(Nat) /\ \A i \in 1..Len(mo_todo') : mo_todo'[i] \in 1..mo_log
           /\ mo_holder' # "none" => mo_todo' # <<>>
<1>1. mo_cursor' \in -1..mo_log
  BY DEF Mochat!Handle, Mochat!Mark, MochatOnce, Positions, Payloads
<1>2. CASE mo_cold
  BY <1>1, <1>2 DEF Mochat!Handle, Mochat!locked, MochatOnce, Positions
<1>3. CASE ~mo_cold
  <2>1. mo_todo' = Mochat!Events(p) /\ mo_holder' = IF mo_todo' = <<>> THEN "none" ELSE who
    BY <1>3 DEF Mochat!Handle
  <2>2. PICK f \in Nat, t \in Nat : f = p.from /\ t = p.to /\ f <= t /\ t <= mo_log
    BY DEF Payloads
  <2>3. mo_todo' = [i \in 1..t - f |-> f + i] /\ t - f \in Nat
    BY <2>1, <2>2 DEF Mochat!Events
  <2>4. \A i \in 1..t - f : f + i \in 1..mo_log
    BY <2>2 DEF MochatOnce, Positions
  <2>. QED  BY <1>1, <2>1, <2>3, <2>4
<1>. QED  BY <1>2, <1>3

LEMMA MochatBoxStep ==
    ASSUME mo_MaxEvents \in Nat, mo_Window \in Nat, mo_Window >= mo_MaxEvents, MochatOnce, [Mochat!Next]_(Mochat!vars)
    PROVE  MochatOnce' /\ MochatBox
<1>0. Positions /\ Remembered
  BY DEF MochatOnce
<1>1. ASSUME Positions', UNCHANGED <<mo_log, mo_seen, mo_given>> PROVE MochatOnce' /\ MochatBox
  BY <1>0, <1>1 DEF MochatOnce, Remembered, MochatBox
<1>2. CASE Mochat!Post
  <2>1. mo_log' = mo_log + 1 /\ mo_log + 1 \in 1..mo_MaxEvents
        /\ UNCHANGED <<mo_cursor, mo_saved, mo_seen, mo_stream, mo_pushed, mo_answer, mo_holder, mo_todo, mo_given>>
    BY <1>0, <1>2 DEF Mochat!Post, Mochat!remote, Mochat!poller, Mochat!locked, Positions
  <2>2. Positions'
    <3>1. /\ mo_log' \in 0..mo_MaxEvents /\ mo_stream' \in 0..mo_log' /\ mo_cursor' \in -1..mo_log' /\ mo_saved' \in -1..mo_log'
          /\ \A n \in Nat : n <= mo_log => n <= mo_log'
      BY <1>0, <2>1 DEF Positions
    <3>2. mo_answer.to \in Nat /\ \A i \in 1..Len(mo_pushed) : mo_pushed[i].to \in Nat
      <4>1. mo_answer.to \in Nat
        BY <1>0 DEF Positions, Payloads
      <4>2. ASSUME NEW i \in 1..Len(mo_pushed) PROVE mo_pushed[i].to \in Nat
        <5>1. mo_pushed \in Seq(Payloads)
          BY <1>0 DEF Positions
        <5>2. mo_pushed[i] \in Payloads
          BY <5>1
        <5>. QED  BY <5>2 DEF Payloads
      <4>. QED  BY <4>1, <4>2
    <3>3. ASSUME NEW i \in 1..Len(mo_todo) PROVE mo_todo[i] \in 1..mo_log'
      <4>1. mo_todo[i] \in 1..mo_log /\ mo_log \in Nat /\ mo_log' = mo_log + 1
        BY <1>0, <2>1 DEF Positions
      <4>. QED  BY <4>1
    <3>. QED  BY <1>0, <2>1, <3>1, <3>2, <3>3 DEF Positions
  <2>3. 1..mo_log' = 1..mo_log \cup {mo_log + 1} /\ mo_log + 1 \notin 1..mo_log
    BY <1>0, <2>1 DEF Positions
  <2>4. Mochat!Box!Post(mo_log + 1)
    BY <2>1, <2>3 DEF Mochat!Box!Post
  <2>5. Remembered'
    BY <1>0, <2>1 DEF Remembered
  <2>. QED  BY <2>1, <2>2, <2>4, <2>5 DEF MochatOnce, MochatBox, Mochat!Box!Next
<1>3. ASSUME NEW b \in BOOLEAN, Mochat!Start(b) PROVE MochatOnce' /\ MochatBox
  <2>1. /\ mo_cursor' = mo_saved /\ mo_stream' = IF mo_saved = Mochat!Unset THEN 0 ELSE mo_saved
        /\ UNCHANGED <<mo_log, mo_saved, mo_seen, mo_pushed, mo_answer, mo_holder, mo_todo, mo_given>>
    BY <1>3 DEF Mochat!Start, Mochat!locked
  <2>2. mo_stream' \in 0..mo_log
    BY <1>0, <2>1 DEF Positions, Mochat!Unset
  <2>3. Positions'
    BY <1>0, <2>1, <2>2 DEF Positions
  <2>. QED  BY <1>1, <2>1, <2>3
<1>4. CASE Mochat!Subscribe
  <2>1. /\ mo_pushed' = <<[from |-> mo_stream, to |-> mo_log]>> /\ mo_stream' = mo_log
        /\ UNCHANGED <<mo_log, mo_cursor, mo_saved, mo_seen, mo_answer, mo_holder, mo_todo, mo_given>>
    BY <1>4 DEF Mochat!Subscribe, Mochat!poller, Mochat!locked
  <2>2. [from |-> mo_stream, to |-> mo_log] \in Payloads /\ mo_stream <= mo_log
    BY <1>0 DEF Positions, Payloads
  <2>3. /\ mo_pushed' \in Seq(Payloads)
        /\ \A i \in 1..Len(mo_pushed') : mo_pushed'[i].from <= mo_pushed'[i].to /\ mo_pushed'[i].to <= mo_log
    BY <1>0, <2>1, <2>2 DEF Positions
  <2>4. Positions'
    BY <1>0, <2>1, <2>3 DEF Positions
  <2>. QED  BY <1>1, <2>1, <2>4
<1>5. CASE Mochat!Subscribed
  <2>1. /\ mo_answer' = Mochat!NoAnswer /\ UNCHANGED <<mo_log, mo_cursor, mo_saved, mo_seen, mo_stream, mo_pushed, mo_given>>
        /\ (mo_holder' = "none" /\ mo_todo' = <<>>) \/ UNCHANGED <<mo_holder, mo_todo>>
    BY <1>5 DEF Mochat!Subscribed, Mochat!locked
  <2>2. mo_answer' \in Payloads /\ mo_answer'.from = 0 /\ mo_answer'.to = 0 /\ 0 <= mo_log
    BY <1>0, <2>1 DEF Positions, Payloads, Mochat!NoAnswer
  <2>3. CASE UNCHANGED <<mo_holder, mo_todo>>
    <3>1. Positions'
      BY <1>0, <2>1, <2>2, <2>3 DEF Positions
    <3>. QED  BY <1>1, <2>1, <3>1
  <2>4. CASE mo_holder' = "none" /\ mo_todo' = <<>>
    <3>1. mo_todo' \in Seq(Nat) /\ \A i \in 1..Len(mo_todo') : mo_todo'[i] \in 1..mo_log
      BY <2>4
    <3>2. Positions'
      BY <1>0, <2>1, <2>2, <2>4, <3>1 DEF Positions
    <3>. QED  BY <1>1, <2>1, <3>2
  <2>. QED  BY <2>1, <2>3, <2>4
<1>6. CASE Mochat!Refused \/ Mochat!Disconnect
  <2>1. UNCHANGED <<mo_log, mo_cursor, mo_saved, mo_seen, mo_stream, mo_pushed, mo_answer, mo_holder, mo_todo, mo_given>>
    BY <1>6 DEF Mochat!Refused, Mochat!Disconnect, Mochat!locked
  <2>2. Positions'
    BY <1>0, <2>1 DEF Positions
  <2>. QED  BY <1>1, <2>1, <2>2
<1>7. CASE Mochat!Reconnect
  <2>1. /\ mo_stream' = Mochat!Position
        /\ UNCHANGED <<mo_log, mo_cursor, mo_saved, mo_seen, mo_pushed, mo_answer, mo_holder, mo_todo, mo_given>>
    BY <1>7 DEF Mochat!Reconnect, Mochat!poller, Mochat!locked
  <2>2. mo_stream' \in 0..mo_log
    BY <1>0, <2>1 DEF Positions, Mochat!Position, Mochat!Unset
  <2>3. Positions'
    BY <1>0, <2>1, <2>2 DEF Positions
  <2>. QED  BY <1>1, <2>1, <2>3
<1>8. CASE Mochat!Push
  <2>1. /\ mo_stream < mo_log /\ mo_stream' = mo_stream + 1
        /\ mo_pushed' = Append(mo_pushed, [from |-> mo_stream, to |-> mo_stream + 1])
        /\ UNCHANGED <<mo_log, mo_cursor, mo_saved, mo_seen, mo_answer, mo_holder, mo_todo, mo_given>>
    BY <1>8 DEF Mochat!Push, Mochat!poller, Mochat!locked
  <2>2. PICK p \in Payloads : /\ p = [from |-> mo_stream, to |-> mo_stream + 1]
                             /\ p.from <= p.to /\ p.to <= mo_log
    <3>1. mo_stream \in Nat /\ mo_stream + 1 \in Nat /\ mo_stream <= mo_stream + 1 /\ mo_stream + 1 <= mo_log
      BY <1>0, <2>1 DEF Positions
    <3>2. [from |-> mo_stream, to |-> mo_stream + 1] \in Payloads
      BY <3>1 DEF Payloads
    <3>. QED  BY <3>1, <3>2
  <2>3. /\ mo_pushed' \in Seq(Payloads) /\ Len(mo_pushed') = Len(mo_pushed) + 1 /\ Len(mo_pushed) \in Nat
        /\ mo_pushed'[Len(mo_pushed) + 1] = p /\ \A i \in 1..Len(mo_pushed) : mo_pushed'[i] = mo_pushed[i]
    BY <1>0, <2>1, <2>2 DEF Positions
  <2>4. ASSUME NEW i \in 1..Len(mo_pushed')
        PROVE  mo_pushed'[i].from <= mo_pushed'[i].to /\ mo_pushed'[i].to <= mo_log
    <3>1. i \in 1..Len(mo_pushed) \/ i = Len(mo_pushed) + 1
      BY <2>3
    <3>. QED  BY <1>0, <2>2, <2>3, <3>1 DEF Positions
  <2>5. mo_stream' \in 0..mo_log
    BY <1>0, <2>1 DEF Positions
  <2>6. Positions'
    BY <1>0, <2>1, <2>3, <2>4, <2>5 DEF Positions
  <2>. QED  BY <1>1, <2>1, <2>6
<1>9. CASE Mochat!Ask \/ \E to \in 0..mo_MaxEvents : Mochat!Answered(to)
  <2>1. /\ UNCHANGED <<mo_log, mo_cursor, mo_saved, mo_seen, mo_stream, mo_pushed, mo_holder, mo_todo, mo_given>>
        /\ \/ mo_answer' = [from |-> Mochat!Position, to |-> Mochat!Position]
           \/ \E to \in mo_answer.from..mo_log : mo_answer' = [mo_answer EXCEPT !.to = to]
    BY <1>9 DEF Mochat!Ask, Mochat!Answered, Mochat!remote, Mochat!locked
  <2>2. Mochat!Position \in 0..mo_log
    BY <1>0 DEF Positions, Mochat!Position, Mochat!Unset
  <2>3. mo_answer' \in Payloads /\ mo_answer'.from <= mo_answer'.to /\ mo_answer'.to <= mo_log
    <3>1. CASE mo_answer' = [from |-> Mochat!Position, to |-> Mochat!Position]
      <4>1. PICK q \in Nat : q = Mochat!Position /\ q <= mo_log
        BY <1>0, <2>2 DEF Positions
      <4>. QED  BY <3>1, <4>1 DEF Payloads
    <3>2. ASSUME NEW to \in mo_answer.from..mo_log, mo_answer' = [mo_answer EXCEPT !.to = to]
          PROVE  mo_answer' \in Payloads /\ mo_answer'.from <= mo_answer'.to /\ mo_answer'.to <= mo_log
      <4>1. PICK a \in Payloads : a = mo_answer
        BY <1>0 DEF Positions
      <4>2. a.from \in Nat /\ mo_log \in Nat
        BY <1>0, <4>1 DEF Payloads, Positions
      <4>3. to \in Nat /\ a.from <= to /\ to <= mo_log
        BY <3>2, <4>1, <4>2
      <4>4. mo_answer' = [from |-> a.from, to |-> to]
        BY <3>2, <4>1 DEF Payloads
      <4>. QED  BY <4>2, <4>3, <4>4 DEF Payloads
    <3>. QED  BY <2>1, <3>1, <3>2
  <2>4. Positions'
    BY <1>0, <2>1, <2>3 DEF Positions
  <2>. QED  BY <1>1, <2>1, <2>4
<1>10. CASE Mochat!HandlePushed
  <2>1. /\ mo_pushed # <<>> /\ Mochat!Handle("socket", Head(mo_pushed)) /\ mo_pushed' = Tail(mo_pushed)
        /\ UNCHANGED <<mo_log, mo_saved, mo_seen, mo_stream, mo_answer, mo_given>>
    BY <1>10 DEF Mochat!HandlePushed, Mochat!poller
  <2>2. PICK p : p = Head(mo_pushed)
    OBVIOUS
  <2>3. /\ p \in Payloads /\ p.from <= p.to /\ p.to <= mo_log /\ mo_pushed' \in Seq(Payloads)
        /\ \A i \in 1..Len(mo_pushed') : mo_pushed'[i].from <= mo_pushed'[i].to /\ mo_pushed'[i].to <= mo_log
    <3>1. /\ p = mo_pushed[1] /\ 1 \in 1..Len(mo_pushed) /\ mo_pushed' \in Seq(Payloads)
          /\ \A i \in 1..Len(mo_pushed') : mo_pushed'[i] = mo_pushed[i + 1] /\ i + 1 \in 1..Len(mo_pushed)
      BY <1>0, <2>1, <2>2 DEF Positions
    <3>2. p \in Payloads
      BY <1>0, <3>1 DEF Positions
    <3>. QED  BY <1>0, <3>1, <3>2 DEF Positions
  <2>4. /\ mo_cursor' \in -1..mo_log
        /\ mo_todo' \in Seq(Nat) /\ \A i \in 1..Len(mo_todo') : mo_todo'[i] \in 1..mo_log
        /\ mo_holder' # "none" => mo_todo' # <<>>
    BY <2>1, <2>2, <2>3, MochatHandles
  <2>5. Positions'
    BY <1>0, <2>1, <2>3, <2>4 DEF Positions
  <2>. QED  BY <1>1, <2>1, <2>5
<1>11. CASE Mochat!HandleAnswer
  <2>1. /\ Mochat!Handle("worker", mo_answer) /\ UNCHANGED <<mo_log, mo_saved, mo_seen, mo_stream, mo_pushed, mo_answer, mo_given>>
    BY <1>11 DEF Mochat!HandleAnswer, Mochat!remote
  <2>2. PICK p : p = mo_answer
    OBVIOUS
  <2>3. p \in Payloads /\ p.from <= p.to /\ p.to <= mo_log
    BY <1>0, <2>2 DEF Positions
  <2>4. /\ mo_cursor' \in -1..mo_log
        /\ mo_todo' \in Seq(Nat) /\ \A i \in 1..Len(mo_todo') : mo_todo'[i] \in 1..mo_log
        /\ mo_holder' # "none" => mo_todo' # <<>>
    BY <2>1, <2>2, <2>3, MochatHandles
  <2>5. Positions'
    BY <1>0, <2>1, <2>4 DEF Positions
  <2>. QED  BY <1>1, <2>1, <2>5
<1>12. CASE Mochat!Process
  <2>1. /\ mo_holder # "none" /\ Mochat!Inbound(Head(mo_todo)) /\ mo_todo' = Tail(mo_todo)
        /\ mo_holder' = IF mo_todo' = <<>> THEN "none" ELSE mo_holder
        /\ UNCHANGED <<mo_log, mo_cursor, mo_saved, mo_stream, mo_pushed, mo_answer>>
    BY <1>12 DEF Mochat!Process, Mochat!remote, Mochat!poller
  <2>2. /\ Head(mo_todo) \in 1..mo_log /\ mo_todo' \in Seq(Nat)
        /\ \A i \in 1..Len(mo_todo') : mo_todo'[i] \in 1..mo_log
    <3>1. /\ Head(mo_todo) = mo_todo[1] /\ 1 \in 1..Len(mo_todo) /\ mo_todo' \in Seq(Nat)
          /\ \A i \in 1..Len(mo_todo') : mo_todo'[i] = mo_todo[i + 1] /\ i + 1 \in 1..Len(mo_todo)
      BY <1>0, <2>1 DEF Positions
    <3>. QED  BY <1>0, <3>1 DEF Positions
  <2>3. Positions'
    BY <1>0, <2>1, <2>2 DEF Positions
  <2>4. PICK m : m = Head(mo_todo)
    OBVIOUS
  <2>5. Remembered' /\ MochatBox
    BY <2>1, <2>2, <2>4, MochatInbound
  <2>. QED  BY <2>3, <2>5 DEF MochatOnce
<1>13. ASSUME NEW m \in 1..mo_MaxEvents, Mochat!Notify(m) PROVE MochatOnce' /\ MochatBox
  <2>1. /\ m \in 1..mo_log /\ Mochat!Inbound(m)
        /\ UNCHANGED <<mo_log, mo_cursor, mo_saved, mo_stream, mo_pushed, mo_answer, mo_holder, mo_todo>>
    BY <1>13 DEF Mochat!Notify, Mochat!remote, Mochat!poller, Mochat!locked
  <2>2. Positions'
    BY <1>0, <2>1 DEF Positions
  <2>. QED  BY <2>1, <2>2, MochatInbound DEF MochatOnce
<1>14. CASE Mochat!Save
  <2>1. /\ mo_saved' = mo_cursor /\ UNCHANGED <<mo_log, mo_cursor, mo_seen, mo_stream, mo_pushed, mo_answer, mo_holder, mo_todo, mo_given>>
    BY <1>14 DEF Mochat!Save, Mochat!remote, Mochat!poller, Mochat!locked
  <2>2. Positions'
    BY <1>0, <2>1 DEF Positions
  <2>. QED  BY <1>1, <2>1, <2>2
<1>15. ASSUME NEW b \in BOOLEAN, Mochat!Down(b) PROVE MochatOnce' /\ MochatBox
  <2>1. /\ mo_saved' \in {mo_saved, mo_cursor} /\ mo_cursor' = -1 /\ mo_seen' = <<>> /\ mo_given' = <<>>
        /\ mo_stream' = 0 /\ mo_pushed' = <<>> /\ mo_answer' = Mochat!NoAnswer /\ mo_holder' = "none" /\ mo_todo' = <<>>
        /\ UNCHANGED mo_log
    BY <1>15 DEF Mochat!Down, Mochat!Unset
  <2>2. Positions'
    BY <1>0, <2>1 DEF Positions, Payloads, Mochat!NoAnswer
  <2>3. Remembered'
    BY <2>1 DEF Remembered, AllDiffer, Holds
  <2>4. Mochat!Box!Forget
    BY <2>1 DEF Mochat!Box!Forget
  <2>. QED  BY <2>2, <2>3, <2>4 DEF MochatOnce, MochatBox, Mochat!Box!Next
<1>16. CASE UNCHANGED Mochat!vars
  <2>1. UNCHANGED <<mo_log, mo_cursor, mo_saved, mo_seen, mo_stream, mo_pushed, mo_answer, mo_holder, mo_todo, mo_given>>
    BY <1>16 DEF Mochat!vars, Mochat!remote, Mochat!poller, Mochat!locked
  <2>2. Positions'
    BY <1>0, <2>1 DEF Positions
  <2>. QED  BY <1>1, <2>1, <2>2
<1>. QED  BY <1>2, <1>3, <1>4, <1>5, <1>6, <1>7, <1>8, <1>9, <1>10, <1>11, <1>12, <1>13, <1>14,
             <1>15, <1>16 DEF Mochat!Next, Mochat!Stop, Mochat!Crash

LEMMA MochatBoxInit == ASSUME mo_MaxEvents \in Nat, Mochat!Init PROVE MochatOnce /\ Mochat!Box!Init
<1>1. Positions
  BY DEF Mochat!Init, Positions, Payloads, Mochat!NoAnswer, Mochat!Unset
<1>2. Remembered
  BY DEF Mochat!Init, Remembered, AllDiffer, Holds
<1>3. Mochat!Box!Init
  BY DEF Mochat!Init, Mochat!Box!Init
<1>. QED  BY <1>1, <1>2, <1>3 DEF MochatOnce

LEMMA MochatSteps == [AllNext]_All => [Mochat!Next]_(Mochat!vars)
BY DEF AllNext, All, Mochat!vars, mochatVars, Mochat!remote, Mochat!poller, Mochat!locked

LEMMA MochatImplements ==
    ASSUME mo_MaxEvents \in Nat, mo_Window \in Nat, mo_Window >= mo_MaxEvents
    PROVE  AllSpec => Mochat!MochatInbox
<1>1. AllInit => MochatOnce /\ Mochat!Box!Init
  BY MochatBoxInit DEF AllInit
<1>2. MochatOnce /\ [AllNext]_All => MochatOnce' /\ MochatBox
  BY MochatBoxStep, MochatSteps
<1>. QED  BY <1>1, <1>2, PTL DEF AllSpec, Mochat!MochatInbox, Mochat!Box!Spec, MochatBox

\* What was fetched or given is among the uids, and nothing is both in the list
\* and given.
EmailOnce ==
    /\ em_mails \in Seq(em_Senders) /\ Len(em_mails) <= em_MaxMails
    /\ em_uids \subseteq 1..Len(em_mails) /\ em_found \subseteq 1..Len(em_mails)
    /\ em_got \in Seq(1..em_MaxMails) /\ AllDiffer(em_got) /\ em_given \in Seq(1..em_MaxMails)
    /\ \A m : Holds(em_got, m) => m \in em_uids
    /\ \A m : Holds(em_given, m) => m \in em_uids /\ ~Holds(em_got, m)
EmailBox == [Email!Box!Next]_<<1..Len(em_mails), em_given>>

LEMMA UidsFit ==
    ASSUME em_MaxMails \in Nat, em_MaxUids \in Nat, em_MaxUids >= em_MaxMails, NEW u \in SUBSET (1..em_MaxMails)
    PROVE  ~(Email!Cardinality(u) > em_MaxUids)
<1>1. IsFiniteSet(1..em_MaxMails) /\ Cardinality(1..em_MaxMails) = IF 1 > em_MaxMails THEN 0 ELSE em_MaxMails - 1 + 1
  BY FS_Interval
<1>2. IsFiniteSet(u) /\ Cardinality(u) <= Cardinality(1..em_MaxMails)
  BY <1>1, FS_Subset
<1>3. Cardinality(u) \in Nat
  BY <1>2, FS_CardinalityType
<1>4. Email!Cardinality(u) = Cardinality(u)
  BY DEF Email!Cardinality, Cardinality
<1>. QED  BY <1>1, <1>2, <1>3, <1>4

LEMMA EmailBoxStep ==
    ASSUME em_MaxMails \in Nat, em_MaxUids \in Nat, em_MaxUids >= em_MaxMails, EmailOnce, [Email!Next]_(Email!vars)
    PROVE  EmailOnce' /\ EmailBox
<1>1. ASSUME UNCHANGED <<em_mails, em_uids, em_got, em_given>>, em_found' \subseteq 1..Len(em_mails)
      PROVE  EmailOnce' /\ EmailBox
  BY <1>1 DEF EmailOnce, EmailBox
<1>2. ASSUME NEW s \in em_Senders, Email!MailArrives(s) PROVE EmailOnce' /\ EmailBox
  <2>1. /\ em_mails' \in Seq(em_Senders) /\ Len(em_mails') = Len(em_mails) + 1
        /\ Len(em_mails) \in Nat /\ Len(em_mails) < em_MaxMails /\ UNCHANGED <<em_uids, em_found, em_got, em_given>>
    BY <1>2 DEF Email!MailArrives, EmailOnce, Email!thread
  <2>2. 1..Len(em_mails') = 1..Len(em_mails) \cup {Len(em_mails) + 1} /\ Len(em_mails) + 1 \notin 1..Len(em_mails)
        /\ Len(em_mails) + 1 \in 1..em_MaxMails
    BY <2>1
  <2>3. EmailOnce'
    BY <2>1, <2>2 DEF EmailOnce
  <2>4. Email!Box!Post(Len(em_mails) + 1)
    BY <2>1, <2>2 DEF Email!Box!Post
  <2>. QED  BY <2>2, <2>3, <2>4 DEF EmailBox, Email!Box!Next
<1>3. CASE \/ (\E s \in em_Senders : Email!Send(s)) \/ (\E i \in 1..em_MaxMails : Email!OwnerReads(i))
           \/ (\E b \in BOOLEAN : Email!Start(b)) \/ Email!FetchEnds \/ Email!HandEnds \/ Email!SmtpEnds \/ UNCHANGED Email!vars
  BY <1>1, <1>3 DEF Email!Send, Email!OwnerReads, Email!Start, Email!FetchEnds,
       Email!HandEnds, Email!SmtpEnds, Email!vars, Email!thread, EmailOnce
<1>4. CASE Email!Search \/ Email!FetchRaises
  <2>1. /\ em_got' = <<>> /\ UNCHANGED <<em_mails, em_uids, em_given>> /\ em_found' \subseteq 1..Len(em_mails)
    BY <1>4 DEF Email!Search, Email!FetchRaises, Email!Unread, EmailOnce
  <2>2. \A m : ~Holds(em_got', m)
    BY <2>1 DEF Holds
  <2>. QED  BY <2>1, <2>2 DEF EmailOnce, EmailBox, AllDiffer
<1>5. CASE Email!FetchSkips
  <2>1. UNCHANGED <<em_mails, em_uids, em_got, em_given>> /\ em_found' \subseteq em_found
    BY <1>5 DEF Email!FetchSkips
  <2>. QED  BY <1>1, <2>1 DEF EmailOnce
<1>6. ASSUME NEW b \in BOOLEAN, Email!Fetch(b) PROVE EmailOnce' /\ EmailBox
  <2>1. PICK i \in em_found :
          /\ em_found' = em_found \ {i} /\ UNCHANGED <<em_mails, em_given>>
          /\ \/ UNCHANGED <<em_uids, em_got>>
             \/ /\ i \notin em_uids /\ em_got' = Append(em_got, i)
                /\ em_uids' = IF Email!Cardinality(em_uids \cup {i}) > em_MaxUids THEN {} ELSE em_uids \cup {i}
    BY <1>6 DEF Email!Fetch
  <2>2. CASE UNCHANGED <<em_uids, em_got>>
    BY <1>1, <2>1, <2>2 DEF EmailOnce
  <2>3. CASE /\ i \notin em_uids /\ em_got' = Append(em_got, i)
             /\ em_uids' = IF Email!Cardinality(em_uids \cup {i}) > em_MaxUids THEN {} ELSE em_uids \cup {i}
    <3>1. i \in 1..Len(em_mails) /\ i \in 1..em_MaxMails /\ em_uids \cup {i} \subseteq 1..em_MaxMails
      BY DEF EmailOnce
    <3>2. PICK u : u = em_uids \cup {i}
      OBVIOUS
    <3>3. em_uids' = u
      BY <2>3, <3>1, <3>2, UidsFit
    <3>4. PICK e : e = Append(em_got, i)
      OBVIOUS
    <3>5. em_got \in Seq(1..em_MaxMails) /\ AllDiffer(em_got) /\ ~Holds(em_got, i) /\ ~Holds(em_given, i)
      BY <2>3 DEF EmailOnce
    <3>6. e \in Seq(1..em_MaxMails) /\ AllDiffer(e)
      <4>1. \A k \in 1..Len(em_got) : em_got[k] # i
        BY <3>5 DEF Holds
      <4>. QED  BY <3>1, <3>4, <3>5, <4>1, OneMoreDiffers
    <3>7. Gains(em_got, i, e)
      BY <3>1, <3>4, <3>5, HoldsOneMore
    <3>8. /\ \A m : Holds(e, m) => m \in u
          /\ \A m : Holds(em_given, m) => m \in u /\ ~Holds(e, m)
      BY <3>2, <3>5, <3>7 DEF Gains, EmailOnce
    <3>9. u \subseteq 1..Len(em_mails)
      BY <3>1, <3>2 DEF EmailOnce
    <3>. QED  BY <2>1, <2>3, <3>3, <3>4, <3>6, <3>8, <3>9 DEF EmailOnce, EmailBox
  <2>. QED  BY <2>1, <2>2, <2>3
<1>7. CASE Email!Hand
  <2>1. /\ em_got # <<>> /\ em_got' = Tail(em_got) /\ UNCHANGED <<em_mails, em_uids, em_found>>
        /\ em_given' = em_given \/ em_given' = Append(em_given, Head(em_got))
    BY <1>7 DEF Email!Hand
  <2>2. PICK i : i = Head(em_got)
    OBVIOUS
  <2>3. /\ i = em_got[1] /\ 1 \in 1..Len(em_got) /\ em_got' \in Seq(1..em_MaxMails) /\ i \in 1..em_MaxMails
        /\ \A k \in 1..Len(em_got') : em_got'[k] = em_got[k + 1] /\ k + 1 \in 1..Len(em_got) /\ k + 1 # 1
    BY <2>1, <2>2 DEF EmailOnce
  <2>4. Holds(em_got, i) /\ i \in em_uids /\ ~Holds(em_given, i)
    BY <2>3 DEF Holds, EmailOnce
  <2>5. ASSUME NEW m, Holds(em_got', m) PROVE Holds(em_got, m) /\ m # i
    <3>1. PICK k \in 1..Len(em_got') : em_got'[k] = m
      BY <2>5 DEF Holds
    <3>2. em_got[k + 1] = m /\ k + 1 \in 1..Len(em_got) /\ k + 1 # 1
      BY <2>3, <3>1
    <3>3. em_got[k + 1] # em_got[1]
      BY <2>3, <3>2 DEF EmailOnce, AllDiffer
    <3>. QED  BY <2>3, <3>2, <3>3 DEF Holds
  <2>6. AllDiffer(em_got')
    <3>1. ASSUME NEW j \in 1..Len(em_got'), NEW k \in 1..Len(em_got'), j # k PROVE em_got'[j] # em_got'[k]
      <4>1. j + 1 # k + 1
        BY <3>1
      <4>. QED  BY <2>3, <4>1 DEF EmailOnce, AllDiffer
    <3>. QED  BY <3>1 DEF AllDiffer
  <2>7. CASE em_given' = em_given
    BY <2>1, <2>3, <2>5, <2>6, <2>7 DEF EmailOnce, EmailBox
  <2>8. CASE em_given' = Append(em_given, i)
    <3>1. PICK g : g = Append(em_given, i)
      OBVIOUS
    <3>2. g \in Seq(1..em_MaxMails) /\ Gains(em_given, i, g)
      <4>1. em_given \in Seq(1..em_MaxMails)
        BY DEF EmailOnce
      <4>. QED  BY <2>3, <3>1, <4>1, HoldsOneMore
    <3>3. \A m : Holds(g, m) => m \in em_uids /\ ~Holds(em_got', m)
      BY <2>4, <2>5, <3>2 DEF Gains, EmailOnce
    <3>4. EmailOnce'
      BY <2>1, <2>3, <2>5, <2>6, <2>8, <3>1, <3>2, <3>3 DEF EmailOnce
    <3>5. \A k \in DOMAIN em_given : em_given[k] # i
      BY <2>4 DEF Holds, EmailOnce
    <3>6. i \in 1..Len(em_mails)
      BY <2>4 DEF EmailOnce
    <3>7. Email!Box!Give(i)
      BY <2>1, <2>8, <3>5, <3>6 DEF Email!Box!Give
    <3>. QED  BY <2>3, <3>4, <3>7 DEF EmailBox, Email!Box!Next
  <2>. QED  BY <2>1, <2>2, <2>7, <2>8
<1>8. CASE Email!Down
  <2>1. em_uids' = {} /\ em_found' = {} /\ em_got' = <<>> /\ em_given' = <<>> /\ UNCHANGED em_mails
    BY <1>8 DEF Email!Down
  <2>2. EmailOnce'
    BY <2>1 DEF EmailOnce, AllDiffer, Holds
  <2>3. Email!Box!Forget
    BY <2>1 DEF Email!Box!Forget
  <2>. QED  BY <2>2, <2>3 DEF EmailBox, Email!Box!Next
<1>. QED  BY <1>2, <1>3, <1>4, <1>5, <1>6, <1>7, <1>8 DEF Email!Next

LEMMA EmailBoxInit == ASSUME em_MaxMails \in Nat, Email!Init PROVE EmailOnce /\ Email!Box!Init
BY DEF Email!Init, EmailOnce, AllDiffer, Holds, Email!Box!Init

LEMMA EmailSteps == [AllNext]_All => [Email!Next]_(Email!vars)
BY DEF AllNext, All, Email!vars, emailVars, Email!thread

LEMMA EmailImplements ==
    ASSUME em_MaxMails \in Nat, em_MaxUids \in Nat, em_MaxUids >= em_MaxMails
    PROVE  AllSpec => Email!EmailInbox
<1>1. AllInit => EmailOnce /\ Email!Box!Init
  BY EmailBoxInit DEF AllInit
<1>2. EmailOnce /\ [AllNext]_All => EmailOnce' /\ EmailBox
  BY EmailBoxStep, EmailSteps
<1>. QED  BY <1>1, <1>2, PTL DEF AllSpec, Email!EmailInbox, Email!Box!Spec, EmailBox

\* Every message is remembered before its task starts, and no message is both
\* in a task and given.
PushTask == [msg : 1..pu_MaxMessages, stage : {"reaction", "download", "transcribe", "give"}]
PushOnce ==
    /\ pu_messages \in Seq([from : pu_Users, kind : Push!Kinds]) /\ Len(pu_messages) <= pu_MaxMessages
    /\ pu_seen \in Seq(1..pu_MaxMessages) /\ AllDiffer(pu_seen)
    /\ pu_given \in Seq(1..pu_MaxMessages) /\ pu_tasks \subseteq PushTask
    /\ \A m : Holds(pu_given, m) => m \in 1..Len(pu_messages) /\ Holds(pu_seen, m)
    /\ \A t \in pu_tasks : t.msg \in 1..Len(pu_messages) /\ Holds(pu_seen, t.msg) /\ ~Holds(pu_given, t.msg)
    /\ \A t, u \in pu_tasks : t.msg = u.msg => t = u
PushBox == [Push!Box!Next]_<<DOMAIN pu_messages, pu_given>>

LEMMA StageFits ==
    ASSUME NEW m, NEW s \in {"reaction", "download", "transcribe", "give"}
    PROVE  /\ Push!FeishuThen(m, s) \in {"reaction", "download", "transcribe", "give"}
           /\ Push!First(m) \in {"reaction", "download", "transcribe", "give"}
BY DEF Push!FeishuThen, Push!First, Push!FeishuFirst, Push!WecomFirst, Push!QqFirst

LEMMA PushBoxStep ==
    ASSUME pu_MaxMessages \in Nat, pu_Window \in Nat, pu_Window >= pu_MaxMessages, PushOnce, [Push!Next]_(Push!vars)
    PROVE  PushOnce' /\ PushBox
<1>0. DOMAIN pu_messages = 1..Len(pu_messages) /\ Len(pu_messages) \in Nat
  BY DEF PushOnce
<1>1. ASSUME UNCHANGED <<pu_messages, pu_seen, pu_tasks, pu_given>>
      PROVE  PushOnce' /\ PushBox
  BY <1>1 DEF PushOnce, PushBox
<1>2. ASSUME NEW u \in pu_Users, NEW k \in Push!Kinds, Push!UserWrites(u, k) PROVE PushOnce' /\ PushBox
  <2>1. /\ pu_messages' \in Seq([from : pu_Users, kind : Push!Kinds]) /\ Len(pu_messages') = Len(pu_messages) + 1
        /\ Len(pu_messages) < pu_MaxMessages /\ UNCHANGED <<pu_seen, pu_tasks, pu_given>>
    BY <1>0, <1>2 DEF Push!UserWrites, PushOnce
  <2>2. /\ 1..Len(pu_messages') = 1..Len(pu_messages) \cup {Len(pu_messages) + 1}
        /\ Len(pu_messages) + 1 \notin 1..Len(pu_messages) /\ Len(pu_messages) + 1 \in 1..pu_MaxMessages
        /\ DOMAIN pu_messages' = 1..Len(pu_messages')
    BY <1>0, <2>1
  <2>3. Len(pu_messages') <= pu_MaxMessages
    BY <1>0, <2>1
  <2>4. PushOnce'
    BY <2>1, <2>2, <2>3 DEF PushOnce
  <2>5. Push!Box!Post(Len(pu_messages) + 1)
    BY <1>0, <2>1, <2>2 DEF Push!Box!Post
  <2>. QED  BY <2>2, <2>4, <2>5 DEF PushBox, Push!Box!Next
<1>3. CASE \/ Push!Connect \/ (\E by \in {"stop", "error"} : Push!Disconnect(by))
           \/ (\E m \in DOMAIN pu_messages, ok \in BOOLEAN : Push!Answer(m, ok)) \/ UNCHANGED Push!vars
  BY <1>1, <1>3 DEF Push!Connect, Push!Disconnect, Push!Answer, Push!vars
<1>4. CASE Push!Crash
  <2>1. pu_seen' = <<>> /\ pu_tasks' = {} /\ pu_given' = <<>> /\ UNCHANGED pu_messages
    BY <1>4 DEF Push!Crash
  <2>2. PushOnce'
    BY <2>1 DEF PushOnce, AllDiffer, Holds
  <2>3. Push!Box!Forget
    BY <2>1 DEF Push!Box!Forget
  <2>. QED  BY <2>2, <2>3 DEF PushBox, Push!Box!Next
<1>5. ASSUME NEW m \in 1..pu_MaxMessages, Push!Push(m) PROVE PushOnce' /\ PushBox
  <2>1. UNCHANGED <<pu_messages, pu_given>> /\ m \in 1..Len(pu_messages)
    BY <1>0, <1>5 DEF Push!Push
  <2>2. CASE Push!Contains(pu_seen, m)
    BY <1>1, <1>5, <2>1, <2>2 DEF Push!Push
  <2>3. CASE ~Push!Contains(pu_seen, m)
    <3>1. ~Holds(pu_seen, m)
      BY <2>3 DEF Push!Contains, Holds
    <3>2. PICK e : e = Append(pu_seen, m)
      OBVIOUS
    <3>3. /\ e \in Seq(1..pu_MaxMessages) /\ AllDiffer(e) /\ Len(e) <= pu_MaxMessages
      <4>1. pu_seen \in Seq(1..pu_MaxMessages) /\ AllDiffer(pu_seen) /\ \A i \in 1..Len(pu_seen) : pu_seen[i] # m
        BY <3>1 DEF PushOnce, Holds
      <4>2. e \in Seq(1..pu_MaxMessages) /\ AllDiffer(e)
        BY <3>2, <4>1, OneMoreDiffers
      <4>. QED  BY <4>2, Room
    <3>4. Gains(pu_seen, m, e)
      BY <3>2, HoldsOneMore DEF PushOnce
    <3>5. pu_seen' = e
      <4>1. ~(Len(e) > pu_Window)
        BY <3>3
      <4>2. Push!Remember(m) = e
        BY <3>2, <4>1 DEF Push!Remember
      <4>. QED  BY <1>5, <2>3, <4>2 DEF Push!Push
    <3>6. \A x : Holds(e, x) <=> Holds(pu_seen, x) \/ x = m
      BY <3>4 DEF Gains
    <3>7. PICK t \in PushTask : t.msg = m /\ (pu_tasks' = pu_tasks \/ pu_tasks' = pu_tasks \cup {t})
      <4>1. PICK s \in {"reaction", "download", "transcribe", "give"} : s = Push!First(m)
        BY StageFits
      <4>2. [msg |-> m, stage |-> s] \in PushTask /\ [msg |-> m, stage |-> s].msg = m
        BY DEF PushTask
      <4>. QED  BY <1>5, <2>3, <4>1, <4>2 DEF Push!Push
    <3>8. ~Holds(pu_given, m) /\ \A u \in pu_tasks : u.msg # m
      BY <3>1 DEF PushOnce
    <3>9. pu_tasks' \subseteq PushTask
      BY <3>7 DEF PushOnce
    <3>10. /\ \A u \in pu_tasks' : u.msg \in 1..Len(pu_messages) /\ Holds(e, u.msg) /\ ~Holds(pu_given, u.msg)
           /\ \A u, v \in pu_tasks' : u.msg = v.msg => u = v
      BY <2>1, <3>6, <3>7, <3>8 DEF PushOnce
    <3>11. \A x : Holds(pu_given, x) => x \in 1..Len(pu_messages) /\ Holds(e, x)
      BY <3>6 DEF PushOnce
    <3>. QED  BY <2>1, <3>3, <3>5, <3>9, <3>10, <3>11 DEF PushOnce, PushBox
  <2>. QED  BY <2>2, <2>3
<1>6. ASSUME NEW t \in pu_tasks, Push!Fetched(t) PROVE PushOnce' /\ PushBox
  <2>1. UNCHANGED <<pu_messages, pu_seen, pu_given>>
    BY <1>6 DEF Push!Fetched
  <2>2. t \in PushTask
    BY DEF PushOnce
  <2>3. PICK u \in PushTask : u.msg = t.msg /\ (pu_tasks' = (pu_tasks \ {t}) \cup {u} \/ pu_tasks' = pu_tasks \ {t})
    <3>1. PICK s \in {"reaction", "download", "transcribe", "give"} :
             s = IF pu_service = "feishu" THEN Push!FeishuThen(t.msg, t.stage) ELSE "give"
      BY <2>2, StageFits DEF PushTask
    <3>2. [t EXCEPT !.stage = s] \in PushTask /\ [t EXCEPT !.stage = s].msg = t.msg
      BY <2>2 DEF PushTask
    <3>. QED  BY <1>6, <3>1, <3>2 DEF Push!Fetched
  <2>4. pu_tasks' \subseteq PushTask
    BY <2>3 DEF PushOnce
  <2>5. /\ \A v \in pu_tasks' : v.msg \in 1..Len(pu_messages) /\ Holds(pu_seen, v.msg) /\ ~Holds(pu_given, v.msg)
        /\ \A v, w \in pu_tasks' : v.msg = w.msg => v = w
    BY <2>3 DEF PushOnce
  <2>. QED  BY <2>1, <2>4, <2>5 DEF PushOnce, PushBox
<1>7. ASSUME NEW t \in pu_tasks, Push!Give(t) PROVE PushOnce' /\ PushBox
  <2>1. /\ UNCHANGED <<pu_messages, pu_seen>> /\ pu_tasks' = pu_tasks \ {t}
        /\ pu_given' = pu_given \/ pu_given' = Append(pu_given, t.msg)
    BY <1>7 DEF Push!Give
  <2>2. PICK i : i = t.msg
    OBVIOUS
  <2>3. /\ i \in 1..pu_MaxMessages /\ i \in 1..Len(pu_messages) /\ Holds(pu_seen, i) /\ ~Holds(pu_given, i)
        /\ \A u \in pu_tasks' : u \in pu_tasks /\ u.msg # i
    BY <2>1, <2>2 DEF PushOnce, PushTask
  <2>4. CASE pu_given' = pu_given
    BY <2>1, <2>3, <2>4 DEF PushOnce, PushBox
  <2>5. CASE pu_given' = Append(pu_given, i)
    <3>1. PICK g : g = Append(pu_given, i)
      OBVIOUS
    <3>2. g \in Seq(1..pu_MaxMessages) /\ Gains(pu_given, i, g)
      <4>1. pu_given \in Seq(1..pu_MaxMessages)
        BY DEF PushOnce
      <4>. QED  BY <2>3, <3>1, <4>1, HoldsOneMore
    <3>3. /\ \A m : Holds(g, m) => m \in 1..Len(pu_messages) /\ Holds(pu_seen, m)
          /\ \A u \in pu_tasks' : ~Holds(g, u.msg)
      BY <2>3, <3>2 DEF Gains, PushOnce
    <3>4. PushOnce'
      BY <2>1, <2>3, <2>5, <3>1, <3>2, <3>3 DEF PushOnce
    <3>5. \A k \in DOMAIN pu_given : pu_given[k] # i
      BY <2>3 DEF Holds, PushOnce
    <3>6. Push!Box!Give(i)
      BY <1>0, <2>1, <2>3, <2>5, <3>5 DEF Push!Box!Give
    <3>. QED  BY <2>3, <3>4, <3>6 DEF PushBox, Push!Box!Next
  <2>. QED  BY <2>1, <2>2, <2>4, <2>5
<1>. QED  BY <1>2, <1>3, <1>4, <1>5, <1>6, <1>7 DEF Push!Next

LEMMA PushBoxInit == ASSUME pu_MaxMessages \in Nat, Push!Init PROVE PushOnce /\ Push!Box!Init
BY DEF Push!Init, PushOnce, AllDiffer, Holds, Push!Box!Init

LEMMA PushSteps == [AllNext]_All => [Push!Next]_(Push!vars)
BY DEF AllNext, All, Push!vars, pushVars

LEMMA PushImplements ==
    ASSUME pu_MaxMessages \in Nat, pu_Window \in Nat, pu_Window >= pu_MaxMessages
    PROVE  AllSpec => Push!PushInbox
<1>1. AllInit => PushOnce /\ Push!Box!Init
  BY PushBoxInit DEF AllInit
<1>2. PushOnce /\ [AllNext]_All => PushOnce' /\ PushBox
  BY PushBoxStep, PushSteps
<1>. QED  BY <1>1, <1>2, PTL DEF AllSpec, Push!PushInbox, Push!Box!Spec, PushBox

\* A post is taken as a message when it is direct and as a mention when it is
\* not, and no event on its way is one of a kind that was taken.
SlackPost  == [by : sl_Users, where : {"im", "channel"}, mentions : BOOLEAN, thread : {0, 1}]
SlackEvent == [post : 1..Len(sl_posts), type : {"message", "app_mention"}]
SlackGift  == [post : 1..sl_MaxPosts, thread : Nat, type : {"message", "app_mention"}]
SlackOnce ==
    /\ sl_posts \in Seq(SlackPost) /\ Len(sl_posts) <= sl_MaxPosts
    /\ sl_events \subseteq SlackEvent
    /\ \A e \in sl_events : e.type = "app_mention" => sl_posts[e.post].where = "channel"
    /\ sl_given \in Seq(SlackGift)
    /\ \A i \in 1..Len(sl_given) :
          /\ sl_given[i].post \in 1..Len(sl_posts)
          /\ sl_given[i].type = "message" <=> sl_posts[sl_given[i].post].where = "im"
    /\ \A e \in sl_events : \A i \in 1..Len(sl_given) :
          sl_given[i].post = e.post => sl_given[i].type # e.type
SlackBox == [Slack!Box!Next]_<<DOMAIN sl_posts, [i \in DOMAIN sl_given |-> sl_given[i].post]>>

\* With mentions only, a direct message is taken as such and nothing else is.
LEMMA TakenOnce ==
    ASSUME sl_GroupPolicy = "mention", SlackOnce, NEW e \in sl_events, Slack!Wanted(e)
    PROVE  e.type = "message" <=> sl_posts[e.post].where = "im"
<1>1. e \in SlackEvent /\ sl_posts[e.post] \in SlackPost
  BY DEF SlackOnce, SlackEvent
<1>2. CASE e.type = "message"
  <2>1. ~(sl_me /\ sl_posts[e.post].mentions)
    BY <1>2 DEF Slack!Wanted, Slack!LeftToMention
  <2>2. Slack!IsDm(e)
    BY <1>2, <2>1 DEF Slack!Wanted, Slack!ShouldRespond
  <2>. QED  BY <1>2, <2>2 DEF Slack!IsDm
<1>3. CASE e.type = "app_mention"
  BY <1>3 DEF SlackOnce
<1>. QED  BY <1>1, <1>2, <1>3 DEF SlackEvent

LEMMA SlackBoxStep ==
    ASSUME sl_MaxPosts \in Nat, sl_GroupPolicy = "mention", SlackOnce, [Slack!Next]_(Slack!vars)
    PROVE  SlackOnce' /\ SlackBox
<1>0. DOMAIN sl_posts = 1..Len(sl_posts) /\ Len(sl_posts) \in Nat /\ DOMAIN sl_given = 1..Len(sl_given)
  BY DEF SlackOnce
<1>1. ASSUME UNCHANGED <<sl_posts, sl_events, sl_given>> PROVE SlackOnce' /\ SlackBox
  BY <1>1 DEF SlackOnce, SlackBox, SlackEvent
<1>2. ASSUME NEW u \in sl_Users, NEW w \in {"im", "channel"}, NEW mention \in BOOLEAN,
             NEW t \in {0, 1}, Slack!Post(u, w, mention, t)
      PROVE  SlackOnce' /\ SlackBox
  <2>1. PICK r \in SlackPost : /\ r = [by |-> u, where |-> w, mentions |-> mention, thread |-> t]
                               /\ r.where = w
    <3>1. [by |-> u, where |-> w, mentions |-> mention, thread |-> t] \in SlackPost
      BY DEF SlackPost
    <3>2. [by |-> u, where |-> w, mentions |-> mention, thread |-> t].where = w
      OBVIOUS
    <3>. QED  BY <3>1, <3>2
  <2>2. PICK p : p = Append(sl_posts, r)
    OBVIOUS
  <2>3. PICK n \in Nat : n = Len(sl_posts)
    BY <1>0
  <2>4. /\ p \in Seq(SlackPost) /\ Len(p) = n + 1 /\ p[n + 1] = r /\ n < sl_MaxPosts
        /\ \A i \in 1..n : p[i] = sl_posts[i]
    BY <1>2, <2>2, <2>3 DEF SlackOnce, Slack!Post
  <2>5. sl_posts' = p /\ UNCHANGED sl_given
    BY <1>2, <2>1, <2>2 DEF Slack!Post
  <2>6. \A e \in sl_events' : \/ e \in sl_events
                              \/ /\ e \in [post : 1..(n + 1), type : {"message", "app_mention"}]
                                 /\ e.post = n + 1 /\ (e.type = "app_mention" => w = "channel")
    BY <1>2, <2>4, <2>5 DEF Slack!Post
  <2>7. /\ \A e \in sl_events : /\ e \in [post : 1..(n + 1), type : {"message", "app_mention"}]
                                /\ e.post \in 1..n
        /\ \A i \in 1..Len(sl_given) : sl_given[i].post \in 1..n
    BY <2>3 DEF SlackOnce, SlackEvent
  <2>8. sl_events' \subseteq [post : 1..(n + 1), type : {"message", "app_mention"}]
    BY <2>6, <2>7
  <2>9. \A e \in sl_events' : e.type = "app_mention" => p[e.post].where = "channel"
    BY <2>1, <2>4, <2>6, <2>7 DEF SlackOnce
  <2>10. \A i \in 1..Len(sl_given) : /\ sl_given[i].post \in 1..(n + 1)
                                     /\ sl_given[i].type = "message" <=> p[sl_given[i].post].where = "im"
    BY <2>4, <2>7 DEF SlackOnce
  <2>11. \A e \in sl_events' : \A i \in 1..Len(sl_given) : sl_given[i].post = e.post => sl_given[i].type # e.type
    BY <2>6, <2>7 DEF SlackOnce
  <2>12. SlackOnce'
    <3>1. sl_posts' \in Seq(SlackPost) /\ Len(sl_posts') = n + 1 /\ Len(sl_posts') <= sl_MaxPosts
      BY <2>3, <2>4, <2>5
    <3>2. sl_events' \subseteq SlackEvent'
      BY <2>8, <3>1 DEF SlackEvent
    <3>3. sl_given' \in Seq(SlackGift)
      BY <2>5 DEF SlackOnce
    <3>. QED  BY <2>5, <2>9, <2>10, <2>11, <3>1, <3>2, <3>3 DEF SlackOnce
  <2>13. Slack!Box!Post(n + 1)
    BY <1>0, <2>3, <2>4, <2>5 DEF Slack!Box!Post
  <2>. QED  BY <2>3, <2>4, <2>12, <2>13 DEF SlackBox, Slack!Box!Next
<1>3. ASSUME NEW e \in sl_events, Slack!OnSocketRequest(e) PROVE SlackOnce' /\ SlackBox
  <2>1. UNCHANGED sl_posts /\ sl_events' = sl_events \ {e} /\ e \in SlackEvent
    BY <1>3 DEF Slack!OnSocketRequest, SlackOnce
  <2>2. CASE ~Slack!Wanted(e)
    <3>1. UNCHANGED sl_given
      BY <1>3, <2>2 DEF Slack!OnSocketRequest
    <3>. QED  BY <2>1, <3>1 DEF SlackOnce, SlackBox, SlackEvent
  <2>3. CASE Slack!Wanted(e)
    <3>1. e.type = "message" <=> sl_posts[e.post].where = "im"
      BY <2>3, TakenOnce
    <3>2. PICK gift \in SlackGift : /\ gift = [post |-> e.post, thread |-> Slack!Thread(e.post), type |-> e.type]
                                    /\ gift.post = e.post /\ gift.type = e.type
      <4>1. e.post \in 1..Len(sl_posts) /\ e.post \in 1..sl_MaxPosts /\ sl_posts[e.post] \in SlackPost
        BY <1>0, <2>1 DEF SlackOnce, SlackEvent
      <4>2. Slack!Thread(e.post) \in Nat
        BY <4>1 DEF Slack!Thread, SlackPost
      <4>3. [post |-> e.post, thread |-> Slack!Thread(e.post), type |-> e.type] \in SlackGift
        BY <2>1, <4>1, <4>2 DEF SlackEvent, SlackGift
      <4>. QED  BY <4>3
    <3>3. PICK g : g = Append(sl_given, gift)
      OBVIOUS
    <3>4. sl_given' = g
      BY <1>3, <2>3, <3>2, <3>3 DEF Slack!OnSocketRequest
    <3>5. PICK n \in Nat : n = Len(sl_given)
      BY DEF SlackOnce
    <3>6. /\ g \in Seq(SlackGift) /\ Len(g) = n + 1 /\ g[n + 1] = gift
          /\ \A i \in 1..n : g[i] = sl_given[i]
      BY <3>3, <3>5 DEF SlackOnce
    <3>7. \A i \in 1..(n + 1) : i \in 1..n \/ i = n + 1
      OBVIOUS
    <3>8. \A i \in 1..n : sl_given[i].post # e.post
      <4>1. ASSUME NEW i \in 1..n, sl_given[i].post = e.post PROVE FALSE
        <5>1. sl_given[i].type # e.type
          BY <3>5, <4>1 DEF SlackOnce
        <5>2. sl_given[i].type = "message" <=> sl_posts[e.post].where = "im"
          BY <3>5, <4>1 DEF SlackOnce
        <5>3. sl_given[i] \in SlackGift
          BY <3>5 DEF SlackOnce
        <5>4. /\ sl_given[i].type \in {"message", "app_mention"}
              /\ e.type \in {"message", "app_mention"}
          BY <2>1, <5>3 DEF SlackGift, SlackEvent
        <5>. QED  BY <3>1, <5>1, <5>2, <5>4
      <4>. QED  BY <4>1
    <3>9. e.post \in 1..Len(sl_posts)
      BY <2>1 DEF SlackEvent
    <3>10. \A i \in 1..Len(g) : /\ g[i].post \in 1..Len(sl_posts)
                                /\ g[i].type = "message" <=> sl_posts[g[i].post].where = "im"
      BY <3>1, <3>2, <3>5, <3>6, <3>7, <3>9 DEF SlackOnce
    <3>11. \A d \in sl_events' : \A i \in 1..Len(g) : g[i].post = d.post => g[i].type # d.type
      <4>1. ASSUME NEW d \in sl_events', NEW i \in 1..n, g[i].post = d.post PROVE g[i].type # d.type
        BY <2>1, <3>5, <3>6, <4>1 DEF SlackOnce
      <4>2. ASSUME NEW d \in sl_events', gift.post = d.post PROVE gift.type # d.type
        <5>1. d \in SlackEvent /\ d # e
          BY <2>1 DEF SlackOnce
        <5>2. d = [post |-> d.post, type |-> d.type] /\ e = [post |-> e.post, type |-> e.type]
          BY <2>1, <5>1 DEF SlackEvent
        <5>. QED  BY <3>2, <4>2, <5>1, <5>2
      <4>. QED  BY <3>6, <3>7, <4>1, <4>2
    <3>12. SlackOnce'
      BY <2>1, <3>4, <3>6, <3>10, <3>11 DEF SlackOnce, SlackEvent
    <3>13. PICK old : old = [i \in DOMAIN sl_given |-> sl_given[i].post]
      OBVIOUS
    <3>14. PICK new : new = [i \in DOMAIN g |-> g[i].post]
      OBVIOUS
    <3>15. /\ old \in Seq(Nat) /\ Len(old) = n /\ DOMAIN old = 1..n
           /\ \A i \in 1..n : old[i] = sl_given[i].post
      <4>1. \A i \in 1..n : sl_given[i].post \in Nat
        BY <3>5 DEF SlackOnce, SlackGift
      <4>. QED  BY <1>0, <3>5, <3>13, <4>1
    <3>16. new = Append(old, e.post)
      <4>1. DOMAIN new = 1..(n + 1) /\ \A i \in 1..(n + 1) : new[i] = g[i].post
        BY <3>6, <3>14
      <4>2. PICK a : a = Append(old, e.post)
        OBVIOUS
      <4>3. e.post \in Nat
        BY <2>1 DEF SlackEvent
      <4>4. /\ a \in Seq(Nat) /\ Len(a) = n + 1 /\ a[n + 1] = e.post
            /\ \A i \in 1..n : a[i] = old[i]
        BY <3>15, <4>2, <4>3
      <4>5. \A i \in 1..(n + 1) : new[i] = a[i]
        BY <3>2, <3>6, <3>7, <3>15, <4>1, <4>4
      <4>6. new = [i \in 1..(n + 1) |-> new[i]] /\ a = [i \in 1..(n + 1) |-> a[i]]
        BY <3>6, <3>14, <4>1, <4>4
      <4>. QED  BY <4>2, <4>5, <4>6
    <3>17. Slack!Box!Give(e.post)
      BY <1>0, <2>1, <3>4, <3>8, <3>9, <3>13, <3>14, <3>15, <3>16 DEF Slack!Box!Give
    <3>18. e.post \in 1..sl_MaxPosts
      BY <1>0, <3>9 DEF SlackOnce
    <3>. QED  BY <3>12, <3>17, <3>18 DEF SlackBox, Slack!Box!Next
  <2>. QED  BY <2>2, <2>3
<1>4. CASE \/ Slack!Start \/ Slack!Stop \/ (\E ok \in BOOLEAN : Slack!AuthTest(ok))
           \/ (\E i \in DOMAIN sl_given, ok \in BOOLEAN : Slack!Send(i, ok)) \/ UNCHANGED Slack!vars
  BY <1>1, <1>4 DEF Slack!Start, Slack!Stop, Slack!AuthTest, Slack!Send, Slack!vars
<1>. QED  BY <1>2, <1>3, <1>4 DEF Slack!Next

LEMMA SlackBoxInit == ASSUME sl_MaxPosts \in Nat, Slack!Init PROVE SlackOnce /\ Slack!Box!Init
BY DEF Slack!Init, SlackOnce, Slack!Box!Init

LEMMA SlackSteps == [AllNext]_All => [Slack!Next]_(Slack!vars)
BY DEF AllNext, All, Slack!vars, slackVars

LEMMA SlackImplements ==
    ASSUME sl_MaxPosts \in Nat, sl_GroupPolicy = "mention"
    PROVE  AllSpec => Slack!SlackInbox
<1>1. AllInit => SlackOnce /\ Slack!Box!Init
  BY SlackBoxInit DEF AllInit
<1>2. SlackOnce /\ [AllNext]_All => SlackOnce' /\ SlackBox
  BY SlackBoxStep, SlackSteps
<1>. QED  BY <1>1, <1>2, PTL DEF AllSpec, Slack!SlackInbox, Slack!Box!Spec, SlackBox

(* For any senders, posts and downloads, any crashes, reconnections and        *)
(* repetitions, and as long as a channel remembers all that can arrive: the    *)
(* agent is given each message at most once between two restarts. Slack        *)
(* promises it when only mentions are answered (slack.py:132); with an open    *)
(* policy it does not.                                                         *)
THEOREM ChannelsImplementInbox ==
    ASSUME wx_MaxMessages \in Nat, wx_Window \in Nat, wx_Window >= wx_MaxMessages,
           mo_MaxEvents \in Nat, mo_Window \in Nat, mo_Window >= mo_MaxEvents,
           em_MaxMails \in Nat, em_MaxUids \in Nat, em_MaxUids >= em_MaxMails,
           pu_MaxMessages \in Nat, pu_Window \in Nat, pu_Window >= pu_MaxMessages,
           sl_MaxPosts \in Nat, sl_GroupPolicy = "mention"
    PROVE  AllSpec => Inboxes
<1>. QED  BY WeixinImplements, MochatImplements, EmailImplements, PushImplements, SlackImplements
          DEF Inboxes
==============================================================================
