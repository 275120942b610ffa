------------------------- MODULE SessionTurns_proofs -------------------------
(***************************************************************************)
(* What holds of a session, its turns and what they share, for every value *)
(* of the constants.                                                       *)
(*                                                                         *)
(* RequestsAnsweredOnce: AnsweredOnce is not inductive. A request that is  *)
(* pending on the live object or on the file must never have been          *)
(* answered; that a save made after the request was taken off the object   *)
(* reaches the metadata line, and is no append, makes the file part so.    *)
(* It needs of the object only that it has its fields (SessionShape).      *)
(*                                                                         *)
(* SessionTypes, FileKeepsWhatIsSaved: what a live object says it has      *)
(* saved is a beginning of its history, and the file holds that and no     *)
(* more (Whole). An object that was just created or loaded says nothing.   *)
(*                                                                         *)
(* Then the components of MCSession, each in the behaviours of its own.    *)
(***************************************************************************)
EXTENDS MCSession, SequenceTheorems, FiniteSetTheorems,
        WellFoundedInduction, TLAPS

\* The fields of a session object and of a file, without their types.
SessionShape(s) ==
    s = [msgs |-> s.msgs, pend |-> s.pend, ask |-> s.ask, task |-> s.task,
         updated |-> s.updated, dirty |-> s.dirty, saved |-> s.saved]

FileShape(f) ==
    f # NoFile => f = [msgs |-> f.msgs, pend |-> f.pend, ask |-> f.ask,
                       task |-> f.task, updated |-> f.updated]

Numbers == Requests \cup {0}

\* A request that could still be answered has not been.
Unanswered(r, out) == r \in Numbers /\ (r # 0 => out[r] = 0)

ObjectOK(s, out) == SessionShape(s) /\ Unanswered(s.pend, out)

FileOK(f, out) == FileShape(f) /\ (f # NoFile => Unanswered(f.pend, out))

Live == cached \/ turn.pc # "idle"

TurnShape == turn = [pc |-> turn.pc, asked |-> turn.asked]

IInv ==
    /\ outcomes \in [Requests -> Nat]
    /\ AnsweredOnce
    /\ TurnShape
    /\ SessionShape(mem)
    /\ Live => ObjectOK(mem, outcomes)
    /\ FileOK(file, outcomes)

------------------------------------------------------------------------------
(* Lemmas about the operators of Session. *)

\* Fields other than the pending request do not matter to ObjectOK.
LEMMA AddKeeps ==
    ASSUME NEW s, NEW out, NEW kinds, NEW t, ObjectOK(s, out)
    PROVE  ObjectOK(AddMessages(s, kinds, t), out)
<1> DEFINE longer == s.msgs \o kinds
<1>1. AddMessages(s, kinds, t) = [s EXCEPT !.msgs = longer, !.updated = t]
  BY DEF AddMessages
<1> HIDE DEF longer
<1>. QED  BY <1>1 DEF ObjectOK, SessionShape, Unanswered, Numbers

\* The session without the prompt keeps its other fields.
LEMMA ReconstructedKeeps ==
    ASSUME NEW s, NEW out, ObjectOK(s, out)
    PROVE  ObjectOK(Reconstructed(s), out)
<1>1. ObjectOK(WithoutPrompt(s), out)
  <2> DEFINE shorter == RemoveAt(s.msgs, Max(PromptAt(s.msgs)))
  <2>1. WithoutPrompt(s) \in {s, [s EXCEPT !.msgs = shorter]}
    BY DEF WithoutPrompt
  <2> HIDE DEF shorter
  <2>. QED  BY <2>1 DEF ObjectOK, SessionShape, Unanswered, Numbers
<1>. QED  BY <1>1, AddKeeps DEF Reconstructed

\* A new session has no pending request.
LEMMA NewOK ==
    ASSUME NEW t, NEW out
    PROVE  ObjectOK(NewSession(t), out)
BY DEF ObjectOK, SessionShape, NewSession, Unanswered, Numbers

\* A load takes the pending request of the file.
LEMMA LoadedOK ==
    ASSUME NEW f, NEW out, FileOK(f, out), f # NoFile
    PROVE  ObjectOK(Loaded(f), out)
BY DEF ObjectOK, SessionShape, Loaded, Unanswered, Numbers, FileOK

\* A save keeps the object's request and brings the file no answered one.
LEMMA SavedOK ==
    ASSUME NEW s, NEW f, NEW t, NEW out, ObjectOK(s, out), FileOK(f, out)
    PROVE  /\ ObjectOK(Saved(s, f, t), out)
           /\ FileOK(FileAfter(s, f), out)
<1>1. ObjectOK(Saved(s, f, t), out)
  BY DEF ObjectOK, SessionShape, Saved, Unanswered, Numbers
<1>2. CASE CanAppend(s, f)
  <2> DEFINE lines == Glue(f.msgs, Unsaved(s))
  <2>1. f # NoFile /\ FileAfter(s, f) = [f EXCEPT !.msgs = lines]
    BY <1>2 DEF FileAfter, Appended, CanAppend
  <2> HIDE DEF lines
  <2>2. FileOK(FileAfter(s, f), out)
    BY <2>1 DEF FileOK, FileShape, Unanswered, Numbers
  <2>. QED  BY <1>1, <2>2
<1>3. CASE ~CanAppend(s, f)
  BY <1>1, <1>3 DEF FileOK, FileShape, FileAfter, Rewritten, ObjectOK,
                    SessionShape, Unanswered, Numbers
<1>. QED  BY <1>2, <1>3

\* A dirty session replaces the metadata line, whatever request it held.
LEMMA RewriteOK ==
    ASSUME NEW s, NEW f, NEW t, NEW out, ObjectOK(s, out), s.dirty
    PROVE  /\ ObjectOK(Saved(s, f, t), out)
           /\ FileOK(FileAfter(s, f), out)
<1>1. ~CanAppend(s, f)
  BY DEF CanAppend
<1>. QED
  BY <1>1 DEF FileOK, FileShape, FileAfter, Rewritten, ObjectOK, Saved,
              SessionShape, Unanswered, Numbers

------------------------------------------------------------------------------
(* Lemmas about the parts of an action. *)

\* What get_or_create returns.
LEMMA OpenedOK ==
    ASSUME IInv, Idle
    PROVE  ObjectOK(Opened(cached, mem, file, now), outcomes)
<1>1. CASE ~cached /\ file = NoFile
  BY <1>1, NewOK DEF Opened
<1>2. CASE ~(~cached /\ file = NoFile)
  <2> DEFINE known == IF cached THEN mem ELSE Loaded(file)
  <2>1. ObjectOK(known, outcomes)
    BY <1>2, LoadedOK DEF IInv, Live
  <2>2. Opened(cached, mem, file, now) = IF Expired(known, now)
                                         THEN Cleared(known, now) ELSE known
    BY <1>2 DEF Opened
  <2>3. ObjectOK(Cleared(known, now), outcomes)
    BY NewOK DEF Cleared
  <2> HIDE DEF known
  <2>. QED  BY <2>1, <2>2, <2>3
<1>. QED  BY <1>1, <1>2

\* The session a turn starts with.
LEMMA StartOK ==
    ASSUME IInv, Idle
    PROVE  ObjectOK(Start, outcomes)
<1> DEFINE s == Opened(cached, mem, file, now)
<1>1. ObjectOK(s, outcomes)
  BY OpenedOK
<1>2. Start \in {s, [s EXCEPT !.task = FALSE, !.dirty = TRUE]}
  BY DEF Start
<1> HIDE DEF s
<1>. QED  BY <1>1, <1>2 DEF ObjectOK, SessionShape, Unanswered, Numbers

\* Saving an acceptable session re-establishes what IInv says of the state.
LEMMA SaveOK ==
    ASSUME IInv, NEW s, NEW gone, ObjectOK(s, outcomes), Save(s, gone)
    PROVE  /\ SessionShape(mem') /\ ObjectOK(mem', outcomes)
           /\ FileOK(file', outcomes)
BY SavedOK DEF Save, IInv, ObjectOK

\* Setting the flags of a session.
LEMMA FlagsOK ==
    ASSUME NEW s, NEW out, NEW a, ObjectOK(s, out)
    PROVE  /\ ObjectOK(MarkDirty(s), out)
           /\ ObjectOK([MarkDirty(s) EXCEPT !.ask = a], out)
           /\ ObjectOK([NoPending(s) EXCEPT !.ask = a], out)
           /\ ObjectOK(Offered(s), out)
<1> USE DEF ObjectOK, SessionShape, Unanswered, Numbers
<1> DEFINE yes == TRUE
           no == FALSE
<1>d. /\ MarkDirty(s) = [s EXCEPT !.dirty = yes]
      /\ NoPending(s) = [s EXCEPT !.pend = 0, !.ask = no, !.dirty = yes]
      /\ Offered(s) = [NoPending(s) EXCEPT !.ask = yes, !.task = yes]
  BY DEF MarkDirty, NoPending, Offered
<1> HIDE DEF yes, no
<1>1. ObjectOK(MarkDirty(s), out)
  BY <1>d
<1>2. ObjectOK([MarkDirty(s) EXCEPT !.ask = a], out)
  BY <1>1
<1>3. ObjectOK(NoPending(s), out)
  BY <1>d
<1>4. ObjectOK([NoPending(s) EXCEPT !.ask = a], out)
  BY <1>3
<1>5. ObjectOK(Offered(s), out)
  BY <1>3, <1>d
<1>. QED  BY <1>1, <1>2, <1>4, <1>5

\* The turn record is rebuilt from NoTurn.
LEMMA NoTurnShape == NoTurn = [pc |-> NoTurn.pc, asked |-> NoTurn.asked]
BY DEF NoTurn

LEMMA TurnShapes ==
    ASSUME NEW p \in Phases
    PROVE  [NoTurn EXCEPT !.pc = p] = [pc |-> p, asked |-> NoTurn.asked]
<1> DEFINE no == FALSE
<1>1. NoTurn = [pc |-> "idle", asked |-> no]
  BY DEF NoTurn
<1> HIDE DEF no
<1>. QED  BY <1>1

\* Answering a pending request: it becomes the first answer.
LEMMA AnswerOK ==
    ASSUME IInv, NEW s, ObjectOK(s, outcomes), s.pend # 0, Answered(s.pend)
    PROVE  /\ outcomes' \in [Requests -> Nat]
           /\ AnsweredOnce'
           /\ ObjectOK(MarkDirty([s EXCEPT !.pend = 0]), outcomes')
           /\ MarkDirty([s EXCEPT !.pend = 0]).dirty
<1>1. s.pend \in Requests /\ outcomes[s.pend] = 0
  BY DEF ObjectOK, Unanswered, Numbers
<1>2. outcomes' = [outcomes EXCEPT ![s.pend] = 1]
  BY <1>1 DEF Answered, IInv
<1>3. outcomes' \in [Requests -> Nat] /\ AnsweredOnce'
  BY <1>1, <1>2 DEF IInv, AnsweredOnce
<1> DEFINE u == [s EXCEPT !.pend = 0]
<1>4. ObjectOK(u, outcomes')
  BY DEF ObjectOK, SessionShape, Unanswered, Numbers
<1>5. SessionShape(u)
  BY <1>4 DEF ObjectOK
<1> HIDE DEF u
<1>6. MarkDirty(u).dirty /\ ObjectOK(MarkDirty(u), outcomes')
  BY <1>4, <1>5, FlagsOK DEF MarkDirty, SessionShape
<1>. QED  BY <1>3, <1>6 DEF u

------------------------------------------------------------------------------
(* The invariant. *)

\* The empty cache and the missing file hold no request.
LEMMA InitOK == Init => IInv
<1>. SUFFICES ASSUME Init PROVE IInv
  OBVIOUS
<1>1. ObjectOK(mem, outcomes)
  BY NewOK DEF Init
<1>2. TurnShape
  BY NoTurnShape DEF Init, TurnShape
<1>3. outcomes \in [Requests -> Nat] /\ AnsweredOnce
  BY DEF Init, AnsweredOnce
<1>4. FileOK(file, outcomes)
  BY DEF Init, FileOK, FileShape
<1>. QED  BY <1>1, <1>2, <1>3, <1>4 DEF IInv, ObjectOK

\* What a step has to establish when it answers no request.
Keeps ==
    /\ TurnShape'
    /\ outcomes' = outcomes
    /\ SessionShape(mem')
    /\ Live' => ObjectOK(mem', outcomes)
    /\ FileOK(file', outcomes)

\* A turn begins: the session that is opened, with or without its prompt.
LEMMA BeginKeeps ==
    ASSUME IInv, BeginTurn \/ BeginNotice
    PROVE  Keeps
<1>1. ObjectOK(mem', outcomes)
  <2>1. CASE BeginTurn
    <3>1. ObjectOK(Start, outcomes)
      BY <2>1, StartOK DEF BeginTurn
    <3> DEFINE no == FALSE
    <3>2. mem' = Start \/ mem' = [MarkDirty(Start) EXCEPT !.ask = no]
      BY <2>1 DEF BeginTurn
    <3> HIDE DEF no
    <3>3. ObjectOK([MarkDirty(Start) EXCEPT !.ask = no], outcomes)
      BY <3>1, FlagsOK
    <3>. QED  BY <3>1, <3>2, <3>3
  <2>2. CASE BeginNotice
    BY <2>2, OpenedOK DEF BeginNotice
  <2>. QED  BY <2>1, <2>2
<1>2. TurnShape'
  BY TurnShapes DEF BeginTurn, BeginNotice, TurnShape, Phases
<1>3. UNCHANGED <<file, outcomes>>
  BY DEF BeginTurn, BeginNotice
<1>. QED  BY <1>1, <1>2, <1>3 DEF Keeps, ObjectOK, IInv

\* A turn that ends at once, or at its knowledge lookup, with a save.
LEMMA ShortKeeps ==
    ASSUME IInv, AskKnowledge \/ Confirm \/ Command
    PROVE  Keeps
<1>1. /\ SessionShape(mem') /\ ObjectOK(mem', outcomes)
      /\ FileOK(file', outcomes)
  <2>1. CASE AskKnowledge
    BY <2>1, SaveOK, FlagsOK DEF AskKnowledge, IInv, Live
  <2>2. CASE Confirm
    <3>1. ObjectOK(Start, outcomes)
      BY <2>2, StartOK DEF Confirm
    <3>2. ObjectOK(Exchange(Start, FALSE), outcomes)
      BY <3>1, AddKeeps DEF Exchange
    <3>. QED  BY <2>2, <3>1, <3>2, SaveOK, FlagsOK DEF Confirm
  <2>3. CASE Command
    <3>1. ObjectOK(Start, outcomes)
      BY <2>3, StartOK DEF Command
    <3>2. CASE Save(MarkDirty(Start), StillPopped)
      BY <3>1, <3>2, SaveOK, FlagsOK
    <3>3. CASE mem' = Start /\ UNCHANGED file
      BY <3>1, <3>3 DEF ObjectOK, IInv
    <3>. QED  BY <2>3, <3>2, <3>3 DEF Command
  <2>. QED  BY <2>1, <2>2, <2>3
<1>2. TurnShape' /\ outcomes' = outcomes
  BY NoTurnShape DEF AskKnowledge, Confirm, Command, TurnShape, IInv
<1>. QED  BY <1>1, <1>2 DEF Keeps

\* The gate asks: the fresh request has no answer yet.
LEMMA SuspendKeeps ==
    ASSUME IInv, Suspend
    PROVE  Keeps
<1>1. PICK r \in Fresh : Save([mem EXCEPT !.pend = r], popped)
  BY DEF Suspend
<1>2. ObjectOK([mem EXCEPT !.pend = r], outcomes)
  BY DEF Fresh, IInv, ObjectOK, SessionShape, Unanswered, Numbers
<1>3. /\ SessionShape(mem') /\ ObjectOK(mem', outcomes)
      /\ FileOK(file', outcomes)
  BY <1>1, <1>2, SaveOK
<1>4. TurnShape' /\ outcomes' = outcomes
  BY DEF Suspend, TurnShape, IInv
<1>. QED  BY <1>3, <1>4 DEF Keeps

\* The turn records its outcome.
LEMMA EndKeeps ==
    ASSUME IInv, EndTurn
    PROVE  Keeps
<1>1. ObjectOK(mem, outcomes)
  BY DEF EndTurn, Looping, IInv, Live
<1>2. ObjectOK(Final(turn.asked), outcomes)
  BY <1>1, AddKeeps DEF EndTurn, Looping, Final, Exchange, Conclusion, Notice
<1>3. ObjectOK(Offered(Exchange(mem, FALSE)), outcomes)
  BY <1>1, AddKeeps, FlagsOK DEF Exchange
<1>4. /\ SessionShape(mem') /\ ObjectOK(mem', outcomes)
      /\ FileOK(file', outcomes)
  BY <1>2, <1>3, SaveOK DEF EndTurn
<1>5. TurnShape' /\ outcomes' = outcomes
  BY NoTurnShape DEF EndTurn, TurnShape
<1>. QED  BY <1>4, <1>5 DEF Keeps

\* The approved tool ran: only the history changes.
LEMMA RunKeeps ==
    ASSUME IInv, RunTool
    PROVE  Keeps
<1>1. ObjectOK(mem', outcomes)
  BY ReconstructedKeeps DEF RunTool, IInv, Live
<1>2. TurnShape' /\ UNCHANGED <<file, outcomes>>
  BY DEF RunTool, TurnShape, IInv
<1>. QED  BY <1>1, <1>2 DEF Keeps, IInv, ObjectOK

\* /new stores an empty session.
LEMMA NewKeeps ==
    ASSUME IInv, NewCommand
    PROVE  Keeps
<1>1. ObjectOK(Cleared(Start, now), outcomes)
  BY NewOK DEF Cleared
<1>2. ObjectOK(mem', outcomes) /\ FileOK(file', outcomes)
  BY <1>1, SavedOK DEF NewCommand, IInv
<1>. QED  BY <1>2 DEF Keeps, ObjectOK, NewCommand, TurnShape, IInv

\* A dead process leaves the metadata line of the file as it was.
LEMMA CrashKeeps ==
    ASSUME IInv, Crash \/ CrashInAppend
    PROVE  Keeps
<1>1. ObjectOK(mem', outcomes) /\ TurnShape' /\ outcomes' = outcomes
  BY NewOK, NoTurnShape DEF Crash, CrashInAppend, Down, TurnShape
<1>2. FileOK(file', outcomes)
  <2>1. CASE Crash
    BY <2>1 DEF Crash, IInv
  <2>2. CASE CrashInAppend
    <3> DEFINE lines(n) == Glue(file.msgs,
                                SubSeq(Unsaved(Final(turn.asked)), 1, n))
                           \o <<Torn>>
    <3>1. PICK n \in 0..(Len(Unsaved(Final(turn.asked))) - 1) :
             file' = [file EXCEPT !.msgs = lines(n)]
      BY <2>2 DEF CrashInAppend, PartlyAppended
    <3>2. file # NoFile
      BY <2>2 DEF CrashInAppend, CanAppend
    <3> HIDE DEF lines
    <3>. QED  BY <3>1, <3>2 DEF IInv, FileOK, FileShape, Unanswered, Numbers
  <2>. QED  BY <2>1, <2>2
<1>. QED  BY <1>1, <1>2 DEF Keeps, ObjectOK

\* The steps that touch neither the session nor its file.
LEMMA IdleKeeps ==
    ASSUME IInv, FailTurn \/ Tick \/ Evict \/ UNCHANGED vars
    PROVE  Keeps
<1>1. UNCHANGED <<mem, file, outcomes>>
  BY DEF FailTurn, Tick, Evict, vars
<1>2. Live' => Live
  BY DEF FailTurn, Tick, Evict, vars, Live, Idle, NoTurn
<1>3. TurnShape'
  BY NoTurnShape DEF FailTurn, Tick, Evict, vars, TurnShape, IInv
<1>. QED  BY <1>1, <1>2, <1>3 DEF Keeps, IInv

\* An answer is the first, and the request is gone from object and file.
LEMMA AnswerKeeps ==
    ASSUME IInv, Approve \/ Reject
    PROVE  IInv'
<1> DEFINE t == MarkDirty([Start EXCEPT !.pend = 0])
<1>1. ObjectOK(Start, outcomes) /\ Start.pend # 0 /\ Answered(Start.pend)
  BY StartOK DEF Approve, Reject
<1>2. /\ outcomes' \in [Requests -> Nat] /\ AnsweredOnce'
      /\ ObjectOK(t, outcomes') /\ t.dirty
  BY <1>1, AnswerOK
<1> HIDE DEF t
<1>3. /\ ObjectOK(Saved(t, file, now), outcomes')
      /\ FileOK(FileAfter(t, file), outcomes')
  BY <1>2, RewriteOK
<1>4. file' = FileAfter(t, file)
  BY DEF Approve, Reject, Save, t
<1>5. ObjectOK(mem', outcomes')
  <2>1. CASE Approve
    BY <1>3, <2>1 DEF Approve, Save, t
  <2>2. CASE Reject
    BY <1>3, <2>2, ReconstructedKeeps DEF Reject, t
  <2>. QED  BY <2>1, <2>2
<1>6. TurnShape'
  BY TurnShapes DEF Approve, Reject, TurnShape, Phases
<1>. QED  BY <1>2, <1>3, <1>4, <1>5, <1>6 DEF IInv, ObjectOK

\* Every step preserves the invariant.
LEMMA StepOK == IInv /\ [Next]_vars => IInv'
<1>. SUFFICES ASSUME IInv, [Next]_vars PROVE IInv'
  OBVIOUS
<1>1. CASE Approve \/ Reject
  BY <1>1, AnswerKeeps
<1>2. CASE ~(Approve \/ Reject)
  <2>1. Keeps
    BY <1>2, BeginKeeps, ShortKeeps, SuspendKeeps, EndKeeps, RunKeeps,
       NewKeeps, CrashKeeps, IdleKeeps DEF Next
  <2>2. AnsweredOnce'
    BY <2>1 DEF Keeps, IInv, AnsweredOnce
  <2>. QED  BY <2>1, <2>2 DEF Keeps, IInv
<1>. QED  BY <1>1, <1>2

\* An approval request is answered at most once: no crash, eviction, reload
\* or append brings back one that handle_pending_approval has acted on.
THEOREM RequestsAnsweredOnce == Spec => []AnsweredOnce
<1>1. IInv => AnsweredOnce
  BY DEF IInv
<1>. QED  BY InitOK, StepOK, <1>1, PTL DEF Spec

------------------------------------------------------------------------------
(* The histories of a session and of its file. *)

\* Every set of numbers has a least one: the only form of induction there is.
LEMMA LeastElement ==
    ASSUME NEW S \in SUBSET Nat, S # {}
    PROVE  \E x \in S : \A y \in S : x <= y
<1> DEFINE R == OpToRel(<, Nat)
<1>1. PICK x \in S : \A y \in S : ~ (<<y, x>> \in R)
  <2>1. IsWellFoundedOn(R, Nat)
    BY NatLessThanWellFounded
  <2> HIDE DEF R
  <2>. QED  BY <2>1, WFMin
<1>2. \A y \in S : ~ (y < x)
  BY <1>1 DEF OpToRel
<1>. QED  BY <1>2

\* What holds of 0 and goes from each number to the next holds up to n.
LEMMA Counting ==
    ASSUME NEW n \in Nat, NEW S, 0 \in S,
           \A j \in 0..n : j \in S /\ j < n => j + 1 \in S
    PROVE  \A j \in 0..n : j \in S
<1> SUFFICES ASSUME NEW k \in 0..n, k \notin S PROVE FALSE
  OBVIOUS
<1>1. PICK x \in {j \in 0..n : j \notin S} : \A y \in {j \in 0..n : j \notin S} : x <= y
  <2>1. {j \in 0..n : j \notin S} \in SUBSET Nat
    OBVIOUS
  <2>. QED  BY <2>1, LeastElement
<1>2. x # 0 /\ x - 1 \in 0..n /\ (x - 1) + 1 = x /\ x - 1 < n
  BY <1>1
<1>3. x - 1 \in S
  BY <1>1, <1>2
<1>. QED  BY <1>1, <1>2, <1>3

\* A function defined by its value at 0 and a step has a value up to n.
Unrolls(f, n, b, F) == f[0] = b /\ \A j \in 1..n : f[j] = F[<<f[j - 1], j>>]

LEMMA Recursion ==
    ASSUME NEW n \in Nat, NEW A, NEW b \in A, NEW F \in [A \X (1..n) -> A]
    PROVE  \E f \in [0..n -> A] : Unrolls(f, n, b, F)
<1> DEFINE Up(m) == \E f \in [0..m -> A] : f[0] = b /\ \A j \in 1..m : f[j] = F[<<f[j - 1], j>>]
           S == {m \in 0..n : Up(m)}
<1>1. 0 \in S
  <2>1. PICK f \in [0..0 -> A] : f = [i \in 0..0 |-> b]
    OBVIOUS
  <2>2. f[0] = b /\ \A j \in 1..0 : f[j] = F[<<f[j - 1], j>>]
    BY <2>1
  <2>. QED  BY <2>2
<1>2. ASSUME NEW m \in 0..n, m \in S, m < n PROVE m + 1 \in S
  <2>1. PICK f \in [0..m -> A] : f[0] = b /\ \A j \in 1..m : f[j] = F[<<f[j - 1], j>>]
    BY <1>2
  <2>2. m \in 0..m /\ m + 1 \in 1..n /\ m + 1 \in 0..n /\ f[m] \in A
    BY <1>2
  <2>3. PICK e \in A : e = F[<<f[m], m + 1>>]
    BY <2>2
  <2>4. PICK g : g = [i \in 0..(m + 1) |-> IF i \in 0..m THEN f[i] ELSE e]
    OBVIOUS
  <2>5. /\ g \in [0..(m + 1) -> A] /\ g[0] = b /\ g[m + 1] = e
        /\ \A i \in 0..m : g[i] = f[i]
    BY <2>1, <2>4
  <2>6. ASSUME NEW j \in 1..(m + 1) PROVE g[j] = F[<<g[j - 1], j>>]
    <3>1. CASE j = m + 1
      <4>1. j - 1 = m /\ g[j - 1] = f[m]
        BY <3>1, <2>2, <2>5
      <4>. QED  BY <3>1, <4>1, <2>3, <2>5
    <3>2. CASE j # m + 1
      <4>1. j \in 1..m /\ j \in 0..m /\ j - 1 \in 0..m
        BY <3>2
      <4>. QED  BY <4>1, <2>1, <2>5
    <3>. QED  BY <3>1, <3>2
  <2>7. Up(m + 1)
    BY <2>5, <2>6
  <2>. QED  BY <2>2, <2>7
<1> HIDE DEF S
<1>3. \A j \in 0..n : j \in S /\ j < n => j + 1 \in S
  BY <1>2
<1>4. \A j \in 0..n : j \in S
  BY <1>1, <1>3, Counting
<1>5. n \in S
  BY <1>4
<1>. QED  BY <1>5 DEF S, Unrolls

\* Lines up to the nth of those that can be read.
Lines == Kinds \cup {Torn}

ReadBody(f, s) == [n \in 0..Len(s) |-> IF n = 0 THEN <<>>
                                       ELSE IF s[n] = Torn THEN f[n - 1]
                                       ELSE Append(f[n - 1], s[n])]

Reads(s) == CHOOSE f : f = ReadBody(f, s)

LEMMA ReadableIs ==
    ASSUME NEW s
    PROVE  Readable(s) = Reads(s)[Len(s)]
BY DEF Readable, Reads, ReadBody

\* The recursion has a solution.
LEMMA ReadsBody ==
    ASSUME NEW s \in Seq(Lines)
    PROVE  Reads(s) = ReadBody(Reads(s), s)
<1>1. PICK n \in Nat : n = Len(s)
  OBVIOUS
<1>2. PICK F \in [Seq(Kinds) \X (1..n) -> Seq(Kinds)] :
        F = [p \in Seq(Kinds) \X (1..n) |->
               IF s[p[2]] = Torn THEN p[1] ELSE Append(p[1], s[p[2]])]
  <2>1. ASSUME NEW p \in Seq(Kinds) \X (1..n)
        PROVE  (IF s[p[2]] = Torn THEN p[1] ELSE Append(p[1], s[p[2]])) \in Seq(Kinds)
    <3>1. p[1] \in Seq(Kinds) /\ p[2] \in 1..n
      OBVIOUS
    <3>2. s[p[2]] \in Lines
      BY <1>1, <3>1
    <3>3. s[p[2]] # Torn => s[p[2]] \in Kinds
      BY <3>2 DEF Lines
    <3>. QED  BY <3>1, <3>3
  <2>. QED  BY <2>1
<1>3. PICK A, e : A = Seq(Kinds) /\ e = <<>>
  OBVIOUS
<1>4. PICK f \in [0..n -> A] :
        f[0] = e /\ \A j \in 1..n : f[j] = F[<<f[j - 1], j>>]
  <2>1. e \in A /\ F \in [A \X (1..n) -> A]
    BY <1>3
  <2>2. \E f \in [0..n -> A] : Unrolls(f, n, e, F)
    BY <2>1, Recursion
  <2>. QED  BY <2>2 DEF Unrolls
<1>5. ASSUME NEW j \in 1..n
      PROVE  f[j] = IF s[j] = Torn THEN f[j - 1] ELSE Append(f[j - 1], s[j])
  <2>1. j - 1 \in 0..n
    OBVIOUS
  <2>2. <<f[j - 1], j>> \in Seq(Kinds) \X (1..n)
    BY <1>3, <1>4, <2>1
  <2>. QED  BY <1>2, <1>4, <2>2
<1>6. f = ReadBody(f, s)
  <2>1. \A i \in 0..n : f[i] = IF i = 0 THEN <<>>
                               ELSE IF s[i] = Torn THEN f[i - 1]
                               ELSE Append(f[i - 1], s[i])
    <3>1. \A i \in 0..n : i # 0 => i \in 1..n
      OBVIOUS
    <3>. QED  BY <3>1, <1>3, <1>4, <1>5
  <2>2. f = [i \in 0..n |-> f[i]]
    BY <1>4
  <2>. QED  BY <1>1, <2>1, <2>2 DEF ReadBody
<1>. QED  BY <1>6 DEF Reads

LEMMA ReadsAre ==
    ASSUME NEW s \in Seq(Lines)
    PROVE  /\ Reads(s)[0] = <<>>
           /\ \A j \in 1..Len(s) : Reads(s)[j] = IF s[j] = Torn THEN Reads(s)[j - 1]
                                                 ELSE Append(Reads(s)[j - 1], s[j])
<1>1. PICK n \in Nat : n = Len(s)
  OBVIOUS
<1>2. PICK f : f = Reads(s)
  OBVIOUS
<1>3. f = ReadBody(f, s)
  BY <1>2, ReadsBody
<1>4. \A i \in 0..n : f[i] = IF i = 0 THEN <<>>
                             ELSE IF s[i] = Torn THEN f[i - 1]
                             ELSE Append(f[i - 1], s[i])
  BY <1>1, <1>3 DEF ReadBody
<1>5. f[0] = <<>>
  <2>1. 0 \in 0..n
    OBVIOUS
  <2>. QED  BY <1>4, <2>1
<1>6. ASSUME NEW j \in 1..n
      PROVE  f[j] = IF s[j] = Torn THEN f[j - 1] ELSE Append(f[j - 1], s[j])
  <2>1. j \in 0..n /\ j # 0
    OBVIOUS
  <2>. QED  BY <1>4, <2>1
<1>. QED  BY <1>1, <1>2, <1>5, <1>6

\* What can be read are messages.
LEMMA ReadableType ==
    ASSUME NEW s \in Seq(Lines)
    PROVE  Readable(s) \in Seq(Kinds)
<1>1. PICK n \in Nat : n = Len(s)
  OBVIOUS
<1>2. PICK f : f = Reads(s)
  OBVIOUS
<1>3. f[0] = <<>> /\ \A j \in 1..n : f[j] = IF s[j] = Torn THEN f[j - 1] ELSE Append(f[j - 1], s[j])
  BY <1>1, <1>2, ReadsAre
<1> DEFINE S == {j \in 0..n : f[j] \in Seq(Kinds)}
<1>4. 0 \in S
  <2>1. f[0] = <<>> /\ 0 \in 0..n
    BY <1>3
  <2>2. f[0] \in Seq(Kinds)
    BY <2>1
  <2>. QED  BY <2>1, <2>2
<1>5. ASSUME NEW j \in 0..n, j \in S, j < n PROVE j + 1 \in S
  <2>1. j + 1 \in 1..n /\ (j + 1) - 1 = j /\ j + 1 \in 0..n
    BY <1>5
  <2>2. s[j + 1] # Torn => s[j + 1] \in Kinds
    BY <1>1, <2>1 DEF Lines
  <2>3. f[j + 1] = IF s[j + 1] = Torn THEN f[j] ELSE Append(f[j], s[j + 1])
    BY <1>3, <2>1
  <2>4. f[j] \in Seq(Kinds)
    BY <1>5
  <2>5. f[j + 1] \in Seq(Kinds)
    <3>1. CASE s[j + 1] = Torn
      BY <2>3, <2>4, <3>1
    <3>2. CASE s[j + 1] # Torn
      <4>1. f[j + 1] = Append(f[j], s[j + 1]) /\ s[j + 1] \in Kinds
        BY <2>2, <2>3, <3>2
      <4>. QED  BY <2>4, <4>1
    <3>. QED  BY <3>1, <3>2
  <2>. QED  BY <2>1, <2>5
<1> HIDE DEF S
<1>6. n \in S
  <2>1. \A j \in 0..n : j \in S
    BY <1>4, <1>5, Counting
  <2>. QED  BY <2>1
<1>. QED  BY <1>1, <1>2, <1>6, ReadableIs DEF S

\* Where no line is torn, all are read.
LEMMA ReadableWhole ==
    ASSUME NEW s \in Seq(Kinds)
    PROVE  Readable(s) = s
<1>1. PICK n \in Nat : n = Len(s)
  OBVIOUS
<1>2. PICK f : f = Reads(s)
  OBVIOUS
<1>0. s \in Seq(Lines) /\ \A j \in 1..n : s[j] # Torn
  BY <1>1 DEF Lines, Kinds, Torn
<1>3. f[0] = <<>> /\ \A j \in 1..n : f[j] = Append(f[j - 1], s[j])
  BY <1>0, <1>1, <1>2, ReadsAre
<1> DEFINE S == {j \in 0..n : f[j] = SubSeq(s, 1, j)}
<1>4. 0 \in S
  <2>1. SubSeq(s, 1, 0) = <<>> /\ 0 \in 0..n
    OBVIOUS
  <2>2. f[0] = SubSeq(s, 1, 0)
    BY <1>3, <2>1
  <2>. QED  BY <2>1, <2>2
<1>5. ASSUME NEW j \in 0..n, j \in S, j < n PROVE j + 1 \in S
  <2>1. j + 1 \in 1..n /\ (j + 1) - 1 = j /\ j + 1 \in 0..n
    BY <1>5
  <2>2. f[j + 1] = Append(SubSeq(s, 1, j), s[j + 1])
    BY <1>3, <1>5, <2>1
  <2>3. Append(SubSeq(s, 1, j), s[j + 1]) = SubSeq(s, 1, j + 1)
    BY <1>1, <2>1
  <2>. QED  BY <2>1, <2>2, <2>3
<1> HIDE DEF S
<1>6. n \in S
  <2>1. \A j \in 0..n : j \in S
    BY <1>4, <1>5, Counting
  <2>. QED  BY <2>1
<1>7. Readable(s) = SubSeq(s, 1, n)
  BY <1>0, <1>1, <1>2, <1>6, ReadableIs DEF S
<1>8. SubSeq(s, 1, n) = s
  BY <1>1
<1>. QED  BY <1>7, <1>8

------------------------------------------------------------------------------
(* Types and histories. *)

\* A prompt that is there has a last place.
LEMMA LastPrompt ==
    ASSUME NEW msgs \in Seq(Kinds), PromptAt(msgs) # {}
    PROVE  Max(PromptAt(msgs)) \in 1..Len(msgs)
<1>1. PICK n \in Nat : n = Len(msgs)
  OBVIOUS
<1>2. PromptAt(msgs) \subseteq 1..n
  BY <1>1 DEF PromptAt
<1> DEFINE S == {n - i : i \in PromptAt(msgs)}
<1>3. PICK x \in S : \A y \in S : x <= y
  <2>1. S \in SUBSET Nat /\ S # {}
    BY <1>2
  <2>. QED  BY <2>1, LeastElement
<1>4. PICK i \in PromptAt(msgs) : x = n - i
  BY <1>3
<1>5. \A j \in PromptAt(msgs) : i >= j
  <2>1. ASSUME NEW j \in PromptAt(msgs) PROVE i >= j
    <3>1. n - i <= n - j /\ i \in 1..n /\ j \in 1..n
      BY <1>2, <1>3, <1>4
    <3>. QED  BY <3>1
  <2>. QED  BY <2>1
<1>6. Max(PromptAt(msgs)) \in PromptAt(msgs)
  <2>1. \E k \in PromptAt(msgs) : \A j \in PromptAt(msgs) : k >= j
    BY <1>5
  <2>. QED  BY <2>1 DEF Max
<1>. QED  BY <1>1, <1>2, <1>6

\* What a session object knows of its file: gone says that a message left the
\* history since the last rewrite.
Whole(s, f, gone) ==
    s.saved > 0 /\ ~gone =>
        /\ f # NoFile
        /\ s.saved <= Len(s.msgs)
        /\ f.msgs = SubSeq(s.msgs, 1, s.saved)

\* A session of its type that knows its file.
Held(s, f, gone) == s \in Sessions /\ f \in Files /\ gone \in BOOLEAN /\ Whole(s, f, gone)

\* The flags of a session do not matter.
LEMMA FlagsHeld ==
    ASSUME NEW s, NEW f, NEW gone, Held(s, f, gone),
           NEW u \in Sessions, u.msgs = s.msgs, u.saved = s.saved
    PROVE  Held(u, f, gone)
BY DEF Held, Whole

LEMMA LongerHeld ==
    ASSUME NEW s, NEW f, NEW gone, Held(s, f, gone),
           NEW kinds \in Seq(Kinds), NEW t \in Nat
    PROVE  Held(AddMessages(s, kinds, t), f, gone)
<1> DEFINE longer == s.msgs \o kinds
<1>1. s \in Sessions /\ s.msgs \in Seq(Kinds) /\ longer \in Seq(Kinds) /\ s.saved \in Nat
  BY DEF Held, Sessions
<1>2. AddMessages(s, kinds, t) = [s EXCEPT !.msgs = longer, !.updated = t]
  BY DEF AddMessages
<1>3. s.saved <= Len(s.msgs) =>
        s.saved <= Len(longer) /\ SubSeq(longer, 1, s.saved) = SubSeq(s.msgs, 1, s.saved)
  <2>1. Len(longer) = Len(s.msgs) + Len(kinds) /\ \A i \in 1..Len(s.msgs) : longer[i] = s.msgs[i]
    BY <1>1
  <2>. QED  BY <1>1, <2>1
<1> HIDE DEF longer
<1>4. PICK u : u = AddMessages(s, kinds, t)
  OBVIOUS
<1>5. u \in Sessions /\ u.msgs = longer /\ u.saved = s.saved
  BY <1>1, <1>2, <1>4 DEF Sessions
<1>6. Held(u, f, gone)
  BY <1>3, <1>5 DEF Held, Whole
<1>. QED  BY <1>4, <1>6

LEMMA WithoutHeld ==
    ASSUME NEW s, NEW f, NEW gone, Held(s, f, gone)
    PROVE  Held(WithoutPrompt(s), f, gone \/ Pops(s))
<1>1. CASE PromptAt(s.msgs) = {}
  BY <1>1 DEF WithoutPrompt, Pops, Held
<1>2. CASE PromptAt(s.msgs) # {}
  <2>1. s \in Sessions /\ s.msgs \in Seq(Kinds)
    BY DEF Held, Sessions
  <2>2. PICK m : m = Max(PromptAt(s.msgs))
    OBVIOUS
  <2>3. m \in 1..Len(s.msgs)
    BY <1>2, <2>1, <2>2, LastPrompt
  <2>4. RemoveAt(s.msgs, m) \in Seq(Kinds)
    <3>1. SubSeq(s.msgs, 1, m - 1) \in Seq(Kinds) /\ SubSeq(s.msgs, m + 1, Len(s.msgs)) \in Seq(Kinds)
      BY <2>1, <2>3
    <3>. QED  BY <3>1 DEF RemoveAt
  <2>5. PICK u : u = WithoutPrompt(s)
    OBVIOUS
  <2>6. PICK shorter \in Seq(Kinds) : shorter = RemoveAt(s.msgs, m)
    BY <2>4
  <2>7. u = [s EXCEPT !.msgs = shorter]
    BY <1>2, <2>2, <2>5, <2>6 DEF WithoutPrompt
  <2>8. u \in Sessions
    BY <2>1, <2>7 DEF Sessions
  <2>. QED  BY <1>2, <2>5, <2>8 DEF Held, Whole, Pops
<1>. QED  BY <1>1, <1>2

LEMMA ReconstructedHeld ==
    ASSUME NEW s, NEW f, NEW gone, Held(s, f, gone), now \in Nat
    PROVE  Held(Reconstructed(s), f, gone \/ Pops(s))
<1>1. <<"call", "tool">> \in Seq(Kinds)
  BY DEF Kinds
<1>2. PICK u, g : u = WithoutPrompt(s) /\ g = (gone \/ Pops(s))
  OBVIOUS
<1>3. Held(u, f, g)
  BY <1>2, WithoutHeld
<1>4. Held(AddMessages(u, <<"call", "tool">>, now), f, g)
  BY <1>1, <1>3, LongerHeld
<1>. QED  BY <1>2, <1>4 DEF Reconstructed

\* A session that has saved nothing knows nothing.
LEMMA NewHeld ==
    ASSUME NEW t \in Nat, NEW f \in Files, NEW gone \in BOOLEAN
    PROVE  Held(NewSession(t), f, gone)
BY DEF Held, Whole, NewSession, Sessions

LEMMA LoadedHeld ==
    ASSUME NEW f \in Files, f # NoFile, NEW gone \in BOOLEAN
    PROVE  Held(Loaded(f), f, gone)
<1>1. f.msgs \in Seq(Lines)
  BY DEF Files, Written, Lines
<1>2. PICK msgs \in Seq(Kinds) : msgs = Readable(f.msgs)
  BY <1>1, ReadableType
<1>3. Loaded(f) = [msgs |-> msgs, pend |-> f.pend, ask |-> f.ask,
                   task |-> f.task, updated |-> f.updated, dirty |-> TRUE, saved |-> 0]
  BY <1>2 DEF Loaded
<1>4. Loaded(f) \in Sessions /\ Loaded(f).saved = 0
  BY <1>3 DEF Files, Written, Sessions
<1>. QED  BY <1>4 DEF Held, Whole

\* A save leaves object and file in agreement.
LEMMA SaveHeld ==
    ASSUME NEW s, NEW f, NEW gone, Held(s, f, gone), NEW t \in Nat
    PROVE  Held(Saved(s, f, t), FileAfter(s, f), CanAppend(s, f) /\ gone)
<1>1. PICK u, g, e, n : /\ u = Saved(s, f, t) /\ g = FileAfter(s, f) /\ e = Unsaved(s)
                        /\ n = Len(s.msgs)
  OBVIOUS
<1>2. /\ s \in Sessions /\ f \in Files /\ gone \in BOOLEAN /\ s.msgs \in Seq(Kinds)
      /\ s.saved \in Nat /\ n \in Nat
  BY <1>1 DEF Held, Sessions
<1>3. CASE ~CanAppend(s, f)
  <2>1. u = [s EXCEPT !.dirty = FALSE, !.saved = n]
    BY <1>1, <1>3 DEF Saved
  <2>2. u \in Sessions /\ u.saved = n /\ u.msgs = s.msgs
    BY <1>2, <2>1 DEF Sessions
  <2>3. g = [msgs |-> s.msgs, pend |-> s.pend, ask |-> s.ask, task |-> s.task,
             updated |-> s.updated]
    BY <1>1, <1>3 DEF FileAfter, Rewritten
  <2>4. g \in Files /\ g.msgs = s.msgs
    BY <1>2, <2>3 DEF Sessions, Files, Written
  <2>5. g # NoFile /\ SubSeq(s.msgs, 1, n) = s.msgs
    BY <1>1, <1>2, <2>3, <2>4, SessionAssumption DEF Sessions, Written
  <2>6. Held(u, g, CanAppend(s, f) /\ gone)
    BY <1>1, <1>2, <1>3, <2>2, <2>4, <2>5 DEF Held, Whole
  <2>. QED  BY <1>1, <2>6
<1>4. CASE CanAppend(s, f)
  <2>1. f # NoFile /\ n >= s.saved /\ s.saved > 0 /\ f \in Written /\ f.msgs \in Seq(Lines)
    BY <1>1, <1>2, <1>4 DEF CanAppend, Files, Written, Lines
  <2>2. e \in Seq(Kinds) /\ Len(e) = n - s.saved /\ \A i \in 1..(n - s.saved) : e[i] = s.msgs[s.saved + i]
    <3>1. e = SubSeq(s.msgs, s.saved + 1, n) /\ s.saved + 1 \in 1..(n + 1)
      BY <1>1, <1>2, <2>1 DEF Unsaved
    <3>2. e \in Seq(Kinds)
      BY <1>1, <1>2, <3>1
    <3>3. Len(e) = n - s.saved
      BY <1>1, <1>2, <2>1, <3>1
    <3>4. ASSUME NEW i \in 1..(n - s.saved) PROVE e[i] = s.msgs[s.saved + i]
      <4>1. \A m \in 1..Len(e) : e[m] = s.msgs[(s.saved + 1) + m - 1]
        <5>1. PICK k \in Nat : k = s.saved + 1
          BY <1>2
        <5>2. k \in Int /\ n \in Int /\ \A m \in k..n : s.msgs[m] \in Kinds
          BY <1>1, <1>2, <5>1
        <5>3. \A m \in 1..(n - k + 1) : e[m] = s.msgs[k + m - 1]
          BY <3>1, <5>1, <5>2, SubSeqProperties
        <5>4. n - k + 1 = Len(e)
          BY <1>2, <3>3, <5>1
        <5>. QED  BY <5>1, <5>3, <5>4
      <4>2. e[i] = s.msgs[(s.saved + 1) + i - 1] /\ (s.saved + 1) + i - 1 = s.saved + i
        BY <1>2, <3>3, <4>1
      <4>. QED  BY <4>2
    <3>. QED  BY <3>2, <3>3, <3>4
  <2>3. PICK lines : lines = Glue(f.msgs, e)
    OBVIOUS
  <2>4. lines \in Seq(Lines)
    <3>1. e \in Seq(Lines)
      BY <2>2 DEF Lines
    <3>2. e # <<>> => Tail(e) \in Seq(Lines)
      BY <3>1
    <3>3. lines = f.msgs \o e \/ (e # <<>> /\ lines = f.msgs \o Tail(e))
      BY <2>3 DEF Glue
    <3>4. f.msgs \o e \in Seq(Lines)
      BY <2>1, <3>1, ConcatProperties
    <3>5. e # <<>> => f.msgs \o Tail(e) \in Seq(Lines)
      BY <2>1, <3>2, ConcatProperties
    <3>. QED  BY <3>3, <3>4, <3>5
  <2>5. g = [f EXCEPT !.msgs = lines]
    BY <1>1, <1>4, <2>3 DEF FileAfter, Appended
  <2>6. g \in Written /\ g.msgs = lines
    BY <2>1, <2>4, <2>5 DEF Written, Lines
  <2>7. u \in Sessions /\ u.msgs = s.msgs /\ u.saved = n
    <3>1. CASE e = <<>>
      <4>1. u = s
        BY <1>1, <1>4, <3>1 DEF Saved
      <4>2. s.saved = n
        BY <1>2, <2>1, <2>2, <3>1
      <4>. QED  BY <1>2, <4>1, <4>2
    <3>2. CASE e # <<>>
      <4>1. PICK d \in BOOLEAN : d = (Len(e) >= FlushEvery)
        <5>1. (Len(e) >= FlushEvery) \in BOOLEAN
          BY <2>2, SessionAssumption
        <5>. QED  BY <5>1, Zenon
      <4>2. u = [s EXCEPT !.saved = n, !.updated = t, !.dirty = d]
        BY <1>1, <1>4, <3>2, <4>1 DEF Saved
      <4>. QED  BY <1>2, <4>2 DEF Sessions
    <3>. QED  BY <3>1, <3>2
  <2>8. ~gone => lines = s.msgs
    <3> SUFFICES ASSUME ~gone PROVE lines = s.msgs
      OBVIOUS
    <3>1. f.msgs = SubSeq(s.msgs, 1, s.saved) /\ s.saved <= n
      BY <1>1, <2>1 DEF Held, Whole
    <3>2. f.msgs \in Seq(Kinds) /\ Len(f.msgs) = s.saved /\ \A i \in 1..s.saved : f.msgs[i] = s.msgs[i]
      BY <1>1, <1>2, <3>1
    <3>3. f.msgs[s.saved] \in Kinds
      BY <2>1, <3>2
    <3>4. Last(f.msgs) # Torn
      BY <3>2, <3>3 DEF Last, Kinds, Torn
    <3>5. lines = f.msgs \o e
      BY <2>3, <3>4 DEF Glue
    <3>6. lines \in Seq(Kinds) /\ Len(lines) = n
      <4>1. lines \in Seq(Kinds) /\ Len(lines) = Len(f.msgs) + Len(e)
        BY <2>2, <3>2, <3>5, ConcatProperties
      <4>. QED  BY <1>2, <2>2, <3>2, <4>1
    <3>8. \A i \in 1..(s.saved + (n - s.saved)) :
            lines[i] = IF i <= s.saved THEN f.msgs[i] ELSE e[i - s.saved]
      <4>1. \A i \in 1..(Len(f.msgs) + Len(e)) :
              lines[i] = IF i <= Len(f.msgs) THEN f.msgs[i] ELSE e[i - Len(f.msgs)]
        BY <2>2, <3>2, <3>5
      <4>. QED  BY <2>2, <3>2, <4>1
    <3>7. ASSUME NEW i \in 1..n PROVE lines[i] = s.msgs[i]
      <4>1. CASE i <= s.saved
        <5>1. i \in 1..s.saved
          BY <1>2, <4>1
        <5>2. lines[i] = f.msgs[i]
          BY <1>2, <3>8, <4>1
        <5>. QED  BY <3>2, <5>1, <5>2
      <4>2. CASE i > s.saved
        <5>1. i - s.saved \in 1..(n - s.saved) /\ s.saved + (i - s.saved) = i
          BY <1>2, <4>2
        <5>2. lines[i] = e[i - s.saved]
          BY <1>2, <3>8, <4>2
        <5>. QED  BY <2>2, <5>1, <5>2
      <4>. QED  BY <1>2, <4>1, <4>2
    <3>. QED  BY <1>1, <1>2, <3>6, <3>7
  <2>9. SubSeq(s.msgs, 1, n) = s.msgs
    BY <1>1, <1>2
  <2>10. g # NoFile /\ g \in Files
    BY <2>6, SessionAssumption DEF Files
  <2>11. Held(u, g, gone)
    BY <1>1, <1>2, <2>6, <2>7, <2>8, <2>9, <2>10 DEF Held, Whole
  <2>12. Held(u, g, CanAppend(s, f) /\ gone)
    BY <1>4, <2>11 DEF Held, Whole
  <2>. QED  BY <1>1, <2>12
<1>. QED  BY <1>3, <1>4

HistoryInv == TypeOK /\ (Live => Held(mem, file, popped))

\* What get_or_create returns knows its file, and so does what a turn starts with.
LEMMA OpenedHeld ==
    ASSUME HistoryInv, Idle
    PROVE  Held(Opened(cached, mem, file, now), file, StillPopped)
<1>1. now \in Nat /\ file \in Files /\ StillPopped \in BOOLEAN
  BY TurnsAssumption DEF HistoryInv, TypeOK, StillPopped
<1>2. CASE ~cached /\ file = NoFile
  BY <1>1, <1>2, NewHeld DEF Opened
<1>3. CASE ~(~cached /\ file = NoFile)
  <2>1. PICK known : known = IF cached THEN mem ELSE Loaded(file)
    OBVIOUS
  <2>2. Held(known, file, StillPopped)
    <3>1. CASE cached
      <4>1. StillPopped = popped
        BY <3>1 DEF StillPopped, HistoryInv, TypeOK
      <4>2. Held(mem, file, popped) /\ known = mem
        BY <2>1, <3>1 DEF HistoryInv, Live
      <4>. QED  BY <4>1, <4>2
    <3>2. CASE ~cached
      BY <1>1, <1>3, <2>1, <3>2, LoadedHeld
    <3>. QED  BY <3>1, <3>2
  <2>3. Opened(cached, mem, file, now) = IF Expired(known, now)
                                         THEN Cleared(known, now) ELSE known
    BY <1>3, <2>1 DEF Opened
  <2>4. Held(Cleared(known, now), file, StillPopped)
    BY <1>1, NewHeld DEF Cleared
  <2>. QED  BY <2>2, <2>3, <2>4
<1>. QED  BY <1>2, <1>3

LEMMA StartHeld ==
    ASSUME HistoryInv, Idle
    PROVE  Held(Start, file, StillPopped)
<1>1. PICK s : s = Opened(cached, mem, file, now)
  OBVIOUS
<1>2. Held(s, file, StillPopped) /\ s \in Sessions
  BY <1>1, OpenedHeld DEF Held
<1>3. Start \in {s, [s EXCEPT !.task = FALSE, !.dirty = TRUE]}
  BY <1>1 DEF Start
<1>4. PICK u : u = [s EXCEPT !.task = FALSE, !.dirty = TRUE]
  OBVIOUS
<1>5. u \in Sessions /\ u.msgs = s.msgs /\ u.saved = s.saved
  BY <1>2, <1>4 DEF Sessions
<1>6. Held(u, file, StillPopped)
  BY <1>2, <1>5, FlagsHeld
<1>. QED  BY <1>2, <1>3, <1>4, <1>6

\* Changes of the flags of a session.
LEMMA Flags ==
    ASSUME NEW s, NEW f, NEW gone, Held(s, f, gone), NEW a \in BOOLEAN, NEW r \in Requests \cup {0}
    PROVE  /\ Held(MarkDirty(s), f, gone)
           /\ Held([MarkDirty(s) EXCEPT !.ask = a], f, gone)
           /\ Held([NoPending(s) EXCEPT !.ask = a], f, gone)
           /\ Held(MarkDirty([s EXCEPT !.pend = r]), f, gone)
           /\ Held([s EXCEPT !.pend = r], f, gone)
           /\ Held(Offered(s), f, gone)
<1>1. s \in Sessions
  BY DEF Held
<1>2. PICK u1, u2, u3, u4, u5, u6 :
        /\ u1 = MarkDirty(s)
        /\ u2 = [MarkDirty(s) EXCEPT !.ask = a]
        /\ u3 = [NoPending(s) EXCEPT !.ask = a]
        /\ u4 = MarkDirty([s EXCEPT !.pend = r])
        /\ u5 = [s EXCEPT !.pend = r]
        /\ u6 = Offered(s)
  OBVIOUS
<1>3. u1 \in Sessions /\ u1.msgs = s.msgs /\ u1.saved = s.saved
  BY <1>1, <1>2 DEF MarkDirty, Sessions
<1>4. u2 \in Sessions /\ u2.msgs = s.msgs /\ u2.saved = s.saved
  BY <1>1, <1>2 DEF MarkDirty, Sessions
<1>5. u3 \in Sessions /\ u3.msgs = s.msgs /\ u3.saved = s.saved
  BY <1>1, <1>2 DEF NoPending, Sessions
<1>6. u4 \in Sessions /\ u4.msgs = s.msgs /\ u4.saved = s.saved
  BY <1>1, <1>2 DEF MarkDirty, Sessions
<1>7. u5 \in Sessions /\ u5.msgs = s.msgs /\ u5.saved = s.saved
  BY <1>1, <1>2 DEF Sessions
<1>8. u6 \in Sessions /\ u6.msgs = s.msgs /\ u6.saved = s.saved
  BY <1>1, <1>2 DEF Offered, NoPending, Sessions
<1>. QED  BY <1>2, <1>3, <1>4, <1>5, <1>6, <1>7, <1>8, FlagsHeld

LEMMA SaveStep ==
    ASSUME HistoryInv, NEW s, NEW gone, Held(s, file, gone), Save(s, gone)
    PROVE  Held(mem', file', popped') /\ cached' \in BOOLEAN
<1>1. now \in Nat
  BY TurnsAssumption DEF HistoryInv, TypeOK
<1>2. Held(Saved(s, file, now), FileAfter(s, file), CanAppend(s, file) /\ gone)
  BY <1>1, SaveHeld
<1>3. /\ mem' = Saved(s, file, now) /\ file' = FileAfter(s, file)
      /\ popped' = (CanAppend(s, file) /\ gone) /\ cached' = TRUE
  BY DEF Save
<1>. QED  BY <1>2, <1>3

\* A step that leaves clock, turn and outcomes of their types.
Rest == /\ now \in 0..MaxTime /\ active \in 0..MaxTime
        /\ turn \in [pc : Phases, asked : BOOLEAN]
        /\ outcomes \in [Requests -> Nat]

LEMMA HeldIs ==
    ASSUME Held(mem', file', popped'), Rest', cached' \in BOOLEAN
    PROVE  HistoryInv'
BY DEF HistoryInv, TypeOK, Rest, Held

LEMMA NoTurnType == NoTurn \in [pc : Phases, asked : BOOLEAN]
BY DEF NoTurn, Phases

LEMMA BeginHolds ==
    ASSUME HistoryInv, BeginTurn \/ BeginNotice
    PROVE  HistoryInv'
<1>1. Rest' /\ cached' \in BOOLEAN /\ file' = file /\ popped' = StillPopped /\ Idle
  BY DEF HistoryInv, TypeOK, Rest, BeginTurn, BeginNotice, NoTurn, Phases
<1>2. Held(mem', file, StillPopped)
  <2>1. CASE BeginTurn
    <3>1. mem' \in {Start, [MarkDirty(Start) EXCEPT !.ask = FALSE]}
      BY <2>1 DEF BeginTurn
    <3>2. Held(Start, file, StillPopped)
      BY <1>1, StartHeld
    <3>3. Held([MarkDirty(Start) EXCEPT !.ask = FALSE], file, StillPopped)
      BY <3>2, Flags
    <3>. QED  BY <3>1, <3>2, <3>3
  <2>2. CASE BeginNotice
    BY <1>1, <2>2, OpenedHeld DEF BeginNotice
  <2>. QED  BY <2>1, <2>2
<1>. QED  BY <1>1, <1>2, HeldIs

LEMMA LiveHeld ==
    ASSUME HistoryInv, ~Idle
    PROVE  Held(mem, file, popped)
BY DEF HistoryInv, Live, Idle

LEMMA ShortHolds ==
    ASSUME HistoryInv, AskKnowledge \/ Confirm \/ Command
    PROVE  HistoryInv'
<1>0. now \in Nat
  BY TurnsAssumption DEF HistoryInv, TypeOK
<1>1. Rest'
  <2>1. /\ now' = now /\ outcomes' = outcomes /\ active' \in {active, now}
        /\ turn' \in {turn, NoTurn}
    BY DEF AskKnowledge, Confirm, Command
  <2>. QED  BY <2>1, NoTurnType DEF HistoryInv, TypeOK, Rest
<1>2. Held(mem', file', popped') /\ cached' \in BOOLEAN
  <2>1. CASE AskKnowledge
    <3>1. Held(mem, file, popped)
      BY <2>1, LiveHeld DEF AskKnowledge, Idle
    <3>2. Held([NoPending(mem) EXCEPT !.ask = TRUE], file, popped)
      BY <3>1, Flags
    <3>. QED  BY <2>1, <3>2, SaveStep DEF AskKnowledge
  <2>2. CASE Confirm
    <3>1. Held(Start, file, StillPopped)
      BY <2>2, StartHeld DEF Confirm
    <3>2. CASE \E again \in BOOLEAN : Save([MarkDirty(Start) EXCEPT !.ask = again], StillPopped)
      <4>1. PICK again \in BOOLEAN : Save([MarkDirty(Start) EXCEPT !.ask = again], StillPopped)
        BY <3>2
      <4>2. Held([MarkDirty(Start) EXCEPT !.ask = again], file, StillPopped)
        BY <3>1, Flags
      <4>. QED  BY <4>1, <4>2, SaveStep
    <3>3. CASE Save([MarkDirty(Exchange(Start, FALSE)) EXCEPT !.ask = FALSE], StillPopped)
      <4>1. <<"user", "say">> \in Seq(Kinds)
        BY DEF Kinds
      <4>2. Held(Exchange(Start, FALSE), file, StillPopped)
        BY <1>0, <3>1, <4>1, LongerHeld DEF Exchange
      <4>3. Held([MarkDirty(Exchange(Start, FALSE)) EXCEPT !.ask = FALSE], file, StillPopped)
        BY <4>2, Flags
      <4>. QED  BY <3>3, <4>3, SaveStep
    <3>. QED  BY <2>2, <3>2, <3>3 DEF Confirm
  <2>3. CASE Command
    <3>1. Held(Start, file, StillPopped)
      BY <2>3, StartHeld DEF Command
    <3>2. CASE Save(MarkDirty(Start), StillPopped)
      <4>1. Held(MarkDirty(Start), file, StillPopped)
        BY <3>1, Flags
      <4>. QED  BY <3>2, <4>1, SaveStep
    <3>3. CASE mem' = Start /\ cached' = TRUE /\ popped' = StillPopped /\ file' = file
      BY <3>1, <3>3
    <3>. QED  BY <2>3, <3>2, <3>3 DEF Command
  <2>. QED  BY <2>1, <2>2, <2>3
<1>. QED  BY <1>1, <1>2, HeldIs

LEMMA SuspendHolds ==
    ASSUME HistoryInv, Suspend
    PROVE  HistoryInv'
<1>1. Held(mem, file, popped)
  BY LiveHeld DEF Suspend, Looping, Idle
<1>2. PICK r \in Fresh : /\ Save([mem EXCEPT !.pend = r], popped)
                         /\ turn' = [turn EXCEPT !.asked = TRUE]
  BY DEF Suspend
<1>3. Held([mem EXCEPT !.pend = r], file, popped)
  BY <1>1, Flags DEF Fresh
<1>4. Held(mem', file', popped') /\ cached' \in BOOLEAN
  BY <1>2, <1>3, SaveStep
<1>5. Rest'
  BY <1>2 DEF Suspend, Rest, HistoryInv, TypeOK
<1>. QED  BY <1>4, <1>5, HeldIs

\* What the turn in progress ends with.
LEMMA FinalHeld ==
    ASSUME HistoryInv, turn.pc \in Looping
    PROVE  /\ Held(Final(turn.asked), file, popped)
           /\ Held(Offered(Exchange(mem, FALSE)), file, popped)
<1>1. Held(mem, file, popped) /\ now \in Nat
  BY LiveHeld, TurnsAssumption DEF Looping, Idle, HistoryInv, TypeOK
<1>2. PICK k \in Kinds : k = IF turn.asked THEN "prompt" ELSE "say"
  BY DEF Kinds
<1>3. /\ <<"user", k>> \in Seq(Kinds) /\ <<k>> \in Seq(Kinds)
      /\ <<"call", "tool", k>> \in Seq(Kinds) /\ <<"user", "say">> \in Seq(Kinds)
  BY <1>2 DEF Kinds
<1>4. Held(Exchange(mem, turn.asked), file, popped)
  BY <1>1, <1>2, <1>3, LongerHeld DEF Exchange
<1>5. Held(Conclusion(mem, turn.asked), file, popped)
  BY <1>1, <1>2, <1>3, LongerHeld DEF Conclusion
<1>6. Held(Notice(mem, turn.asked), file, popped)
  BY <1>1, <1>2, <1>3, LongerHeld DEF Notice
<1>7. Final(turn.asked) \in {Exchange(mem, turn.asked), Conclusion(mem, turn.asked),
                             Notice(mem, turn.asked)}
  BY DEF Final, Looping
<1>8. Held(Exchange(mem, FALSE), file, popped)
  BY <1>1, <1>3, LongerHeld DEF Exchange
<1>9. Held(Offered(Exchange(mem, FALSE)), file, popped)
  BY <1>8, Flags
<1>. QED  BY <1>4, <1>5, <1>6, <1>7, <1>9

LEMMA EndHolds ==
    ASSUME HistoryInv, EndTurn
    PROVE  HistoryInv'
<1>1. Held(mem', file', popped') /\ cached' \in BOOLEAN
  BY FinalHeld, SaveStep DEF EndTurn
<1>2. Rest'
  BY DEF EndTurn, Rest, HistoryInv, TypeOK, NoTurn, Phases
<1>. QED  BY <1>1, <1>2, HeldIs

LEMMA AnswerHolds ==
    ASSUME HistoryInv, Approve \/ Reject
    PROVE  HistoryInv'
<1>1. PICK s : s = Start
  OBVIOUS
<1>2. Held(s, file, StillPopped) /\ s.pend \in Requests /\ Answered(s.pend) /\ now \in Nat
  <2>1. Held(s, file, StillPopped)
    BY <1>1, StartHeld DEF Approve, Reject
  <2>2. s.pend \in Requests \cup {0}
    BY <2>1 DEF Held, Sessions
  <2>. QED  BY <1>1, <2>1, <2>2, TurnsAssumption DEF Approve, Reject, HistoryInv, TypeOK
<1>3. PICK t : t = MarkDirty([s EXCEPT !.pend = 0])
  OBVIOUS
<1>4. Held(t, file, StillPopped) /\ t.dirty
  <2>1. Held(t, file, StillPopped)
    BY <1>2, <1>3, Flags
  <2>2. t.dirty
    BY <1>2, <1>3 DEF MarkDirty, Held, Sessions
  <2>. QED  BY <2>1, <2>2
<1>5. Held(mem', file', popped') /\ cached' \in BOOLEAN
  <2>1. CASE Approve
    <3>1. Save(t, StillPopped)
      BY <1>1, <1>3, <2>1 DEF Approve
    <3>. QED  BY <1>4, <3>1, SaveStep
  <2>2. CASE Reject
    <3>1. PICK u, g : u = Saved(t, file, now) /\ g = FileAfter(t, file)
      OBVIOUS
    <3>2. mem' = Reconstructed(u) /\ file' = g /\ popped' = Pops(u) /\ cached' = TRUE
      BY <1>1, <1>3, <2>2, <3>1 DEF Reject
    <3>3. Held(u, g, CanAppend(t, file) /\ StillPopped)
      BY <1>2, <1>4, <3>1, SaveHeld
    <3>4. ~CanAppend(t, file)
      BY <1>4 DEF CanAppend
    <3>5. Held(u, g, FALSE)
      BY <3>3, <3>4 DEF Held, Whole
    <3>6. Held(Reconstructed(u), g, FALSE \/ Pops(u))
      BY <1>2, <3>5, ReconstructedHeld
    <3>7. (FALSE \/ Pops(u)) = Pops(u)
      BY DEF Pops
    <3>. QED  BY <3>2, <3>6, <3>7
  <2>. QED  BY <2>1, <2>2
<1>6. Rest'
  <2>1. outcomes' \in [Requests -> Nat]
    BY <1>2 DEF Answered, HistoryInv, TypeOK
  <2>. QED  BY <2>1 DEF Approve, Reject, Rest, HistoryInv, TypeOK, NoTurn, Phases
<1>. QED  BY <1>5, <1>6, HeldIs

LEMMA RunHolds ==
    ASSUME HistoryInv, RunTool
    PROVE  HistoryInv'
<1>1. Held(mem, file, popped) /\ now \in Nat
  BY LiveHeld, TurnsAssumption DEF RunTool, Idle, HistoryInv, TypeOK
<1>2. Held(Reconstructed(mem), file, popped \/ Pops(mem))
  BY <1>1, ReconstructedHeld
<1>3. mem' = Reconstructed(mem) /\ file' = file /\ popped' = (popped \/ Pops(mem))
  BY DEF RunTool
<1>4. Rest' /\ cached' \in BOOLEAN
  BY DEF RunTool, Rest, HistoryInv, TypeOK, Phases
<1>. QED  BY <1>2, <1>3, <1>4, HeldIs

LEMMA NewHolds ==
    ASSUME HistoryInv, NewCommand
    PROVE  HistoryInv'
<1>1. now \in Nat /\ file \in Files
  BY TurnsAssumption DEF HistoryInv, TypeOK
<1>2. PICK s : s = Cleared(Start, now)
  OBVIOUS
<1>3. Held(s, file, FALSE) /\ s.dirty
  BY <1>1, <1>2, NewHeld DEF Cleared, NewSession
<1>4. Held(Saved(s, file, now), FileAfter(s, file), CanAppend(s, file) /\ FALSE)
  BY <1>1, <1>3, SaveHeld
<1>5. mem' = Saved(s, file, now) /\ file' = FileAfter(s, file) /\ popped' = FALSE /\ cached' = FALSE
  BY <1>2 DEF NewCommand
<1>6. (CanAppend(s, file) /\ FALSE) = FALSE
  OBVIOUS
<1>7. Held(mem', file', popped')
  BY <1>4, <1>5, <1>6
<1>8. Rest'
  BY DEF NewCommand, Rest, HistoryInv, TypeOK
<1>. QED  BY <1>5, <1>7, <1>8, HeldIs

LEMMA CrashHolds ==
    ASSUME HistoryInv, Crash \/ CrashInAppend
    PROVE  HistoryInv'
<1>1. file' \in Files
  <2>1. CASE Crash
    BY <2>1 DEF Crash, HistoryInv, TypeOK
  <2>2. CASE CrashInAppend
    <3>1. PICK s : s = Final(turn.asked)
      OBVIOUS
    <3>2. Held(s, file, popped) /\ CanAppend(s, file)
      BY <2>2, <3>1, FinalHeld DEF CrashInAppend
    <3>3. PICK n \in 0..(Len(Unsaved(s)) - 1) : file' = PartlyAppended(s, file, n)
      BY <2>2, <3>1 DEF CrashInAppend
    <3>4. /\ s.msgs \in Seq(Kinds) /\ s.saved \in Nat
          /\ file \in Written /\ file.msgs \in Seq(Lines)
      BY <3>2 DEF Held, Sessions, CanAppend, Files, Written, Lines
    <3>5. PICK e : e = Unsaved(s)
      OBVIOUS
    <3>6. e \in Seq(Kinds)
      <4>1. e = SubSeq(s.msgs, s.saved + 1, Len(s.msgs))
        BY <3>5 DEF Unsaved
      <4>. QED  BY <3>4, <4>1
    <3>7. PICK p \in Seq(Lines) : p = SubSeq(e, 1, n)
      <4>1. n \in Int /\ 1 \in Int /\ \A i \in 1..n : e[i] \in Lines
        BY <3>3, <3>5, <3>6 DEF Lines
      <4>. QED  BY <4>1, SubSeqProperties
    <3>8. Glue(file.msgs, p) \in Seq(Lines)
      <4>1. p # <<>> => Tail(p) \in Seq(Lines)
        OBVIOUS
      <4>2. file.msgs \o p \in Seq(Lines)
        BY <3>4, ConcatProperties
      <4>3. p # <<>> => file.msgs \o Tail(p) \in Seq(Lines)
        BY <3>4, <4>1, ConcatProperties
      <4>. QED  BY <4>2, <4>3 DEF Glue
    <3>9. PICK lines \in Seq(Lines) : lines = Glue(file.msgs, p) \o <<Torn>>
      <4>1. <<Torn>> \in Seq(Lines)
        BY DEF Lines
      <4>. QED  BY <3>8, <4>1, ConcatProperties
    <3>10. file' = [file EXCEPT !.msgs = lines]
      BY <3>3, <3>5, <3>7, <3>9 DEF PartlyAppended
    <3>. QED  BY <3>4, <3>10 DEF Files, Written, Lines
  <2>. QED  BY <2>1, <2>2
<1>2. mem' = NewSession(now) /\ popped' = FALSE /\ cached' = FALSE
  BY DEF Crash, CrashInAppend, Down
<1>3. Held(mem', file', popped')
  <2>1. now \in Nat
    BY TurnsAssumption DEF HistoryInv, TypeOK
  <2>2. PICK f \in Files : f = file'
    BY <1>1
  <2>. QED  BY <1>2, <2>1, <2>2, NewHeld
<1>4. Rest'
  <2>1. now' = now /\ outcomes' = outcomes /\ active' = active /\ turn' = NoTurn
    BY DEF Crash, CrashInAppend, Down
  <2>. QED  BY <2>1, NoTurnType DEF HistoryInv, TypeOK, Rest
<1>. QED  BY <1>2, <1>3, <1>4, HeldIs

LEMMA IdleHolds ==
    ASSUME HistoryInv, FailTurn \/ Tick \/ Evict \/ UNCHANGED vars
    PROVE  HistoryInv'
<1>1. UNCHANGED <<mem, file, popped>> /\ cached' \in BOOLEAN
  BY DEF FailTurn, Tick, Evict, vars, HistoryInv, TypeOK
<1>2. Rest'
  <2>1. /\ now' = now \/ (now < MaxTime /\ now' = now + 1)
        /\ outcomes' = outcomes /\ active' = active /\ turn' \in {turn, NoTurn}
    BY DEF FailTurn, Tick, Evict, vars
  <2>2. now' \in 0..MaxTime
    BY <2>1, TurnsAssumption DEF HistoryInv, TypeOK
  <2>. QED  BY <2>1, <2>2, NoTurnType DEF HistoryInv, TypeOK, Rest
<1>3. Live' => Live
  BY DEF FailTurn, Tick, Evict, vars, Live, Idle, NoTurn
<1>. QED  BY <1>1, <1>2, <1>3 DEF HistoryInv, TypeOK, Rest, Held

LEMMA HistoryStep == HistoryInv /\ [Next]_vars => HistoryInv'
BY BeginHolds, ShortHolds, SuspendHolds, EndHolds, AnswerHolds, RunHolds,
   NewHolds, CrashHolds, IdleHolds DEF Next

LEMMA HistoryInit == Init => HistoryInv
<1> SUFFICES ASSUME Init PROVE HistoryInv
  OBVIOUS
<1>1. NewSession(0) \in Sessions /\ NoFile \in Files
  BY DEF NewSession, Sessions, Files
<1>2. ~Live
  BY DEF Init, Live, NoTurn
<1>3. 0 \in 0..MaxTime
  BY TurnsAssumption
<1>4. TypeOK
  BY <1>1, <1>3, NoTurnType DEF Init, TypeOK
<1>. QED  BY <1>2, <1>4 DEF HistoryInv

\* Every variable keeps its type: turns, answers, evictions, failing turns and
\* crashes leave well-formed histories in memory and in the file.
THEOREM SessionTypes == Spec => []TypeOK
<1>1. HistoryInv => TypeOK
  BY DEF HistoryInv
<1>. QED  BY HistoryInit, HistoryStep, <1>1, PTL DEF Spec

\* The lines of the file that can be read are the messages the live session
\* believes it saved, in their order (manager.py, save: an append writes from
\* _last_saved_msg_count on, _full_rewrite everything, _load skips torn lines).
THEOREM FileKeepsWhatIsSaved == Spec => []FileHoldsSaved
<1>1. HistoryInv => FileHoldsSaved
  <2> SUFFICES ASSUME HistoryInv, mem.saved > 0, ~popped, cached \/ ~Idle
               PROVE  file # NoFile /\ Readable(file.msgs) = SubSeq(mem.msgs, 1, mem.saved)
    BY DEF FileHoldsSaved
  <2>1. Held(mem, file, popped)
    BY DEF HistoryInv, Live, Idle
  <2>2. file # NoFile /\ mem.saved <= Len(mem.msgs) /\ file.msgs = SubSeq(mem.msgs, 1, mem.saved)
    BY <2>1 DEF Held, Whole
  <2>3. mem.msgs \in Seq(Kinds) /\ mem.saved \in Nat
    BY <2>1 DEF Held, Sessions
  <2>4. file.msgs \in Seq(Kinds)
    BY <2>2, <2>3
  <2>. QED  BY <2>2, <2>4, ReadableWhole
<1>. QED  BY HistoryInit, HistoryStep, <1>1, PTL DEF Spec

------------------------------------------------------------------------------
(* What the session shares with its turns: the components of MCSession. Each *)
(* takes its steps alone, so that an invariant of the component is one of    *)
(* AllSpec.                                                                  *)

(* MEMORY.md and its backups. *)

\* MEMORY.md is the last whole content, or a backup is that the write has not
\* pushed out: a write that dies has moved it by one place at most.
BackedUp(last) == \E i \in 1..mf_Backups : i <= last /\ mf_bak[i] = mf_good
MemoryKept ==
    CASE mf_pc \in {"idle", "unlink"} -> mf_file = mf_good \/ BackedUp(mf_faults)
      [] mf_pc = "shift" ->
               /\ mf_at \in 1..mf_Backups /\ mf_bak[mf_at] = MemoryFile!Absent
               /\ \/ mf_file = mf_good
                  \/ \E i \in 1..mf_Backups : /\ mf_bak[i] = mf_good
                                              /\ i <= IF i < mf_at THEN mf_faults ELSE mf_faults + 1
      [] mf_pc = "copy"  -> mf_bak[1] = MemoryFile!Absent /\ (mf_file = mf_good \/ BackedUp(mf_faults + 1))
      [] OTHER -> BackedUp(mf_faults + 1)

MemoryInv ==
    /\ mf_bak \in [1..mf_Backups -> Int] /\ mf_faults \in 0..mf_MaxFaults /\ mf_next \in Nat
    /\ mf_good \in Nat \cup {MemoryFile!Absent}
    /\ mf_pc \in {"idle", "unlink", "shift", "copy", "truncate", "write"}
    /\ mf_file \in Int
    /\ mf_bare \/ mf_good = MemoryFile!Absent \/ MemoryKept

LEMMA MemoryStep ==
    ASSUME mf_Backups \in Nat, mf_MaxFaults \in Nat, mf_MaxFaults < mf_Backups,
           MemoryInv, [MemoryFile!Next]_(MemoryFile!vars)
    PROVE  MemoryInv'
<1>1. CASE MemoryFile!Write
  BY <1>1 DEF MemoryFile!Write, MemoryInv, MemoryKept, BackedUp, MemoryFile!Absent,
       MemoryFile!Empty
<1>2. CASE MemoryFile!Edit
  BY <1>2 DEF MemoryFile!Edit, MemoryInv, MemoryFile!Absent
<1>3. CASE MemoryFile!Unlink
  BY <1>3 DEF MemoryFile!Unlink, MemoryInv, MemoryKept, BackedUp, MemoryFile!Absent
<1>4. CASE MemoryFile!Shift
  <2>1. CASE mf_at = 1
    BY <1>4, <2>1 DEF MemoryFile!Shift, MemoryInv, MemoryKept, BackedUp, MemoryFile!Absent
  <2>2. CASE mf_at # 1
    <3>1. CASE mf_bare \/ mf_good = MemoryFile!Absent
      BY <1>4, <2>2, <3>1 DEF MemoryFile!Shift, MemoryInv, MemoryFile!Absent
    <3>2. CASE ~mf_bare /\ mf_good # MemoryFile!Absent
      <4>1. /\ mf_pc = "shift" /\ mf_pc' = "shift" /\ mf_at' = mf_at - 1 /\ mf_at \in 2..mf_Backups
            /\ mf_bak' = IF mf_bak[mf_at - 1] = MemoryFile!Absent THEN mf_bak
                          ELSE [mf_bak EXCEPT ![mf_at] = mf_bak[mf_at - 1], ![mf_at - 1] = MemoryFile!Absent]
            /\ UNCHANGED <<mf_file, mf_next, mf_good, mf_faults, mf_bare>>
        BY <1>4, <2>2, <3>2 DEF MemoryFile!Shift, MemoryInv, MemoryKept
      <4>2. mf_bak' \in [1..mf_Backups -> Int] /\ mf_bak'[mf_at - 1] = MemoryFile!Absent
        BY <4>1 DEF MemoryInv, MemoryFile!Absent
      <4>3. CASE mf_file = mf_good
        BY <4>1, <4>2, <4>3 DEF MemoryInv, MemoryKept
      <4>4. CASE mf_file # mf_good
        <5>1. PICK i \in 1..mf_Backups : /\ mf_bak[i] = mf_good
                                         /\ i <= IF i < mf_at THEN mf_faults ELSE mf_faults + 1
          BY <4>1, <4>4, <3>2 DEF MemoryInv, MemoryKept
        <5>2. i # mf_at
          BY <4>1, <5>1, <3>2 DEF MemoryInv, MemoryKept
        <5>3. CASE i = mf_at - 1
          <6>1. mf_bak'[mf_at] = mf_good
            BY <4>1, <5>1, <5>3, <3>2 DEF MemoryInv
          <6>. QED  BY <4>1, <4>2, <5>1, <5>3, <6>1 DEF MemoryInv, MemoryKept
        <5>4. CASE i # mf_at - 1
          <6>1. mf_bak'[i] = mf_good
            BY <4>1, <5>1, <5>2, <5>4, <3>2 DEF MemoryInv
          <6>2. i <= IF i < mf_at' THEN mf_faults' ELSE mf_faults' + 1
            BY <4>1, <5>1, <5>2, <5>4 DEF MemoryInv
          <6>3. mf_bak'[i] = mf_good' /\ mf_at' \in 1..mf_Backups /\ mf_bak'[mf_at'] = MemoryFile!Absent
            BY <4>1, <4>2, <6>1
          <6>4. MemoryKept'
            BY <4>1, <6>2, <6>3 DEF MemoryKept
          <6>. QED  BY <4>1, <4>2, <6>4 DEF MemoryInv
        <5>. QED  BY <5>3, <5>4
      <4>. QED  BY <4>3, <4>4
    <3>. QED  BY <3>1, <3>2
  <2>. QED  BY <2>1, <2>2
<1>5. CASE MemoryFile!Copy
  BY <1>5 DEF MemoryFile!Copy, MemoryInv, MemoryKept, BackedUp, MemoryFile!Absent
<1>6. CASE MemoryFile!RotationFails
  BY <1>6 DEF MemoryFile!RotationFails, MemoryInv, MemoryFile!Absent
<1>7. CASE MemoryFile!Truncate
  BY <1>7 DEF MemoryFile!Truncate, MemoryInv, MemoryKept, BackedUp, MemoryFile!Absent,
       MemoryFile!Empty
<1>8. CASE MemoryFile!WriteEnds
  BY <1>8 DEF MemoryFile!WriteEnds, MemoryInv, MemoryKept, BackedUp, MemoryFile!Absent
<1>9. ASSUME NEW partly \in BOOLEAN, MemoryFile!Dies(partly) PROVE MemoryInv'
  BY <1>9 DEF MemoryFile!Dies, MemoryInv, MemoryKept, BackedUp, MemoryFile!Absent,
       MemoryFile!Torn
<1>10. CASE UNCHANGED MemoryFile!vars
  BY <1>10 DEF MemoryFile!vars, MemoryInv, MemoryKept, BackedUp
<1>. QED  BY <1>1, <1>2, <1>3, <1>4, <1>5, <1>6, <1>7, <1>8, <1>9, <1>10 DEF MemoryFile!Next

LEMMA MemoryInit == ASSUME mf_MaxFaults \in Nat PROVE MemoryFile!Init => MemoryInv
BY DEF MemoryFile!Init, MemoryInv, MemoryFile!Absent

LEMMA MemoryShows == MemoryInv => MemoryFile!LastMemoryKept
BY DEF MemoryInv, MemoryKept, BackedUp, MemoryFile!LastMemoryKept, MemoryFile!Absent

LEMMA MemoryFileSteps == [AllNext]_All => [MemoryFile!Next]_(MemoryFile!vars)
BY DEF AllNext, All, MemoryFile!vars, memoryfileVars

(* However many writes die, as long as no row of them is as long as the row   *)
(* of backups, the last whole MEMORY.md is in the file or in a backup         *)
(* (fault_tolerance.py: the rotating write).                                  *)
THEOREM LastMemorySurvives ==
    ASSUME mf_Backups \in Nat, mf_MaxFaults \in Nat, mf_MaxFaults < mf_Backups
    PROVE  AllSpec => []LastMemoryKept
<1>1. AllInit => MemoryInv
  BY MemoryInit DEF AllInit
<1>2. MemoryInv /\ [AllNext]_All => MemoryInv'
  BY MemoryStep, MemoryFileSteps
<1>3. MemoryInv => LastMemoryKept
  BY MemoryShows DEF LastMemoryKept
<1>. QED  BY <1>1, <1>2, <1>3, PTL DEF AllSpec

------------------------------------------------------------------------------
(* The consolidation of the messages, one at a time under its lock. *)

Snapshots == [id : Nat, kind : {"session", "archive", "deep"}, msgs : Seq(Nat), last : Nat]

LockType ==
    /\ cn_turns \in Nat /\ cn_jobs \in Nat /\ cn_last \in Nat /\ cn_since \in Nat /\ cn_fresh \in Nat
    /\ cn_msgs \in Seq(Nat) /\ cn_waiting \in Seq(Snapshots) /\ cn_clean \in BOOLEAN
    /\ \A a \in cn_active : a = [job |-> a.job, shown |-> a.shown] /\ a.job \in Snapshots
\* One task at most has the lock, and was shown all that tasks have written.
OneAtATime ==
    /\ \A a, b \in cn_active : a = b
    /\ \A a \in cn_active, j \in 1..cn_MaxJobs : Consolidation!Own(j) \in cn_memory => Consolidation!Own(j) \in a.shown
\* Until a commit is added to a session that has moved on, what counts as
\* consolidated is in HISTORY.md or was passed over by an answer.
Undisturbed ==
    /\ cn_last <= Len(cn_msgs)
    /\ \A i \in 1..cn_last : cn_msgs[i] \in cn_history \cup cn_silent
\* Only a task with something to summarise keeps the lock.
HasWork == \A a \in cn_active : a.job.kind = "session" => a.job.last < Len(a.job.msgs) - cn_Keep

LockInv == LockType /\ OneAtATime /\ HasWork /\ (cn_clean => Undisturbed)

LEMMA OldPart ==
    ASSUME cn_Keep \in Nat, NEW j \in Snapshots, j.kind = "session"
    PROVE  /\ j.last >= Len(j.msgs) - cn_Keep => Consolidation!Old(j) = <<>>
           /\ j.last < Len(j.msgs) - cn_Keep =>
                \A i \in (j.last + 1)..(Len(j.msgs) - cn_Keep) : j.msgs[i] \in Consolidation!Summarised(j)
<1>1. Consolidation!Old(j) = SubSeq(j.msgs, j.last + 1, Len(j.msgs) - cn_Keep)
  BY DEF Consolidation!Old
<1>2. j.msgs \in Seq(Nat) /\ j.last \in Nat /\ Len(j.msgs) \in Nat
  BY DEF Snapshots
<1> DEFINE from == j.last + 1
           upto == Len(j.msgs) - cn_Keep
<1>3. ASSUME NEW i \in from..upto PROVE j.msgs[i] \in Nat
  <2>1. j.last \in Nat /\ Len(j.msgs) \in Nat /\ i \in Int
    BY <1>2
  <2>2. 1 <= i /\ i <= Len(j.msgs)
    BY <2>1
  <2>. QED  BY <1>2, <2>1, <2>2
<1>4. /\ Consolidation!Old(j) \in Seq(Nat)
      /\ Len(Consolidation!Old(j)) = IF from <= upto THEN upto - from + 1 ELSE 0
      /\ \A i \in 1..(upto - from + 1) : Consolidation!Old(j)[i] = j.msgs[from + i - 1]
  <2>1. from \in Int /\ upto \in Int
    BY <1>2
  <2> HIDE DEF from, upto
  <2>2. Consolidation!Old(j) = SubSeq(j.msgs, from, upto)
    BY <1>1 DEF from, upto
  <2>. QED  BY <1>3, <2>1, <2>2, SubSeqProperties
<1>5. ASSUME j.last >= Len(j.msgs) - cn_Keep PROVE Consolidation!Old(j) = <<>>
  BY <1>2, <1>4, <1>5
<1>6. ASSUME j.last < Len(j.msgs) - cn_Keep, NEW i \in (j.last + 1)..(Len(j.msgs) - cn_Keep)
      PROVE  j.msgs[i] \in Consolidation!Summarised(j)
  <2> DEFINE k == i - j.last
  <2>1. k \in 1..(upto - from + 1) /\ from + k - 1 = i /\ from <= upto
    <3>1. j.last \in Int /\ upto \in Int /\ i \in Int
      BY <1>2, <1>6
    <3> HIDE DEF upto
    <3>. QED  BY <1>6, <3>1 DEF upto
  <2>2. k \in DOMAIN Consolidation!Old(j) /\ Consolidation!Old(j)[k] = j.msgs[i]
    BY <1>4, <2>1
  <2>. QED  BY <2>2 DEF Consolidation!Summarised
<1>. QED  BY <1>5, <1>6

LEMMA ConsolidationStep ==
    ASSUME cn_Keep \in Nat, LockInv, [Consolidation!Next]_(Consolidation!vars)
    PROVE  LockInv' /\ \A j \in 1..cn_MaxJobs : Consolidation!Own(j) \in cn_memory => Consolidation!Own(j) \in cn_memory'
<1> USE DEF LockInv
<1> DEFINE Stays == \A j \in 1..cn_MaxJobs : Consolidation!Own(j) \in cn_memory => Consolidation!Own(j) \in cn_memory'
<1>1. ASSUME NEW prompting \in BOOLEAN, Consolidation!Turn(prompting) PROVE LockInv' /\ Stays
  <2>1. /\ cn_turns' \in Nat /\ cn_msgs' = Append(cn_msgs, cn_turns') /\ cn_msgs' \in Seq(Nat)
        /\ Len(cn_msgs') = Len(cn_msgs) + 1 /\ \A i \in 1..Len(cn_msgs) : cn_msgs'[i] = cn_msgs[i]
        /\ UNCHANGED <<cn_last, cn_active, cn_memory, cn_history, cn_silent, cn_fresh, cn_clean>>
    BY <1>1 DEF Consolidation!Turn, LockType, Consolidation!distill, Consolidation!written
  <2>2. cn_clean' => Undisturbed'
    <3>1. cn_last \in Nat /\ Len(cn_msgs) \in Nat
      BY DEF LockType
    <3>. QED  BY <2>1, <3>1 DEF Undisturbed
  <2>3. CASE UNCHANGED <<cn_waiting, cn_jobs>> /\ cn_since' = cn_since + 1
    BY <2>1, <2>2, <2>3 DEF LockType, OneAtATime, HasWork
  <2>4. CASE cn_jobs' = cn_jobs + 1 /\ cn_since' = 0 /\ cn_waiting' = Append(cn_waiting, Consolidation!Job("session", cn_msgs'))
    <3>1. PICK new \in Snapshots : cn_waiting' = Append(cn_waiting, new)
      <4> DEFINE new == Consolidation!Job("session", cn_msgs')
      <4>1. new \in Snapshots
        BY <2>1 DEF Consolidation!Job, Snapshots, LockType
      <4>2. cn_waiting' = Append(cn_waiting, new)
        BY <2>4
      <4> HIDE DEF new
      <4>. QED  BY <4>1, <4>2
    <3>. QED  BY <2>1, <2>2, <2>4, <3>1 DEF LockType, OneAtATime, HasWork
  <2>. QED  BY <1>1, <2>3, <2>4 DEF Consolidation!Turn
<1>2. CASE Consolidation!NewSession
  <2>1. PICK new \in Snapshots : cn_waiting' = Append(cn_waiting, new)
    <3> DEFINE new == Consolidation!Job("archive", cn_msgs)
    <3>1. new \in Snapshots
      BY DEF Consolidation!Job, Snapshots, LockType
    <3>2. cn_waiting' = Append(cn_waiting, new)
      BY <1>2 DEF Consolidation!NewSession
    <3> HIDE DEF new
    <3>. QED  BY <3>1, <3>2
  <2>2. LockType' /\ OneAtATime' /\ HasWork' /\ Stays
    BY <1>2, <2>1 DEF Consolidation!NewSession, LockType, OneAtATime, HasWork,
         Consolidation!distill
  <2>3. Undisturbed'
    BY <1>2 DEF Consolidation!NewSession, Undisturbed
  <2>. QED  BY <2>2, <2>3
<1>3. CASE Consolidation!DeepConsolidate
  <2>1. PICK new \in Snapshots : cn_waiting' = Append(cn_waiting, new)
    <3> DEFINE new == Consolidation!Job("deep", <<>>)
    <3>1. new \in Snapshots
      BY DEF Consolidation!Job, Snapshots, LockType
    <3>2. cn_waiting' = Append(cn_waiting, new)
      BY <1>3 DEF Consolidation!DeepConsolidate
    <3> HIDE DEF new
    <3>. QED  BY <3>1, <3>2
  <2>2. LockType' /\ OneAtATime' /\ HasWork' /\ Stays
    BY <1>3, <2>1 DEF Consolidation!DeepConsolidate, LockType, OneAtATime, HasWork,
         Consolidation!distill, Consolidation!session
  <2>3. (cn_clean => Undisturbed)'
    BY <1>3 DEF Consolidation!DeepConsolidate, Consolidation!session, Consolidation!written, Undisturbed
  <2>. QED  BY <2>2, <2>3
<1>4. CASE Consolidation!Begin
  <2>1. /\ cn_active = {} /\ cn_waiting # <<>> /\ cn_waiting' = Tail(cn_waiting)
        /\ UNCHANGED <<cn_turns, cn_msgs, cn_last, cn_since, cn_memory, cn_history, cn_silent, cn_fresh, cn_jobs, cn_clean>>
    BY <1>4 DEF Consolidation!Begin, Consolidation!LockFree, Consolidation!session,
         Consolidation!distill, Consolidation!written
  <2>2. PICK j \in Snapshots : j = cn_waiting[1] /\ j = Head(cn_waiting)
    BY <2>1 DEF LockType
  <2>3. cn_waiting' \in Seq(Snapshots) /\ Len(cn_waiting) \in Nat /\ Len(cn_waiting) > 0
        /\ DOMAIN cn_waiting = 1..Len(cn_waiting) /\ DOMAIN cn_waiting' = 1..(Len(cn_waiting) - 1)
        /\ \A i \in 1..(Len(cn_waiting) - 1) : cn_waiting'[i] = cn_waiting[i + 1]
    BY <2>1 DEF LockType
  <2>4. PICK a : a = [job |-> j, shown |-> cn_memory] OBVIOUS
  <2>5. a.job = j /\ a.shown = cn_memory /\ a = [job |-> a.job, shown |-> a.shown]
    BY <2>4
  <2>6. /\ cn_active' \subseteq {a}
        /\ a \in cn_active' /\ j.kind = "session" => Consolidation!Old(j) # <<>>
    BY <1>4, <2>1, <2>2, <2>4 DEF Consolidation!Begin
  <2>7. HasWork'
    <3>1. j.kind = "session" /\ a \in cn_active' => j.last < Len(j.msgs) - cn_Keep
      <4>1. j.last \in Nat /\ Len(j.msgs) \in Nat
        BY DEF Snapshots
      <4>. QED  BY <2>6, <4>1, OldPart
    <3>. QED  BY <2>5, <2>6, <3>1 DEF HasWork
  <2>8. LockType' /\ OneAtATime' /\ Stays
    BY <2>1, <2>2, <2>3, <2>5, <2>6 DEF LockType, OneAtATime
  <2>9. (cn_clean => Undisturbed)'
    BY <2>1 DEF Undisturbed
  <2>. QED  BY <2>7, <2>8, <2>9
<1>5. ASSUME NEW a \in cn_active, Consolidation!EndJob(a), cn_fresh' \in Nat,
             cn_history \subseteq cn_history', cn_silent \subseteq cn_silent',
             \/ UNCHANGED <<cn_last, cn_clean>>
             \/ /\ Consolidation!Summarised(a.job) \subseteq cn_history' \cup cn_silent'
                /\ cn_last' = Consolidation!Committed(a.job)
                /\ cn_clean' = (cn_clean /\ (cn_last' = cn_last \/ Consolidation!Beginning(a.job))),
             cn_memory' \in {cn_memory, a.shown \union {Consolidation!Own(a.job.id)}}
      PROVE  LockInv' /\ Stays
  <2>1. /\ cn_active' = {} /\ UNCHANGED <<cn_turns, cn_msgs, cn_since, cn_waiting, cn_jobs>>
    BY <1>5 DEF Consolidation!EndJob, OneAtATime
  <2>2. Stays
    BY <1>5 DEF OneAtATime
  <2>3. a.job \in Snapshots
    BY DEF LockType
  <2>4. cn_clean' \in BOOLEAN /\ (cn_clean' => cn_clean)
    <3>1. cn_clean \in BOOLEAN
      BY DEF LockType
    <3>2. CASE UNCHANGED cn_clean
      BY <3>1, <3>2
    <3>3. CASE cn_clean' = (cn_clean /\ (cn_last' = cn_last \/ Consolidation!Beginning(a.job)))
      BY <3>3
    <3>. QED  BY <1>5, <3>2, <3>3
  <2>5. CASE UNCHANGED cn_last
    <3>1. (cn_clean => Undisturbed)'
      BY <1>5, <2>1, <2>4, <2>5 DEF Undisturbed
    <3>. QED  BY <1>5, <2>1, <2>2, <2>4, <2>5, <3>1 DEF LockType, OneAtATime, HasWork
  <2>6. CASE /\ Consolidation!Summarised(a.job) \subseteq cn_history' \cup cn_silent'
             /\ cn_last' = Consolidation!Committed(a.job) /\ cn_last' # cn_last
             /\ cn_clean' = (cn_clean /\ (cn_last' = cn_last \/ Consolidation!Beginning(a.job)))
    <3>1. /\ a.job.kind = "session" /\ Len(a.job.msgs) <= Len(cn_msgs)
          /\ cn_last' = cn_last + (Len(a.job.msgs) - cn_Keep - a.job.last)
      BY <2>6 DEF Consolidation!Committed
    <3>2. /\ a.job.last \in Nat /\ Len(a.job.msgs) \in Nat /\ cn_last \in Nat /\ Len(cn_msgs) \in Nat
          /\ a.job.last < Len(a.job.msgs) - cn_Keep
      <4>1. a.job.last < Len(a.job.msgs) - cn_Keep
        BY <3>1 DEF HasWork
      <4>2. a.job.last \in Nat /\ Len(a.job.msgs) \in Nat
        BY <2>3 DEF Snapshots
      <4>3. cn_last \in Nat /\ Len(cn_msgs) \in Nat
        BY DEF LockType
      <4>. QED  BY <4>1, <4>2, <4>3
    <3>3. cn_last' \in Nat
      BY <3>1, <3>2
    <3>4. ASSUME cn_clean' PROVE Undisturbed'
      <4>1. Undisturbed
        BY <2>4, <3>4
      <4>2. Consolidation!Beginning(a.job)
        BY <2>6, <3>4
      <4>3. a.job.last = cn_last /\ \A i \in 1..Len(a.job.msgs) : cn_msgs[i] = a.job.msgs[i]
        BY <4>2 DEF Consolidation!Beginning
      <4>4. cn_last' = Len(a.job.msgs) - cn_Keep
        BY <3>1, <3>2, <4>3
      <4>5. ASSUME NEW i \in 1..cn_last' PROVE cn_msgs'[i] \in cn_history' \cup cn_silent'
        <5>1. i \in 1..Len(a.job.msgs)
          BY <3>2, <4>4
        <5>2. cn_msgs'[i] = a.job.msgs[i] /\ cn_msgs'[i] = cn_msgs[i]
          BY <2>1, <4>3, <5>1
        <5>3. CASE i <= cn_last
          <6>1. cn_msgs[i] \in cn_history \cup cn_silent
            BY <3>2, <4>1, <5>1, <5>3 DEF Undisturbed
          <6>. QED  BY <1>5, <5>2, <6>1
        <5>4. CASE i > cn_last
          <6>1. i \in (a.job.last + 1)..(Len(a.job.msgs) - cn_Keep)
            BY <3>2, <4>3, <4>4, <5>1, <5>4
          <6>2. a.job.msgs[i] \in Consolidation!Summarised(a.job)
            BY <2>3, <3>1, <3>2, <6>1, OldPart
          <6>. QED  BY <2>6, <5>2, <6>2
        <5>. QED  BY <3>2, <5>1, <5>3, <5>4
      <4>6. cn_last' <= Len(cn_msgs')
        BY <2>1, <3>1, <3>2, <4>4
      <4>. QED  BY <4>5, <4>6 DEF Undisturbed
    <3>. QED  BY <1>5, <2>1, <2>2, <2>4, <3>3, <3>4 DEF LockType, OneAtATime, HasWork
  <2>. QED  BY <1>5, <2>5, <2>6
<1>6. CASE Consolidation!Store
  <2>1. \A j \in 1..cn_MaxJobs : Consolidation!Own(j) \in cn_memory' <=> Consolidation!Own(j) \in cn_memory
    BY <1>6 DEF Consolidation!Store, Consolidation!Own, Consolidation!Stored
  <2>2. /\ cn_jobs' = cn_jobs + 1
        /\ UNCHANGED <<cn_turns, cn_msgs, cn_last, cn_since, cn_waiting, cn_active, cn_history, cn_silent, cn_fresh, cn_clean>>
    BY <1>6 DEF Consolidation!Store, Consolidation!session, Consolidation!distill, Consolidation!written
  <2>. QED  BY <2>1, <2>2 DEF LockType, OneAtATime, HasWork, Undisturbed
<1>7. ASSUME UNCHANGED <<cn_turns, Consolidation!session, cn_waiting, cn_active, cn_memory, Consolidation!written, cn_jobs, cn_clean>>,
             cn_fresh' \in Nat
      PROVE  LockInv' /\ Stays
  BY <1>7 DEF LockType, OneAtATime, HasWork, Undisturbed, Consolidation!session, Consolidation!written
<1>8. ASSUME NEW a \in cn_active,
             Consolidation!Fails(a) \/ Consolidation!Partly(a) \/ \E b, c \in BOOLEAN : Consolidation!Succeeds(a, b, c)
      PROVE  LockInv' /\ Stays
  <2>1. CASE Consolidation!Fails(a)
    BY <1>5, <1>8, <2>1 DEF Consolidation!Fails, Consolidation!written, LockType
  <2>2. CASE Consolidation!Partly(a)
    BY <1>5, <1>8, <2>2 DEF Consolidation!Partly, LockType
  <2>3. ASSUME NEW b \in BOOLEAN, NEW c \in BOOLEAN, Consolidation!Succeeds(a, b, c) PROVE LockInv' /\ Stays
    <3>1. cn_history \subseteq cn_history' /\ cn_silent \subseteq cn_silent'
          /\ Consolidation!Summarised(a.job) \subseteq cn_history' \cup cn_silent'
      BY <2>3 DEF Consolidation!Succeeds
    <3>2. cn_fresh' \in Nat /\ cn_memory' \in {cn_memory, a.shown \union {Consolidation!Own(a.job.id)}}
      BY <2>3 DEF Consolidation!Succeeds, Consolidation!Update, LockType
    <3>. QED  BY <1>5, <2>3, <3>1, <3>2 DEF Consolidation!Succeeds
  <2>. QED  BY <1>8, <2>1, <2>2, <2>3
<1>9. ASSUME Consolidation!DistillReads \/ \E r \in cn_distilling, b \in BOOLEAN : Consolidation!DistillEnds(r, b)
      PROVE  LockInv' /\ Stays
  BY <1>7, <1>9 DEF Consolidation!DistillReads, Consolidation!DistillEnds, LockType
<1>10. CASE UNCHANGED Consolidation!vars
  BY <1>7, <1>10 DEF Consolidation!vars, Consolidation!distill, LockType
<1>. QED  BY <1>1, <1>2, <1>3, <1>4, <1>6, <1>8, <1>9, <1>10 DEF Consolidation!Next

LEMMA ConsolidationInit == Consolidation!Init => LockInv
BY DEF Consolidation!Init, LockInv, LockType, OneAtATime, HasWork, Undisturbed
LEMMA ConsolidationShows == LockInv => Consolidation!UndisturbedNotSkipped
BY DEF LockInv, Undisturbed, Consolidation!UndisturbedNotSkipped

LEMMA ConsolidationSteps == [AllNext]_All => [Consolidation!Next]_(Consolidation!vars)
BY DEF AllNext, All, Consolidation!vars, consolidationVars, Consolidation!session, Consolidation!distill,
       Consolidation!written

(* For any number of messages kept back but none (the slice of none would be   *)
(* empty): whatever turns, /new and other consolidations do between a snapshot *)
(* and its commit, every message that counts as consolidated is in HISTORY.md  *)
(* or the answer about it had no entry for it, until a commit is added to a    *)
(* session that has moved on since the snapshot (memory_manager.py:140,        *)
(* 182-198).                                                                   *)
THEOREM ConsolidatedIsInHistory ==
    ASSUME cn_Keep \in Nat \ {0}
    PROVE  AllSpec => []UndisturbedNotSkipped
<1>1. AllInit => LockInv
  BY ConsolidationInit DEF AllInit
<1>2. LockInv /\ [AllNext]_All => LockInv'
  BY ConsolidationStep, ConsolidationSteps
<1>3. LockInv => UndisturbedNotSkipped
  BY ConsolidationShows DEF UndisturbedNotSkipped
<1>. QED  BY <1>1, <1>2, <1>3, PTL DEF AllSpec

(* Whatever overlaps, what a consolidation put into MEMORY.md no other takes  *)
(* out: each holds the lock from its reading to its writing.                  *)
THEOREM ConsolidationKeepsMemory ==
    ASSUME cn_Keep \in Nat
    PROVE  AllSpec => ConsolidatedStays
<1> DEFINE Stays == [\A j \in 1..cn_MaxJobs :
               Consolidation!Own(j) \in cn_memory => Consolidation!Own(j) \in cn_memory']_cn_memory
<1>1. AllInit => LockInv
  BY ConsolidationInit DEF AllInit
<1>2. LockInv /\ [AllNext]_All => LockInv' /\ Stays
  BY ConsolidationStep, ConsolidationSteps
<1>. QED  BY <1>1, <1>2, PTL DEF AllSpec, ConsolidatedStays, Consolidation!ConsolidatedStays

------------------------------------------------------------------------------
(* The task list of a session. *)

\* Lists of tasks; what is in one does not matter.
IsTaskList(ts) == \E n \in Nat : DOMAIN ts = 1..n /\ ts = [i \in 1..n |-> ts[i]]

TaskInv ==
    /\ IsTaskList(ts_tasks) /\ ts_active \in Nat
    /\ \A saved \in ts_file : IsTaskList(saved.tasks) /\ saved.active \in Nat
    /\ \A t \in ts_Turns : ts_turns[t] = [pc |-> ts_turns[t].pc, task |-> ts_turns[t].task,
                                          shows |-> ts_turns[t].shows]
    /\ ts_turns = [t \in ts_Turns |-> ts_turns[t]]
    /\ \A t \in ts_Turns : ts_turns[t].pc = "start" /\ ts_turns[t].task # 0 /\ t \notin ts_others =>
          ts_turns[t].task = ts_active /\ ts_active \in DOMAIN ts_tasks
    /\ Tasks!OwnTaskShown

LEMMA TaskBegun ==
    ASSUME IsTaskList(ts_tasks), NEW new, ts_tasks' = ts_tasks \o <<new>>
    PROVE  /\ IsTaskList(ts_tasks') /\ Tasks!Fresh \in Nat /\ Tasks!Fresh # 0 /\ Tasks!Fresh \in DOMAIN ts_tasks'
<1>1. PICK n \in Nat : DOMAIN ts_tasks = 1..n /\ ts_tasks = [i \in 1..n |-> ts_tasks[i]]
  BY DEF IsTaskList
<1>2. Tasks!Cardinality(1..n) = n
  <2>1. Tasks!Cardinality(1..n) = Cardinality(1..n)
    BY DEF Tasks!Cardinality, Cardinality
  <2>. QED  BY <2>1, FS_Interval
<1>3. Tasks!Fresh = n + 1
  BY <1>1, <1>2 DEF Tasks!Fresh
<1>4. ts_tasks' = [i \in 1..(n + 1) |-> IF i <= n THEN ts_tasks[i] ELSE new]
  <2>1. Len(ts_tasks) = n /\ Len(<<new>>) = 1
    BY <1>1
  <2>. QED  BY <1>1, <2>1
<1>. QED  BY <1>3, <1>4 DEF IsTaskList

LEMMA TaskStep == ASSUME TaskInv, [Tasks!Next]_(Tasks!vars) PROVE TaskInv'
<1>1. ASSUME NEW t \in ts_Turns, NEW status, NEW ok \in BOOLEAN, Tasks!Begin(t, status, ok)
      PROVE  TaskInv'
  <2>1. IsTaskList(ts_tasks') /\ Tasks!Fresh \in Nat /\ Tasks!Fresh # 0 /\ Tasks!Fresh \in DOMAIN ts_tasks'
    BY <1>1, TaskBegun DEF Tasks!Begin, TaskInv
  <2>2. ts_active' = Tasks!Fresh
    BY <1>1 DEF Tasks!Begin
  <2>3. \A saved \in ts_file' : IsTaskList(saved.tasks) /\ saved.active \in Nat
    <3>1. ts_file' = {Tasks!Saved(ts_tasks', ts_active')} \/ ts_file' \in {ts_file, {}}
      BY <1>1 DEF Tasks!Begin, Tasks!Save
    <3>. QED  BY <2>1, <2>2, <3>1 DEF Tasks!Saved, TaskInv
  <2>4. /\ ts_turns' = [ts_turns EXCEPT ![t] = IF ok THEN [pc |-> "start", task |-> Tasks!Fresh, shows |-> 0] ELSE Tasks!Idle]
        /\ \A u \in ts_Turns : u # t /\ ts_turns[u].pc = "start" => u \in ts_others'
        /\ \A u \in ts_others : u # t => u \in ts_others'
        /\ ok => t \notin ts_others'
    BY <1>1 DEF Tasks!Begin
  <2>. QED  BY <2>1, <2>2, <2>3, <2>4 DEF TaskInv, Tasks!OwnTaskShown, Tasks!Idle
<1>2. ASSUME NEW t \in ts_Turns, Tasks!Chat(t) PROVE TaskInv'
  BY <1>2 DEF Tasks!Chat, TaskInv, Tasks!OwnTaskShown
<1>3. ASSUME NEW t \in ts_Turns, Tasks!Build(t) PROVE TaskInv'
  <2>1. /\ ts_turns[t].pc = "start"
        /\ ts_turns' = [ts_turns EXCEPT ![t].pc = "loop",
                                        ![t].shows = IF ts_active \in DOMAIN ts_tasks THEN ts_active ELSE 0]
        /\ UNCHANGED <<ts_tasks, ts_active, ts_file, ts_others>>
    BY <1>3 DEF Tasks!Build
  <2>2. \A u \in ts_Turns \ {t} : ts_turns'[u] = ts_turns[u]
    BY <2>1 DEF TaskInv
  <2>3. ts_turns'[t] = [pc |-> "loop", task |-> ts_turns[t].task,
                        shows |-> IF ts_active \in DOMAIN ts_tasks THEN ts_active ELSE 0]
    <3>1. t \in DOMAIN ts_turns
      BY DEF TaskInv
    <3>2. ts_turns[t] = [pc |-> ts_turns[t].pc, task |-> ts_turns[t].task, shows |-> ts_turns[t].shows]
      BY DEF TaskInv
    <3>3. ts_turns'[t] = [ts_turns[t] EXCEPT !.pc = "loop",
                                             !.shows = IF ts_active \in DOMAIN ts_tasks THEN ts_active ELSE 0]
      BY <2>1, <3>1
    <3>. QED  BY <3>2, <3>3
  <2>4. ts_turns' = [u \in ts_Turns |-> ts_turns'[u]]
    BY <2>1 DEF TaskInv
  <2>. QED  BY <2>1, <2>2, <2>3, <2>4 DEF TaskInv, Tasks!OwnTaskShown
<1>4. ASSUME NEW t \in ts_Turns, Tasks!Cut(t) PROVE TaskInv'
  BY <1>4 DEF Tasks!Cut, TaskInv, Tasks!OwnTaskShown, Tasks!Idle
<1>5. CASE Tasks!Restart
  <2>1. /\ ts_turns' = [u \in ts_Turns |-> Tasks!Idle] /\ ts_others' = {} /\ UNCHANGED ts_file
        /\ \E saved \in IF ts_file = {} THEN {Tasks!Saved(<<>>, 0)} ELSE ts_file :
              ts_tasks' = saved.tasks /\ ts_active' = saved.active
    BY <1>5 DEF Tasks!Restart
  <2>2. IsTaskList(<<>>)
    BY DEF IsTaskList
  <2>3. IsTaskList(ts_tasks') /\ ts_active' \in Nat
    BY <2>1, <2>2 DEF TaskInv, Tasks!Saved
  <2>. QED  BY <2>1, <2>3 DEF TaskInv, Tasks!OwnTaskShown, Tasks!Idle
<1>6. ASSUME NEW t \in ts_Turns, NEW n, NEW exit, NEW p \in BOOLEAN, NEW status, NEW ok \in BOOLEAN,
             Tasks!End(t, n, exit, p, status, ok)
      PROVE  TaskInv'
  <2>1. /\ ts_turns[t].pc = "loop" /\ ts_turns' = [ts_turns EXCEPT ![t] = Tasks!Idle] /\ ts_others' = ts_others \ {t}
    BY <1>6 DEF Tasks!End
  <2>2. /\ ts_active' = ts_active /\ DOMAIN ts_tasks' = DOMAIN ts_tasks /\ IsTaskList(ts_tasks')
    <3>1. CASE UNCHANGED <<ts_tasks, ts_active>>
      BY <3>1 DEF TaskInv
    <3>2. CASE ts_active' = Tasks!ActiveAfter(ts_turns[t].task) /\
               \E new : ts_tasks' = [ts_tasks EXCEPT ![ts_turns[t].task] = new]
      <4>1. PICK new : ts_tasks' = [ts_tasks EXCEPT ![ts_turns[t].task] = new]
        BY <3>2
      <4>2. PICK m \in Nat : DOMAIN ts_tasks = 1..m /\ ts_tasks = [i \in 1..m |-> ts_tasks[i]]
        BY DEF TaskInv, IsTaskList
      <4>3. ts_tasks' = [i \in 1..m |-> ts_tasks'[i]] /\ DOMAIN ts_tasks' = 1..m
        BY <4>1, <4>2
      <4>. QED  BY <3>2, <4>2, <4>3 DEF Tasks!ActiveAfter, IsTaskList
    <3>. QED  BY <1>6, <3>1, <3>2 DEF Tasks!End
  <2>3. \A saved \in ts_file' : IsTaskList(saved.tasks) /\ saved.active \in Nat
    <3>1. ts_file' = {Tasks!Saved(ts_tasks', ts_active')} \/ ts_file' \in {ts_file, {}}
      BY <1>6 DEF Tasks!End, Tasks!Save
    <3>. QED  BY <2>2, <3>1 DEF Tasks!Saved, TaskInv
  <2>. QED  BY <2>1, <2>2, <2>3 DEF TaskInv, Tasks!OwnTaskShown, Tasks!Idle
<1>7. CASE UNCHANGED Tasks!vars
  BY <1>7 DEF Tasks!vars, TaskInv, Tasks!OwnTaskShown
<1>. QED  BY <1>1, <1>2, <1>3, <1>4, <1>5, <1>6, <1>7 DEF Tasks!Next

LEMMA TaskInit == Tasks!Init => TaskInv
<1>1. IsTaskList(<<>>)
  BY DEF IsTaskList
<1>. QED  BY <1>1 DEF Tasks!Init, TaskInv, Tasks!OwnTaskShown, Tasks!Saved, Tasks!Idle

LEMMA TaskShows == TaskInv => Tasks!OwnTaskShown
BY DEF TaskInv

LEMMA TasksSteps == [AllNext]_All => [Tasks!Next]_(Tasks!vars)
BY DEF AllNext, All, Tasks!vars, tasksVars

(* For any set of turns and any list: a prompt tells of the task its own turn *)
(* began, unless another turn began one in between.                           *)
THEOREM PromptShowsOwnTask == AllSpec => []OwnTaskShown
<1>1. AllInit => TaskInv
  BY TaskInit DEF AllInit
<1>2. TaskInv /\ [AllNext]_All => TaskInv'
  BY TaskStep, TasksSteps
<1>3. TaskInv => OwnTaskShown
  BY TaskShows DEF OwnTaskShown
<1>. QED  BY <1>1, <1>2, <1>3, PTL DEF AllSpec

------------------------------------------------------------------------------
(* The rules and their files. *)

\* A finite, nonempty set of integers has a greatest element.
LEMMA GreatestElement ==
    ASSUME NEW S \in SUBSET Int, IsFiniteSet(S), S # {}
    PROVE  Rules!Max(S) \in S /\ \A y \in S : y <= Rules!Max(S)
<1> DEFINE HasMax(T) == \E x \in T : \A y \in T : y <= x
           bad == {T \in FiniteSubsetsOf(S) : T # {} /\ ~HasMax(T)}
<1>1. bad = {}
  <2> SUFFICES ASSUME bad # {} PROVE FALSE
    OBVIOUS
  <2>1. IsWellFoundedOn(StrictSubsetOrdering(S), FiniteSubsetsOf(S))
    BY FS_StrictSubsetOrderingWellFounded
  <2>2. bad \subseteq FiniteSubsetsOf(S)
    OBVIOUS
  <2>3. PICK T \in bad : \A U \in bad : ~(<<U, T>> \in StrictSubsetOrdering(S))
    <3> HIDE DEF bad
    <3>. QED  BY <2>1, <2>2, WFMin
  <2>4. T \in SUBSET S /\ IsFiniteSet(T) /\ T # {} /\ ~HasMax(T)
    BY DEF FiniteSubsetsOf
  <2>5. PICK x \in T : TRUE
    BY <2>4
  <2>6. T \ {x} \in SUBSET S /\ IsFiniteSet(T \ {x})
    BY <2>4, FS_RemoveElement
  <2>7. T \ {x} \notin bad
    BY <2>3, <2>4, <2>5, <2>6 DEF StrictSubsetOrdering
  <2>8. T \ {x} = {} \/ HasMax(T \ {x})
    BY <2>6, <2>7 DEF FiniteSubsetsOf
  <2>9. T \subseteq Int
    BY <2>4
  <2>10. CASE T \ {x} = {}
    <3>1. \A y \in T : y <= x
      BY <2>5, <2>9, <2>10
    <3>. QED  BY <2>4, <2>5, <3>1
  <2>11. CASE HasMax(T \ {x})
    <3>1. PICK z \in T \ {x} : \A y \in T \ {x} : y <= z
      BY <2>11
    <3>2. CASE x <= z
      <4>1. \A y \in T : y <= z
        BY <3>1, <3>2
      <4>. QED  BY <2>4, <3>1, <4>1
    <3>3. CASE z <= x
      <4>1. \A y \in T : y <= x
        BY <2>5, <2>9, <3>1, <3>3
      <4>. QED  BY <2>4, <2>5, <4>1
    <3>. QED  BY <2>5, <2>9, <3>1, <3>2, <3>3
  <2>. QED  BY <2>8, <2>10, <2>11
<1>2. HasMax(S)
  BY <1>1 DEF FiniteSubsetsOf
<1>. QED  BY <1>2 DEF Rules!Max

Times == {ru_dirTime} \cup {ru_files[f].time : f \in ru_Files}
RuleInv ==
    /\ ru_files \in [ru_Files -> [time : Nat, kind : Rules!Kinds]] /\ ru_dirTime \in Nat
    /\ ru_cacheTime \in Nat /\ (ru_cacheTime = 0 \/ \E t \in Times : ru_cacheTime <= t)
    /\ ru_todo \subseteq ru_Files
    /\ ~ru_raised /\ ru_cacheTime >= Rules!Newest => ru_cache \cup {Rules!Version(f) : f \in {g \in ru_todo : ru_files[g].kind = "rule"}} = Rules!Rules_

\* The last of the directory's time and the times of some files.
LEMMA LastTime ==
    ASSUME NEW F, IsFiniteSet(F), NEW g \in [F -> Nat], NEW d \in Nat
    PROVE  LET S == {d} \cup {g[f] : f \in F} IN
           Rules!Max(S) \in Nat /\ Rules!Max(S) \in S /\ \A t \in S : t <= Rules!Max(S)
<1> DEFINE image == {g[f] : f \in F}
<1>1. g \in Surjection(F, image)
  BY DEF Surjection
<1>2. IsFiniteSet(image)
  BY <1>1, FS_Surjection
<1>3. IsFiniteSet({d} \cup image)
  BY <1>2, FS_Singleton, FS_Union
<1>4. {d} \cup image \in SUBSET Int /\ {d} \cup image # {} /\ {d} \cup image \subseteq Nat
  OBVIOUS
<1> HIDE DEF image
<1>5. LET S == {d} \cup image IN
      Rules!Max(S) \in Nat /\ Rules!Max(S) \in S /\ \A t \in S : t <= Rules!Max(S)
  BY <1>3, <1>4, GreatestElement
<1>. QED  BY <1>5 DEF image

LEMMA NewestIs ==
    ASSUME IsFiniteSet(ru_Files), NEW fs \in [ru_Files -> [time : Nat, kind : Rules!Kinds]], NEW d \in Nat
    PROVE  /\ LET F == {f \in ru_Files : fs[f].kind # "none"}
                  S == {d} \cup {fs[f].time : f \in F}
              IN  Rules!Max(S) \in Nat /\ Rules!Max(S) \in S /\ \A t \in S : t <= Rules!Max(S)
           /\ LET S == {d} \cup {fs[f].time : f \in ru_Files}
              IN  Rules!Max(S) \in Nat /\ Rules!Max(S) \in S /\ \A t \in S : t <= Rules!Max(S)
<1>1. ASSUME NEW F \in SUBSET ru_Files
      PROVE  LET S == {d} \cup {fs[f].time : f \in F} IN
             Rules!Max(S) \in Nat /\ Rules!Max(S) \in S /\ \A t \in S : t <= Rules!Max(S)
  <2> DEFINE g == [f \in F |-> fs[f].time]
  <2>1. IsFiniteSet(F)
    BY FS_Subset
  <2>2. g \in [F -> Nat]
    OBVIOUS
  <2>3. {g[f] : f \in F} = {fs[f].time : f \in F}
    OBVIOUS
  <2>4. LET S == {d} \cup {g[f] : f \in F} IN
        Rules!Max(S) \in Nat /\ Rules!Max(S) \in S /\ \A t \in S : t <= Rules!Max(S)
    <3> HIDE DEF g
    <3>. QED  BY <2>1, <2>2, LastTime
  <2>. QED  BY <2>3, <2>4 DEF g
<1>2. {f \in ru_Files : fs[f].kind # "none"} \in SUBSET ru_Files /\ ru_Files \in SUBSET ru_Files
  OBVIOUS
<1>. QED  BY <1>1, <1>2

LEMMA RuleStep ==
    ASSUME IsFiniteSet(ru_Files), RuleInv, [Rules!Next]_(Rules!vars)
    PROVE  RuleInv'
<1>1. ASSUME NEW f \in ru_Files, NEW k \in Rules!Kinds, Rules!Change(f, k) PROVE RuleInv'
  <2>1. /\ ru_files' = [ru_files EXCEPT ![f] = [time |-> Rules!Now, kind |-> k]]
        /\ ru_dirTime' = IF k = "none" \/ f \notin Rules!Present THEN Rules!Now ELSE ru_dirTime
        /\ UNCHANGED <<ru_cache, ru_cacheTime, ru_todo, ru_raised>>
    BY <1>1 DEF Rules!Change
  <2>2. Rules!Now \in Nat /\ \A t \in Times : t < Rules!Now
    <3> DEFINE S == {ru_dirTime} \cup {ru_files[g].time : g \in ru_Files}
    <3>1. Rules!Max(S) \in Nat /\ Rules!Max(S) \in S /\ \A t \in S : t <= Rules!Max(S)
      BY NewestIs DEF RuleInv
    <3>2. Times = S /\ Rules!Now = 1 + Rules!Max(S) /\ S \subseteq Nat
      BY DEF Times, Rules!Now, RuleInv
    <3> HIDE DEF S
    <3>. QED  BY <3>1, <3>2
  <2>3. ru_files' \in [ru_Files -> [time : Nat, kind : Rules!Kinds]] /\ ru_dirTime' \in Nat
    BY <2>1, <2>2 DEF RuleInv
  <2>4. Rules!Newest' >= Rules!Now
    <3>1. /\ ru_dirTime' <= Rules!Newest' /\ Rules!Newest' \in Nat
          /\ \A g \in Rules!Present' : ru_files'[g].time <= Rules!Newest'
      BY <2>3, NewestIs DEF Rules!Newest, Rules!Present
    <3>2. CASE k = "none" \/ f \notin Rules!Present
      BY <2>1, <2>2, <3>1, <3>2
    <3>3. CASE k # "none"
      <4>1. f \in Rules!Present' /\ ru_files'[f].time = Rules!Now
        BY <2>1, <2>3, <3>3 DEF Rules!Present, RuleInv
      <4>. QED  BY <2>2, <3>1, <4>1
    <3>. QED  BY <3>2, <3>3
  <2>5. ru_cacheTime < Rules!Now
    <3>1. CASE ru_cacheTime = 0
      <4>1. ru_dirTime < Rules!Now /\ ru_dirTime \in Nat
        BY <2>2 DEF RuleInv, Times
      <4>. QED  BY <2>2, <3>1, <4>1
    <3>2. ASSUME NEW t \in Times, ru_cacheTime <= t PROVE ru_cacheTime < Rules!Now
      <4>1. t \in Nat /\ t < Rules!Now /\ ru_cacheTime \in Nat
        BY <2>2 DEF RuleInv, Times
      <4>. QED  BY <2>2, <3>2, <4>1
    <3>. QED  BY <3>1, <3>2 DEF RuleInv
  <2>6. Rules!Newest' \in Nat
    BY <2>3, NewestIs DEF Rules!Newest, Rules!Present
  <2>7. ~(ru_cacheTime' >= Rules!Newest')
    BY <2>1, <2>2, <2>4, <2>5, <2>6 DEF RuleInv
  <2>8. Rules!Now \in Times'
    BY <2>1 DEF Times, RuleInv
  <2>. QED  BY <2>1, <2>2, <2>3, <2>5, <2>7, <2>8 DEF RuleInv
<1>2. CASE Rules!Look
  <2>1. Rules!Newest \in Nat /\ ru_dirTime <= Rules!Newest /\ UNCHANGED <<ru_files, ru_dirTime>>
        /\ \A f \in Rules!Present : ru_files[f].time <= Rules!Newest
    BY <1>2, NewestIs DEF RuleInv, Rules!Look, Rules!disk, Rules!Newest, Rules!Present
  <2>2. UNCHANGED <<Rules!Newest, Rules!Present, Rules!Rules_, Times>>
    BY <2>1 DEF Rules!Newest, Rules!Present, Rules!Rules_, Rules!Version, Times
  <2>3. CASE UNCHANGED <<ru_cache, ru_cacheTime, ru_todo, ru_raised>>
    BY <2>1, <2>2, <2>3 DEF RuleInv, Rules!Version
  <2>4. CASE ru_cache' = {} /\ ru_cacheTime' = Rules!Newest /\ ru_todo' = Rules!Present /\ ru_raised' = FALSE
    <3>1. {Rules!Version(f) : f \in {g \in Rules!Present : ru_files[g].kind = "rule"}} = Rules!Rules_
      BY DEF Rules!Rules_, Rules!Present, Rules!Kinds
    <3>2. \E t \in Times : Rules!Newest <= t
      <4>1. Rules!Newest \in {ru_dirTime} \cup {ru_files[f].time : f \in Rules!Present}
        BY NewestIs DEF RuleInv, Rules!Newest, Rules!Present
      <4>2. Rules!Newest \in Times
        BY <4>1 DEF Times, Rules!Present
      <4>. QED  BY <2>1, <4>2
    <3>. QED  BY <2>1, <2>2, <2>4, <3>1, <3>2 DEF RuleInv, Rules!Version, Rules!Present
  <2>. QED  BY <1>2, <2>3, <2>4 DEF Rules!Look
<1>3. ASSUME NEW f \in ru_Files, Rules!Load(f) PROVE RuleInv'
  <2>1. UNCHANGED <<ru_files, ru_dirTime, ru_cacheTime>> /\ f \in ru_todo
    BY <1>3 DEF Rules!Load, Rules!disk
  <2>2. UNCHANGED <<Rules!Newest, Rules!Rules_, Times>>
    BY <2>1 DEF Rules!Newest, Rules!Present, Rules!Rules_, Rules!Version, Times
  <2>3. CASE ru_files[f].kind = "rule" /\ ru_cache' = ru_cache \cup {Rules!Version(f)} /\ ru_todo' = ru_todo \ {f} /\ UNCHANGED ru_raised
    BY <2>1, <2>2, <2>3 DEF RuleInv, Rules!Version
  <2>4. CASE ru_raised' = TRUE /\ ru_todo' = {} /\ UNCHANGED ru_cache
    BY <2>1, <2>2, <2>4 DEF RuleInv
  <2>5. CASE ru_files[f].kind # "rule" /\ ru_todo' = ru_todo \ {f} /\ UNCHANGED <<ru_cache, ru_raised>>
    BY <2>1, <2>2, <2>5 DEF RuleInv, Rules!Version
  <2>. QED  BY <1>3, <2>3, <2>4, <2>5 DEF Rules!Load
<1>4. ASSUME UNCHANGED <<ru_files, ru_dirTime, ru_cache, ru_cacheTime, ru_todo, ru_raised>> PROVE RuleInv'
  BY <1>4 DEF RuleInv, Rules!Newest, Rules!Present, Rules!Rules_, Rules!Version, Times
<1>5. ASSUME NEW rules, NEW long, Rules!Enrich(rules, long) PROVE RuleInv'
  BY <1>4, <1>5 DEF Rules!Enrich, Rules!disk
<1>6. ASSUME NEW batch, Rules!Refuse(batch) PROVE RuleInv'
  BY <1>4, <1>6 DEF Rules!Refuse, Rules!disk
<1>7. ASSUME NEW batch, NEW results, Rules!Run(batch, results) PROVE RuleInv'
  BY <1>4, <1>7 DEF Rules!Run, Rules!disk
<1>8. ASSUME NEW p, Rules!End(p) PROVE RuleInv'
  BY <1>4, <1>8 DEF Rules!End, Rules!disk
<1>9. CASE UNCHANGED Rules!vars
  BY <1>4, <1>9 DEF Rules!vars
<1>. QED  BY <1>1, <1>2, <1>3, <1>5, <1>6, <1>7, <1>8, <1>9 DEF Rules!Next

LEMMA RuleShows == ASSUME IsFiniteSet(ru_Files), RuleInv PROVE Rules!StaleIsNoticed
<1>1. Rules!Newest \in Nat
  BY NewestIs DEF RuleInv, Rules!Newest, Rules!Present
<1>. QED  BY <1>1 DEF RuleInv, Rules!StaleIsNoticed
LEMMA RuleInit == Rules!Init => RuleInv
BY DEF Rules!Init, RuleInv, Rules!Kinds, Rules!Rules_

LEMMA RulesSteps == [AllNext]_All => [Rules!Next]_(Rules!vars)
BY DEF AllNext, All, Rules!vars, rulesVars, Rules!disk, Rules!turn

(* For any finite set of files: rules in memory that differ from their files  *)
(* are older than the newest of them, so that the next turn loads them again. *)
THEOREM StaleRulesAreNoticed ==
    ASSUME IsFiniteSet(ru_Files)
    PROVE  AllSpec => []StaleIsNoticed
<1>1. AllInit => RuleInv
  BY RuleInit DEF AllInit
<1>2. RuleInv /\ [AllNext]_All => RuleInv'
  BY RuleStep, RulesSteps
<1>3. RuleInv => StaleIsNoticed
  BY RuleShows DEF StaleIsNoticed
<1>. QED  BY <1>1, <1>2, <1>3, PTL DEF AllSpec

------------------------------------------------------------------------------
(* The vector index over the files of memory. *)

\* Every chunk is of a line that has been written. The lines of a file that is
\* gone, and what is flagged and still in its file, have been away.
Indexable == VectorStore!Sources \X (1..vs_lines)
IndexType ==
    /\ vs_lines \in Nat /\ vs_text \in [VectorStore!Sources -> SUBSET (1..vs_lines)]
    /\ vs_index \subseteq Indexable /\ vs_missed \subseteq Indexable /\ vs_flagged \subseteq Indexable /\ vs_away \subseteq Indexable
GoneIsAway == \A s \in VectorStore!Sources, n \in 1..vs_lines : s \in vs_gone /\ n \in vs_text[s] => <<s, n>> \in vs_away
FlaggedIsAway == \A s \in VectorStore!Sources, n \in 1..vs_lines : <<s, n>> \in vs_flagged /\ n \in vs_text[s] => <<s, n>> \in vs_away
Found == \A s \in vs_Bulk, n \in 1..vs_lines :
            n \in vs_text[s] => <<s, n>> \in vs_index \/ <<s, n>> \in vs_missed \/ <<s, n>> \in vs_away
IndexInv == IndexType /\ GoneIsAway /\ FlaggedIsAway /\ Found

LEMMA ChunksAre ==
    ASSUME IndexType, NEW s \in VectorStore!Sources
    PROVE  /\ VectorStore!Chunks(s) \subseteq Indexable
           /\ \A u \in VectorStore!Sources, n \in 1..vs_lines : <<u, n>> \in VectorStore!Chunks(s) <=> u = s /\ n \in vs_text[s]
BY DEF IndexType, Indexable, VectorStore!Chunks

LEMMA PurgeKeeps ==
    ASSUME IndexInv, NEW deleted \in BOOLEAN, NEW tooBig \in BOOLEAN, VectorStore!Purge(deleted, tooBig)
    PROVE  IndexInv'
<1> DEFINE left == IF deleted THEN vs_index \ vs_flagged ELSE vs_index
<1>1. /\ IndexType /\ GoneIsAway /\ FlaggedIsAway /\ Found /\ vs_Bulk \subseteq VectorStore!Sources
      /\ UNCHANGED <<vs_text, vs_gone, vs_lines>> /\ vs_flagged' = (IF deleted THEN {} ELSE vs_flagged)
  BY DEF IndexInv, VectorStore!Purge, VectorStore!Sources
<1>2. left \subseteq vs_index /\ \A c \in vs_index : c \in left \/ c \in vs_flagged
  OBVIOUS
<1>3. CASE tooBig
  <2>1. PICK kept \in {{}, left}, opens \in BOOLEAN, lost \in SUBSET vs_Bulk :
          LET filled == IF opens THEN VectorStore!Reindexed(lost) ELSE {} IN
          /\ vs_index' = kept \union filled
          /\ vs_missed' = (vs_missed \union (IF opens THEN UNION {VectorStore!Chunks(s) : s \in lost} ELSE left)) \ vs_index'
          /\ vs_away' = vs_away \ (filled \ vs_flagged')
    BY <1>3 DEF VectorStore!Purge
  <2> DEFINE filled == IF opens THEN VectorStore!Reindexed(lost) ELSE {}
  <2>2. vs_index' = kept \union filled /\ vs_away' = vs_away \ (filled \ vs_flagged')
    BY <2>1
  <2>3. filled \subseteq Indexable
    BY <1>1, ChunksAre DEF VectorStore!Reindexed
  <2>4. UNION {VectorStore!Chunks(s) : s \in lost} \subseteq Indexable
    BY <1>1, ChunksAre
  <2>5. \A s \in VectorStore!Sources, n \in 1..vs_lines : <<s, n>> \in filled => s \notin vs_gone
    <3>1. ASSUME NEW s \in VectorStore!Sources, NEW n \in 1..vs_lines, <<s, n>> \in filled PROVE s \notin vs_gone
      <4>1. PICK u \in vs_Bulk \ (lost \union vs_gone) : <<s, n>> \in VectorStore!Chunks(u)
        BY <3>1 DEF VectorStore!Reindexed
      <4>. QED  BY <1>1, <4>1, ChunksAre
    <3>. QED  BY <3>1
  <2>6. ASSUME opens, NEW s \in vs_Bulk, NEW n \in 1..vs_lines, n \in vs_text[s], s \notin vs_gone
        PROVE  <<s, n>> \in filled \/ <<s, n>> \in UNION {VectorStore!Chunks(u) : u \in lost}
    <3>1. <<s, n>> \in VectorStore!Chunks(s)
      BY <1>1, <2>6, ChunksAre
    <3>. QED  BY <2>6, <3>1 DEF VectorStore!Reindexed
  <2> HIDE DEF filled, left
  <2>7. IndexType'
    <3>1. /\ vs_index \subseteq Indexable /\ vs_missed \subseteq Indexable
          /\ vs_flagged \subseteq Indexable /\ vs_away \subseteq Indexable
      BY <1>1 DEF IndexType
    <3>2. vs_index' \subseteq Indexable /\ vs_away' \subseteq Indexable /\ vs_flagged' \subseteq Indexable
      BY <1>1, <1>2, <2>2, <2>3, <3>1
    <3>3. vs_missed' \subseteq vs_missed \union (UNION {VectorStore!Chunks(s) : s \in lost}) \union left
      BY <2>1
    <3>4. vs_missed' \subseteq Indexable
      BY <1>2, <2>4, <3>1, <3>3
    <3>5. Indexable' = Indexable
      BY <1>1 DEF Indexable
    <3>. QED  BY <1>1, <3>2, <3>4, <3>5 DEF IndexType
  <2>8. GoneIsAway'
    BY <1>1, <2>2, <2>5 DEF GoneIsAway
  <2>9. FlaggedIsAway'
    BY <1>1, <2>2 DEF FlaggedIsAway
  <2>10. ASSUME NEW s \in vs_Bulk, NEW n \in 1..vs_lines, n \in vs_text[s]
         PROVE  <<s, n>> \in vs_index' \/ <<s, n>> \in vs_missed' \/ <<s, n>> \in vs_away'
    <3>1. CASE s \in vs_gone
      BY <1>1, <2>8, <2>10, <3>1 DEF GoneIsAway
    <3>2. CASE s \notin vs_gone /\ opens
      BY <2>1, <2>2, <2>6, <2>10, <3>2
    <3>3. CASE ~opens
      <4>1. filled = {} /\ vs_away' = vs_away /\ vs_missed' = (vs_missed \union left) \ vs_index'
        BY <2>1, <2>2, <3>3 DEF filled
      <4>2. <<s, n>> \in vs_index \/ <<s, n>> \in vs_missed \/ <<s, n>> \in vs_away
        BY <1>1, <2>10 DEF Found
      <4>3. <<s, n>> \in vs_flagged => <<s, n>> \in vs_away
        BY <1>1, <2>10 DEF FlaggedIsAway
      <4>. QED  BY <1>2, <4>1, <4>2, <4>3
    <3>. QED  BY <3>1, <3>2, <3>3
  <2>. QED  BY <1>1, <2>7, <2>8, <2>9, <2>10 DEF IndexInv, Found
<1>4. CASE ~tooBig
  <2>1. vs_index' = left /\ UNCHANGED <<vs_missed, vs_away>>
    BY <1>4 DEF VectorStore!Purge
  <2>2. IndexType'
    BY <1>1, <1>2, <2>1 DEF IndexType, Indexable
  <2>3. GoneIsAway' /\ FlaggedIsAway'
    BY <1>1, <2>1 DEF GoneIsAway, FlaggedIsAway
  <2>4. Found'
    BY <1>1, <1>2, <2>1 DEF Found, FlaggedIsAway
  <2>. QED  BY <2>2, <2>3, <2>4 DEF IndexInv
<1>. QED  BY <1>3, <1>4

LEMMA WriteKeeps ==
    ASSUME IndexInv, NEW s \in VectorStore!Sources, NEW ok \in BOOLEAN, VectorStore!Write(s, ok) PROVE IndexInv'
<1> DEFINE old == IF s \in vs_gone THEN {} ELSE vs_text[s]
<1>1. /\ IndexType /\ GoneIsAway /\ FlaggedIsAway /\ Found /\ vs_Bulk \subseteq VectorStore!Sources
      /\ vs_lines' = vs_lines + 1 /\ vs_text' = [vs_text EXCEPT ![s] = old \cup {vs_lines'}]
      /\ vs_gone' = vs_gone \ {s} /\ UNCHANGED <<vs_flagged, vs_away>>
      /\ \/ vs_index' = vs_index \cup {<<s, vs_lines'>>} /\ vs_missed' = vs_missed
         \/ vs_index' = vs_index /\ vs_missed' = vs_missed \cup {<<s, vs_lines'>>}
  BY DEF IndexInv, VectorStore!Write, VectorStore!Ingested, VectorStore!Sources
<1>2. /\ vs_lines' \in Nat /\ 1..vs_lines \subseteq 1..vs_lines' /\ vs_lines' \in 1..vs_lines' /\ vs_lines' \notin 1..vs_lines
      /\ \A n \in 1..vs_lines' : n \in 1..vs_lines \/ n = vs_lines'
  BY <1>1 DEF IndexType
<1>3. old \subseteq vs_text[s] /\ old \subseteq 1..vs_lines /\ vs_text \in [VectorStore!Sources -> SUBSET (1..vs_lines)]
  BY <1>1 DEF IndexType
<1> HIDE DEF old
<1>4. vs_text' \in [VectorStore!Sources -> SUBSET (1..vs_lines')]
  BY <1>1, <1>2, <1>3
<1>5. \A u \in VectorStore!Sources, n \in 1..vs_lines : n \in vs_text'[u] => n \in vs_text[u]
  BY <1>1, <1>2, <1>3
<1>6. \A u \in VectorStore!Sources : vs_lines' \in vs_text'[u] => u = s
  BY <1>1, <1>2, <1>3
<1>7. <<s, vs_lines'>> \in vs_index' \/ <<s, vs_lines'>> \in vs_missed'
  BY <1>1
<1>8. IndexType'
  <2>1. Indexable \subseteq Indexable' /\ <<s, vs_lines'>> \in Indexable'
    BY <1>2 DEF Indexable, VectorStore!Sources
  <2>. QED  BY <1>1, <1>2, <1>4, <2>1 DEF IndexType
<1>9. \A u \in VectorStore!Sources : <<u, vs_lines'>> \notin vs_flagged'
  BY <1>1, <1>2 DEF IndexType, Indexable
<1>10. GoneIsAway'
  BY <1>1, <1>2, <1>5, <1>6 DEF GoneIsAway, VectorStore!Sources
<1>11. FlaggedIsAway'
  BY <1>1, <1>2, <1>5, <1>9 DEF FlaggedIsAway, VectorStore!Sources
<1>12. Found'
  <2>1. ASSUME NEW u \in vs_Bulk, NEW n \in 1..vs_lines', n \in vs_text'[u]
        PROVE  <<u, n>> \in vs_index' \/ <<u, n>> \in vs_missed' \/ <<u, n>> \in vs_away'
    <3>1. CASE n \in 1..vs_lines
      <4>1. n \in vs_text[u]
        BY <1>1, <1>5, <2>1, <3>1
      <4>. QED  BY <1>1, <3>1, <4>1 DEF Found
    <3>2. CASE n = vs_lines'
      BY <1>1, <1>6, <1>7, <2>1, <3>2
    <3>. QED  BY <1>2, <3>1, <3>2
  <2>. QED  BY <2>1 DEF Found
<1>. QED  BY <1>8, <1>10, <1>11, <1>12 DEF IndexInv

LEMMA IndexStep == ASSUME IndexInv, [VectorStore!Next]_(VectorStore!vars) PROVE IndexInv'
<1> USE DEF IndexInv
<1> vs_Bulk \subseteq VectorStore!Sources
  BY DEF VectorStore!Sources
<1>1. CASE VectorStore!Open
  <2>1. UNCHANGED <<vs_text, vs_gone, vs_flagged, vs_lines, vs_away>>
        /\ \/ UNCHANGED <<vs_index, vs_missed>>
           \/ vs_index' = {} /\ vs_missed' = vs_missed \union vs_index
    BY <1>1 DEF VectorStore!Open
  <2>. QED  BY <2>1 DEF IndexType, Indexable, GoneIsAway, FlaggedIsAway, Found
<1>2. CASE VectorStore!Restart
  BY <1>2 DEF VectorStore!Restart, IndexType, Indexable, GoneIsAway, FlaggedIsAway, Found
<1>3. ASSUME NEW s \in VectorStore!Sources, VectorStore!Remove(s) PROVE IndexInv'
  <2>1. vs_gone' = vs_gone \union {s} /\ vs_away' = vs_away \union VectorStore!Chunks(s)
        /\ UNCHANGED <<vs_text, vs_index, vs_flagged, vs_lines, vs_missed>>
    BY <1>3 DEF VectorStore!Remove
  <2>2. GoneIsAway'
    BY <2>1, ChunksAre DEF GoneIsAway, VectorStore!Sources
  <2>3. IndexType'
    BY <2>1, ChunksAre DEF IndexType, Indexable
  <2>4. FlaggedIsAway' /\ Found'
    BY <2>1 DEF FlaggedIsAway, Found
  <2>. QED  BY <2>2, <2>3, <2>4
<1>4. ASSUME NEW s \in VectorStore!Sources, VectorStore!Restore(s) PROVE IndexInv'
  BY <1>4 DEF VectorStore!Restore, IndexType, Indexable, GoneIsAway, FlaggedIsAway, Found
<1>5. ASSUME NEW s \in VectorStore!Sources, NEW n \in 1..vs_MaxLines, VectorStore!Forget(s, n) PROVE IndexInv'
  <2>1. /\ vs_text' = [vs_text EXCEPT ![s] = @ \ {n}] /\ vs_index \ {<<s, n>>} \subseteq vs_index'
        /\ vs_index' \subseteq vs_index
        /\ UNCHANGED <<vs_gone, vs_flagged, vs_lines, vs_missed, vs_away>>
    BY <1>5 DEF VectorStore!Forget
  <2>2. vs_text' \in [VectorStore!Sources -> SUBSET (1..vs_lines)] /\ n \notin vs_text'[s]
    BY <2>1 DEF IndexType
  <2>3. \A u \in VectorStore!Sources, m \in 1..vs_lines :
          m \in vs_text'[u] => m \in vs_text[u] /\ (<<u, m>> \in vs_index => <<u, m>> \in vs_index')
    BY <2>1, <2>2 DEF IndexType
  <2>4. IndexType'
    BY <2>1, <2>2 DEF IndexType, Indexable
  <2>5. GoneIsAway' /\ FlaggedIsAway' /\ Found'
    BY <2>1, <2>3 DEF GoneIsAway, FlaggedIsAway, Found
  <2>. QED  BY <2>4, <2>5
<1>6. ASSUME NEW found, VectorStore!Search(found) PROVE IndexInv'
  <2>1. VectorStore!Ghosts(found) \subseteq vs_index /\ \A c \in VectorStore!Ghosts(found) : c[1] \in vs_gone
    BY <1>6 DEF VectorStore!Search, VectorStore!Ghosts
  <2>2. \A s \in VectorStore!Sources, n \in 1..vs_lines : <<s, n>> \in VectorStore!Ghosts(found) => s \in vs_gone
    BY <2>1
  <2>3. vs_flagged' = vs_flagged \union VectorStore!Ghosts(found)
        /\ UNCHANGED <<vs_text, vs_gone, vs_index, vs_lines, vs_missed, vs_away>>
    BY <1>6 DEF VectorStore!Search
  <2>4. IndexType' /\ GoneIsAway' /\ Found'
    BY <2>1, <2>3 DEF IndexType, Indexable, GoneIsAway, Found
  <2>5. FlaggedIsAway'
    BY <2>2, <2>3 DEF FlaggedIsAway, GoneIsAway
  <2>. QED  BY <2>4, <2>5
<1>7. CASE UNCHANGED VectorStore!vars
  BY <1>7 DEF VectorStore!vars, IndexType, Indexable, GoneIsAway, FlaggedIsAway, Found
<1>. QED  BY <1>1, <1>2, <1>3, <1>4, <1>5, <1>6, <1>7, WriteKeeps, PurgeKeeps DEF VectorStore!Next

LEMMA IndexShows == IndexInv => VectorStore!Findable
<1> SUFFICES ASSUME IndexInv, NEW s \in vs_Bulk \ vs_gone, NEW n \in vs_text[s]
             PROVE  <<s, n>> \in vs_index \union vs_missed \union vs_away
  BY DEF VectorStore!Findable, VectorStore!Chunks
<1>1. n \in 1..vs_lines
  BY DEF IndexInv, IndexType, VectorStore!Sources
<1>. QED  BY <1>1 DEF IndexInv, Found
LEMMA IndexInit == VectorStore!Init => IndexInv
BY DEF VectorStore!Init, IndexInv, IndexType, Indexable, GoneIsAway, FlaggedIsAway, Found, VectorStore!Sources

LEMMA VectorStoreSteps == [AllNext]_All => [VectorStore!Next]_(VectorStore!vars)
BY DEF AllNext, All, VectorStore!vars, vectorstoreVars

(* For any sources: whatever a purge deletes, wipes, fails to open or fails to *)
(* fill again, a line of a bulk source that is in its file is outside the index *)
(* only when its ingest or the filling of a wiped index failed since it was     *)
(* indexed, or when its file has been away (vector_store.py:488-524).           *)
THEOREM IndexedIsFindable == AllSpec => []Findable
<1>1. AllInit => IndexInv
  BY IndexInit DEF AllInit
<1>2. IndexInv /\ [AllNext]_All => IndexInv'
  BY IndexStep, VectorStoreSteps
<1>3. IndexInv => Findable
  BY IndexShows DEF Findable
<1>. QED  BY <1>1, <1>2, <1>3, PTL DEF AllSpec

------------------------------------------------------------------------------
(* The entity graph. *)

IsGraph(g) == g = [triples |-> g.triples, aliases |-> g.aliases, index |-> g.index,
                   typed |-> g.typed, summaries |-> g.summaries]
Indexed(g) == /\ DOMAIN g.index = EntityGraph!Entities(g)
              /\ \A n \in EntityGraph!Named(g) : g.index[n] = EntityGraph!Places(g, n)
\* What is written, what the loader will write next, and what a consolidation
\* will after its rewriting, is indexed.
GraphInv ==
    /\ IsGraph(eg_file) /\ Indexed(eg_file)
    /\ \A g \in eg_loader : IsGraph(g) /\ Indexed(g)
    /\ eg_jobs = [j \in eg_Jobs |-> eg_jobs[j]]
    /\ \A j \in eg_Jobs : /\ eg_jobs[j] = [pc |-> eg_jobs[j].pc, graph |-> eg_jobs[j].graph, added |-> eg_jobs[j].added]
                          /\ IsGraph(eg_jobs[j].graph)
                          /\ eg_jobs[j].pc = "summarise" => Indexed(eg_jobs[j].graph)

LEMMA WrittenIndexed == ASSUME NEW names PROVE IsGraph(EntityGraph!Written(names)) /\ Indexed(EntityGraph!Written(names))
<1>1. EntityGraph!Range(<<>>) = {}
  BY DEF EntityGraph!Range
<1>2. /\ EntityGraph!Written(names).triples = <<>> /\ EntityGraph!Written(names).typed = names
      /\ EntityGraph!Written(names).index = [n \in names |-> {}] /\ IsGraph(EntityGraph!Written(names))
  BY DEF EntityGraph!Written, IsGraph
<1>3. EntityGraph!Named(EntityGraph!Written(names)) = {}
  BY <1>1, <1>2 DEF EntityGraph!Named
<1>. QED  BY <1>2, <1>3 DEF Indexed, EntityGraph!Entities

LEMMA AtIs ==
    ASSUME NEW pc, pc # "summarise"
    PROVE  /\ EntityGraph!At(pc) = [pc |-> EntityGraph!At(pc).pc, graph |-> EntityGraph!At(pc).graph,
                                    added |-> EntityGraph!At(pc).added]
           /\ IsGraph(EntityGraph!At(pc).graph) /\ EntityGraph!At(pc).pc # "summarise"
<1>1. IsGraph(EntityGraph!Empty)
  BY WrittenIndexed DEF EntityGraph!Empty
<1>. QED  BY <1>1 DEF EntityGraph!At

LEMMA ReindexedIsIndexed ==
    ASSUME NEW g, IsGraph(g) PROVE IsGraph(EntityGraph!Reindexed(g)) /\ Indexed(EntityGraph!Reindexed(g))
<1> DEFINE index == [n \in EntityGraph!Entities(g) |->
                       IF n \in EntityGraph!Named(g) THEN EntityGraph!Places(g, n) ELSE g.index[n]]
           kept  == g.summaries \cap EntityGraph!Entities(g)
<1>1. EntityGraph!Reindexed(g) = [g EXCEPT !.index = index, !.summaries = kept]
  BY DEF EntityGraph!Reindexed
<1>2. DOMAIN index = EntityGraph!Entities(g) /\ \A n \in EntityGraph!Named(g) : index[n] = EntityGraph!Places(g, n)
  BY DEF EntityGraph!Entities
<1> HIDE DEF index, kept
<1>3. EntityGraph!Reindexed(g) = [triples |-> g.triples, aliases |-> g.aliases, index |-> index,
                                  typed |-> g.typed, summaries |-> kept]
  BY <1>1 DEF IsGraph
<1>4. EntityGraph!Named(EntityGraph!Reindexed(g)) = EntityGraph!Named(g) /\ \A n : EntityGraph!Places(EntityGraph!Reindexed(g), n) = EntityGraph!Places(g, n)
  BY <1>3 DEF EntityGraph!Named, EntityGraph!Places
<1>5. EntityGraph!Entities(EntityGraph!Reindexed(g)) = EntityGraph!Entities(g)
  BY <1>3, <1>4 DEF EntityGraph!Entities
<1>. QED  BY <1>2, <1>3, <1>4, <1>5 DEF IsGraph, Indexed

\* What only takes in or leaves out an entity that no triple names stays indexed.
LEMMA CardIsIndexed ==
    ASSUME NEW g, IsGraph(g), Indexed(g), NEW c, c \notin EntityGraph!Named(g), NEW typed, NEW index, NEW summaries,
           \/ typed = g.typed \ {c} /\ DOMAIN index = DOMAIN g.index \ {c}
           \/ typed = g.typed \cup {c} /\ DOMAIN index = DOMAIN g.index \cup {c},
           \A n \in EntityGraph!Named(g) : index[n] = g.index[n],
           NEW h, h = [triples |-> g.triples, aliases |-> g.aliases, index |-> index,
                       typed |-> typed, summaries |-> summaries]
    PROVE  IsGraph(h) /\ Indexed(h)
<1>1. EntityGraph!Named(h) = EntityGraph!Named(g) /\ \A n : EntityGraph!Places(h, n) = EntityGraph!Places(g, n)
  BY DEF EntityGraph!Named, EntityGraph!Places
<1>2. DOMAIN h.index = EntityGraph!Entities(h)
  BY <1>1 DEF Indexed, EntityGraph!Entities
<1>3. \A n \in EntityGraph!Named(h) : h.index[n] = EntityGraph!Places(h, n)
  BY <1>1 DEF Indexed
<1>. QED  BY <1>2, <1>3 DEF IsGraph, Indexed

LEMMA DisambiguatedIsGraph == ASSUME NEW g, IsGraph(g) PROVE IsGraph(EntityGraph!Disambiguated(g))
<1> DEFINE new  == {n \in EntityGraph!Named(g) : ~EntityGraph!IsAlias(g, n) /\ EntityGraph!Longest(g, n) > 0}
           aliases == [n \in EntityGraph!NameSet |-> IF n \in new THEN eg_Names[EntityGraph!Longest(g, n)] ELSE g.aliases[n]]
           with == [g EXCEPT !.aliases = aliases]
           triples == [i \in DOMAIN g.triples |->
                         <<EntityGraph!Normal(with, g.triples[i][1]), EntityGraph!Normal(with, g.triples[i][2])>>]
<1>1. EntityGraph!Disambiguated(g) = IF new = {} THEN g ELSE [with EXCEPT !.triples = triples]
  BY DEF EntityGraph!Disambiguated
<1> HIDE DEF aliases, triples, new
<1>. QED  BY <1>1 DEF IsGraph

LEMMA AddTripleIsGraph == ASSUME NEW g, NEW s, NEW o, IsGraph(g) PROVE IsGraph(EntityGraph!AddTriple(g, s, o))
<1> DEFINE all == Append(g.triples, <<EntityGraph!Normal(g, s), EntityGraph!Normal(g, o)>>)
           kept == IF Len(all) > eg_MaxTriples THEN Tail(all) ELSE all
<1>1. EntityGraph!AddTriple(g, s, o) \in {g, [g EXCEPT !.triples = kept]}
  BY DEF EntityGraph!AddTriple
<1> HIDE DEF kept
<1>. QED  BY <1>1 DEF IsGraph

LEMMA GraphStep == ASSUME GraphInv, [EntityGraph!Next]_(EntityGraph!vars) PROVE GraphInv'
<1>1. ASSUME NEW j \in eg_Jobs, EntityGraph!Start(j) PROVE GraphInv'
  BY <1>1 DEF EntityGraph!Start, GraphInv
<1>2. ASSUME NEW j \in eg_Jobs, NEW s, NEW o, EntityGraph!Extract(j, s, o) PROVE GraphInv'
  <2>1. PICK g, n : /\ g = EntityGraph!AddTriple(eg_jobs[j].graph, s, o) /\ IsGraph(g)
                    /\ n = eg_jobs[j].added + 1
    BY AddTripleIsGraph DEF GraphInv
  <2>2. eg_jobs' = [eg_jobs EXCEPT ![j] = [eg_jobs[j] EXCEPT !.graph = g, !.added = n]]
    BY <1>2, <2>1 DEF EntityGraph!Extract, GraphInv
  <2>3. /\ eg_jobs[j] = [pc |-> "extract", graph |-> eg_jobs[j].graph, added |-> eg_jobs[j].added]
        /\ UNCHANGED <<eg_file, eg_loader>>
    BY <1>2 DEF EntityGraph!Extract, GraphInv
  <2>4. eg_jobs' = [eg_jobs EXCEPT ![j] = [pc |-> "extract", graph |-> g, added |-> n]]
    <3>1. PICK h, k, r : r = eg_jobs[j] /\ r = [pc |-> "extract", graph |-> h, added |-> k]
      BY <2>3
    <3>2. r = [pc |-> "extract", graph |-> h, added |-> k]
      BY <3>1
    <3>3. PICK new : new = [r EXCEPT !.graph = g, !.added = n]
      OBVIOUS
    <3>4. new = [pc |-> "extract", graph |-> g, added |-> n]
      BY <3>2, <3>3
    <3>. QED  BY <2>2, <3>1, <3>3, <3>4
  <2>. QED  BY <2>1, <2>3, <2>4 DEF GraphInv
<1>3. ASSUME NEW j \in eg_Jobs, EntityGraph!Extracted(j) PROVE GraphInv'
  <2>1. CASE eg_jobs[j].added = 0
    <3>1. PICK g : g = EntityGraph!Reindexed(eg_jobs[j].graph) /\ IsGraph(g) /\ Indexed(g)
      BY ReindexedIsIndexed DEF GraphInv
    <3>2. eg_jobs' = [eg_jobs EXCEPT ![j] = [pc |-> "summarise", graph |-> g, added |-> eg_jobs[j].added]]
      BY <1>3, <2>1, <3>1 DEF EntityGraph!Extracted, GraphInv
    <3>. QED  BY <1>3, <2>1, <3>1, <3>2 DEF EntityGraph!Extracted, GraphInv
  <2>2. CASE eg_jobs[j].added # 0
    <3>1. PICK g : g = EntityGraph!Rewritten(eg_jobs[j].graph) /\ IsGraph(g) /\ Indexed(g)
      BY ReindexedIsIndexed, DisambiguatedIsGraph DEF EntityGraph!Rewritten, GraphInv
    <3>2. eg_jobs' = [eg_jobs EXCEPT ![j] = [pc |-> "summarise", graph |-> g, added |-> eg_jobs[j].added]]
          /\ eg_file' = g /\ UNCHANGED eg_loader
      BY <1>3, <2>2, <3>1 DEF EntityGraph!Extracted, GraphInv
    <3>. QED  BY <3>1, <3>2 DEF GraphInv
  <2>. QED  BY <2>1, <2>2 DEF GraphInv
<1>4. ASSUME NEW j \in eg_Jobs, NEW names, EntityGraph!Summarise(j, names) PROVE GraphInv'
  <2>1. PICK old : old = eg_jobs[j].graph /\ IsGraph(old) /\ Indexed(old)
    BY <1>4 DEF EntityGraph!Summarise, GraphInv
  <2>2. PICK g : g = [old EXCEPT !.summaries = @ \cup names] OBVIOUS
  <2>3. g = [triples |-> old.triples, aliases |-> old.aliases, index |-> old.index,
             typed |-> old.typed, summaries |-> old.summaries \cup names]
    BY <2>1, <2>2 DEF IsGraph
  <2>4. IsGraph(g) /\ Indexed(g)
    BY <2>1, <2>3 DEF IsGraph, Indexed, EntityGraph!Entities, EntityGraph!Named, EntityGraph!Places
  <2>5. eg_file' \in {eg_file, g} /\ eg_jobs' = [eg_jobs EXCEPT ![j] = EntityGraph!At("done")] /\ UNCHANGED eg_loader
    BY <1>4, <2>1, <2>2 DEF EntityGraph!Summarise, GraphInv
  <2>. QED  BY <2>4, <2>5, AtIs DEF GraphInv
<1>5. CASE EntityGraph!Ask
  BY <1>5 DEF EntityGraph!Ask, GraphInv
<1>6. CASE EntityGraph!Restart
  <2>1. /\ eg_loader' = {} /\ UNCHANGED eg_file
        /\ eg_jobs' = [j \in eg_Jobs |-> IF eg_jobs[j].pc = "idle" THEN eg_jobs[j] ELSE EntityGraph!At("done")]
    BY <1>6 DEF EntityGraph!Restart
  <2>2. \A j \in eg_Jobs : eg_jobs'[j] \in {eg_jobs[j], EntityGraph!At("done")}
    BY <2>1
  <2>3. eg_jobs' = [j \in eg_Jobs |-> eg_jobs'[j]]
    BY <2>1
  <2>. QED  BY <2>1, <2>2, <2>3, AtIs DEF GraphInv
<1>7. CASE UNCHANGED EntityGraph!vars
  BY <1>7 DEF EntityGraph!vars, GraphInv
<1>8. PICK g : g = EntityGraph!Loaded /\ IsGraph(g) /\ Indexed(g)
  BY DEF EntityGraph!Loaded, GraphInv
<1>9. ASSUME NEW h, IsGraph(h), Indexed(h), eg_file' = h, eg_loader' = {h}, UNCHANGED eg_jobs PROVE GraphInv'
  BY <1>9 DEF GraphInv
<1>10. ASSUME NEW c, EntityGraph!DropCard(c) PROVE GraphInv'
  <2>1. PICK index : index = [n \in DOMAIN g.index \ {c} |-> g.index[n]] OBVIOUS
  <2>2. PICK h : h = [g EXCEPT !.index = index, !.typed = @ \ {c}, !.summaries = @ \ {c}] OBVIOUS
  <2>3. c \notin EntityGraph!Named(g) /\ eg_file' = h /\ eg_loader' = {h} /\ UNCHANGED eg_jobs
    BY <1>8, <1>10, <2>1, <2>2 DEF EntityGraph!DropCard
  <2>4. h = [triples |-> g.triples, aliases |-> g.aliases, index |-> index,
             typed |-> g.typed \ {c}, summaries |-> g.summaries \ {c}]
    BY <1>8, <2>2 DEF IsGraph
  <2>5. DOMAIN index = DOMAIN g.index \ {c} /\ \A n \in EntityGraph!Named(g) : index[n] = g.index[n]
    BY <1>8, <2>1, <2>3 DEF Indexed, EntityGraph!Entities
  <2>6. IsGraph(h) /\ Indexed(h)
    BY <1>8, <2>3, <2>4, <2>5, CardIsIndexed
  <2>. QED  BY <1>9, <2>3, <2>6
<1>11. ASSUME NEW c, EntityGraph!PersistCard(c) PROVE GraphInv'
  <2>1. PICK index : index = [n \in DOMAIN g.index \cup {c} |-> IF n = c THEN {} ELSE g.index[n]] OBVIOUS
  <2>2. PICK h : h = [g EXCEPT !.index = index, !.typed = @ \cup {c}, !.summaries = @ \cup {c}] OBVIOUS
  <2>3. c \notin EntityGraph!Named(g) /\ eg_file' = h /\ eg_loader' = {h} /\ UNCHANGED eg_jobs
    BY <1>8, <1>11, <2>1, <2>2 DEF EntityGraph!PersistCard
  <2>4. h = [triples |-> g.triples, aliases |-> g.aliases, index |-> index,
             typed |-> g.typed \cup {c}, summaries |-> g.summaries \cup {c}]
    BY <1>8, <2>2 DEF IsGraph
  <2>5. DOMAIN index = DOMAIN g.index \cup {c} /\ \A n \in EntityGraph!Named(g) : index[n] = g.index[n]
    BY <1>8, <2>1, <2>3 DEF Indexed, EntityGraph!Entities
  <2>6. IsGraph(h) /\ Indexed(h)
    BY <1>8, <2>3, <2>4, <2>5, CardIsIndexed
  <2>. QED  BY <1>9, <2>3, <2>6
<1>. QED  BY <1>1, <1>2, <1>3, <1>4, <1>5, <1>6, <1>7, <1>10, <1>11 DEF EntityGraph!Next

LEMMA GraphShows == GraphInv => EntityGraph!IndexHolds
BY DEF GraphInv, Indexed, EntityGraph!IndexHolds
LEMMA GraphInit == EntityGraph!Init => GraphInv
<1> SUFFICES ASSUME EntityGraph!Init PROVE GraphInv
  OBVIOUS
<1>1. IsGraph(eg_file) /\ Indexed(eg_file) /\ eg_loader = {} /\ eg_jobs = [j \in eg_Jobs |-> EntityGraph!At("idle")]
  BY WrittenIndexed DEF EntityGraph!Init
<1>. QED  BY <1>1, AtIs DEF GraphInv

LEMMA EntityGraphSteps == [AllNext]_All => [EntityGraph!Next]_(EntityGraph!vars)
BY DEF AllNext, All, EntityGraph!vars, entitygraphVars

(* For any names, templates, cards and consolidations: the index of the graph  *)
(* on disk names the entities of the triples at their places, those of a type  *)
(* of their own, and no other (knowledge_graph.py:400-430, skills.py:138-233). *)
THEOREM GraphIndexHolds == AllSpec => []IndexHolds
<1>1. AllInit => GraphInv
  BY GraphInit DEF AllInit
<1>2. GraphInv /\ [AllNext]_All => GraphInv'
  BY GraphStep, EntityGraphSteps
<1>3. GraphInv => IndexHolds
  BY GraphShows DEF IndexHolds
<1>. QED  BY <1>1, <1>2, <1>3, PTL DEF AllSpec

------------------------------------------------------------------------------
(* The workflows learned. Without, Row and Discarded are recursive functions,  *)
(* solved as the history of a session is. A selection takes entries in their   *)
(* order (Chosen), a row of the clean-up leaves of an entry and a later one    *)
(* like it at most one (Separates), and what is gone stays gone (Growing).     *)

Workflows == [key : kn_Keys, success : Nat, looked : BOOLEAN]

Fewer(f, ts, ks) ==
    /\ f[0] = <<>>
    /\ \A j \in 1..Len(ts) : f[j] = IF ts[j].key \in ks THEN f[j - 1] ELSE Append(f[j - 1], ts[j])
FewerBody(f, ts, ks) == [n \in 0..Len(ts) |-> IF n = 0 THEN <<>>
                                              ELSE IF ts[n].key \in ks THEN f[n - 1]
                                              ELSE Append(f[n - 1], ts[n])]
FewerOf(ts, ks) == CHOOSE f : f = FewerBody(f, ts, ks)

LEMMA WithoutAre ==
    ASSUME NEW ts, NEW ks
    PROVE  Knowledge!Without(ts, ks) = FewerOf(ts, ks)[Len(ts)]
BY DEF Knowledge!Without, FewerOf, FewerBody

LEMMA FewerFound ==
    ASSUME NEW ts \in Seq(Workflows), NEW ks
    PROVE  FewerOf(ts, ks) = FewerBody(FewerOf(ts, ks), ts, ks)
<1>1. PICK n \in Nat : n = Len(ts)
  OBVIOUS
<1>2. PICK A, e : A = Seq(Workflows) /\ e = <<>>
  OBVIOUS
<1>e. e \in A
  BY <1>2, EmptySeq
<1>3. PICK F \in [A \X (1..n) -> A] :
        F = [p \in A \X (1..n) |->
               IF ts[p[2]].key \in ks THEN p[1] ELSE Append(p[1], ts[p[2]])]
  <2>1. ASSUME NEW p \in A \X (1..n)
        PROVE  (IF ts[p[2]].key \in ks THEN p[1] ELSE Append(p[1], ts[p[2]])) \in A
    <3>1. p[1] \in A /\ p[2] \in 1..n
      OBVIOUS
    <3>2. ts[p[2]] \in Workflows
      BY <1>1, <3>1
    <3>3. Append(p[1], ts[p[2]]) \in A
      BY <1>2, <3>1, <3>2, AppendProperties
    <3>. QED  BY <3>1, <3>3
  <2>. QED  BY <2>1
<1>4. PICK f \in [0..n -> A] :
        f[0] = e /\ \A j \in 1..n : f[j] = F[<<f[j - 1], j>>]
  <2>1. \E f \in [0..n -> A] : Unrolls(f, n, e, F)
    BY <1>e, Recursion
  <2>. QED  BY <2>1 DEF Unrolls
<1>5. ASSUME NEW j \in 1..n
      PROVE  f[j] = IF ts[j].key \in ks THEN f[j - 1] ELSE Append(f[j - 1], ts[j])
  <2>1. j - 1 \in 0..n
    OBVIOUS
  <2>2. <<f[j - 1], j>> \in A \X (1..n)
    BY <1>4, <2>1
  <2>. QED  BY <1>3, <1>4, <2>2
<1>6. f = FewerBody(f, ts, ks)
  <2>1. \A i \in 0..n : f[i] = IF i = 0 THEN <<>>
                               ELSE IF ts[i].key \in ks THEN f[i - 1]
                               ELSE Append(f[i - 1], ts[i])
    <3>1. \A i \in 0..n : i # 0 => i \in 1..n
      OBVIOUS
    <3>. QED  BY <3>1, <1>2, <1>4, <1>5
  <2>2. f = [i \in 0..n |-> f[i]]
    BY <1>4
  <2>. QED  BY <1>1, <2>1, <2>2 DEF FewerBody
<1>. QED  BY <1>6 DEF FewerOf

LEMMA FewerIs ==
    ASSUME NEW ts \in Seq(Workflows), NEW ks
    PROVE  Fewer(FewerOf(ts, ks), ts, ks)
<1>1. PICK n \in Nat : n = Len(ts)
  OBVIOUS
<1>2. PICK f : f = FewerOf(ts, ks)
  OBVIOUS
<1>3. f = FewerBody(f, ts, ks)
  BY <1>2, FewerFound
<1>4. \A i \in 0..n : f[i] = IF i = 0 THEN <<>>
                             ELSE IF ts[i].key \in ks THEN f[i - 1]
                             ELSE Append(f[i - 1], ts[i])
  BY <1>1, <1>3 DEF FewerBody
<1>5. f[0] = <<>>
  <2>1. 0 \in 0..n
    OBVIOUS
  <2>. QED  BY <1>4, <2>1
<1>6. ASSUME NEW j \in 1..n
      PROVE  f[j] = IF ts[j].key \in ks THEN f[j - 1] ELSE Append(f[j - 1], ts[j])
  <2>1. j \in 0..n /\ j # 0
    OBVIOUS
  <2>. QED  BY <1>4, <2>1
<1>. QED  BY <1>1, <1>2, <1>5, <1>6 DEF Fewer

InOrder(x, y, ts, ks, m) ==
    \E a, b \in 1..m : /\ a < b /\ x = ts[a] /\ y = ts[b]
                       /\ ts[a].key \notin ks /\ ts[b].key \notin ks

\* us has entries of the first m of ts, in their order, and none of the keys.
Chosen(us, ts, ks, m) ==
    /\ us \in Seq(Workflows)
    /\ \A p \in 1..Len(us) : \E a \in 1..m : us[p] = ts[a] /\ ts[a].key \notin ks
    /\ \A p, q \in 1..Len(us) : p < q => InOrder(us[p], us[q], ts, ks, m)

LEMMA OneMoreChosen ==
    ASSUME NEW ts \in Seq(Workflows), NEW ks, NEW m \in Nat, m + 1 \in 1..Len(ts),
           NEW us, Chosen(us, ts, ks, m),
           NEW vs, vs = IF ts[m + 1].key \in ks THEN us ELSE Append(us, ts[m + 1])
    PROVE  Chosen(vs, ts, ks, m + 1)
<1>1. /\ us \in Seq(Workflows)
      /\ \A p \in 1..Len(us) : \E a \in 1..m : us[p] = ts[a] /\ ts[a].key \notin ks
      /\ \A p, q \in 1..Len(us) : p < q => InOrder(us[p], us[q], ts, ks, m)
  BY DEF Chosen
<1>2. \A a \in 1..m : a \in 1..(m + 1) /\ a < m + 1
  OBVIOUS
<1>3. CASE ts[m + 1].key \in ks
  <2>1. vs = us
    BY <1>3
  <2>2. \A p, q \in 1..Len(us) : p < q => InOrder(us[p], us[q], ts, ks, m + 1)
    BY <1>1, <1>2 DEF InOrder
  <2>3. \A p \in 1..Len(us) : \E a \in 1..(m + 1) : us[p] = ts[a] /\ ts[a].key \notin ks
    BY <1>1, <1>2
  <2>. QED  BY <1>1, <2>1, <2>2, <2>3 DEF Chosen
<1>4. CASE ts[m + 1].key \notin ks
  <2>1. ts[m + 1] \in Workflows
    OBVIOUS
  <2>2. PICK k \in Nat : k = Len(us)
    BY <1>1
  <2>3. vs \in Seq(Workflows) /\ Len(vs) = k + 1 /\ vs[k + 1] = ts[m + 1] /\ \A p \in 1..k : vs[p] = us[p]
    BY <1>1, <1>4, <2>1, <2>2, AppendProperties
  <2>4. ASSUME NEW p \in 1..(k + 1)
        PROVE  \E a \in 1..(m + 1) : vs[p] = ts[a] /\ ts[a].key \notin ks
    <3>1. CASE p = k + 1
      <4>1. m + 1 \in 1..(m + 1)
        OBVIOUS
      <4>. QED  BY <1>4, <2>3, <3>1, <4>1
    <3>2. CASE p # k + 1
      <4>1. p \in 1..k
        BY <3>2
      <4>2. PICK a \in 1..m : us[p] = ts[a] /\ ts[a].key \notin ks
        BY <1>1, <2>2, <4>1
      <4>. QED  BY <1>2, <2>3, <4>1, <4>2
    <3>. QED  BY <3>1, <3>2
  <2>5. ASSUME NEW p \in 1..(k + 1), NEW q \in 1..(k + 1), p < q
        PROVE  InOrder(vs[p], vs[q], ts, ks, m + 1)
    <3>0. p \in 1..k
      BY <2>5
    <3>1. CASE q = k + 1
      <4>1. m + 1 \in 1..(m + 1)
        OBVIOUS
      <4>2. PICK a \in 1..m : us[p] = ts[a] /\ ts[a].key \notin ks
        BY <1>1, <2>2, <3>0
      <4>3. vs[p] = ts[a] /\ vs[q] = ts[m + 1] /\ a < m + 1 /\ a \in 1..(m + 1)
        BY <1>2, <2>3, <3>0, <3>1, <4>2
      <4>. QED  BY <1>4, <4>1, <4>2, <4>3 DEF InOrder
    <3>2. CASE q # k + 1
      <4>1. q \in 1..k
        BY <3>2
      <4>2. InOrder(us[p], us[q], ts, ks, m)
        BY <1>1, <2>2, <2>5, <3>0, <4>1
      <4>3. vs[p] = us[p] /\ vs[q] = us[q]
        BY <2>3, <3>0, <4>1
      <4>4. InOrder(us[p], us[q], ts, ks, m + 1)
        BY <1>2, <4>2 DEF InOrder
      <4>. QED  BY <4>3, <4>4
    <3>. QED  BY <3>1, <3>2
  <2>6. \A p \in 1..Len(vs) : \E a \in 1..(m + 1) : vs[p] = ts[a] /\ ts[a].key \notin ks
    <3>1. Len(vs) = k + 1
      BY <2>3
    <3>. QED  BY ONLY <2>4, <3>1
  <2>7. \A p, q \in 1..Len(vs) : p < q => InOrder(vs[p], vs[q], ts, ks, m + 1)
    BY <2>3, <2>5
  <2>. QED  BY <2>3, <2>6, <2>7 DEF Chosen
<1>. QED  BY <1>3, <1>4

LEMMA WithoutIs ==
    ASSUME NEW ts \in Seq(Workflows), NEW ks
    PROVE  Chosen(Knowledge!Without(ts, ks), ts, ks, Len(ts))
<1>1. PICK n \in Nat : n = Len(ts)
  OBVIOUS
<1>2. PICK f : f = FewerOf(ts, ks)
  OBVIOUS
<1>3. f[0] = <<>> /\ \A j \in 1..n : f[j] = IF ts[j].key \in ks THEN f[j - 1] ELSE Append(f[j - 1], ts[j])
  BY <1>1, <1>2, FewerIs DEF Fewer
<1> DEFINE S == {j \in 0..n : Chosen(f[j], ts, ks, j)}
<1>4. 0 \in S
  <2>1. Chosen(<<>>, ts, ks, 0)
    <3>1. PICK u : u = <<>>
      OBVIOUS
    <3>2. u \in Seq(Workflows) /\ Len(u) = 0
      BY <3>1, EmptySeq
    <3>3. Chosen(u, ts, ks, 0)
      BY <3>2 DEF Chosen
    <3>. QED  BY <3>1, <3>3
  <2>2. 0 \in 0..n
    OBVIOUS
  <2>. QED  BY <1>3, <2>1, <2>2
<1>5. ASSUME NEW j \in 0..n, j \in S, j < n PROVE j + 1 \in S
  <2>1. j + 1 \in 1..n /\ (j + 1) - 1 = j /\ j + 1 \in 0..n /\ j \in Nat
    BY <1>5
  <2>2. PICK u, v : u = f[j] /\ v = f[j + 1]
    OBVIOUS
  <2>3. v = IF ts[j + 1].key \in ks THEN u ELSE Append(u, ts[j + 1])
    BY <1>3, <2>1, <2>2
  <2>4. Chosen(u, ts, ks, j)
    BY <1>5, <2>2
  <2>5. Chosen(v, ts, ks, j + 1)
    BY <1>1, <2>1, <2>3, <2>4, OneMoreChosen
  <2>. QED  BY <2>1, <2>2, <2>5
<1> HIDE DEF S
<1>6. \A j \in 0..n : j \in S
  BY <1>4, <1>5, Counting
<1>7. n \in S
  BY <1>6
<1>. QED  BY <1>1, <1>2, <1>7, WithoutAre DEF S

\* What grows from each number to the next holds at the end all it ever held.
Holds(f, n) == \A k \in 0..n : f[k] \subseteq f[n]

LEMMA Growing ==
    ASSUME NEW n \in Nat, NEW f, \A j \in 1..n : f[j - 1] \subseteq f[j]
    PROVE  Holds(f, n)
<1> DEFINE S == {j \in 0..n : \A k \in 0..j : f[k] \subseteq f[j]}
<1>1. 0 \in S
  <2>1. \A k \in 0..0 : k = 0
    OBVIOUS
  <2>. QED  BY <2>1
<1>2. ASSUME NEW j \in 0..n, j \in S, j < n PROVE j + 1 \in S
  <2>1. j + 1 \in 1..n /\ (j + 1) - 1 = j /\ j + 1 \in 0..n
    BY <1>2
  <2>2. f[j] \subseteq f[j + 1]
    BY <2>1
  <2>3. ASSUME NEW k \in 0..(j + 1) PROVE f[k] \subseteq f[j + 1]
    <3>1. CASE k = j + 1
      BY <3>1
    <3>2. CASE k # j + 1
      <4>1. k \in 0..j
        BY <3>2
      <4>. QED  BY <1>2, <2>2, <4>1
    <3>. QED  BY <3>1, <3>2
  <2>. QED  BY <2>1, <2>3
<1> HIDE DEF S
<1>3. \A j \in 0..n : j \in S
  BY <1>1, <1>2, Counting
<1>4. n \in S
  BY <1>3
<1>. QED  BY <1>4 DEF S, Holds

\* The inner loop of a clean-up.
RowBody(f, gone, i) == [j \in 0..Len(kn_tasks) |-> IF j = 0 THEN gone ELSE Knowledge!Merge(f[j - 1], i, j)]
RowOf(gone, i) == CHOOSE f : f = RowBody(f, gone, i)

LEMMA RowAre ==
    ASSUME NEW gone, NEW i
    PROVE  Knowledge!Row(gone, i) = IF kn_tasks[i].key \in gone THEN gone ELSE RowOf(gone, i)[Len(kn_tasks)]
BY DEF Knowledge!Row, RowOf, RowBody

LEMMA MergeKeeps ==
    ASSUME kn_tasks \in Seq(Workflows), NEW g \in SUBSET kn_Keys,
           NEW i \in 1..Len(kn_tasks), NEW j \in 1..Len(kn_tasks)
    PROVE  /\ Knowledge!Merge(g, i, j) \in SUBSET kn_Keys /\ g \subseteq Knowledge!Merge(g, i, j)
           /\ i < j /\ Knowledge!Similar(kn_tasks[i].key, kn_tasks[j].key)
                  => kn_tasks[i].key \in Knowledge!Merge(g, i, j) \/ kn_tasks[j].key \in Knowledge!Merge(g, i, j)
<1>1. kn_tasks[i] \in Workflows /\ kn_tasks[j] \in Workflows
  OBVIOUS
<1>2. kn_tasks[i].key \in kn_Keys /\ kn_tasks[j].key \in kn_Keys
  BY <1>1 DEF Workflows
<1>3. PICK d \in {i, j} : d = IF kn_tasks[i].success >= kn_tasks[j].success THEN j ELSE i
  OBVIOUS
<1>4. Knowledge!Merge(g, i, j) = IF i < j /\ kn_tasks[j].key \notin g /\ Knowledge!Similar(kn_tasks[i].key, kn_tasks[j].key)
                                 THEN g \union {kn_tasks[d].key} ELSE g
  BY <1>3 DEF Knowledge!Merge
<1>. QED  BY <1>2, <1>4

\* What a loop over the entries collects.
Loop(f, gone, i) ==
    /\ f[0] = gone
    /\ \A j \in 1..Len(kn_tasks) : f[j] = Knowledge!Merge(f[j - 1], i, j) /\ f[j - 1] \in SUBSET kn_Keys

LEMMA RowIs ==
    ASSUME kn_tasks \in Seq(Workflows), NEW gone \in SUBSET kn_Keys, NEW i \in 1..Len(kn_tasks)
    PROVE  Loop(RowOf(gone, i), gone, i) /\ RowOf(gone, i)[Len(kn_tasks)] \in SUBSET kn_Keys
<1>1. PICK n \in Nat : n = Len(kn_tasks)
  OBVIOUS
<1>2. PICK A : A = SUBSET kn_Keys
  OBVIOUS
<1>3. PICK F \in [A \X (1..n) -> A] : F = [p \in A \X (1..n) |-> Knowledge!Merge(p[1], i, p[2])]
  <2>1. ASSUME NEW p \in A \X (1..n) PROVE Knowledge!Merge(p[1], i, p[2]) \in A
    <3>1. PICK g \in SUBSET kn_Keys, j \in 1..n : g = p[1] /\ j = p[2]
      BY <1>2
    <3>2. Knowledge!Merge(g, i, j) \in SUBSET kn_Keys
      BY <1>1, MergeKeeps
    <3>. QED  BY <1>2, <3>1, <3>2
  <2>. QED  BY <2>1
<1>4. PICK f \in [0..n -> A] :
        f[0] = gone /\ \A j \in 1..n : f[j] = F[<<f[j - 1], j>>]
  <2>0. gone \in A
    BY <1>2
  <2>1. \E f \in [0..n -> A] : Unrolls(f, n, gone, F)
    BY <2>0, Recursion
  <2>. QED  BY <2>1 DEF Unrolls
<1>5. ASSUME NEW j \in 1..n
      PROVE  f[j] = Knowledge!Merge(f[j - 1], i, j)
  <2>1. j - 1 \in 0..n
    OBVIOUS
  <2>2. <<f[j - 1], j>> \in A \X (1..n)
    BY <1>4, <2>1
  <2>. QED  BY <1>3, <1>4, <2>2
<1>6. f = RowBody(f, gone, i)
  <2>1. \A k \in 0..n : f[k] = IF k = 0 THEN gone ELSE Knowledge!Merge(f[k - 1], i, k)
    <3>1. \A k \in 0..n : k # 0 => k \in 1..n
      OBVIOUS
    <3>. QED  BY <3>1, <1>4, <1>5
  <2>2. f = [k \in 0..n |-> f[k]]
    BY <1>4
  <2>. QED  BY <1>1, <2>1, <2>2 DEF RowBody
<1>7. PICK h : h = RowOf(gone, i)
  OBVIOUS
<1>8. h = RowBody(h, gone, i)
  BY <1>6, <1>7 DEF RowOf
<1>9. \A k \in 0..n : h[k] = IF k = 0 THEN gone ELSE Knowledge!Merge(h[k - 1], i, k)
  BY <1>1, <1>8 DEF RowBody
<1>10. h[0] = gone /\ \A j \in 1..n : h[j] = Knowledge!Merge(h[j - 1], i, j)
  <2>1. 0 \in 0..n
    OBVIOUS
  <2>2. h[0] = gone
    BY <1>9, <2>1
  <2>3. ASSUME NEW j \in 1..n PROVE h[j] = Knowledge!Merge(h[j - 1], i, j)
    <3>1. j \in 0..n /\ j # 0
      OBVIOUS
    <3>. QED  BY <1>9, <3>1
  <2>. QED  BY <2>2, <2>3
<1> DEFINE S == {j \in 0..n : h[j] \in SUBSET kn_Keys}
<1>11. 0 \in S
  <2>1. 0 \in 0..n
    OBVIOUS
  <2>. QED  BY <1>10, <2>1
<1>12. ASSUME NEW j \in 0..n, j \in S, j < n PROVE j + 1 \in S
  <2>1. j + 1 \in 1..n /\ (j + 1) - 1 = j /\ j + 1 \in 0..n
    BY <1>12
  <2>2. h[j + 1] = Knowledge!Merge(h[j], i, j + 1) /\ h[j] \in SUBSET kn_Keys
    BY <1>10, <1>12, <2>1
  <2>3. h[j + 1] \in SUBSET kn_Keys
    BY <1>1, <2>1, <2>2, MergeKeeps
  <2>. QED  BY <2>1, <2>3
<1> HIDE DEF S
<1>13. \A j \in 0..n : j \in S
  BY <1>11, <1>12, Counting
<1>14. \A j \in 0..n : h[j] \in SUBSET kn_Keys
  BY <1>13 DEF S
<1>15. ASSUME NEW j \in 1..n PROVE h[j - 1] \in SUBSET kn_Keys
  <2>1. j - 1 \in 0..n
    OBVIOUS
  <2>. QED  BY <1>14, <2>1
<1>16. n \in 0..n
  OBVIOUS
<1>. QED  BY <1>1, <1>7, <1>10, <1>14, <1>15, <1>16 DEF Loop

\* After its row an entry is gone or has no later one like it left.
Separates(gone, i) ==
    /\ Knowledge!Row(gone, i) \in SUBSET kn_Keys /\ gone \subseteq Knowledge!Row(gone, i)
    /\ \A j \in 1..Len(kn_tasks) :
           i < j /\ Knowledge!Similar(kn_tasks[i].key, kn_tasks[j].key)
               => kn_tasks[i].key \in Knowledge!Row(gone, i) \/ kn_tasks[j].key \in Knowledge!Row(gone, i)

LEMMA RowSeparates ==
    ASSUME kn_tasks \in Seq(Workflows), NEW gone \in SUBSET kn_Keys, NEW i \in 1..Len(kn_tasks)
    PROVE  Separates(gone, i)
<1>1. CASE kn_tasks[i].key \in gone
  <2>1. Knowledge!Row(gone, i) = gone
    BY <1>1, RowAre
  <2>. QED  BY <1>1, <2>1 DEF Separates
<1>2. CASE kn_tasks[i].key \notin gone
  <2>1. PICK n \in Nat : n = Len(kn_tasks)
    OBVIOUS
  <2>2. PICK h : h = RowOf(gone, i)
    OBVIOUS
  <2>3. Knowledge!Row(gone, i) = h[n]
    BY <1>2, <2>1, <2>2, RowAre
  <2>4. h[0] = gone /\ \A j \in 1..n : h[j] = Knowledge!Merge(h[j - 1], i, j) /\ h[j - 1] \in SUBSET kn_Keys
    <3>1. Loop(h, gone, i)
      BY <2>2, RowIs
    <3>. QED  BY <2>1, <3>1 DEF Loop
  <2>5. h[n] \in SUBSET kn_Keys
    BY <2>1, <2>2, RowIs
  <2>6. ASSUME NEW j \in 1..n
        PROVE  /\ h[j - 1] \subseteq h[j]
               /\ i < j /\ Knowledge!Similar(kn_tasks[i].key, kn_tasks[j].key)
                      => kn_tasks[i].key \in h[j] \/ kn_tasks[j].key \in h[j]
    <3>1. PICK g \in SUBSET kn_Keys : g = h[j - 1]
      BY <2>4
    <3>2. h[j] = Knowledge!Merge(g, i, j)
      BY <2>4, <3>1
    <3>. QED  BY <2>1, <3>1, <3>2, MergeKeeps
  <2>7. Holds(h, n)
    BY <2>6, Growing
  <2>8. \A k \in 0..n : h[k] \subseteq h[n]
    BY <2>7 DEF Holds
  <2>9. gone \subseteq h[n]
    <3>1. 0 \in 0..n
      OBVIOUS
    <3>. QED  BY <2>4, <2>8, <3>1
  <2>10. \A j \in 1..n : h[j] \subseteq h[n]
    <3>1. \A j \in 1..n : j \in 0..n
      OBVIOUS
    <3>. QED  BY <2>8, <3>1
  <2>. QED  BY <2>1, <2>3, <2>5, <2>6, <2>9, <2>10 DEF Separates
<1>. QED  BY <1>1, <1>2

RowsBody(f) == [i \in 0..Len(kn_tasks) |-> IF i = 0 THEN {} ELSE Knowledge!Row(f[i - 1], i)]
RowsOf == CHOOSE f : f = RowsBody(f)

LEMMA DiscardedAre == Knowledge!Discarded = RowsOf[Len(kn_tasks)]
BY DEF Knowledge!Discarded, RowsOf, RowsBody

\* No two entries of which both stay are alike.
LEMMA DiscardedIs ==
    ASSUME kn_tasks \in Seq(Workflows),
           NEW a \in 1..Len(kn_tasks), NEW b \in 1..Len(kn_tasks), a < b,
           Knowledge!Similar(kn_tasks[a].key, kn_tasks[b].key)
    PROVE  kn_tasks[a].key \in Knowledge!Discarded \/ kn_tasks[b].key \in Knowledge!Discarded
<1>1. PICK n \in Nat : n = Len(kn_tasks)
  OBVIOUS
<1>2. PICK A : A = SUBSET kn_Keys
  OBVIOUS
<1>3. PICK F \in [A \X (1..n) -> A] : F = [p \in A \X (1..n) |-> Knowledge!Row(p[1], p[2])]
  <2>1. ASSUME NEW p \in A \X (1..n) PROVE Knowledge!Row(p[1], p[2]) \in A
    <3>1. PICK g \in SUBSET kn_Keys, i \in 1..n : g = p[1] /\ i = p[2]
      BY <1>2
    <3>2. Knowledge!Row(g, i) \in SUBSET kn_Keys
      BY <1>1, RowSeparates DEF Separates
    <3>. QED  BY <1>2, <3>1, <3>2
  <2>. QED  BY <2>1
<1>4. PICK f \in [0..n -> A] :
        f[0] = {} /\ \A i \in 1..n : f[i] = F[<<f[i - 1], i>>]
  <2>0. {} \in A
    BY <1>2
  <2>1. \E f \in [0..n -> A] : Unrolls(f, n, {}, F)
    BY <2>0, Recursion
  <2>. QED  BY <2>1 DEF Unrolls
<1>5. ASSUME NEW i \in 1..n
      PROVE  f[i] = Knowledge!Row(f[i - 1], i)
  <2>1. i - 1 \in 0..n
    OBVIOUS
  <2>2. <<f[i - 1], i>> \in A \X (1..n)
    BY <1>4, <2>1
  <2>. QED  BY <1>3, <1>4, <2>2
<1>6. f = RowsBody(f)
  <2>1. \A k \in 0..n : f[k] = IF k = 0 THEN {} ELSE Knowledge!Row(f[k - 1], k)
    <3>1. \A k \in 0..n : k # 0 => k \in 1..n
      OBVIOUS
    <3>. QED  BY <3>1, <1>4, <1>5
  <2>2. f = [k \in 0..n |-> f[k]]
    BY <1>4
  <2>. QED  BY <1>1, <2>1, <2>2 DEF RowsBody
<1>7. PICK h : h = RowsOf
  OBVIOUS
<1>8. h = RowsBody(h)
  BY <1>6, <1>7 DEF RowsOf
<1>9. \A k \in 0..n : h[k] = IF k = 0 THEN {} ELSE Knowledge!Row(h[k - 1], k)
  BY <1>1, <1>8 DEF RowsBody
<1>10. h[0] = {} /\ \A i \in 1..n : h[i] = Knowledge!Row(h[i - 1], i)
  <2>1. 0 \in 0..n
    OBVIOUS
  <2>2. h[0] = {}
    BY <1>9, <2>1
  <2>3. ASSUME NEW i \in 1..n PROVE h[i] = Knowledge!Row(h[i - 1], i)
    <3>1. i \in 0..n /\ i # 0
      OBVIOUS
    <3>. QED  BY <1>9, <3>1
  <2>. QED  BY <2>2, <2>3
<1> DEFINE S == {j \in 0..n : h[j] \in SUBSET kn_Keys}
<1>11. 0 \in S
  <2>1. 0 \in 0..n
    OBVIOUS
  <2>. QED  BY <1>10, <2>1
<1>12. ASSUME NEW j \in 0..n, j \in S, j < n PROVE j + 1 \in S
  <2>1. j + 1 \in 1..n /\ (j + 1) - 1 = j /\ j + 1 \in 0..n
    BY <1>12
  <2>2. h[j + 1] = Knowledge!Row(h[j], j + 1) /\ h[j] \in SUBSET kn_Keys
    BY <1>10, <1>12, <2>1
  <2>3. Separates(h[j], j + 1)
    BY <1>1, <2>1, <2>2, RowSeparates
  <2>4. h[j + 1] \in SUBSET kn_Keys
    BY <2>2, <2>3 DEF Separates
  <2>. QED  BY <2>1, <2>4
<1> HIDE DEF S
<1>13. \A j \in 0..n : j \in S
  BY <1>11, <1>12, Counting
<1>14. ASSUME NEW i \in 1..n PROVE Separates(h[i - 1], i) /\ h[i] = Knowledge!Row(h[i - 1], i)
  <2>1. i - 1 \in 0..n
    OBVIOUS
  <2>2. h[i - 1] \in SUBSET kn_Keys
    BY <1>13, <2>1 DEF S
  <2>3. PICK g \in SUBSET kn_Keys : g = h[i - 1]
    BY <2>2
  <2>4. Separates(g, i)
    BY <1>1, RowSeparates
  <2>. QED  BY <1>10, <2>3, <2>4
<1>15. \A i \in 1..n : h[i - 1] \subseteq h[i]
  BY <1>14 DEF Separates
<1>16. Holds(h, n)
  BY <1>15, Growing
<1>17. h[a] \subseteq h[n]
  <2>1. a \in 0..n
    BY <1>1
  <2>. QED  BY <1>16, <2>1 DEF Holds
<1>18. kn_tasks[a].key \in h[a] \/ kn_tasks[b].key \in h[a]
  <2>1. a \in 1..n /\ b \in 1..n
    BY <1>1
  <2>2. Separates(h[a - 1], a) /\ h[a] = Knowledge!Row(h[a - 1], a)
    BY <1>14, <2>1
  <2>. QED  BY <2>2 DEF Separates
<1>19. Knowledge!Discarded = h[n]
  BY <1>1, <1>7, DiscardedAre
<1>. QED  BY <1>17, <1>18, <1>19

\* An entry that was compared with all before it is like none of them.
AreUnlike(ts) == \A i, j \in 1..Len(ts) : i < j /\ ts[j].looked => ~Knowledge!Similar(ts[i].key, ts[j].key)
Unlike(ts) == ts \in Seq(Workflows) /\ AreUnlike(ts)

UnlikeInv ==
    /\ Unlike(kn_tasks) /\ Unlike(kn_tool) /\ Unlike(kn_file)
    /\ kn_judging \subseteq Nat \X kn_Keys /\ kn_saves \in Nat

LEMMA EntryIs ==
    ASSUME NEW k \in kn_Keys, NEW n \in Nat, NEW b \in BOOLEAN
    PROVE  /\ Knowledge!Entry(k, n, b) \in Workflows
           /\ Knowledge!Entry(k, n, b).key = k /\ Knowledge!Entry(k, n, b).looked = b
BY DEF Knowledge!Entry, Workflows

LEMMA EmptyUnlike == Unlike(<<>>)
<1>1. PICK e : e = <<>>
  OBVIOUS
<1>2. Unlike(e)
  BY <1>1, EmptySeq DEF Unlike, AreUnlike
<1>. QED  BY <1>1, <1>2

LEMMA AppendUnlike ==
    ASSUME NEW ts, Unlike(ts), NEW e \in Workflows,
           e.looked => \A i \in 1..Len(ts) : ~Knowledge!Similar(ts[i].key, e.key)
    PROVE  Unlike(Append(ts, e))
<1>1. ts \in Seq(Workflows) /\ AreUnlike(ts)
  BY DEF Unlike
<1>2. PICK m \in Nat : m = Len(ts)
  BY <1>1
<1>3. PICK vs : vs = Append(ts, e)
  OBVIOUS
<1>4. vs \in Seq(Workflows) /\ Len(vs) = m + 1 /\ vs[m + 1] = e /\ \A i \in 1..m : vs[i] = ts[i]
  BY <1>1, <1>2, <1>3, AppendProperties
<1>5. ASSUME NEW i \in 1..(m + 1), NEW j \in 1..(m + 1), i < j, vs[j].looked
      PROVE  ~Knowledge!Similar(vs[i].key, vs[j].key)
  <2>1. i \in 1..m
    BY <1>5
  <2>2. CASE j = m + 1
    BY <1>2, <1>4, <1>5, <2>1, <2>2
  <2>3. CASE j # m + 1
    <3>1. j \in 1..m
      BY <2>3
    <3>2. vs[i] = ts[i] /\ vs[j] = ts[j]
      BY <1>4, <2>1, <3>1
    <3>. QED  BY <1>1, <1>2, <1>5, <2>1, <3>1, <3>2 DEF AreUnlike
  <2>. QED  BY <2>2, <2>3
<1>6. AreUnlike(vs)
  BY <1>4, <1>5 DEF AreUnlike
<1>. QED  BY <1>3, <1>4, <1>6 DEF Unlike

LEMMA WithoutUnlike ==
    ASSUME NEW ts, Unlike(ts), NEW ks
    PROVE  Unlike(Knowledge!Without(ts, ks))
<1>1. ts \in Seq(Workflows) /\ AreUnlike(ts)
  BY DEF Unlike
<1>2. PICK us : us = Knowledge!Without(ts, ks)
  OBVIOUS
<1>3. Chosen(us, ts, ks, Len(ts))
  BY <1>1, <1>2, WithoutIs
<1>4. us \in Seq(Workflows)
  BY <1>3 DEF Chosen
<1>5. ASSUME NEW p \in 1..Len(us), NEW q \in 1..Len(us), p < q, us[q].looked
      PROVE  ~Knowledge!Similar(us[p].key, us[q].key)
  <2>1. InOrder(us[p], us[q], ts, ks, Len(ts))
    BY <1>3, <1>5 DEF Chosen
  <2>2. PICK a, b \in 1..Len(ts) : a < b /\ us[p] = ts[a] /\ us[q] = ts[b]
    BY <2>1 DEF InOrder
  <2>. QED  BY <1>1, <1>5, <2>2 DEF AreUnlike
<1>6. AreUnlike(us)
  BY <1>5 DEF AreUnlike
<1>. QED  BY <1>2, <1>4, <1>6 DEF Unlike

\* What a clean-up leaves is unlike throughout, so that all of it is looked at.
LEMMA CleanedUnlike ==
    ASSUME kn_tasks \in Seq(Workflows), NEW left, left = Knowledge!Without(kn_tasks, Knowledge!Discarded)
    PROVE  Unlike([i \in DOMAIN left |-> Knowledge!Entry(left[i].key, left[i].success, TRUE)])
<1>1. PICK ks : ks = Knowledge!Discarded
  OBVIOUS
<1>2. Chosen(left, kn_tasks, ks, Len(kn_tasks))
  BY <1>1, WithoutIs
<1>3. PICK m \in Nat : m = Len(left) /\ DOMAIN left = 1..m /\ left \in Seq(Workflows)
  BY <1>2 DEF Chosen
<1>4. PICK vs : vs = [i \in 1..m |-> Knowledge!Entry(left[i].key, left[i].success, TRUE)]
  OBVIOUS
<1>5. ASSUME NEW i \in 1..m PROVE vs[i] \in Workflows /\ vs[i].key = left[i].key
  <2>1. left[i] \in Workflows
    BY <1>3
  <2>2. left[i].key \in kn_Keys /\ left[i].success \in Nat
    BY <2>1 DEF Workflows
  <2>3. vs[i] = Knowledge!Entry(left[i].key, left[i].success, TRUE)
    BY <1>4
  <2>4. PICK k \in kn_Keys, n \in Nat : k = left[i].key /\ n = left[i].success
    BY <2>2
  <2>5. PICK e : e = Knowledge!Entry(k, n, TRUE)
    OBVIOUS
  <2>6. e \in Workflows /\ e.key = k
    BY <2>5, EntryIs
  <2>. QED  BY <2>3, <2>4, <2>5, <2>6
<1>6. vs \in [1..m -> Workflows]
  BY <1>4, <1>5
<1>7. vs \in Seq(Workflows) /\ Len(vs) = m
  BY <1>6
<1>8. ASSUME NEW p \in 1..m, NEW q \in 1..m, p < q PROVE ~Knowledge!Similar(vs[p].key, vs[q].key)
  <2>1. InOrder(left[p], left[q], kn_tasks, ks, Len(kn_tasks))
    BY <1>2, <1>3, <1>8 DEF Chosen
  <2>2. PICK a, b \in 1..Len(kn_tasks) : /\ a < b /\ left[p] = kn_tasks[a] /\ left[q] = kn_tasks[b]
                                         /\ kn_tasks[a].key \notin ks /\ kn_tasks[b].key \notin ks
    BY <2>1 DEF InOrder
  <2>3. ~Knowledge!Similar(kn_tasks[a].key, kn_tasks[b].key)
    BY <1>1, <2>2, DiscardedIs
  <2>4. vs[p].key = kn_tasks[a].key /\ vs[q].key = kn_tasks[b].key
    BY <1>5, <2>2
  <2>. QED  BY <2>3, <2>4
<1>9. AreUnlike(vs)
  BY <1>7, <1>8 DEF AreUnlike
<1>. QED  BY <1>3, <1>4, <1>7, <1>9 DEF Unlike

LEMMA UnlikeInit ==
    ASSUME kn_Old \in Seq(kn_Keys), Knowledge!Init
    PROVE  UnlikeInv
<1>1. kn_file = kn_tasks /\ kn_tool = kn_tasks /\ kn_judging = {} /\ kn_saves = 0
  BY DEF Knowledge!Init
<1>2. CASE kn_tasks = <<>>
  BY <1>1, <1>2, EmptyUnlike DEF UnlikeInv
<1>3. CASE kn_tasks # <<>>
  <2>1. PICK n \in [DOMAIN kn_Old -> 0 .. 1] : kn_tasks = [i \in DOMAIN kn_Old |-> Knowledge!Entry(kn_Old[i], n[i], FALSE)]
    BY <1>3 DEF Knowledge!Init
  <2>2. PICK k \in Nat : k = Len(kn_Old) /\ DOMAIN kn_Old = 1..k
    OBVIOUS
  <2>3. ASSUME NEW i \in 1..k PROVE kn_tasks[i] \in Workflows /\ ~kn_tasks[i].looked
    <3>1. kn_Old[i] \in kn_Keys /\ n[i] \in Nat
      BY <2>1, <2>2
    <3>2. kn_tasks[i] = Knowledge!Entry(kn_Old[i], n[i], FALSE)
      BY <2>1, <2>2
    <3>. QED  BY <3>1, <3>2, EntryIs
  <2>4. kn_tasks \in [1..k -> Workflows]
    BY <2>1, <2>2, <2>3
  <2>5. kn_tasks \in Seq(Workflows) /\ Len(kn_tasks) = k
    BY <2>4
  <2>6. Unlike(kn_tasks)
    BY <2>3, <2>5 DEF Unlike, AreUnlike
  <2>. QED  BY <1>1, <2>6 DEF UnlikeInv
<1>. QED  BY <1>2, <1>3

LEMMA PraiseKeeps == ASSUME UnlikeInv, NEW k \in kn_Keys, Knowledge!Praise(k) PROVE UnlikeInv'
<1>1. /\ kn_tasks \in Seq(Workflows) /\ AreUnlike(kn_tasks) /\ Unlike(kn_tool)
      /\ kn_judging \subseteq Nat \X kn_Keys /\ kn_saves \in Nat
  BY DEF UnlikeInv, Unlike
<1>2. kn_file' = kn_tasks' /\ UNCHANGED <<kn_tool, kn_judging, kn_saves>>
  BY DEF Knowledge!Praise, Knowledge!Saved
<1>3. PICK i : kn_tasks' = [kn_tasks EXCEPT ![i].success = @ + 1]
  BY DEF Knowledge!Praise
<1>4. PICK m \in Nat : m = Len(kn_tasks) /\ DOMAIN kn_tasks = 1..m
  BY <1>1
<1>5. PICK vs : vs = [kn_tasks EXCEPT ![i].success = @ + 1]
  OBVIOUS
<1>6. ASSUME NEW j \in 1..m
      PROVE  vs[j] \in Workflows /\ vs[j].key = kn_tasks[j].key /\ vs[j].looked = kn_tasks[j].looked
  <2>1. kn_tasks[j] \in Workflows
    BY <1>1, <1>4
  <2>2. CASE i = j
    <3>1. vs[j] = [kn_tasks[j] EXCEPT !.success = @ + 1]
      BY <1>1, <1>4, <1>5, <2>2
    <3>. QED  BY <2>1, <3>1 DEF Workflows
  <2>3. CASE i # j
    <3>1. vs[j] = kn_tasks[j]
      BY <1>1, <1>4, <1>5, <2>3
    <3>. QED  BY <2>1, <3>1
  <2>. QED  BY <2>2, <2>3
<1>7. vs \in [1..m -> Workflows]
  <2>1. vs = [j \in 1..m |-> vs[j]]
    BY <1>1, <1>4, <1>5
  <2>. QED  BY <1>6, <2>1
<1>8. vs \in Seq(Workflows) /\ Len(vs) = m
  BY <1>7
<1>9. AreUnlike(vs)
  BY <1>1, <1>4, <1>6, <1>8 DEF AreUnlike
<1>10. Unlike(kn_tasks')
  BY <1>3, <1>5, <1>8, <1>9 DEF Unlike
<1>. QED  BY <1>1, <1>2, <1>10 DEF UnlikeInv, Unlike

LEMMA JudgedKeeps ==
    ASSUME UnlikeInv, NEW s \in kn_judging, NEW d \in Knowledge!Decisions, Knowledge!Judged(s, d)
    PROVE  UnlikeInv'
<1>1. /\ Unlike(kn_tasks) /\ kn_tasks \in Seq(Workflows) /\ Unlike(kn_tool) /\ Unlike(kn_file)
      /\ kn_judging \subseteq Nat \X kn_Keys /\ kn_saves \in Nat
  BY DEF UnlikeInv, Unlike
<1>2. kn_judging' = kn_judging \ {s} /\ UNCHANGED <<kn_tool, kn_saves>> /\ kn_file' \in {kn_file, kn_tasks'}
  BY DEF Knowledge!Judged, Knowledge!Saved
<1>3. s[2] \in kn_Keys
  BY <1>1
<1>4. PICK e : e = Knowledge!Entry(s[2], 1, TRUE)
  OBVIOUS
<1>5. e \in Workflows /\ e.key = s[2]
  BY <1>3, <1>4, EntryIs
<1>6. CASE UNCHANGED kn_tasks
  BY <1>1, <1>2, <1>6 DEF UnlikeInv
<1>7. CASE kn_tasks' # kn_tasks
  <2>1. kn_tasks' = Append(kn_tasks, e) /\ ~\E i \in DOMAIN kn_tasks : Knowledge!Similar(s[2], kn_tasks[i].key)
    BY <1>4, <1>7 DEF Knowledge!Judged
  <2>2. ASSUME NEW i \in 1..Len(kn_tasks) PROVE ~Knowledge!Similar(kn_tasks[i].key, e.key)
    <3>1. PICK x, y : x = e.key /\ y = kn_tasks[i].key
      OBVIOUS
    <3>2. ~Knowledge!Similar(x, y)
      BY <1>1, <1>5, <2>1, <3>1
    <3>3. {x, y} = {y, x}
      OBVIOUS
    <3>4. ~Knowledge!Similar(y, x)
      BY <3>2, <3>3 DEF Knowledge!Similar
    <3>. QED  BY <3>1, <3>4
  <2>3. PICK vs : vs = Append(kn_tasks, e)
    OBVIOUS
  <2>4. Unlike(vs)
    BY <1>1, <1>5, <2>2, <2>3, AppendUnlike
  <2>5. kn_tasks' = vs /\ kn_file' \in {kn_file, vs} /\ kn_judging' \subseteq Nat \X kn_Keys
    BY <1>1, <1>2, <2>1, <2>3
  <2>6. Unlike(kn_tasks') /\ Unlike(kn_file')
    BY <1>1, <2>4, <2>5
  <2>. QED  BY <1>1, <1>2, <2>5, <2>6 DEF UnlikeInv
<1>. QED  BY <1>6, <1>7

LEMMA UnlikeStep ==
    ASSUME UnlikeInv, [Knowledge!Next]_(Knowledge!vars)
    PROVE  UnlikeInv'
<1>i. /\ Unlike(kn_tasks) /\ kn_tasks \in Seq(Workflows) /\ Unlike(kn_tool) /\ Unlike(kn_file)
      /\ kn_judging \subseteq Nat \X kn_Keys /\ kn_saves \in Nat
  BY DEF UnlikeInv, Unlike
\* Any step that adds no judging, and after which the lists and the file are ts, us and ws.
<1>k. ASSUME NEW ts, NEW us, NEW ws, Unlike(ts), Unlike(us), Unlike(ws),
             kn_tasks' = ts, kn_tool' = us, kn_file' = ws, kn_judging' \subseteq kn_judging, kn_saves' \in Nat
      PROVE  UnlikeInv'
  BY <1>i, <1>k DEF UnlikeInv
<1>1. ASSUME NEW k \in kn_Keys, Knowledge!Confirm(k) PROVE UnlikeInv'
  <2>1. /\ kn_saves' = kn_saves + 1 /\ kn_judging' = kn_judging \union {<<kn_saves', k>>}
        /\ UNCHANGED <<kn_tasks, kn_tool, kn_file>>
    BY <1>1 DEF Knowledge!Confirm
  <2>2. kn_saves' \in Nat /\ kn_judging' \subseteq Nat \X kn_Keys
    BY <1>i, <2>1
  <2>. QED  BY <1>i, <2>1, <2>2 DEF UnlikeInv
<1>2. ASSUME NEW k \in kn_Keys, Knowledge!Delete(k) PROVE UnlikeInv'
  <2>1. PICK us : us = Knowledge!Without(kn_tasks, {k})
    OBVIOUS
  <2>2. Unlike(us)
    BY <1>i, <2>1, WithoutUnlike
  <2>3. kn_tasks' = us /\ kn_file' = us /\ UNCHANGED <<kn_tool, kn_judging, kn_saves>>
    BY <1>2, <2>1 DEF Knowledge!Delete, Knowledge!Saved
  <2>. QED  BY <1>i, <1>k, <2>2, <2>3
<1>3. ASSUME NEW k \in kn_Keys, Knowledge!ToolSave(k) PROVE UnlikeInv'
  <2>1. PICK e : e = Knowledge!Entry(k, 1, FALSE)
    OBVIOUS
  <2>2. e \in Workflows /\ ~e.looked
    BY <2>1, EntryIs
  <2>3. PICK us : us \in {kn_tool, Append(kn_tool, e)} /\ kn_tool' = us /\ kn_file' = us
    BY <1>3, <2>1 DEF Knowledge!ToolSave, Knowledge!Saved
  <2>4. Unlike(us)
    BY <1>i, <2>2, <2>3, AppendUnlike
  <2>5. kn_saves' \in Nat /\ UNCHANGED <<kn_tasks, kn_judging>>
    BY <1>i, <1>3 DEF Knowledge!ToolSave
  <2>. QED  BY <1>i, <1>k, <2>3, <2>4, <2>5
<1>4. ASSUME NEW k \in kn_Keys, Knowledge!ToolDelete(k) PROVE UnlikeInv'
  <2>1. PICK us : us = Knowledge!Without(kn_tool, {k})
    OBVIOUS
  <2>2. Unlike(us)
    BY <1>i, <2>1, WithoutUnlike
  <2>3. kn_tool' = us /\ kn_file' = us /\ UNCHANGED <<kn_tasks, kn_judging, kn_saves>>
    BY <1>4, <2>1 DEF Knowledge!ToolDelete, Knowledge!Saved
  <2>. QED  BY <1>i, <1>k, <2>2, <2>3
<1>5. ASSUME NEW k \in kn_Keys, Knowledge!Edit(k) PROVE UnlikeInv'
  <2>1. PICK e : e = Knowledge!Entry(k, 1, FALSE)
    OBVIOUS
  <2>2. e \in Workflows /\ ~e.looked
    BY <2>1, EntryIs
  <2>3. PICK ws : ws \in {Append(kn_file, e), Knowledge!Without(kn_file, {k})} /\ kn_file' = ws
    BY <1>5, <2>1 DEF Knowledge!Edit
  <2>4. Unlike(ws)
    BY <1>i, <2>2, <2>3, AppendUnlike, WithoutUnlike
  <2>5. kn_saves' \in Nat /\ UNCHANGED <<kn_tasks, kn_tool, kn_judging>>
    BY <1>i, <1>5 DEF Knowledge!Edit
  <2>. QED  BY <1>i, <1>k, <2>3, <2>4, <2>5
<1>6. CASE Knowledge!Cleanup
  <2>1. PICK left : left = Knowledge!Without(kn_tasks, Knowledge!Discarded)
    OBVIOUS
  <2>2. PICK vs : vs = [i \in DOMAIN left |-> Knowledge!Entry(left[i].key, left[i].success, TRUE)]
    OBVIOUS
  <2>3. Unlike(vs)
    BY <1>i, <2>1, <2>2, CleanedUnlike
  <2>4. kn_tasks' = vs /\ kn_file' = vs /\ UNCHANGED <<kn_tool, kn_judging, kn_saves>>
    BY <1>6, <2>1, <2>2 DEF Knowledge!Cleanup, Knowledge!Saved
  <2>. QED  BY <1>i, <1>k, <2>3, <2>4
<1>7. ASSUME NEW torn \in BOOLEAN, Knowledge!Crash(torn) PROVE UnlikeInv'
  <2>1. PICK ws : ws \in {<<>>, kn_file} /\ kn_file' = ws /\ kn_tool' = ws /\ kn_tasks' = ws
    BY <1>7 DEF Knowledge!Crash
  <2>2. Unlike(ws)
    BY <1>i, <2>1, EmptyUnlike
  <2>3. kn_judging' = {} /\ UNCHANGED kn_saves
    BY <1>7 DEF Knowledge!Crash
  <2>. QED  BY <1>i, <1>k, <2>1, <2>2, <2>3
<1>8. CASE \/ \E k \in kn_Keys : Knowledge!Complain(k)
           \/ Knowledge!Learn \/ (\E b \in BOOLEAN : Knowledge!Extracted(b)) \/ UNCHANGED Knowledge!vars
  <2>1. kn_file' \in {kn_file, kn_tasks} /\ UNCHANGED <<kn_tasks, kn_tool, kn_judging, kn_saves>>
    BY <1>8 DEF Knowledge!Complain, Knowledge!Learn, Knowledge!Extracted, Knowledge!Saved, Knowledge!vars
  <2>. QED  BY <1>i, <2>1 DEF UnlikeInv
<1>. QED  BY <1>1, <1>2, <1>3, <1>4, <1>5, <1>6, <1>7, <1>8, PraiseKeeps, JudgedKeeps DEF Knowledge!Next

LEMMA UnlikeShows == UnlikeInv => Knowledge!NoLookalikes
<1> SUFFICES ASSUME UnlikeInv, NEW ts \in {kn_tasks, kn_tool, kn_file}, NEW i \in DOMAIN ts, NEW j \in DOMAIN ts,
                    i < j, ts[j].looked
             PROVE  ~(ts[i].key = ts[j].key \/ {ts[i].key, ts[j].key} \in kn_Near)
  BY DEF Knowledge!NoLookalikes
<1>1. Unlike(ts)
  BY DEF UnlikeInv
<1>2. AreUnlike(ts) /\ DOMAIN ts = 1..Len(ts)
  BY <1>1 DEF Unlike
<1>3. ~Knowledge!Similar(ts[i].key, ts[j].key)
  BY <1>2 DEF AreUnlike
<1>. QED  BY <1>3 DEF Knowledge!Similar

LEMMA KnowledgeSteps == [AllNext]_All => [Knowledge!Next]_(Knowledge!vars)
BY DEF AllNext, All, Knowledge!vars, knowledgeVars

(* For any keys and any likeness of them: what the facade saved as an entry of  *)
(* its own, or left of a clean-up, is like nothing before it, in either list    *)
(* and in the file, in whatever order verdicts, deletions, clean-ups, crashes,  *)
(* and the saves of the tool and the dashboard come (knowledge_judge.py:141-180,*)
(* kb_commands.py:63-112, tools/task_memory.py:72-93).                          *)
THEOREM BaseHasNoLookalikes ==
    ASSUME kn_Old \in Seq(kn_Keys)
    PROVE  AllSpec => []NoLookalikes
<1>1. AllInit => UnlikeInv
  BY UnlikeInit DEF AllInit
<1>2. UnlikeInv /\ [AllNext]_All => UnlikeInv'
  BY UnlikeStep, KnowledgeSteps
<1>3. UnlikeInv => NoLookalikes
  BY UnlikeShows DEF NoLookalikes
<1>. QED  BY <1>1, <1>2, <1>3, PTL DEF AllSpec

------------------------------------------------------------------------------
(* Approvals: the theorem of the component, in the sum. *)

LEMMA ApprovalsSteps == [AllNext]_All => [Approvals!Next]_(Approvals!vars)
BY DEF AllNext, All, Approvals!vars, approvalsVars, Approvals!history

(* An approved call is started at most once in every behaviour of AllSpec.    *)
THEOREM ApprovedRunsOnce ==
    ASSUME ap_MaxRequests \in Nat
    PROVE  AllSpec => []RunOnce
<1>1. AllInit => Approvals!Init
  BY DEF AllInit
<1>2. [AllNext]_All => [Approvals!Next]_(Approvals!vars)
  BY ApprovalsSteps
<1>3. Approvals!Spec => []Approvals!RunOnce
  BY Approvals!RequestsRunOnce
<1>. QED  BY <1>1, <1>2, <1>3, PTL DEF AllSpec, RunOnce, Approvals!Spec
==============================================================================
