--------------------------- MODULE AgentLoop_proofs ---------------------------
(***************************************************************************)
(* For every set of batches and every limit: the model is asked only with  *)
(* answered calls, never after CbThreshold failing batches in a row and    *)
(* never after DuplicateThreshold equal ones.                              *)
(*                                                                         *)
(* CallsAnswered needs to know how many calls are open while the tools     *)
(* run: those of the batch and no other.  FailuresStop needs that the      *)
(* counter of the circuit breaker, which a detected loop, a flood or a     *)
(* failing executor leave behind, agrees with the history while the turn   *)
(* goes on.                                                                *)
(***************************************************************************)
EXTENDS MCAgentLoop, SequenceTheorems, FiniteSetTheorems,
        WellFoundedInduction, TLAPS

OpenIsBatch == pc = "tools" => open = Len(batch)

CounterIsStreak == pc # "off" => errors = streak /\ errors < CbThreshold

IInv ==
    /\ errors \in Nat
    /\ open \in Nat
    /\ batch \in Seq(Call)
    /\ CallsAnswered
    /\ OpenIsBatch
    /\ CounterIsStreak

------------------------------------------------------------------------------

LEMMA BatchTypes ==
    ASSUME NEW b \in Batches
    PROVE  b \in Seq(Call) /\ Len(b) \in Nat \ {0}
BY AgentLoopAssumption

LEMMA InitOK == Init => IInv
BY DEF Init, IInv, CallsAnswered, OpenIsBatch, CounterIsStreak, Call

\* The steps that propose no calls.
LEMMA PlainKeeps ==
    IInv /\ (Begin \/ Raise \/ Timeout \/ Answer \/ Nudge \/ NoPlan) => IInv'
<1> SUFFICES ASSUME IInv, Begin \/ Raise \/ Timeout \/ Answer \/ Nudge \/ NoPlan
             PROVE  IInv'
  OBVIOUS
<1> USE DEF IInv, CallsAnswered, OpenIsBatch, CounterIsStreak, Leave, counters
<1>1. CASE Begin    BY <1>1 DEF Begin, CbThreshold, Call
<1>2. CASE Raise    BY <1>2 DEF Raise
<1>3. CASE Timeout  BY <1>3 DEF Timeout
<1>4. CASE Answer   BY <1>4 DEF Answer
<1>5. CASE Nudge    BY <1>5 DEF Nudge, Iterate
<1>6. CASE NoPlan   BY <1>6 DEF NoPlan, Iterate
<1>. QED  BY <1>1, <1>2, <1>3, <1>4, <1>5, <1>6

\* The steps on a proposed batch: one that is blocked is answered at once, one
\* that is suspended or refused ends the turn.
LEMMA ProposalKeeps ==
    ASSUME IInv, NEW b \in Batches,
           Blocked(b) \/ Suspend(b) \/ HardBlock(b) \/ PreFails(b) \/ Execute(b)
    PROVE  IInv'
<1>1. b \in Seq(Call) /\ Len(b) \in Nat /\ Len(b) >= 1
  BY BatchTypes
<1> USE <1>1 DEF IInv, CallsAnswered, OpenIsBatch, CounterIsStreak, Leave,
                 counters, Proposed
<1>2. CASE Blocked(b)    BY <1>2 DEF Blocked, Iterate
<1>3. CASE Suspend(b)    BY <1>3 DEF Suspend
<1>4. CASE HardBlock(b)  BY <1>4 DEF HardBlock
<1>5. CASE PreFails(b)   BY <1>5 DEF PreFails
<1>6. CASE Execute(b)    BY <1>6 DEF Execute
<1>. QED  BY <1>2, <1>3, <1>4, <1>5, <1>6

\* The return of the tools answers the calls of the batch.
LEMMA ReturnKeeps ==
    ASSUME IInv, NEW failed \in BOOLEAN,
           StopFlood(failed) \/ StopFailing(failed) \/ StopStuck(failed) \/ GoOn(failed)
    PROVE  IInv'
<1>1. Returned(failed)
  BY DEF StopFlood, StopFailing, StopStuck, GoOn
<1>2. Len(batch) \in Nat /\ open = Len(batch) /\ errors = streak
  BY <1>1 DEF Returned, IInv, OpenIsBatch, CounterIsStreak
<1>3. open' = 0 /\ batch' = <<>> /\ <<>> \in Seq(Call)
  BY <1>1, <1>2 DEF Returned
<1>4. ErrorsNow(failed) \in Nat /\ streak' = ErrorsNow(failed)
  BY <1>1, <1>2 DEF Returned, ErrorsNow, IInv
<1>5. errors' \in Nat /\ pc' # "tools"
  BY <1>4 DEF StopFlood, StopFailing, StopStuck, GoOn, Leave, Iterate, IInv
<1>6. pc' # "off" => errors' = streak' /\ errors' < CbThreshold
  <2>1. pc' # "off" => GoOn(failed)
    BY DEF StopFlood, StopFailing, StopStuck, Leave
  <2>2. GoOn(failed) => errors' = ErrorsNow(failed) /\ ErrorsNow(failed) < CbThreshold
    BY <1>4 DEF GoOn, Tripped, CbThreshold
  <2>. QED  BY <2>1, <2>2, <1>4
<1>. QED
  BY <1>3, <1>5, <1>6 DEF IInv, CallsAnswered, OpenIsBatch, CounterIsStreak

LEMMA ExecutorFailsKeeps == IInv /\ ExecutorFails => IInv'
<1> SUFFICES ASSUME IInv, ExecutorFails PROVE IInv'
  OBVIOUS
<1>1. Len(batch) \in Nat /\ open = Len(batch)
  BY DEF IInv, ExecutorFails, OpenIsBatch
<1>2. PICK n \in 0..Len(batch) : open' = open - n
  BY DEF ExecutorFails
<1>3. open' \in Nat
  BY <1>1, <1>2
<1>4. pc' = "off" /\ batch' = <<>> /\ errors' = errors
  BY DEF ExecutorFails, Leave
<1>. QED
  BY <1>3, <1>4 DEF IInv, CallsAnswered, OpenIsBatch, CounterIsStreak

LEMMA InductiveInvariant == Spec => []IInv
<1>1. IInv /\ [Next]_vars => IInv'
  <2> SUFFICES ASSUME IInv, [Next]_vars PROVE IInv'
    OBVIOUS
  <2>1. CASE Begin \/ Raise \/ Timeout \/ Answer \/ Nudge \/ NoPlan
    BY <2>1, PlainKeeps
  <2>2. ASSUME NEW b \in Batches,
               Blocked(b) \/ Suspend(b) \/ HardBlock(b) \/ PreFails(b) \/ Execute(b)
        PROVE  IInv'
    BY <2>2, ProposalKeeps
  <2>3. ASSUME NEW failed \in BOOLEAN,
               \/ StopFlood(failed) \/ StopFailing(failed)
               \/ StopStuck(failed) \/ GoOn(failed)
        PROVE  IInv'
    BY <2>3, ReturnKeeps
  <2>4. CASE ExecutorFails
    BY <2>4, ExecutorFailsKeeps
  <2>5. CASE UNCHANGED vars
    BY <2>5 DEF vars, IInv, CallsAnswered, OpenIsBatch, CounterIsStreak
  <2>. QED
    BY <2>1, <2>2, <2>3, <2>4, <2>5 DEF Next, ModelReturns, ToolsReturn
<1>. QED  BY InitOK, <1>1, PTL DEF Spec

------------------------------------------------------------------------------

\* The messages the model is asked with have a result for every call in them
\* (_run_agent_loop_v2 with VerificationMiddleware and ToolExecutor).
THEOREM ModelSeesAnsweredCalls == Spec => []CallsAnswered
<1>1. IInv => CallsAnswered
  BY DEF IInv
<1>. QED  BY InductiveInvariant, <1>1, PTL

\* A turn never goes on after CbThreshold batches in a row that failed
\* (CircuitBreakerMiddleware.post_process).
THEOREM FailingTurnsStop == Spec => []FailuresStop
<1>1. IInv => FailuresStop
  BY DEF IInv, CounterIsStreak, FailuresStop
<1>. QED  BY InductiveInvariant, <1>1, PTL

------------------------------------------------------------------------------
(* What FlattenSeq gives, and with it the calls of a sequence of batches.    *)

LEMMA LeastElement ==
    ASSUME NEW S \in SUBSET Nat, S # {}
    PROVE  \E x \in S : \A y \in S : x <= y
<1> DEFINE R == OpToRel(<, Nat)
<1>1. PICK x \in S : \A y \in S : ~ (<<y, x>> \in R)
  <2>1. IsWellFoundedOn(R, Nat)
    BY NatLessThanWellFounded
  <2> HIDE DEF R
  <2>. QED  BY <2>1, WFMin
<1>2. \A y \in S : ~ (y < x)
  BY <1>1 DEF OpToRel
<1>. QED  BY <1>2

\* What holds of 1 and goes from each number to the next holds up to n.
LEMMA UpTo ==
    ASSUME NEW n \in Nat, NEW S, n >= 1 => 1 \in S,
           \A j \in 1..n : j \in S /\ j + 1 <= n => j + 1 \in S
    PROVE  \A j \in 1..n : j \in S
<1> SUFFICES ASSUME NEW k \in 1..n, k \notin S PROVE FALSE
  OBVIOUS
<1>1. PICK x \in {j \in 1..n : j \notin S} : \A y \in {j \in 1..n : j \notin S} : x <= y
  <2>1. {j \in 1..n : j \notin S} \in SUBSET Nat
    OBVIOUS
  <2>. QED  BY <2>1, LeastElement
<1>2. x # 1 /\ x - 1 \in 1..n /\ (x - 1) + 1 = x
  BY <1>1
<1>3. x - 1 \in S
  BY <1>1, <1>2
<1>. QED  BY <1>1, <1>2, <1>3

Regroups(a, b, c) == (a \o b) \o c = a \o (b \o c)

LEMMA Regroup ==
    ASSUME NEW X, NEW a \in Seq(X), NEW b \in Seq(X), NEW c \in Seq(X)
    PROVE  Regroups(a, b, c)
BY ConcatAssociative DEF Regroups

\* FlattenSeq joins the sequences one after the other: its partial results.
FlatBody(f, s) == [i \in 1..Len(s) |-> IF i = 1 THEN s[i] ELSE f[i - 1] \o s[i]]
Joined(s) == CHOOSE f : f = FlatBody(f, s)
UpToBody(f, s, m) == [i \in 1..m |-> IF i = 1 THEN s[i] ELSE f[i - 1] \o s[i]]

LEMMA FlatIs ==
    ASSUME NEW s, Len(s) # 0
    PROVE  FlattenSeq(s) = Joined(s)[Len(s)]
BY DEF FlattenSeq, FlatBody, Joined

\* The recursion has a solution.
LEMMA JoinedBody ==
    ASSUME NEW s, Len(s) \in Nat
    PROVE  Joined(s) = FlatBody(Joined(s), s)
<1>1. PICK n \in Nat : n = Len(s)
  OBVIOUS
<1>2. CASE n = 0
  <2>1. PICK f : f = [i \in 1..0 |-> 0]
    OBVIOUS
  <2>2. f = FlatBody(f, s)
    BY <1>1, <1>2, <2>1 DEF FlatBody
  <2>. QED  BY <2>2 DEF Joined
<1>3. CASE n >= 1
  <2> DEFINE S == {m \in 1..n : \E f : f = UpToBody(f, s, m)}
  <2>1. 1 \in S
    <3>1. PICK f : f = [i \in 1..1 |-> s[1]]
      OBVIOUS
    <3>2. f = UpToBody(f, s, 1)
      BY <3>1 DEF UpToBody
    <3>. QED  BY <1>3, <3>2
  <2>2. ASSUME NEW m \in 1..n, m \in S, m + 1 <= n PROVE m + 1 \in S
    <3>1. PICK f : f = UpToBody(f, s, m)
      BY <2>2
    <3>2. DOMAIN f = 1..m /\ \A i \in 1..m : f[i] = IF i = 1 THEN s[i] ELSE f[i - 1] \o s[i]
      BY <3>1 DEF UpToBody
    <3>0. PICK e : e = f[m] \o s[m + 1]
      OBVIOUS
    <3>3. PICK g : g = [i \in 1..(m + 1) |-> IF i \in 1..m THEN f[i] ELSE e]
      OBVIOUS
    <3>4. \A i \in 1..(m + 1) : g[i] = IF i = 1 THEN s[i] ELSE g[i - 1] \o s[i]
      <4>1. ASSUME NEW i \in 1..m PROVE g[i] = IF i = 1 THEN s[i] ELSE g[i - 1] \o s[i]
        <5>1. g[i] = f[i] /\ (i # 1 => i - 1 \in 1..m /\ i - 1 \in 1..(m + 1))
          BY <3>3
        <5>2. i # 1 => g[i - 1] = f[i - 1]
          BY <3>3, <5>1
        <5>. QED  BY <3>2, <5>1, <5>2
      <4>2. g[m + 1] = g[m] \o s[m + 1] /\ m + 1 # 1 /\ (m + 1) - 1 = m
        <5>1. m \in 1..(m + 1) /\ m + 1 \in 1..(m + 1) /\ m + 1 \notin 1..m /\ m + 1 # 1 /\ (m + 1) - 1 = m
          OBVIOUS
        <5>2. g[m] = f[m] /\ g[m + 1] = e
          BY <3>3, <5>1
        <5>. QED  BY <3>0, <5>1, <5>2
      <4>3. \A i \in 1..(m + 1) : i \in 1..m \/ i = m + 1
        OBVIOUS
      <4>. QED  BY <4>1, <4>2, <4>3
    <3>5. g = UpToBody(g, s, m + 1)
      BY <3>3, <3>4 DEF UpToBody
    <3>. QED  BY <2>2, <3>5
  <2>3. n \in S
    <3> HIDE DEF S
    <3>1. \A j \in 1..n : j \in S /\ j + 1 <= n => j + 1 \in S
      BY <2>2
    <3>2. \A j \in 1..n : j \in S
      BY <2>1, <3>1, UpTo
    <3>. QED  BY <1>3, <3>2
  <2>4. PICK f : f = UpToBody(f, s, n)
    BY <2>3
  <2>5. f = FlatBody(f, s)
    BY <1>1, <2>4 DEF UpToBody, FlatBody
  <2>. QED  BY <2>5 DEF Joined
<1>. QED  BY <1>2, <1>3

LEMMA JoinedIs ==
    ASSUME NEW X, NEW s \in Seq(Seq(X))
    PROVE  /\ Len(s) # 0 => Joined(s)[1] = s[1]
           /\ \A i \in 1..Len(s) : i + 1 <= Len(s) => Joined(s)[i + 1] = Joined(s)[i] \o s[i + 1]
<1>1. PICK n \in Nat : n = Len(s)
  OBVIOUS
<1>2. PICK f : f = Joined(s)
  OBVIOUS
<1>3. f = FlatBody(f, s)
  BY <1>1, <1>2, JoinedBody
<1>4. \A i \in 1..n : f[i] = IF i = 1 THEN s[i] ELSE f[i - 1] \o s[i]
  BY <1>1, <1>3 DEF FlatBody
<1>5. n # 0 => f[1] = s[1]
  BY <1>4
<1>6. ASSUME NEW i \in 1..n, i + 1 <= n PROVE f[i + 1] = f[i] \o s[i + 1]
  <2>1. i + 1 \in 1..n /\ i + 1 # 1 /\ (i + 1) - 1 = i
    BY <1>6
  <2>. QED  BY <1>4, <2>1
<1>. QED  BY <1>1, <1>2, <1>5, <1>6

LEMMA JoinedType ==
    ASSUME NEW X, NEW s \in Seq(Seq(X))
    PROVE  \A i \in 1..Len(s) : Joined(s)[i] \in Seq(X)
<1>1. PICK n \in Nat : n = Len(s)
  OBVIOUS
<1>2. PICK f : f = Joined(s)
  OBVIOUS
<1> DEFINE S == {i \in 1..n : f[i] \in Seq(X)}
<1>3. n >= 1 => 1 \in S
  <2> SUFFICES ASSUME n >= 1 PROVE 1 \in S
    OBVIOUS
  <2>1. 1 \in 1..n /\ Len(s) # 0
    BY <1>1
  <2>2. f[1] = s[1]
    BY <1>2, <2>1, JoinedIs
  <2>. QED  BY <1>1, <2>1, <2>2
<1>4. ASSUME NEW i \in 1..n, i \in S, i + 1 <= n PROVE i + 1 \in S
  <2>1. f[i + 1] = f[i] \o s[i + 1]
    BY <1>1, <1>2, <1>4, JoinedIs
  <2>2. s[i + 1] \in Seq(X) /\ f[i] \in Seq(X)
    BY <1>1, <1>4
  <2>3. f[i] \o s[i + 1] \in Seq(X)
    BY <2>2, ConcatProperties
  <2>4. i + 1 \in 1..n
    BY <1>4
  <2>. QED  BY <2>1, <2>3, <2>4
<1>5. \A i \in 1..n : i \in S
  <2> HIDE DEF S
  <2>1. \A j \in 1..n : j \in S /\ j + 1 <= n => j + 1 \in S
    BY <1>4
  <2>. QED  BY <1>3, <2>1, UpTo
<1>. QED  BY <1>1, <1>2, <1>5

\* Joined sequences that are not empty are as many elements at least.
LEMMA JoinedLong ==
    ASSUME NEW X, NEW s \in Seq(Seq(X)), \A i \in 1..Len(s) : Len(s[i]) >= 1
    PROVE  \A i \in 1..Len(s) : Len(Joined(s)[i]) >= i
<1>1. PICK n \in Nat : n = Len(s)
  OBVIOUS
<1>2. PICK f : f = Joined(s)
  OBVIOUS
<1> DEFINE S == {i \in 1..n : Len(f[i]) >= i}
<1>3. n >= 1 => 1 \in S
  <2> SUFFICES ASSUME n >= 1 PROVE 1 \in S
    OBVIOUS
  <2>1. 1 \in 1..n /\ Len(s) # 0
    BY <1>1
  <2>2. f[1] = s[1]
    BY <1>2, <2>1, JoinedIs
  <2>. QED  BY <1>1, <2>1, <2>2
<1>4. ASSUME NEW i \in 1..n, i \in S, i + 1 <= n PROVE i + 1 \in S
  <2>1. f[i + 1] = f[i] \o s[i + 1]
    BY <1>1, <1>2, <1>4, JoinedIs
  <2>2. s[i + 1] \in Seq(X) /\ f[i] \in Seq(X) /\ Len(s[i + 1]) >= 1
    BY <1>1, <1>2, <1>4, JoinedType
  <2>3. Len(f[i] \o s[i + 1]) = Len(f[i]) + Len(s[i + 1]) /\ Len(f[i]) \in Nat /\ Len(s[i + 1]) \in Nat
    BY <2>2, ConcatProperties
  <2>4. i + 1 \in 1..n /\ Len(f[i]) >= i
    BY <1>4
  <2>5. Len(f[i + 1]) >= i + 1
    <3>1. PICK a \in Nat, b \in Nat : a = Len(f[i]) /\ b = Len(s[i + 1])
      BY <2>3
    <3>2. Len(f[i + 1]) = a + b /\ a >= i /\ b >= 1
      BY <2>1, <2>2, <2>3, <2>4, <3>1
    <3>. QED  BY <3>2
  <2>. QED  BY <2>4, <2>5
<1>5. \A i \in 1..n : i \in S
  <2> HIDE DEF S
  <2>1. \A j \in 1..n : j \in S /\ j + 1 <= n => j + 1 \in S
    BY <1>4
  <2>. QED  BY <1>3, <2>1, UpTo
<1>. QED  BY <1>1, <1>2, <1>5

\* The elements of s after the first d.
JoinedAfter(t, s, d) ==
    \A j \in 1..Len(t) : Joined(s)[d + j] = Joined(s)[d] \o Joined(t)[j]
RestOf(t, s, d) == Len(s) = Len(t) + d /\ \A j \in 1..Len(t) : t[j] = s[d + j]

\* The last of the sequences, joined, end what all of them are joined to.
LEMMA JoinedTail ==
    ASSUME NEW X, NEW s \in Seq(Seq(X)), NEW t \in Seq(Seq(X)),
           NEW d \in Nat, d >= 1, Len(t) >= 1, RestOf(t, s, d)
    PROVE  JoinedAfter(t, s, d)
<1>1. PICK n \in Nat : n = Len(t)
  OBVIOUS
<1>2. PICK f : f = Joined(s)
  OBVIOUS
<1>3. PICK g : g = Joined(t)
  OBVIOUS
<1>4. Len(s) = n + d /\ n >= 1 /\ \A j \in 1..n : t[j] = s[d + j]
  BY <1>1 DEF RestOf
<1>5. \A i \in 1..(n + d) : i + 1 <= n + d => f[i + 1] = f[i] \o s[i + 1]
  BY <1>2, <1>4, JoinedIs
<1>6. /\ g[1] = t[1]
      /\ \A i \in 1..n : i + 1 <= n => g[i + 1] = g[i] \o t[i + 1]
  <2>1. Len(t) # 0
    BY <1>1, <1>4
  <2>. QED  BY <1>1, <1>3, <2>1, JoinedIs
<1>7. f[d] \in Seq(X) /\ \A j \in 1..n : g[j] \in Seq(X) /\ t[j] \in Seq(X)
  <2>1. d \in 1..Len(s)
    BY <1>4
  <2>2. f[d] \in Seq(X)
    BY <1>2, <2>1, JoinedType
  <2>3. \A j \in 1..n : g[j] \in Seq(X)
    BY <1>1, <1>3, JoinedType
  <2>4. \A j \in 1..n : t[j] \in Seq(X)
    BY <1>1, ElementOfSeq
  <2>. QED  BY <2>2, <2>3, <2>4
<1> DEFINE S == {j \in 1..n : f[d + j] = f[d] \o g[j]}
<1>8. 1 \in S
  <2>1. d \in 1..(n + d) /\ d + 1 <= n + d /\ 1 \in 1..n
    BY <1>4
  <2>. QED  BY <1>4, <1>5, <1>6, <2>1
<1>9. ASSUME NEW j \in 1..n, j \in S, j + 1 <= n PROVE j + 1 \in S
  <2>1. d + j \in 1..(n + d) /\ (d + j) + 1 <= n + d /\ (d + j) + 1 = d + (j + 1) /\ j + 1 \in 1..n
    BY <1>9
  <2>2. f[d + (j + 1)] = f[d + j] \o s[d + (j + 1)]
    BY <1>5, <2>1
  <2>3. g[j + 1] = g[j] \o t[j + 1] /\ t[j + 1] = s[d + (j + 1)]
    BY <1>4, <1>6, <1>9, <2>1
  <2>4. f[d] \in Seq(X) /\ g[j] \in Seq(X) /\ t[j + 1] \in Seq(X)
    BY <1>7, <2>1
  <2>5. (f[d] \o g[j]) \o t[j + 1] = f[d] \o (g[j] \o t[j + 1])
    <3>1. Regroups(f[d], g[j], t[j + 1])
      BY <2>4, Regroup
    <3>. QED  BY <3>1 DEF Regroups
  <2>6. f[d + j] = f[d] \o g[j]
    BY <1>9
  <2>7. f[d + (j + 1)] = f[d] \o g[j + 1]
    BY <2>2, <2>3, <2>5, <2>6
  <2>. QED  BY <2>1, <2>7
<1>10. \A j \in 1..n : j \in S
  <2> HIDE DEF S
  <2>1. \A j \in 1..n : j \in S /\ j + 1 <= n => j + 1 \in S
    BY <1>9
  <2>. QED  BY <1>8, <2>1, UpTo
<1>. QED  BY <1>1, <1>2, <1>3, <1>10 DEF JoinedAfter

\* What ends the end of a sequence of sequences ends the whole of it.
LEMMA FlatTail ==
    ASSUME NEW X, NEW s \in Seq(Seq(X)), NEW t \in Seq(Seq(X)),
           NEW d \in Nat, Len(t) >= 1, RestOf(t, s, d)
    PROVE  \E p \in Seq(X) : FlattenSeq(s) = p \o FlattenSeq(t)
<1>1. PICK n \in Nat : n = Len(t)
  BY LenProperties
<1>2. n >= 1 /\ Len(s) = n + d /\ n + d # 0
  BY <1>1 DEF RestOf
<1>3. FlattenSeq(s) = Joined(s)[n + d] /\ FlattenSeq(t) = Joined(t)[n]
  <2>1. Len(s) # 0 /\ Len(t) # 0
    BY <1>1, <1>2
  <2>2. FlattenSeq(s) = Joined(s)[Len(s)] /\ FlattenSeq(t) = Joined(t)[Len(t)]
    BY <2>1, FlatIs
  <2>. QED  BY <1>1, <1>2, <2>2
<1>4. CASE d = 0
  <2>1. s = t
    <3>1. Len(s) = Len(t) /\ \A j \in 1..Len(t) : t[j] = s[j]
      BY <1>1, <1>2, <1>4 DEF RestOf
    <3>. QED  BY <3>1, SeqEqual
  <2>2. n \in 1..Len(t)
    BY <1>1, <1>2
  <2>3. <<>> \in Seq(X) /\ FlattenSeq(t) \in Seq(X)
    BY <1>3, <2>2, JoinedType
  <2>4. FlattenSeq(s) = <<>> \o FlattenSeq(t)
    BY <2>1, <2>3, ConcatEmptySeq
  <2>. QED  BY <2>3, <2>4
<1>5. CASE d >= 1
  <2>1. JoinedAfter(t, s, d)
    BY <1>5, JoinedTail
  <2>2. n \in 1..Len(t) /\ d + n = n + d /\ d \in 1..Len(s)
    BY <1>1, <1>2, <1>5
  <2>3. Joined(s)[d] \in Seq(X)
    BY <2>2, JoinedType
  <2>4. Joined(s)[d + n] = Joined(s)[d] \o Joined(t)[n]
    BY <2>1, <2>2 DEF JoinedAfter
  <2>5. PICK p \in Seq(X) : p = Joined(s)[d]
    BY <2>3
  <2>6. FlattenSeq(s) = p \o FlattenSeq(t)
    BY <1>3, <2>2, <2>4, <2>5
  <2>. QED  BY <2>6
<1>6. d = 0 \/ d >= 1
  OBVIOUS
<1>. QED  BY <1>4, <1>5, <1>6, Zenon

------------------------------------------------------------------------------
(* The batches of a turn and the signatures of them that are kept.  The last *)
(* Kept batches are always among the kept ones, so that the comparison of    *)
(* signatures is one of batches, and a cycle of calls the window can hold is *)
(* a cycle of the calls of the kept ones.                                    *)

Kept == IF FuzzyWindow > DuplicateThreshold THEN FuzzyWindow ELSE DuplicateThreshold

SigsAreTail ==
    /\ sigs \in Seq(Batches) /\ ran \in Seq(Batches)
    /\ Len(sigs) <= Len(ran)
    /\ Len(sigs) = Len(ran) \/ Len(sigs) >= Kept
    /\ \A j \in 0..(Len(sigs) - 1) : sigs[Len(sigs) - j] = ran[Len(ran) - j]

LInv ==
    /\ pc = "tools" => batch \in Batches
    /\ pc # "off" => SigsAreTail /\ ~DuplicateLoop(ran) /\ ~FuzzyLoop(sigs)

\* A repetition is one of the last three elements.
LEMMA LoopIsTriple ==
    ASSUME NEW s \in Seq(Batches)
    PROVE  DuplicateLoop(s) <=> /\ Len(s) >= 3
                                /\ s[Len(s) - 2] = s[Len(s) - 1]
                                /\ s[Len(s) - 1] = s[Len(s)]
<1>1. CASE Len(s) < 3
  BY <1>1 DEF DuplicateLoop, EndsIn, DuplicateThreshold
<1>2. CASE Len(s) >= 3
  <2> DEFINE tail == LastOf(s, 3)
  <2>1. \A i \in 1..3 : tail[i] = s[Len(s) - 3 + i]
    BY <1>2 DEF LastOf
  <2>2. tail[1] = s[Len(s) - 2] /\ tail[2] = s[Len(s) - 1] /\ tail[3] = s[Len(s)]
    BY <2>1
  <2>3. DuplicateLoop(s) <=> \A i \in 1..2 : tail[i] = tail[i + 1]
    <3>1. 3 * 1 = 3 /\ (3 - 1) * 1 = 2
      OBVIOUS
    <3>. QED  BY <1>2, <3>1 DEF DuplicateLoop, EndsIn, DuplicateThreshold
  <2> HIDE DEF tail
  <2>4. (\A i \in 1..2 : tail[i] = tail[i + 1]) <=> tail[1] = tail[2] /\ tail[2] = tail[3]
    <3>1. 1 + 1 = 2 /\ 2 + 1 = 3 /\ 1..2 = {1, 2}
      OBVIOUS
    <3>. QED  BY <3>1
  <2>. QED  BY <1>2, <2>2, <2>3, <2>4
<1>. QED  BY <1>1, <1>2

\* The signatures repeat as the batches do.
LEMMA LoopsAgree ==
    ASSUME SigsAreTail
    PROVE  DuplicateLoop(sigs) <=> DuplicateLoop(ran)
<1>1. /\ sigs \in Seq(Batches) /\ ran \in Seq(Batches)
      /\ Len(sigs) \in Nat /\ Len(ran) \in Nat
  BY DEF SigsAreTail
<1>2. Len(sigs) >= 3 <=> Len(ran) >= 3
  <2>1. Kept \in Nat /\ Kept >= 3
    BY AgentLoopAssumption DEF Kept, DuplicateThreshold
  <2>. QED  BY <1>1, <2>1 DEF SigsAreTail
<1>3. Len(sigs) >= 3 => /\ sigs[Len(sigs)] = ran[Len(ran)]
                        /\ sigs[Len(sigs) - 1] = ran[Len(ran) - 1]
                        /\ sigs[Len(sigs) - 2] = ran[Len(ran) - 2]
  <2> SUFFICES ASSUME Len(sigs) >= 3
               PROVE  /\ sigs[Len(sigs)] = ran[Len(ran)]
                      /\ sigs[Len(sigs) - 1] = ran[Len(ran) - 1]
                      /\ sigs[Len(sigs) - 2] = ran[Len(ran) - 2]
    OBVIOUS
  <2>1. 0 \in 0..(Len(sigs) - 1) /\ 1 \in 0..(Len(sigs) - 1) /\ 2 \in 0..(Len(sigs) - 1)
    BY <1>1
  <2>2. /\ sigs[Len(sigs) - 0] = ran[Len(ran) - 0]
        /\ sigs[Len(sigs) - 1] = ran[Len(ran) - 1]
        /\ sigs[Len(sigs) - 2] = ran[Len(ran) - 2]
    BY <2>1 DEF SigsAreTail
  <2>3. Len(sigs) - 0 = Len(sigs) /\ Len(ran) - 0 = Len(ran)
    BY <1>1
  <2>. QED  BY <2>2, <2>3
<1>. QED  BY <1>1, <1>2, <1>3, LoopIsTriple

\* A batch more, and one signature more of which the oldest may go.
LEMMA TailGrows ==
    ASSUME SigsAreTail, batch \in Batches,
           sigs' = SigsNow, ran' = Append(ran, batch)
    PROVE  SigsAreTail'
<1> DEFINE longer == Append(sigs, batch)
           n == Kept
           L == Len(longer)
<1>0. /\ sigs \in Seq(Batches) /\ ran \in Seq(Batches)
      /\ Len(sigs) \in Nat /\ Len(ran) \in Nat
      /\ n \in Nat /\ n >= 3
  BY AgentLoopAssumption DEF SigsAreTail, Kept, DuplicateThreshold
<1>1. /\ longer \in Seq(Batches) /\ L = Len(sigs) + 1
      /\ ran' \in Seq(Batches) /\ Len(ran') = Len(ran) + 1
      /\ longer[L] = batch /\ ran'[Len(ran')] = batch
      /\ \A i \in 1..Len(sigs) : longer[i] = sigs[i]
      /\ \A i \in 1..Len(ran) : ran'[i] = ran[i]
  BY <1>0
<1>2. Len(sigs) <= Len(ran) /\ (Len(sigs) = Len(ran) \/ Len(sigs) >= n)
  BY DEF SigsAreTail
<1>3. \A j \in 0..(L - 1) : longer[L - j] = ran'[Len(ran') - j]
  <2> SUFFICES ASSUME NEW j \in 0..(L - 1) PROVE longer[L - j] = ran'[Len(ran') - j]
    OBVIOUS
  <2>1. CASE j = 0
    BY <2>1, <1>0, <1>1
  <2>2. CASE j # 0
    <3> DEFINE k == j - 1
    <3>1. k \in 0..(Len(sigs) - 1) /\ j = k + 1
      BY <2>2, <1>0, <1>1
    <3> HIDE DEF k
    <3>2. sigs[Len(sigs) - k] = ran[Len(ran) - k]
      BY <3>1 DEF SigsAreTail
    <3>3. Len(sigs) - k \in 1..Len(sigs) /\ Len(ran) - k \in 1..Len(ran)
      BY <3>1, <1>0, <1>2
    <3>4. L - j = Len(sigs) - k /\ Len(ran') - j = Len(ran) - k
      BY <3>1, <1>0, <1>1
    <3>. QED  BY <3>2, <3>3, <3>4, <1>1
  <2>. QED  BY <2>1, <2>2
<1>4. sigs' = IF L > n THEN SubSeq(longer, L - n + 1, L) ELSE longer
  BY DEF SigsNow, Retained, LastOf, Kept
<1>5. CASE ~(L > n)
  <2> HIDE DEF n
  <2>1. sigs' = longer
    BY <1>4, <1>5
  <2>2. Len(sigs') <= Len(ran') /\ (Len(sigs') = Len(ran') \/ Len(sigs') >= n)
    BY <1>0, <1>1, <1>2, <2>1
  <2>3. \A j \in 0..(Len(sigs') - 1) : sigs'[Len(sigs') - j] = ran'[Len(ran') - j]
    BY <1>3, <2>1
  <2>4. n' = n
    BY DEF n, Kept, DuplicateThreshold
  <2>. QED  BY <1>1, <2>1, <2>2, <2>3, <2>4 DEF SigsAreTail, n
<1>6. CASE L > n
  <2> HIDE DEF n, L, longer
  <2>1. /\ sigs' \in Seq(Batches) /\ Len(sigs') = n
        /\ \A i \in 1..n : sigs'[i] = longer[L - n + i]
    <3> DEFINE m == L - n + 1
    <3>1. sigs' = SubSeq(longer, m, L) /\ L = Len(longer) /\ L \in Nat
      BY <1>0, <1>1, <1>4, <1>6 DEF L
    <3>2. m \in Int /\ L \in Int /\ m <= L /\ L - m + 1 = n
      BY <3>1, <1>0, <1>6
    <3>3. ASSUME NEW i \in m..L PROVE longer[i] \in Batches
      <4>1. i \in 1..Len(longer)
        BY <3>1, <1>0, <1>6
      <4>. QED  BY <4>1, <1>1
    <3>4. \A i \in 1..n : m + i - 1 = L - n + i
      BY <3>1, <1>0
    <3> HIDE DEF m
    <3>5. /\ SubSeq(longer, m, L) \in Seq(Batches)
          /\ Len(SubSeq(longer, m, L)) = n
          /\ \A i \in 1..n : SubSeq(longer, m, L)[i] = longer[m + i - 1]
      BY <3>2, <3>3, SubSeqProperties
    <3>. QED  BY <3>1, <3>4, <3>5
  <2>2. ASSUME NEW j \in 0..(n - 1) PROVE sigs'[n - j] = ran'[Len(ran') - j]
    <3>1. n - j \in 1..n /\ L - n + (n - j) = L - j /\ j \in 0..(L - 1)
      BY <1>0, <1>1, <1>6
    <3>2. sigs'[n - j] = longer[L - n + (n - j)]
      BY <3>1, <2>1
    <3>. QED  BY <3>1, <3>2, <1>3
  <2>3. Len(sigs') <= Len(ran') /\ Len(sigs') >= n
    BY <2>1, <1>0, <1>1, <1>2, <1>6
  <2>4. \A j \in 0..(Len(sigs') - 1) : sigs'[Len(sigs') - j] = ran'[Len(ran') - j]
    BY <2>1, <2>2
  <2>5. n' = n
    BY DEF n, Kept, DuplicateThreshold
  <2>. QED  BY <2>1, <2>3, <2>4, <2>5, <1>1 DEF SigsAreTail, n
<1>. QED  BY <1>5, <1>6

\* A cycle at the end of a sequence is one at the end of all that it ends.
LEMMA TailEnds ==
    ASSUME NEW X, NEW p \in Seq(X), NEW q \in Seq(X), NEW k \in 2..4,
           3 * k <= Len(q), EndsIn(p \o q, 3, k)
    PROVE  EndsIn(q, 3, k)
<1>1. PICK m \in Nat, r \in Seq(X), a \in Nat, b \in Nat :
         m = 3 * k /\ r = p \o q /\ a = Len(p) /\ b = Len(q)
  <2>1. 3 * k \in Nat
    OBVIOUS
  <2>2. p \o q \in Seq(X) /\ Len(p) \in Nat /\ Len(q) \in Nat
    BY ConcatProperties
  <2>. QED  BY <2>1, <2>2
<1>2. m <= b /\ (3 - 1) * k = m - k /\ Len(r) = a + b
  BY <1>1, ConcatProperties
<1>3. \A i \in 1..b : r[a + i] = q[i]
  BY <1>1, ConcatProperties
<1>4. /\ \A i \in 1..m : LastOf(r, m)[i] = r[a + b - m + i]
      /\ \A i \in 1..m : LastOf(q, m)[i] = q[b - m + i]
  <2>1. LastOf(r, m) = SubSeq(r, a + b - m + 1, a + b) /\ LastOf(q, m) = SubSeq(q, b - m + 1, b)
    <3>1. Len(r) = a + b /\ Len(q) = b
      BY <1>1, <1>2
    <3>2. LastOf(r, m) = SubSeq(r, Len(r) - m + 1, Len(r)) /\ LastOf(q, m) = SubSeq(q, Len(q) - m + 1, Len(q))
      BY DEF LastOf
    <3>. QED  BY <3>1, <3>2
  <2>2. /\ \A i \in 1..m : SubSeq(r, a + b - m + 1, a + b)[i] = r[a + b - m + i]
        /\ \A i \in 1..m : SubSeq(q, b - m + 1, b)[i] = q[b - m + i]
    BY <1>2
  <2>. QED  BY <2>1, <2>2
<1>5. \A i \in 1..m : LastOf(r, m)[i] = LastOf(q, m)[i]
  <2> SUFFICES ASSUME NEW i \in 1..m PROVE LastOf(r, m)[i] = LastOf(q, m)[i]
    OBVIOUS
  <2>1. b - m + i \in 1..b /\ a + (b - m + i) = a + b - m + i
    BY <1>2
  <2>. QED  BY <1>3, <1>4, <2>1
<1>6. \A i \in 1..(m - k) : LastOf(r, m)[i] = LastOf(r, m)[i + k]
  BY <1>1, <1>2 DEF EndsIn
<1>7. \A i \in 1..(m - k) : LastOf(q, m)[i] = LastOf(q, m)[i + k]
  <2> SUFFICES ASSUME NEW i \in 1..(m - k) PROVE LastOf(q, m)[i] = LastOf(q, m)[i + k]
    OBVIOUS
  <2>1. i \in 1..m /\ i + k \in 1..m
    BY <1>1
  <2>. QED  BY <1>5, <1>6, <2>1
<1>. QED  BY <1>1, <1>2, <1>7 DEF EndsIn

\* A cycle that the window can hold is one of the calls that are kept.
LEMMA CyclesAgree ==
    ASSUME SigsAreTail, NEW k \in 2..4, 3 * k <= FuzzyWindow, Len(ran) >= 4,
           EndsIn(FlattenSeq(ran), 3, k)
    PROVE  Len(sigs) >= 4 /\ EndsIn(FlattenSeq(sigs), 3, k)
<1>1. /\ sigs \in Seq(Seq(Call)) /\ ran \in Seq(Seq(Call))
      /\ \A i \in 1..Len(sigs) : Len(sigs[i]) >= 1
  <2>1. sigs \in Seq(Batches) /\ ran \in Seq(Batches) /\ Batches \subseteq Seq(Call)
    BY AgentLoopAssumption DEF SigsAreTail
  <2>2. \A i \in 1..Len(sigs) : sigs[i] \in Batches
    BY <2>1
  <2>. QED  BY <2>1, <2>2, BatchTypes
<1>2. PICK n \in Nat, l \in Nat : n = Len(sigs) /\ l = Len(ran)
  BY <1>1
<1>3. n <= l /\ (n = l \/ n >= FuzzyWindow) /\ FuzzyWindow \in Nat
  <2>1. Kept \in Nat /\ Kept >= FuzzyWindow /\ FuzzyWindow \in Nat
    BY AgentLoopAssumption DEF Kept, DuplicateThreshold
  <2>. QED  BY <1>2, <2>1 DEF SigsAreTail
<1>4. \A j \in 1..n : sigs[j] = ran[(l - n) + j]
  <2> SUFFICES ASSUME NEW j \in 1..n PROVE sigs[j] = ran[(l - n) + j]
    OBVIOUS
  <2>1. n - j \in 0..(n - 1) /\ n - (n - j) = j /\ l - (n - j) = (l - n) + j
    BY <1>3
  <2>2. sigs[n - (n - j)] = ran[l - (n - j)]
    BY <1>2, <2>1 DEF SigsAreTail
  <2>. QED  BY <2>1, <2>2
<1>5. CASE n = l
  <2>1. \A j \in 1..n : sigs[j] = ran[j]
    BY <1>4, <1>5
  <2>2. sigs = ran
    BY <1>1, <1>2, <1>5, <2>1, SeqEqual
  <2>. QED  BY <2>2
<1>6. CASE n >= FuzzyWindow
  <2>1. n >= 4 /\ 3 * k <= n
    BY <1>3, <1>6
  <2>2. PICK d \in Nat : d = l - n
    BY <1>3
  <2>3. RestOf(sigs, ran, d)
    BY <1>2, <1>3, <1>4, <2>2 DEF RestOf
  <2>4. Len(sigs) >= 1
    BY <1>2, <2>1
  <2>5. \E p \in Seq(Call) : FlattenSeq(ran) = p \o FlattenSeq(sigs)
    BY <1>1, <2>3, <2>4, FlatTail
  <2>6. FlattenSeq(sigs) \in Seq(Call) /\ Len(FlattenSeq(sigs)) >= n
    <3>1. n \in 1..Len(sigs) /\ Len(sigs) # 0 /\ FlattenSeq(sigs) = Joined(sigs)[n]
      BY <1>2, <2>1, FlatIs
    <3>. QED  BY <1>1, <3>1, JoinedType, JoinedLong
  <2>7. 3 * k <= Len(FlattenSeq(sigs))
    <3>1. PICK z \in Nat : z = Len(FlattenSeq(sigs))
      BY <2>6
    <3>. QED  BY <2>1, <2>6, <3>1
  <2>8. EndsIn(FlattenSeq(sigs), 3, k)
    BY <2>5, <2>6, <2>7, TailEnds
  <2>. QED  BY <1>2, <2>1, <2>8
<1>. QED  BY <1>3, <1>5, <1>6

LEMMA LoopStep == LInv /\ [Next]_vars => LInv'
<1> SUFFICES ASSUME LInv, [Next]_vars PROVE LInv'
  OBVIOUS
<1> USE DEF Leave
<1>1. CASE Begin
  <2>1. sigs' = <<>> /\ ran' = <<>> /\ pc' = "llm"
    BY <1>1 DEF Begin
  <2>2. SigsAreTail'
    BY <2>1 DEF SigsAreTail
  <2>3. ~DuplicateLoop(ran')
    BY <2>1 DEF DuplicateLoop, EndsIn, DuplicateThreshold
  <2>4. ~FuzzyLoop(sigs')
    BY <2>1 DEF FuzzyLoop
  <2>. QED  BY <2>1, <2>2, <2>3, <2>4 DEF LInv, DuplicateLoop, EndsIn, LastOf, FuzzyLoop,
                 Dominated, Cyclic
<1>2. ASSUME UNCHANGED <<sigs, ran>>, pc # "off", pc' = "tools" => batch' \in Batches
      PROVE  LInv'
  <2>1. pc' # "off" => SigsAreTail' /\ ~DuplicateLoop(ran') /\ ~FuzzyLoop(sigs')
    BY <1>2 DEF LInv, SigsAreTail, Kept
  <2>. QED  BY <1>2, <2>1 DEF LInv, DuplicateLoop, EndsIn, LastOf, FuzzyLoop, Dominated, Cyclic
<1>3. CASE Raise \/ Timeout \/ Answer \/ Nudge \/ NoPlan
  BY <1>3, <1>2 DEF Raise, Timeout, Answer, Nudge, NoPlan, Iterate, counters, LInv
<1>4. ASSUME NEW b \in Batches,
             Blocked(b) \/ Suspend(b) \/ HardBlock(b) \/ PreFails(b) \/ Execute(b)
      PROVE  LInv'
  BY <1>4, <1>2 DEF Blocked, Suspend, HardBlock, PreFails, Execute, Iterate, counters
<1>5. ASSUME NEW failed \in BOOLEAN, StopFlood(failed) \/ StopFailing(failed) \/ StopStuck(failed)
      PROVE  LInv'
  BY <1>5 DEF StopFlood, StopFailing, StopStuck, LInv
<1>6. ASSUME NEW failed \in BOOLEAN, GoOn(failed) PROVE LInv'
  <2>1. /\ batch \in Batches /\ sigs' = SigsNow /\ ran' = Append(ran, batch)
        /\ ~DuplicateLoop(SigsNow) /\ ~FuzzyLoop(SigsNow) /\ SigsAreTail /\ pc' # "tools"
    BY <1>6 DEF GoOn, Returned, Stuck, Iterate, LInv
  <2>2. SigsAreTail'
    BY <2>1, TailGrows
  <2>3. ~DuplicateLoop(ran)'
    <3>1. ~DuplicateLoop(sigs)'
      BY <2>1
    <3>2. DuplicateLoop(sigs)' <=> DuplicateLoop(ran)'
      <4>1. sigs' \in Seq(Batches) /\ ran' \in Seq(Batches)
        BY <2>2 DEF SigsAreTail
      <4>. QED  BY <2>2, LoopsAgree, PTL
    <3>. QED  BY <3>1, <3>2
  <2>4. ~FuzzyLoop(sigs)'
    BY <2>1 DEF FuzzyLoop, Dominated, Cyclic, EndsIn, LastOf
  <2>. QED  BY <2>1, <2>2, <2>3, <2>4 DEF LInv
<1>7. CASE ExecutorFails
  BY <1>7 DEF ExecutorFails, LInv
<1>8. CASE UNCHANGED vars
  <2>1. LInv'
    BY <1>2, <1>8 DEF vars, LInv
  <2>. QED  BY <2>1
<1>. QED
  BY <1>1, <1>3, <1>4, <1>5, <1>6, <1>7, <1>8 DEF Next, ModelReturns, ToolsReturn

\* A turn never goes on after the same batch DuplicateThreshold times in a
\* row, nor after three rounds of a cycle of calls that the window can hold,
\* however the calls are spread over the batches (circuit_breaker.py:68-111).
THEOREM CyclingTurnsStop == Spec => []CyclesStop
<1>1. Init => LInv
  BY DEF Init, LInv
<1>2. LInv => CyclesStop
  <2> SUFFICES ASSUME LInv, pc = "llm"
               PROVE  /\ ~EndsIn(ran, DuplicateThreshold, 1)
                      /\ \A k \in 2..4 : 3 * k <= FuzzyWindow /\ Len(ran) >= 4
                            => ~EndsIn(FlattenSeq(ran), 3, k)
    BY DEF CyclesStop
  <2>1. SigsAreTail /\ ~DuplicateLoop(ran) /\ ~FuzzyLoop(sigs)
    BY DEF LInv
  <2>2. ASSUME NEW k \in 2..4, 3 * k <= FuzzyWindow, Len(ran) >= 4,
               EndsIn(FlattenSeq(ran), 3, k)
        PROVE  FALSE
    <3>1. Len(sigs) >= 4 /\ EndsIn(FlattenSeq(sigs), 3, k)
      BY <2>1, <2>2, CyclesAgree
    <3>. QED  BY <2>1, <3>1 DEF FuzzyLoop, Cyclic
  <2>. QED  BY <2>1, <2>2 DEF DuplicateLoop
<1>. QED  BY <1>1, <1>2, LoopStep, PTL DEF Spec

------------------------------------------------------------------------------
(* What surrounds the loop: the components of MCAgentLoop. Each takes its steps *)
(* alone, so that an invariant of the component is one of AllSpec.             *)

LEMMA AllSafe == AllSpec => AllInit /\ [][AllNext]_All
BY PTL DEF AllSpec

------------------------------------------------------------------------------
(* The cards of the files, kept beside a skill. *)

\* Wherever a card is, in the file, in an instance of the graph or on its way to
\* and from the model, its text is of the files whose hash it carries.
CardFiles == SUBSET (ca_Versions \cup {CHOOSE v \in ca_Versions : TRUE})
TrueCard  == {c \in [hash : CardFiles, of : CardFiles] : c.of = c.hash}
CardSet   == {{}} \cup {{c} : c \in TrueCard}
CardGraph == [facts : Nat, card : CardSet]
CardInv ==
    /\ ca_files \in CardFiles
    /\ ca_graph \in CardGraph
    /\ ca_mine \in {{}} \cup {{g} : g \in CardGraph}
    /\ ca_job \in {{}} \cup {{g} : g \in CardGraph}
    /\ ca_asked \in [ca_Callers -> CardSet]
    /\ Cards!CardIsCurrent

LEMMA CardInit == Cards!Init => CardInv
<1> SUFFICES ASSUME Cards!Init PROVE CardInv
  OBVIOUS
<1>1. {CHOOSE v \in ca_Versions : TRUE} \in CardFiles
  BY DEF CardFiles
<1>2. [facts |-> 0, card |-> {}] \in CardGraph
  BY DEF CardGraph, CardSet
<1>3. {} \in CardSet
  BY DEF CardSet
<1>4. Cards!NoBlock.by # "card"
  BY DEF Cards!NoBlock
<1>. QED  BY <1>1, <1>2, <1>3, <1>4 DEF Cards!Init, CardInv, Cards!CardIsCurrent

LEMMA OwnGraph == CardInv => Cards!Own \in CardGraph
<1> SUFFICES ASSUME CardInv PROVE Cards!Own \in CardGraph
  OBVIOUS
<1>1. CASE ca_mine = {}
  BY <1>1 DEF Cards!Own, CardInv
<1>2. CASE ca_mine # {}
  <2>1. PICK g \in CardGraph : ca_mine = {g}
    BY <1>2 DEF CardInv
  <2>2. (CHOOSE h \in ca_mine : TRUE) = g
    BY <2>1
  <2>. QED  BY <1>2, <2>1, <2>2 DEF Cards!Own
<1>. QED  BY <1>1, <1>2

\* What is written in the place of a card is an instance of the graph.
LEMMA SavedKeeps ==
    ASSUME ca_graph \in CardGraph, NEW g \in CardGraph, NEW ok, Cards!Saved(g, ok)
    PROVE  ca_graph' \in CardGraph /\ ca_mine' \in {{}} \cup {{h} : h \in CardGraph}
BY DEF Cards!Saved

LEMMA WithoutGraph == ASSUME NEW g \in CardGraph PROVE Cards!Without(g) \in CardGraph
<1>1. {} \in CardSet
  BY DEF CardSet
<1>. QED  BY <1>1 DEF Cards!Without, CardGraph

LEMMA CardStepKeeps ==
    ASSUME CardInv, [Cards!Next]_(Cards!vars)
    PROVE  CardInv'
<1>0. Cards!Own \in CardGraph /\ ca_files \in CardFiles /\ {} \in CardSet
  BY OwnGraph DEF CardInv, CardSet
<1>1. ASSUME NEW v \in {{}} \cup {{w} : w \in ca_Versions}, Cards!Edit(v) PROVE CardInv'
  <2>1. v \in CardFiles
    BY DEF CardFiles
  <2>. QED  BY <1>1, <2>1 DEF Cards!Edit, CardInv, Cards!CardIsCurrent
<1>2. ASSUME NEW c \in ca_Callers, NEW ok \in BOOLEAN, NEW provider \in BOOLEAN, Cards!Refresh(c, ok, provider)
      PROVE  CardInv'
  <2>1. ca_graph' \in CardGraph /\ ca_mine' \in {{}} \cup {{g} : g \in CardGraph}
    <3>1. CASE Cards!Own.card = {}
      BY <1>0, <1>2, <3>1 DEF Cards!Refresh, CardInv
    <3>2. CASE Cards!Own.card # {}
      <4>1. Cards!Saved(Cards!Without(Cards!Own), ok) /\ Cards!Without(Cards!Own) \in CardGraph /\ ca_graph \in CardGraph
        BY <1>0, <1>2, <3>2, WithoutGraph DEF Cards!Refresh, CardInv
      <4>. QED  BY <4>1, SavedKeeps
    <3>. QED  BY <3>1, <3>2
  <2>2. {[hash |-> ca_files, of |-> ca_files]} \in CardSet
    <3>1. [hash |-> ca_files, of |-> ca_files] \in TrueCard
      BY <1>0 DEF TrueCard
    <3>. QED  BY <3>1 DEF CardSet
  <2>3. PICK a \in CardSet : ca_asked' = [ca_asked EXCEPT ![c] = a]
    BY <1>0, <1>2, <2>2 DEF Cards!Refresh
  <2>4. ca_asked' \in [ca_Callers -> CardSet]
    BY <2>3 DEF CardInv
  <2>. QED  BY <1>2, <2>1, <2>4 DEF Cards!Refresh, CardInv, Cards!CardIsCurrent
<1>3. ASSUME NEW c \in ca_Callers, NEW ok \in BOOLEAN, Cards!Summarised(c, ok) PROVE CardInv'
  <2>1. PICK r \in TrueCard : ca_asked[c] = {r}
    BY <1>3 DEF Cards!Summarised, CardInv, CardSet
  <2>2. Cards!Card(CHOOSE x \in ca_asked[c] : TRUE) = r
    BY <2>1 DEF Cards!Card
  <2>3. {r} \in CardSet
    BY DEF CardSet
  <2>4. PICK g : g = [Cards!Own EXCEPT !.card = {r}]
    OBVIOUS
  <2>5. g \in CardGraph
    BY <1>0, <2>3, <2>4 DEF CardGraph
  <2>6. Cards!Saved(g, ok)
    BY <1>3, <2>2, <2>4 DEF Cards!Summarised
  <2>7. ca_graph' \in CardGraph /\ ca_mine' \in {{}} \cup {{h} : h \in CardGraph}
    BY <2>5, <2>6, SavedKeeps DEF CardInv
  <2>8. ca_asked' \in [ca_Callers -> CardSet]
    BY <1>0, <1>3 DEF Cards!Summarised, CardInv
  <2>. QED  BY <1>3, <2>7, <2>8 DEF Cards!Summarised, CardInv, Cards!CardIsCurrent
<1>4. ASSUME NEW c \in ca_Callers, Cards!NotSummarised(c) PROVE CardInv'
  <2>1. ca_asked' \in [ca_Callers -> CardSet]
    BY <1>0, <1>4 DEF Cards!NotSummarised, CardInv
  <2>. QED  BY <1>4, <2>1 DEF Cards!NotSummarised, CardInv, Cards!CardIsCurrent
<1>5. ASSUME NEW ok \in BOOLEAN, Cards!Block(ok) PROVE CardInv'
  <2>1. ca_graph' \in CardGraph /\ ca_mine' \in {{}} \cup {{g} : g \in CardGraph}
    <3>1. CASE Cards!Fresh(Cards!Own) \/ Cards!Own.card = {}
      BY <1>0, <1>5, <3>1 DEF Cards!Block, CardInv
    <3>2. CASE ~(Cards!Fresh(Cards!Own) \/ Cards!Own.card = {})
      <4>1. Cards!Saved(Cards!Without(Cards!Own), ok) /\ Cards!Without(Cards!Own) \in CardGraph /\ ca_graph \in CardGraph
        BY <1>0, <1>5, <3>2, WithoutGraph DEF Cards!Block, CardInv
      <4>. QED  BY <4>1, SavedKeeps
    <3>. QED  BY <3>1, <3>2
  <2>2. Cards!CardIsCurrent'
    <3>1. CASE Cards!Fresh(Cards!Own)
      <4>1. PICK c \in TrueCard : Cards!Own.card = {c}
        BY <1>0, <3>1 DEF Cards!Fresh, CardGraph, CardSet
      <4>2. c.hash = ca_files /\ c.of = c.hash
        BY <3>1, <4>1 DEF Cards!Fresh, TrueCard
      <4>3. (CHOOSE x \in Cards!Own.card : TRUE) = c
        BY <4>1
      <4>4. ca_shown' = [by |-> "card", of |-> c.of, at |-> ca_files]
        BY <1>5, <3>1, <4>3 DEF Cards!Block
      <4>. QED  BY <4>2, <4>4 DEF Cards!CardIsCurrent
    <3>2. CASE ~Cards!Fresh(Cards!Own)
      <4>1. ca_shown' = Cards!NoBlock \/ ca_shown' = [by |-> "text", of |-> ca_files, at |-> ca_files]
        BY <1>5, <3>2 DEF Cards!Block
      <4>2. ca_shown'.by # "card"
        BY <4>1 DEF Cards!NoBlock
      <4>. QED  BY <4>2 DEF Cards!CardIsCurrent
    <3>. QED  BY <3>1, <3>2
  <2>. QED  BY <1>5, <2>1, <2>2 DEF Cards!Block, CardInv
<1>6. CASE Cards!LoadGraph
  <2>1. ca_job' \in {{}} \cup {{g} : g \in CardGraph}
    BY <1>6 DEF Cards!LoadGraph, CardInv
  <2>. QED  BY <1>6, <2>1 DEF Cards!LoadGraph, CardInv, Cards!CardIsCurrent
<1>7. CASE Cards!WriteGraph
  <2>1. PICK g \in CardGraph : ca_job = {g} /\ ca_graph' = [g EXCEPT !.facts = g.facts + 1]
    BY <1>7 DEF Cards!WriteGraph, CardInv
  <2>2. ca_graph' \in CardGraph
    <3>1. g.facts + 1 \in Nat
      BY DEF CardGraph
    <3>. QED  BY <2>1, <3>1 DEF CardGraph
  <2>3. ca_job' = {}
    BY <1>7 DEF Cards!WriteGraph
  <2>. QED  BY <1>7, <2>2, <2>3 DEF Cards!WriteGraph, CardInv, Cards!CardIsCurrent
<1>8. CASE Cards!RunStep /\ UNCHANGED <<Cards!cardVars, ca_crashes>>
  BY <1>8 DEF Cards!cardVars, CardInv, Cards!CardIsCurrent
<1>9. ASSUME NEW inAppend \in BOOLEAN, Cards!Crash(inAppend) PROVE CardInv'
  <2>1. ca_asked' \in [ca_Callers -> CardSet]
    BY <1>0, <1>9 DEF Cards!Crash
  <2>2. Cards!NoBlock.by # "card"
    BY DEF Cards!NoBlock
  <2>. QED  BY <1>9, <2>1, <2>2 DEF Cards!Crash, CardInv, Cards!CardIsCurrent
<1>10. CASE UNCHANGED Cards!vars
  BY <1>10 DEF Cards!vars, Cards!cardVars, CardInv, Cards!CardIsCurrent
<1>. QED  BY <1>1, <1>2, <1>3, <1>4, <1>5, <1>6, <1>7, <1>8, <1>9, <1>10 DEF Cards!Next,
     Cards!CardStep

LEMMA CardsSteps == [AllNext]_All => [Cards!Next]_(Cards!vars)
BY DEF AllNext, All, Cards!vars, cardsVars, Cards!cardVars, Cards!runVars

\* For any callers, versions and crashes: the block a prompt shows from a card is
\* of the files that are there, whoever edits them while the model summarises
\* (_persist_skill_ssl files the card under the hash it was asked for).
THEOREM CardsAreCurrent == AllSpec => []CardIsCurrent
<1>1. AllInit => CardInv
  BY CardInit DEF AllInit
<1>2. CardInv /\ [AllNext]_All => CardInv'
  BY CardStepKeeps, CardsSteps
<1>3. CardInv => CardIsCurrent
  BY DEF CardIsCurrent, CardInv
<1>. QED  BY <1>1, <1>2, <1>3, AllSafe, PTL

------------------------------------------------------------------------------
(* The streams of the providers. *)

\* The parts of an accumulator are those of its call in the attempt that runs,
\* and outside a stream nothing is accumulated.
StreamPart == [reply : Nat, call : Streaming!Calls, part : Nat]
WholeParts(ps, n) == \E i \in Streaming!Calls : \A k \in DOMAIN ps : ps[k] = Streaming!Part(n, i, k)
StreamInv ==
    /\ st_reply \in Nat
    /\ st_acc \in [Streaming!Calls -> Seq(StreamPart)]
    /\ \A i \in Streaming!Calls : \A k \in 1..Len(st_acc[i]) : st_acc[i][k] = Streaming!Part(st_reply, i, k)
    /\ st_pc \in {"idle", "chat", "wait"} => st_acc = Streaming!NoCalls
    /\ st_pc # "codex" /\ st_pc \notin {"done", "late", "raised"} => st_emitted = {}
    /\ \A c \in st_emitted : WholeParts(c.parts, st_reply)
    /\ st_pc # "done" => st_answer.calls = {}
    /\ Streaming!CallsAreWhole

LEMMA StreamInit == Streaming!Init => StreamInv
BY DEF Streaming!Init, StreamInv, Streaming!NoCalls, Streaming!None,
     Streaming!CallsAreWhole, Streaming!Calls

\* Steps that end an attempt with what it has accumulated.
Handed == \A c \in st_answer'.calls : \/ c.from = "text" /\ c.tool \in st_Tools
                                      \/ WholeParts(c.parts, st_reply)

LEMMA HandedKeeps ==
    ASSUME StreamInv, Handed, st_pc' = "done", UNCHANGED <<st_reply, st_acc, st_emitted>>
    PROVE  StreamInv'
BY DEF StreamInv, Handed, Streaming!CallsAreWhole, WholeParts

LEMMA FromText ==
    ASSUME NEW named, NEW own, NEW c \in Streaming!InText(named, own)
    PROVE  c.from = "text" /\ c.tool \in st_Tools
BY DEF Streaming!InText

LEMMA OneMore ==
    ASSUME NEW S, NEW s \in Seq(S), NEW m \in S
    PROVE  /\ Append(s, m) \in Seq(S) /\ Len(Append(s, m)) = Len(s) + 1
           /\ Append(s, m)[Len(s) + 1] = m
           /\ \A k \in 1..Len(s) : Append(s, m)[k] = s[k]
OBVIOUS

LEMMA OwnParts == ASSUME NEW ps PROVE Streaming!Own(ps).parts = ps
BY DEF Streaming!Own

LEMMA StreamStep ==
    ASSUME StreamInv, [Streaming!Next]_(Streaming!vars)
    PROVE  StreamInv'
<1>0. \A i \in Streaming!Calls : /\ st_acc[i] \in Seq(StreamPart)
                                 /\ WholeParts(st_acc[i], st_reply)
  <2>1. ASSUME NEW i \in Streaming!Calls PROVE st_acc[i] \in Seq(StreamPart)
    BY DEF StreamInv
  <2>2. ASSUME NEW i \in Streaming!Calls PROVE WholeParts(st_acc[i], st_reply)
    <3>1. DOMAIN st_acc[i] = 1..Len(st_acc[i])
      BY <2>1
    <3>. QED  BY <3>1 DEF StreamInv, WholeParts
  <2>. QED  BY <2>1, <2>2
<1>1. CASE Streaming!Start \/ Streaming!StartCodex
  BY <1>1 DEF Streaming!Start, Streaming!StartCodex, StreamInv, Streaming!NoCalls,
       Streaming!CallsAreWhole, WholeParts
<1>2. CASE Streaming!Text \/ Streaming!Filtered \/ Streaming!Transient \/ Streaming!Timeout \/ UNCHANGED Streaming!vars
  <2>1. UNCHANGED <<st_reply, st_acc, st_emitted, st_answer>> /\ (st_pc' = st_pc \/ st_pc' \in {"raised", "late", "wait"})
    BY <1>2 DEF Streaming!Text, Streaming!Filtered, Streaming!Transient, Streaming!Timeout,
         Streaming!vars
  <2>2. st_pc # st_pc' => st_pc # "done" /\ (st_pc' = "wait" => st_pc = "chat")
    BY <1>2 DEF Streaming!Text, Streaming!Filtered, Streaming!Transient, Streaming!Timeout,
         Streaming!vars
  <2>. QED  BY <2>1, <2>2 DEF StreamInv, Streaming!CallsAreWhole
<1>3. ASSUME NEW i \in Streaming!Calls, Streaming!CallDelta(i) PROVE StreamInv'
  <2>1. PICK n \in Nat : n = Len(st_acc[i])
    BY <1>0
  <2>2. PICK p \in StreamPart : p = Streaming!Part(st_reply, i, n + 1)
    <3>1. n + 1 \in Nat /\ st_reply \in Nat
      BY <2>1 DEF StreamInv
    <3>2. Streaming!Part(st_reply, i, n + 1) \in StreamPart
      BY <3>1 DEF Streaming!Part, StreamPart
    <3>. QED  BY <3>2
  <2>3. PICK e : e = Append(st_acc[i], p)
    OBVIOUS
  <2>4. /\ e \in Seq(StreamPart) /\ Len(e) = n + 1
        /\ e[n + 1] = p /\ \A k \in 1..n : e[k] = st_acc[i][k]
    <3>1. st_acc[i] \in Seq(StreamPart) /\ p \in StreamPart
      BY <1>0, <2>2
    <3>. QED  BY <2>1, <2>3, <3>1, OneMore
  <2>5. \A k \in 1..Len(e) : e[k] = Streaming!Part(st_reply, i, k)
    <3>1. \A k \in 1..Len(e) : k \in 1..n \/ k = n + 1
      BY <2>4
    <3>. QED  BY <2>1, <2>2, <2>4, <3>1 DEF StreamInv
  <2>6. st_acc' = [st_acc EXCEPT ![i] = e]
    BY <1>3, <2>1, <2>2, <2>3 DEF Streaming!CallDelta, Streaming!Accumulated
  <2>7. UNCHANGED <<st_pc, st_reply, st_emitted, st_answer>> /\ st_pc \in {"stream", "codex"}
    BY <1>3 DEF Streaming!CallDelta
  <2>8. st_acc' \in [Streaming!Calls -> Seq(StreamPart)]
    BY <2>4, <2>6 DEF StreamInv
  <2>9. \A j \in Streaming!Calls : \A k \in 1..Len(st_acc'[j]) : st_acc'[j][k] = Streaming!Part(st_reply, j, k)
    BY <2>5, <2>6 DEF StreamInv
  <2>. QED  BY <2>7, <2>8, <2>9 DEF StreamInv, Streaming!CallsAreWhole
<1>4. ASSUME NEW r \in {"stop", "length"}, NEW named \in SUBSET (st_Tools \cup {"unknown"}), Streaming!Finish(r, named)
      PROVE  StreamInv'
  <2>1. PICK own : own = {Streaming!Own(st_acc[i]) : i \in {j \in Streaming!Calls : st_acc[j] # <<>>}}
    OBVIOUS
  <2>2. \A c \in st_answer'.calls : c \in own \/ c \in Streaming!InText(named, own)
    BY <1>4, <2>1 DEF Streaming!Finish
  <2>3. \A c \in own : WholeParts(c.parts, st_reply)
    BY <1>0, <2>1, OwnParts
  <2>4. Handed
    BY <2>2, <2>3, FromText DEF Handed
  <2>. QED  BY <1>4, <2>4, HandedKeeps DEF Streaming!Finish
<1>5. CASE Streaming!Cut
  BY <1>5, HandedKeeps DEF Streaming!Cut, Handed
<1>6. CASE Streaming!Break
  BY <1>6 DEF Streaming!Break, StreamInv, Streaming!NoCalls, Streaming!CallsAreWhole,
       WholeParts
<1>7. CASE Streaming!Again
  BY <1>7 DEF Streaming!Again, StreamInv, Streaming!NoCalls, Streaming!CallsAreWhole,
       WholeParts
<1>8. CASE Streaming!Fails \/ Streaming!CodexFails
  BY <1>8, HandedKeeps DEF Streaming!Fails, Streaming!CodexFails, Streaming!Delivered,
       Handed
<1>9. ASSUME NEW text \in BOOLEAN, NEW n \in 0..2, NEW named \in SUBSET (st_Tools \cup {"unknown"}),
             Streaming!Whole(text, n, named)
      PROVE  StreamInv'
  <2>1. PICK own : own = {Streaming!Own(<<Streaming!Part(st_reply, i, 1)>>) : i \in 0..(n - 1)}
    OBVIOUS
  <2>2. \A c \in st_answer'.calls : c \in own \/ c \in Streaming!InText(named, own)
    BY <1>9, <2>1 DEF Streaming!Whole, Streaming!Delivered
  <2>3. \A c \in own : WholeParts(c.parts, st_reply)
    <3>1. \A i \in 0..(n - 1) : i \in Streaming!Calls
      BY DEF Streaming!Calls
    <3>2. \A i \in Streaming!Calls : WholeParts(<<Streaming!Part(st_reply, i, 1)>>, st_reply)
      BY DEF WholeParts
    <3>. QED  BY <2>1, <3>1, <3>2, OwnParts
  <2>4. Handed
    BY <2>2, <2>3, FromText DEF Handed
  <2>. QED  BY <1>9, <2>4, HandedKeeps DEF Streaming!Whole, Streaming!Delivered
<1>10. ASSUME NEW i \in Streaming!Calls, Streaming!ItemDone(i) PROVE StreamInv'
  <2>1. PICK c : c = [Streaming!Own(st_acc[i]) EXCEPT !.tool = i]
    OBVIOUS
  <2>2. c.parts = st_acc[i]
    BY <2>1 DEF Streaming!Own
  <2>3. st_emitted' = st_emitted \cup {c} /\ UNCHANGED <<st_pc, st_reply, st_acc, st_answer>> /\ st_pc = "codex"
    BY <1>10, <2>1 DEF Streaming!ItemDone
  <2>4. \A d \in st_emitted' : WholeParts(d.parts, st_reply)
    BY <1>0, <2>2, <2>3 DEF StreamInv
  <2>. QED  BY <2>3, <2>4 DEF StreamInv, Streaming!CallsAreWhole
<1>11. ASSUME NEW t \in BOOLEAN, NEW r \in {"stop", "length"}, Streaming!CodexEnds(t, r) PROVE StreamInv'
  <2>1. st_answer'.calls = st_emitted
    BY <1>11 DEF Streaming!CodexEnds, Streaming!Delivered
  <2>2. Handed
    BY <2>1 DEF Handed, StreamInv
  <2>. QED  BY <1>11, <2>2, HandedKeeps DEF Streaming!CodexEnds, Streaming!Delivered
<1>. QED  BY <1>1, <1>2, <1>3, <1>4, <1>5, <1>6, <1>7, <1>8, <1>9, <1>10, <1>11 DEF
     Streaming!Next

LEMMA StreamingSteps == [AllNext]_All => [Streaming!Next]_(Streaming!vars)
BY DEF AllNext, All, Streaming!vars, streamingVars

\* For any tools, any number of chunks and retries: a call that is handed to the
\* loop is made of the parts of one call of one attempt, in their order, or was
\* found in the text.
THEOREM StreamedCallsAreWhole == AllSpec => []CallsAreWhole
<1>1. AllInit => StreamInv
  BY StreamInit DEF AllInit
<1>2. StreamInv /\ [AllNext]_All => StreamInv'
  BY StreamStep, StreamingSteps
<1>3. StreamInv => CallsAreWhole
  BY DEF CallsAreWhole, StreamInv
<1>. QED  BY <1>1, <1>2, <1>3, AllSafe, PTL

------------------------------------------------------------------------------
(* The prompt: what is built, shortened and asked.                              *)

\* What holds of 0 and goes from each number to the next holds up to n.
LEMMA Counting ==
    ASSUME NEW n \in Nat, NEW S, 0 \in S,
           \A j \in 0..n : j \in S /\ j < n => j + 1 \in S
    PROVE  \A j \in 0..n : j \in S
<1> SUFFICES ASSUME NEW k \in 0..n, k \notin S PROVE FALSE
  OBVIOUS
<1>1. PICK x \in {j \in 0..n : j \notin S} : \A y \in {j \in 0..n : j \notin S} : x <= y
  <2>1. {j \in 0..n : j \notin S} \in SUBSET Nat
    OBVIOUS
  <2>. QED  BY <2>1, LeastElement
<1>2. x # 0 /\ x - 1 \in 0..n /\ (x - 1) + 1 = x /\ x - 1 < n
  BY <1>1
<1>3. x - 1 \in S
  BY <1>1, <1>2
<1>. QED  BY <1>1, <1>2, <1>3

\* A function defined by its value at 0 and a step has a value up to n.
Unrolls(f, n, b, F) == f[0] = b /\ \A j \in 1..n : f[j] = F[<<f[j - 1], j>>]

LEMMA Recursion ==
    ASSUME NEW n \in Nat, NEW A, NEW b \in A, NEW F \in [A \X (1..n) -> A]
    PROVE  \E f \in [0..n -> A] : Unrolls(f, n, b, F)
<1> DEFINE Up(m) == \E f \in [0..m -> A] : f[0] = b /\ \A j \in 1..m : f[j] = F[<<f[j - 1], j>>]
           S == {m \in 0..n : Up(m)}
<1>1. 0 \in S
  <2>1. PICK f \in [0..0 -> A] : f = [i \in 0..0 |-> b]
    OBVIOUS
  <2>2. f[0] = b /\ \A j \in 1..0 : f[j] = F[<<f[j - 1], j>>]
    BY <2>1
  <2>. QED  BY <2>2
<1>2. ASSUME NEW m \in 0..n, m \in S, m < n PROVE m + 1 \in S
  <2>1. PICK f \in [0..m -> A] : f[0] = b /\ \A j \in 1..m : f[j] = F[<<f[j - 1], j>>]
    BY <1>2
  <2>2. m \in 0..m /\ m + 1 \in 1..n /\ m + 1 \in 0..n /\ f[m] \in A
    BY <1>2
  <2>3. PICK e \in A : e = F[<<f[m], m + 1>>]
    BY <2>2
  <2>4. PICK g : g = [i \in 0..(m + 1) |-> IF i \in 0..m THEN f[i] ELSE e]
    OBVIOUS
  <2>5. /\ g \in [0..(m + 1) -> A] /\ g[0] = b /\ g[m + 1] = e
        /\ \A i \in 0..m : g[i] = f[i]
    BY <2>1, <2>4
  <2>6. ASSUME NEW j \in 1..(m + 1) PROVE g[j] = F[<<g[j - 1], j>>]
    <3>1. CASE j = m + 1
      <4>1. j - 1 = m /\ g[j - 1] = f[m]
        BY <3>1, <2>2, <2>5
      <4>. QED  BY <3>1, <4>1, <2>3, <2>5
    <3>2. CASE j # m + 1
      <4>1. j \in 1..m /\ j \in 0..m /\ j - 1 \in 0..m
        BY <3>2
      <4>. QED  BY <4>1, <2>1, <2>5
    <3>. QED  BY <3>1, <3>2
  <2>7. Up(m + 1)
    BY <2>5, <2>6
  <2>. QED  BY <2>2, <2>7
<1> HIDE DEF S
<1>3. \A j \in 0..n : j \in S /\ j < n => j + 1 \in S
  BY <1>2
<1>4. \A j \in 0..n : j \in S
  BY <1>1, <1>3, Counting
<1>5. n \in S
  BY <1>4
<1>. QED  BY <1>5 DEF S, Unrolls


LEMMA LeastIs ==
    ASSUME NEW S \in SUBSET Nat, S # {}
    PROVE  Prompt!Min(S) \in S /\ \A y \in S : Prompt!Min(S) <= y
<1>1. \E x \in S : \A y \in S : x <= y
  BY LeastElement
<1>. QED  BY <1>1 DEF Prompt!Min


PromptMessage == [role : {"user", "assistant", "tool", "system"}, id : Nat, calls : SUBSET Nat,
                  images : Nat, long : BOOLEAN, milestone : BOOLEAN, skeleton : BOOLEAN,
                  unsaved : BOOLEAN]

LEMMA EntryTyped ==
    ASSUME NEW r \in {"user", "assistant", "tool", "system"}, NEW k \in Nat
    PROVE  Prompt!Entry(r, k) \in PromptMessage /\ Prompt!Entry(r, k).role = r /\ Prompt!Entry(r, k).id = k
BY DEF Prompt!Entry, PromptMessage

LEMMA UserTyped ==
    ASSUME NEW n \in Nat
    PROVE  Prompt!User(n) \in PromptMessage /\ Prompt!User(n).role = "user"
BY DEF Prompt!User, Prompt!Entry, PromptMessage

LEMMA AnswerTyped ==
    ASSUME NEW l \in BOOLEAN, NEW m \in BOOLEAN
    PROVE  Prompt!Answer(l, m) \in PromptMessage /\ Prompt!Answer(l, m).role = "assistant"
BY DEF Prompt!Answer, Prompt!Entry, PromptMessage

LEMMA CallingTyped ==
    ASSUME NEW ids \in SUBSET Nat
    PROVE  /\ Prompt!Calling(ids) \in PromptMessage /\ Prompt!Calling(ids).role = "assistant"
           /\ Prompt!Calling(ids).calls = ids
BY DEF Prompt!Calling, Prompt!Entry, PromptMessage

LEMMA SkeletonTyped ==
    ASSUME NEW m
    PROVE  Prompt!Skeleton(m) \in PromptMessage
<1>1. PICK a \in PromptMessage : a = Prompt!Answer(FALSE, TRUE)
  BY AnswerTyped
<1>2. [a EXCEPT !.skeleton = TRUE] \in PromptMessage
  BY DEF PromptMessage
<1>. QED  BY <1>1, <1>2 DEF Prompt!Skeleton

AtBody(f, ms, places) == [n \in 0..Len(ms) |-> IF n = 0 THEN <<>>
                                               ELSE IF n \in places THEN Append(f[n - 1], ms[n])
                                               ELSE f[n - 1]]
AtOf(ms, places) == CHOOSE f : f = AtBody(f, ms, places)
AtSo(f, ms, places) ==
    /\ f[0] = <<>>
    /\ \A j \in 1..Len(ms) : f[j] = IF j \in places THEN Append(f[j - 1], ms[j]) ELSE f[j - 1]

LEMMA AtAre ==
    ASSUME NEW ms, NEW places
    PROVE  Prompt!At(ms, places) = AtOf(ms, places)[Len(ms)]
BY DEF Prompt!At, AtOf, AtBody

LEMMA AtFound ==
    ASSUME NEW ms \in Seq(PromptMessage), NEW places
    PROVE  AtOf(ms, places) = AtBody(AtOf(ms, places), ms, places)
<1>1. PICK n \in Nat : n = Len(ms)
  OBVIOUS
<1>2. PICK A, e : A = Seq(PromptMessage) /\ e = <<>>
  OBVIOUS
<1>e. e \in A
  BY <1>2, EmptySeq
<1>3. PICK F \in [A \X (1..n) -> A] :
        F = [p \in A \X (1..n) |-> IF p[2] \in places THEN Append(p[1], ms[p[2]]) ELSE p[1]]
  <2>1. ASSUME NEW p \in A \X (1..n)
        PROVE  (IF p[2] \in places THEN Append(p[1], ms[p[2]]) ELSE p[1]) \in A
    <3>1. p[1] \in A /\ p[2] \in 1..n
      OBVIOUS
    <3>2. ms[p[2]] \in PromptMessage
      BY <1>1, <3>1
    <3>3. Append(p[1], ms[p[2]]) \in A
      BY <1>2, <3>1, <3>2, AppendProperties
    <3>. QED  BY <3>1, <3>3
  <2>. QED  BY <2>1
<1>4. PICK f \in [0..n -> A] :
        f[0] = e /\ \A j \in 1..n : f[j] = F[<<f[j - 1], j>>]
  <2>1. \E f \in [0..n -> A] : Unrolls(f, n, e, F)
    BY <1>e, Recursion
  <2>. QED  BY <2>1 DEF Unrolls
<1>5. ASSUME NEW j \in 1..n
      PROVE  f[j] = IF j \in places THEN Append(f[j - 1], ms[j]) ELSE f[j - 1]
  <2>1. j - 1 \in 0..n
    OBVIOUS
  <2>2. <<f[j - 1], j>> \in A \X (1..n)
    BY <1>4, <2>1
  <2>. QED  BY <1>3, <1>4, <2>2
<1>6. f = AtBody(f, ms, places)
  <2>1. \A i \in 0..n : f[i] = IF i = 0 THEN <<>>
                               ELSE IF i \in places THEN Append(f[i - 1], ms[i])
                               ELSE f[i - 1]
    <3>1. \A i \in 0..n : i # 0 => i \in 1..n
      OBVIOUS
    <3>. QED  BY <3>1, <1>2, <1>4, <1>5
  <2>2. f = [i \in 0..n |-> f[i]]
    BY <1>4
  <2>. QED  BY <1>1, <2>1, <2>2 DEF AtBody
<1>. QED  BY <1>6 DEF AtOf

LEMMA AtIs ==
    ASSUME NEW ms \in Seq(PromptMessage), NEW places
    PROVE  AtSo(AtOf(ms, places), ms, places)
<1>1. PICK n \in Nat : n = Len(ms)
  OBVIOUS
<1>2. PICK f : f = AtOf(ms, places)
  OBVIOUS
<1>3. f = AtBody(f, ms, places)
  BY <1>2, AtFound
<1>4. \A i \in 0..n : f[i] = IF i = 0 THEN <<>>
                             ELSE IF i \in places THEN Append(f[i - 1], ms[i])
                             ELSE f[i - 1]
  BY <1>1, <1>3 DEF AtBody
<1>5. f[0] = <<>>
  <2>1. 0 \in 0..n
    OBVIOUS
  <2>. QED  BY <1>4, <2>1
<1>6. ASSUME NEW j \in 1..n
      PROVE  f[j] = IF j \in places THEN Append(f[j - 1], ms[j]) ELSE f[j - 1]
  <2>1. j \in 0..n /\ j # 0
    OBVIOUS
  <2>. QED  BY <1>4, <2>1
<1>. QED  BY <1>1, <1>2, <1>5, <1>6 DEF AtSo

\* us has the messages at the places up to m; g says where each of them was.
Indexes(g, us, ms, places, m) ==
    /\ us \in Seq(PromptMessage)
    /\ \A p \in 1..Len(us) : g[p] \in 1..m /\ g[p] \in places /\ us[p] = ms[g[p]]
    /\ \A p, q \in 1..Len(us) : p < q => g[p] < g[q]
    /\ \A j \in 1..m : j \in places => \E p \in 1..Len(us) : g[p] = j

LEMMA OneMoreIndexed ==
    ASSUME NEW ms \in Seq(PromptMessage), NEW places, NEW m \in Nat, m + 1 \in 1..Len(ms),
           NEW us, NEW g, Indexes(g, us, ms, places, m),
           NEW vs, vs = IF m + 1 \in places THEN Append(us, ms[m + 1]) ELSE us
    PROVE  \E h : Indexes(h, vs, ms, places, m + 1)
<1>1. /\ us \in Seq(PromptMessage)
      /\ \A p \in 1..Len(us) : g[p] \in 1..m /\ g[p] \in places /\ us[p] = ms[g[p]]
      /\ \A p, q \in 1..Len(us) : p < q => g[p] < g[q]
      /\ \A j \in 1..m : j \in places => \E p \in 1..Len(us) : g[p] = j
  BY DEF Indexes
<1>2. \A a \in 1..m : a \in 1..(m + 1) /\ a < m + 1
  OBVIOUS
<1>3. \A a \in 1..(m + 1) : a # m + 1 => a \in 1..m
  OBVIOUS
<1>4. CASE m + 1 \notin places
  <2>1. vs = us
    BY <1>4
  <2>2. \A j \in 1..(m + 1) : j \in places => \E p \in 1..Len(us) : g[p] = j
    BY <1>1, <1>3, <1>4
  <2>3. \A p \in 1..Len(us) : g[p] \in 1..(m + 1) /\ g[p] \in places /\ us[p] = ms[g[p]]
    <3>1. ASSUME NEW p \in 1..Len(us)
          PROVE  g[p] \in 1..(m + 1) /\ g[p] \in places /\ us[p] = ms[g[p]]
      <4>1. g[p] \in 1..m /\ g[p] \in places /\ us[p] = ms[g[p]]
        BY <1>1
      <4>. QED  BY <1>2, <4>1
    <3>. QED  BY <3>1
  <2>4. Indexes(g, us, ms, places, m + 1)
    BY <1>1, <2>2, <2>3 DEF Indexes
  <2>. QED  BY <2>1, <2>4
<1>5. CASE m + 1 \in places
  <2>1. ms[m + 1] \in PromptMessage
    OBVIOUS
  <2>2. PICK k \in Nat : k = Len(us)
    BY <1>1
  <2>3. vs \in Seq(PromptMessage) /\ Len(vs) = k + 1 /\ vs[k + 1] = ms[m + 1] /\ \A p \in 1..k : vs[p] = us[p]
    BY <1>1, <1>5, <2>1, <2>2, AppendProperties
  <2>4. PICK h : h = [p \in 1..(k + 1) |-> IF p = k + 1 THEN m + 1 ELSE g[p]]
    OBVIOUS
  <2>5. h[k + 1] = m + 1 /\ \A p \in 1..k : h[p] = g[p]
    <3>1. k + 1 \in 1..(k + 1) /\ \A p \in 1..k : p \in 1..(k + 1) /\ p # k + 1
      OBVIOUS
    <3>. QED  BY <2>4, <3>1
  <2>6. \A p \in 1..(k + 1) : p # k + 1 => p \in 1..k
    OBVIOUS
  <2>7. ASSUME NEW p \in 1..(k + 1)
        PROVE  h[p] \in 1..(m + 1) /\ h[p] \in places /\ vs[p] = ms[h[p]]
    <3>1. CASE p = k + 1
      <4>1. m + 1 \in 1..(m + 1)
        OBVIOUS
      <4>. QED  BY <1>5, <2>3, <2>5, <3>1, <4>1
    <3>2. CASE p # k + 1
      BY <1>1, <1>2, <2>2, <2>3, <2>5, <2>6, <3>2
    <3>. QED  BY <3>1, <3>2
  <2>8. ASSUME NEW p \in 1..(k + 1), NEW q \in 1..(k + 1), p < q
        PROVE  h[p] < h[q]
    <3>0. p \in 1..k
      BY <2>8
    <3>1. CASE q = k + 1
      BY <1>1, <1>2, <2>2, <2>5, <3>0, <3>1
    <3>2. CASE q # k + 1
      BY <1>1, <2>2, <2>5, <2>6, <2>8, <3>0, <3>2
    <3>. QED  BY <3>1, <3>2
  <2>9. ASSUME NEW j \in 1..(m + 1), j \in places
        PROVE  \E p \in 1..(k + 1) : h[p] = j
    <3>1. CASE j = m + 1
      <4>1. k + 1 \in 1..(k + 1)
        OBVIOUS
      <4>. QED  BY <2>5, <3>1, <4>1
    <3>2. CASE j # m + 1
      <4>1. PICK p \in 1..k : g[p] = j
        BY <1>1, <1>3, <2>2, <2>9, <3>2
      <4>2. p \in 1..(k + 1)
        OBVIOUS
      <4>. QED  BY <2>5, <4>1, <4>2
    <3>. QED  BY <3>1, <3>2
  <2>10. Indexes(h, vs, ms, places, m + 1)
    BY <2>3, <2>7, <2>8, <2>9 DEF Indexes
  <2>. QED  BY <2>10
<1>. QED  BY <1>4, <1>5

LEMMA AtIndexed ==
    ASSUME NEW ms \in Seq(PromptMessage), NEW places
    PROVE  \E g : Indexes(g, Prompt!At(ms, places), ms, places, Len(ms))
<1>1. PICK n \in Nat : n = Len(ms)
  OBVIOUS
<1>2. PICK f : f = AtOf(ms, places)
  OBVIOUS
<1>3. f[0] = <<>> /\ \A j \in 1..n : f[j] = IF j \in places THEN Append(f[j - 1], ms[j]) ELSE f[j - 1]
  BY <1>1, <1>2, AtIs DEF AtSo
<1> DEFINE S == {j \in 0..n : \E g : Indexes(g, f[j], ms, places, j)}
<1>4. 0 \in S
  <2>1. PICK u : u = <<>>
    OBVIOUS
  <2>2. u \in Seq(PromptMessage) /\ Len(u) = 0
    BY <2>1, EmptySeq
  <2>3. Indexes(u, u, ms, places, 0)
    BY <2>2 DEF Indexes
  <2>4. 0 \in 0..n /\ f[0] = u
    BY <1>3, <2>1
  <2>. QED  BY <2>3, <2>4
<1>5. ASSUME NEW j \in 0..n, j \in S, j < n PROVE j + 1 \in S
  <2>1. j + 1 \in 1..n /\ (j + 1) - 1 = j /\ j + 1 \in 0..n /\ j \in Nat
    BY <1>5
  <2>2. PICK u, v : u = f[j] /\ v = f[j + 1]
    OBVIOUS
  <2>3. v = IF j + 1 \in places THEN Append(u, ms[j + 1]) ELSE u
    BY <1>3, <2>1, <2>2
  <2>4. PICK g : Indexes(g, u, ms, places, j)
    BY <1>5, <2>2
  <2>5. \E h : Indexes(h, v, ms, places, j + 1)
    BY <1>1, <2>1, <2>3, <2>4, OneMoreIndexed
  <2>. QED  BY <2>1, <2>2, <2>5
<1> HIDE DEF S
<1>6. \A j \in 0..n : j \in S
  BY <1>4, <1>5, Counting
<1>7. n \in S
  BY <1>6
<1>8. Prompt!At(ms, places) = f[n]
  BY <1>1, <1>2, AtAre
<1>. QED  BY <1>1, <1>7, <1>8 DEF S

LEMMA AtTyped ==
    ASSUME NEW ms \in Seq(PromptMessage), NEW places
    PROVE  Prompt!At(ms, places) \in Seq(PromptMessage)
BY AtIndexed DEF Indexes

\* Every result comes after a message that asks for it, and no message of the
\* user comes between.
Attended(s) ==
    \A p \in 1..Len(s) : s[p].role = "tool" =>
        \E q \in 1..(p - 1) : /\ s[q].role = "assistant" /\ s[p].id \in s[q].calls
                              /\ \A k \in q..p : s[k].role # "user"
Backed(s) ==
    \A p \in 1..Len(s) : s[p].role = "tool" => \E q \in 1..(p - 1) : s[p].id \in s[q].calls

LEMMA SanitizedIs ==
    ASSUME NEW ms \in Seq(PromptMessage)
    PROVE  Prompt!Sanitized(ms) \in Seq(PromptMessage) /\ Attended(Prompt!Sanitized(ms))
<1>1. PICK n \in Nat : n = Len(ms) /\ DOMAIN ms = 1..n
  OBVIOUS
<1>2. PICK ss : ss = Prompt!Sanitized(ms)
  OBVIOUS
<1>3. \A i \in 1..n : ss[i] = IF ms[i].role = "tool" /\ ~Prompt!InPlace(ms, i)
                              THEN Prompt!Entry("system", ms[i].id) ELSE ms[i]
  BY <1>1, <1>2 DEF Prompt!Sanitized
<1>4. ASSUME NEW i \in 1..n PROVE ms[i] \in PromptMessage /\ ms[i].id \in Nat
  <2>1. ms[i] \in PromptMessage
    BY <1>1
  <2>. QED  BY <2>1 DEF PromptMessage
<1>5. \A i \in 1..n : ss[i] \in PromptMessage /\ (ss[i] = ms[i] \/ ss[i].role = "system")
  BY <1>3, <1>4, EntryTyped
<1>6. ss \in Seq(PromptMessage) /\ Len(ss) = n
  <2>1. ss = [i \in 1..n |-> ss[i]]
    BY <1>1, <1>2 DEF Prompt!Sanitized
  <2>2. ss \in [1..n -> PromptMessage]
    BY <1>5, <2>1
  <2>. QED  BY <2>2
<1>7. ASSUME NEW i \in 1..n, ss[i].role = "tool"
      PROVE  \E j \in 1..(i - 1) : /\ ss[j].role = "assistant" /\ ss[i].id \in ss[j].calls
                                   /\ \A k \in j..i : ss[k].role # "user"
  <2>1. ss[i] = ms[i] /\ ms[i].role = "tool"
    BY <1>5, <1>7
  <2>2. Prompt!InPlace(ms, i)
    <3> SUFFICES ASSUME ~Prompt!InPlace(ms, i) PROVE FALSE
      OBVIOUS
    <3>1. ss[i] = Prompt!Entry("system", ms[i].id)
      BY <1>3, <2>1
    <3>2. ss[i].role = "system"
      BY <1>4, <3>1, EntryTyped
    <3>. QED  BY <1>7, <3>2
  <2>3. PICK j \in 1..(i - 1) : /\ ms[j].role = "assistant" /\ ms[i].id \in ms[j].calls
                                /\ \A k \in (j + 1)..(i - 1) : ms[k].role = "tool"
    BY <2>2 DEF Prompt!InPlace
  <2>4. j \in 1..n
    OBVIOUS
  <2>5. ss[j] = ms[j]
    BY <1>3, <2>3, <2>4
  <2>6. ASSUME NEW k \in j..i PROVE ss[k].role # "user"
    <3>1. k \in 1..n /\ (k = j \/ k = i \/ k \in (j + 1)..(i - 1))
      BY <2>4
    <3>2. ms[k].role # "user"
      BY <2>1, <2>3, <3>1
    <3>. QED  BY <1>5, <3>1, <3>2
  <2>. QED  BY <2>1, <2>3, <2>5, <2>6
<1>. QED  BY <1>2, <1>6, <1>7 DEF Attended

LEMMA RestAttended ==
    ASSUME NEW ms \in Seq(PromptMessage), Attended(ms)
    PROVE  Attended(Prompt!At(ms, {i \in DOMAIN ms : ms[i].role # "system"}))
<1>1. PICK n \in Nat : n = Len(ms) /\ DOMAIN ms = 1..n
  OBVIOUS
<1>2. PICK pl : pl = {i \in DOMAIN ms : ms[i].role # "system"}
  OBVIOUS
<1>3. PICK us : us = Prompt!At(ms, pl)
  OBVIOUS
<1>4. PICK g : Indexes(g, us, ms, pl, n)
  BY <1>1, <1>3, AtIndexed
<1>5. /\ us \in Seq(PromptMessage)
      /\ \A p \in 1..Len(us) : g[p] \in 1..n /\ g[p] \in pl /\ us[p] = ms[g[p]]
      /\ \A p, q \in 1..Len(us) : p < q => g[p] < g[q]
      /\ \A j \in 1..n : j \in pl => \E p \in 1..Len(us) : g[p] = j
  BY <1>4 DEF Indexes
<1>6. PICK m \in Nat : m = Len(us)
  BY <1>5
<1>7. ASSUME NEW p \in 1..m, us[p].role = "tool"
      PROVE  \E q \in 1..(p - 1) : /\ us[q].role = "assistant" /\ us[p].id \in us[q].calls
                                   /\ \A k \in q..p : us[k].role # "user"
  <2>1. PICK a \in 1..n : a = g[p] /\ us[p] = ms[a]
    BY <1>5, <1>6
  <2>2. PICK j \in 1..(a - 1) : /\ ms[j].role = "assistant" /\ ms[a].id \in ms[j].calls
                                /\ \A k \in j..a : ms[k].role # "user"
    BY <1>1, <1>7, <2>1 DEF Attended
  <2>3. j \in 1..n /\ j < a
    OBVIOUS
  <2>4. j \in pl
    BY <1>1, <1>2, <2>2, <2>3
  <2>5. PICK q \in 1..m : g[q] = j
    BY <1>5, <1>6, <2>3, <2>4
  <2>6. q < p
    <3>1. ~(p < q)
      BY <1>5, <1>6, <2>1, <2>3, <2>5
    <3>2. p # q
      BY <2>1, <2>3, <2>5
    <3>. QED  BY <3>1, <3>2
  <2>7. us[q] = ms[j]
    BY <1>5, <1>6, <2>5
  <2>8. ASSUME NEW k \in q..p PROVE us[k].role # "user"
    <3>1. k \in 1..m
      OBVIOUS
    <3>2. PICK b \in 1..n : b = g[k] /\ us[k] = ms[b]
      BY <1>5, <1>6, <3>1
    <3>3. j <= b
      <4>1. CASE k = q
        BY <2>5, <3>2, <4>1
      <4>2. CASE k # q
        <5>1. q < k
          BY <4>2
        <5>. QED  BY <1>5, <1>6, <2>5, <3>1, <3>2, <5>1
      <4>. QED  BY <4>1, <4>2
    <3>4. b <= a
      <4>1. CASE k = p
        BY <2>1, <3>2, <4>1
      <4>2. CASE k # p
        <5>1. k < p
          BY <4>2
        <5>. QED  BY <1>5, <1>6, <2>1, <3>1, <3>2, <5>1
      <4>. QED  BY <4>1, <4>2
    <3>5. b \in j..a
      BY <3>3, <3>4
    <3>. QED  BY <2>2, <3>2, <3>5
  <2>9. q \in 1..(p - 1)
    BY <2>6
  <2>. QED  BY <2>1, <2>2, <2>7, <2>8, <2>9
<1>. QED  BY <1>2, <1>3, <1>6, <1>7 DEF Attended
\* A history may be cut where a turn of the user begins.
CutBacked(s, i) == SubSeq(s, i, Len(s)) \in Seq(PromptMessage) /\ Backed(SubSeq(s, i, Len(s)))

LEMMA CutIsBacked ==
    ASSUME NEW s \in Seq(PromptMessage), Attended(s), NEW i \in Prompt!Starts(s)
    PROVE  CutBacked(s, i)
<1>1. PICK n \in Nat : n = Len(s) /\ DOMAIN s = 1..n
  OBVIOUS
<1>2. i \in 1..(n + 1) /\ (i = 1 \/ i = n + 1 \/ s[i].role = "user")
  BY <1>1 DEF Prompt!Starts
<1>3. PICK u : u = SubSeq(s, i, n)
  OBVIOUS
<1>4. u \in Seq(PromptMessage) /\ Len(u) = n - i + 1 /\ \A k \in 1..(n - i + 1) : u[k] = s[i + k - 1]
  <2>1. i \in Int /\ n \in Int /\ \A k \in i..n : s[k] \in PromptMessage
    BY <1>1, <1>2
  <2>2. /\ u \in Seq(PromptMessage) /\ Len(u) = IF i <= n THEN n - i + 1 ELSE 0
        /\ \A k \in 1..(n - i + 1) : u[k] = s[i + k - 1]
    BY <1>3, <2>1, SubSeqProperties
  <2>. QED  BY <1>2, <2>2
<1>5. ASSUME NEW p \in 1..(n - i + 1), u[p].role = "tool"
      PROVE  \E q \in 1..(p - 1) : u[p].id \in u[q].calls
  <2>1. PICK a \in 1..n : a = i + p - 1 /\ i <= a
    BY <1>2
  <2>2. u[p] = s[a]
    BY <1>4, <2>1
  <2>3. PICK b \in 1..(a - 1) : s[b].role = "assistant" /\ s[a].id \in s[b].calls
                                /\ \A k \in b..a : s[k].role # "user"
    BY <1>1, <1>5, <2>1, <2>2 DEF Attended
  <2>4. i <= b
    <3> SUFFICES ASSUME b < i PROVE FALSE
      BY <1>2
    <3>1. i \in b..a /\ i # 1 /\ i # n + 1
      BY <1>2, <2>1
    <3>. QED  BY <1>2, <2>3, <3>1
  <2>5. PICK q \in 1..(p - 1) : i + q - 1 = b
    <3>1. b - i + 1 \in 1..(p - 1) /\ i + (b - i + 1) - 1 = b
      BY <1>2, <2>1, <2>4
    <3>. QED  BY <3>1
  <2>6. u[q] = s[b]
    <3>1. q \in 1..(n - i + 1)
      BY <1>2
    <3>. QED  BY <1>4, <2>5, <3>1
  <2>. QED  BY <2>2, <2>3, <2>6
<1>. QED  BY <1>1, <1>3, <1>4, <1>5 DEF Backed, CutBacked

LEMMA JoinBacked ==
    ASSUME NEW s \in Seq(PromptMessage), NEW t \in Seq(PromptMessage), Backed(s), Backed(t)
    PROVE  Backed(s \o t)
<1>1. PICK m, k \in Nat : m = Len(s) /\ k = Len(t)
  OBVIOUS
<1>2. PICK u : u = s \o t
  OBVIOUS
<1>3. /\ u \in Seq(PromptMessage) /\ Len(u) = m + k
      /\ \A i \in 1..(m + k) : u[i] = IF i <= m THEN s[i] ELSE t[i - m]
  BY <1>1, <1>2, ConcatProperties
<1>4. ASSUME NEW p \in 1..(m + k), u[p].role = "tool"
      PROVE  \E q \in 1..(p - 1) : u[p].id \in u[q].calls
  <2>1. CASE p <= m
    <3>1. p \in 1..m /\ u[p] = s[p]
      BY <1>3, <2>1
    <3>2. PICK q \in 1..(p - 1) : s[p].id \in s[q].calls
      BY <1>1, <1>4, <3>1 DEF Backed
    <3>3. q \in 1..(m + k) /\ q <= m
      BY <2>1
    <3>4. u[q] = s[q]
      BY <1>3, <3>3
    <3>. QED  BY <3>1, <3>2, <3>4
  <2>2. CASE ~(p <= m)
    <3>1. PICK r \in 1..k : r = p - m
      BY <2>2
    <3>2. u[p] = t[r]
      BY <1>3, <2>2, <3>1
    <3>3. PICK q \in 1..(r - 1) : t[r].id \in t[q].calls
      BY <1>1, <1>4, <3>2 DEF Backed
    <3>4. m + q \in 1..(p - 1) /\ m + q \in 1..(m + k) /\ ~(m + q <= m) /\ (m + q) - m = q
      BY <3>1
    <3>5. u[m + q] = t[q]
      BY <1>3, <3>4
    <3>. QED  BY <3>2, <3>3, <3>4, <3>5
  <2>. QED  BY <2>1, <2>2
<1>. QED  BY <1>2, <1>3, <1>4 DEF Backed

LEMMA OneBacked ==
    ASSUME NEW m \in PromptMessage, m.role # "tool"
    PROVE  <<m>> \in Seq(PromptMessage) /\ Backed(<<m>>)
<1>1. PICK s : s = <<m>>
  OBVIOUS
<1>2. s \in Seq(PromptMessage) /\ Len(s) = 1 /\ s[1] = m
  BY <1>1
<1>3. \A p \in 1..Len(s) : s[p].role # "tool"
  BY <1>2
<1>. QED  BY <1>1, <1>2, <1>3 DEF Backed

LEMMA NoneBacked == <<>> \in Seq(PromptMessage) /\ Backed(<<>>)
<1>1. PICK s : s = <<>>
  OBVIOUS
<1>2. s \in Seq(PromptMessage) /\ Len(s) = 0
  BY <1>1, EmptySeq
<1>. QED  BY <1>1, <1>2 DEF Backed

LEMMA SystemsBacked ==
    ASSUME NEW ms \in Seq(PromptMessage)
    PROVE  Backed(Prompt!At(ms, {i \in DOMAIN ms : ms[i].role = "system"}))
<1>1. PICK pl : pl = {i \in DOMAIN ms : ms[i].role = "system"}
  OBVIOUS
<1>2. PICK us : us = Prompt!At(ms, pl)
  OBVIOUS
<1>3. PICK g : Indexes(g, us, ms, pl, Len(ms))
  BY <1>2, AtIndexed
<1>4. \A p \in 1..Len(us) : g[p] \in pl /\ us[p] = ms[g[p]]
  BY <1>3 DEF Indexes
<1>5. \A p \in 1..Len(us) : us[p].role # "tool"
  BY <1>1, <1>4
<1>. QED  BY <1>1, <1>2, <1>5 DEF Backed

LEMMA AttendedBacked ==
    ASSUME NEW s, Attended(s)
    PROVE  Backed(s)
BY DEF Attended, Backed

LEMMA SnippedIs ==
    ASSUME NEW ms \in Seq(PromptMessage), Attended(ms)
    PROVE  Prompt!Snipped(ms) \in Seq(PromptMessage) /\ Backed(Prompt!Snipped(ms))
<1>1. CASE pr_Budget = 0
  <2>1. Prompt!Snipped(ms) = ms
    BY <1>1 DEF Prompt!Snipped
  <2>. QED  BY <2>1, AttendedBacked
<1>2. CASE pr_Budget # 0
  <2>1. PICK system, rest : /\ system = Prompt!At(ms, {i \in DOMAIN ms : ms[i].role = "system"})
                            /\ rest = Prompt!At(ms, {i \in DOMAIN ms : ms[i].role # "system"})
    OBVIOUS
  <2>2. PICK fits : fits = {i \in Prompt!Starts(rest) : i > Len(rest)
                               \/ Prompt!Chars(system \o SubSeq(rest, i, Len(rest))) <= pr_Budget}
    OBVIOUS
  <2>3. PICK first : first = Prompt!Min(fits)
    OBVIOUS
  <2>4. PICK notice : notice = IF first > 1 THEN <<Prompt!Notice>> ELSE <<>>
    OBVIOUS
  <2>5. Prompt!Snipped(ms) = system \o notice \o SubSeq(rest, first, Len(rest))
    BY <1>2, <2>1, <2>2, <2>3, <2>4 DEF Prompt!Snipped
  <2>6. system \in Seq(PromptMessage) /\ Backed(system)
    BY <2>1, AtTyped, SystemsBacked
  <2>7. rest \in Seq(PromptMessage) /\ Attended(rest)
    BY <2>1, AtTyped, RestAttended
  <2>8. first \in Prompt!Starts(rest)
    <3>1. PICK n \in Nat : n = Len(rest) /\ DOMAIN rest = 1..n
      BY <2>7
    <3>2. Prompt!Starts(rest) \subseteq Nat /\ n + 1 \in Prompt!Starts(rest)
      BY <3>1 DEF Prompt!Starts
    <3>3. n + 1 \in fits
      BY <2>2, <3>1, <3>2
    <3>4. fits \in SUBSET Nat /\ fits # {} /\ fits \subseteq Prompt!Starts(rest)
      BY <2>2, <3>2, <3>3
    <3>. QED  BY <2>3, <3>4, LeastIs
  <2>9. PICK from : from = SubSeq(rest, first, Len(rest))
    OBVIOUS
  <2>10. from \in Seq(PromptMessage) /\ Backed(from)
    BY <2>7, <2>8, <2>9, CutIsBacked DEF CutBacked
  <2>11. notice \in Seq(PromptMessage) /\ Backed(notice)
    <3>1. Prompt!Notice \in PromptMessage /\ Prompt!Notice.role = "system"
      BY EntryTyped DEF Prompt!Notice
    <3>2. <<Prompt!Notice>> \in Seq(PromptMessage) /\ Backed(<<Prompt!Notice>>)
      BY <3>1, OneBacked
    <3>. QED  BY <2>4, <3>2, NoneBacked
  <2>12. PICK head : head = system \o notice
    OBVIOUS
  <2>13. head \in Seq(PromptMessage) /\ Backed(head)
    BY <2>6, <2>11, <2>12, ConcatProperties, JoinBacked
  <2>14. head \o from \in Seq(PromptMessage) /\ Backed(head \o from)
    BY <2>10, <2>13, ConcatProperties, JoinBacked
  <2>. QED  BY <2>5, <2>9, <2>12, <2>14
<1>. QED  BY <1>1, <1>2
\* A history that is being eased: kept counts the messages that are done with.
Easing == [ms : Seq(PromptMessage), kept : Nat]

LEMMA EasedTyped ==
    ASSUME NEW s \in Easing, s.kept + 1 <= Len(s.ms)
    PROVE  Prompt!Eased(s) \in Easing
<1>1. PICK u \in Seq(PromptMessage), i \in Nat : u = s.ms /\ i = s.kept + 1
  BY DEF Easing
<1>2. PICK n \in Nat : n = Len(u) /\ i \in 1..n
  BY <1>1 DEF Easing
<1>3. PICK m \in PromptMessage : m = u[i]
  BY <1>2
<1>4. ASSUME NEW x \in PromptMessage PROVE [u EXCEPT ![i] = x] \in Seq(PromptMessage)
  <2>1. [u EXCEPT ![i] = x] \in [1..n -> PromptMessage]
    BY <1>2
  <2>. QED  BY <2>1
<1>5. CASE m.images > 0
  <2>1. PICK x : x = [m EXCEPT !.images = 0]
    OBVIOUS
  <2>2. x \in PromptMessage
    BY <2>1 DEF PromptMessage
  <2>3. PICK v \in Seq(PromptMessage) : v = [u EXCEPT ![i] = x]
    BY <1>4, <2>2
  <2>4. Prompt!Eased(s) = [s EXCEPT !.ms = v]
    <3>1. Prompt!Eased(s) = [s EXCEPT !.ms[i].images = 0]
      BY <1>1, <1>3, <1>5 DEF Prompt!Eased
    <3>2. [s EXCEPT !.ms[i].images = 0] = [s EXCEPT !.ms = [u EXCEPT ![i] = [m EXCEPT !.images = 0]]]
      BY <1>1, <1>3
    <3>. QED  BY <2>1, <2>3, <3>1, <3>2
  <2>. QED  BY <2>3, <2>4 DEF Easing
<1>6. CASE ~(m.images > 0) /\ m.milestone /\ ~m.skeleton
  <2>1. PICK x \in PromptMessage : x = Prompt!Skeleton(m)
    BY SkeletonTyped
  <2>2. PICK v \in Seq(PromptMessage) : v = [u EXCEPT ![i] = x]
    BY <1>4
  <2>3. Prompt!Eased(s) = [ms |-> v, kept |-> i]
    BY <1>1, <1>3, <1>6, <2>1, <2>2 DEF Prompt!Eased
  <2>. QED  BY <1>1, <2>2, <2>3 DEF Easing
<1>7. CASE ~(m.images > 0) /\ ~(m.milestone /\ ~m.skeleton)
  <2>1. PICK a, b : a = SubSeq(u, 1, i - 1) /\ b = SubSeq(u, i + 1, n)
    OBVIOUS
  <2>2. a \in Seq(PromptMessage)
    <3>1. 1 \in Int /\ i - 1 \in Int /\ \A k \in 1..(i - 1) : u[k] \in PromptMessage
      BY <1>2
    <3>. QED  BY <2>1, <3>1, SubSeqProperties
  <2>3. b \in Seq(PromptMessage)
    <3>1. i + 1 \in Int /\ n \in Int /\ \A k \in (i + 1)..n : u[k] \in PromptMessage
      BY <1>2
    <3>. QED  BY <2>1, <3>1, SubSeqProperties
  <2>4. PICK v \in Seq(PromptMessage) : v = a \o b
    BY <2>2, <2>3, ConcatProperties
  <2>5. Prompt!Eased(s) = [s EXCEPT !.ms = v]
    <3>1. Prompt!Eased(s) = [s EXCEPT !.ms = Prompt!RemoveAt(u, i)]
      BY <1>1, <1>3, <1>7 DEF Prompt!Eased
    <3>2. Prompt!RemoveAt(u, i) = v
      BY <1>2, <2>1, <2>4 DEF Prompt!RemoveAt
    <3>. QED  BY <3>1, <3>2
  <2>. QED  BY <2>4, <2>5 DEF Easing
<1>. QED  BY <1>5, <1>6, <1>7

Enough(s, target) == Len(s.ms) - s.kept <= pr_MinKeep \/ Prompt!Chars(s.ms) <= target
EvBody(f, ms, target) ==
    [n \in 0..(2 * Len(ms)) |->
        IF n = 0 THEN [ms |-> ms, kept |-> 0]
        ELSE IF Enough(f[n - 1], target) THEN f[n - 1] ELSE Prompt!Eased(f[n - 1])]
EvOf(ms, target) == CHOOSE f : f = EvBody(f, ms, target)

LEMMA EvictedAre ==
    ASSUME NEW ms, NEW target
    PROVE  Prompt!Evicted(ms, target) = EvOf(ms, target)[2 * Len(ms)].ms
BY DEF Prompt!Evicted, EvOf, EvBody, Enough

LEMMA NextEased ==
    ASSUME pr_MinKeep \in Nat, NEW s \in Easing, NEW target
    PROVE  (IF Enough(s, target) THEN s ELSE Prompt!Eased(s)) \in Easing
<1> SUFFICES ASSUME ~Enough(s, target) PROVE Prompt!Eased(s) \in Easing
  OBVIOUS
<1>1. PICK u \in Seq(PromptMessage), k \in Nat : u = s.ms /\ k = s.kept
  BY DEF Easing
<1>2. ~(Len(u) - k <= pr_MinKeep)
  BY <1>1 DEF Enough
<1>3. k + 1 <= Len(u)
  BY <1>2
<1>. QED  BY <1>1, <1>3, EasedTyped

LEMMA EvictedTyped ==
    ASSUME pr_MinKeep \in Nat, NEW ms \in Seq(PromptMessage), NEW target
    PROVE  Prompt!Evicted(ms, target) \in Seq(PromptMessage)
<1>1. PICK n \in Nat : n = 2 * Len(ms)
  OBVIOUS
<1>2. PICK e \in Easing : e = [ms |-> ms, kept |-> 0]
  BY DEF Easing
<1>3. PICK F \in [Easing \X (1..n) -> Easing] :
        F = [p \in Easing \X (1..n) |-> IF Enough(p[1], target) THEN p[1] ELSE Prompt!Eased(p[1])]
  <2>1. ASSUME NEW p \in Easing \X (1..n)
        PROVE  (IF Enough(p[1], target) THEN p[1] ELSE Prompt!Eased(p[1])) \in Easing
    BY NextEased
  <2>. QED  BY <2>1
<1>4. PICK f \in [0..n -> Easing] :
        f[0] = e /\ \A j \in 1..n : f[j] = F[<<f[j - 1], j>>]
  <2>1. \E f \in [0..n -> Easing] : Unrolls(f, n, e, F)
    BY Recursion
  <2>. QED  BY <2>1 DEF Unrolls
<1>5. ASSUME NEW j \in 1..n
      PROVE  f[j] = IF Enough(f[j - 1], target) THEN f[j - 1] ELSE Prompt!Eased(f[j - 1])
  <2>1. j - 1 \in 0..n
    OBVIOUS
  <2>2. <<f[j - 1], j>> \in Easing \X (1..n)
    BY <1>4, <2>1
  <2>. QED  BY <1>3, <1>4, <2>2
<1>6. f = EvBody(f, ms, target)
  <2>1. \A i \in 0..n : f[i] = IF i = 0 THEN [ms |-> ms, kept |-> 0]
                               ELSE IF Enough(f[i - 1], target) THEN f[i - 1] ELSE Prompt!Eased(f[i - 1])
    <3>1. \A i \in 0..n : i # 0 => i \in 1..n
      OBVIOUS
    <3>. QED  BY <3>1, <1>2, <1>4, <1>5
  <2>2. f = [i \in 0..n |-> f[i]]
    BY <1>4
  <2>. QED  BY <1>1, <2>1, <2>2 DEF EvBody
<1>7. PICK h : h = EvOf(ms, target)
  OBVIOUS
<1>8. h = EvBody(h, ms, target)
  BY <1>6, <1>7 DEF EvOf
<1>9. \A i \in 0..n : h[i] = IF i = 0 THEN e
                             ELSE IF Enough(h[i - 1], target) THEN h[i - 1] ELSE Prompt!Eased(h[i - 1])
  BY <1>1, <1>2, <1>8 DEF EvBody
<1> DEFINE S == {j \in 0..n : h[j] \in Easing}
<1>10. 0 \in S
  <2>1. 0 \in 0..n
    OBVIOUS
  <2>. QED  BY <1>9, <2>1
<1>11. ASSUME NEW j \in 0..n, j \in S, j < n PROVE j + 1 \in S
  <2>1. j + 1 \in 0..n /\ (j + 1) - 1 = j /\ j + 1 # 0
    BY <1>11
  <2>2. h[j + 1] = IF Enough(h[j], target) THEN h[j] ELSE Prompt!Eased(h[j])
    BY <1>9, <2>1
  <2>3. h[j + 1] \in Easing
    BY <1>11, <2>2, NextEased
  <2>. QED  BY <2>1, <2>3
<1> HIDE DEF S
<1>12. \A j \in 0..n : j \in S
  BY <1>10, <1>11, Counting
<1>13. n \in S
  BY <1>12
<1>14. h[n] \in Easing
  BY <1>13 DEF S
<1>. QED  BY <1>1, <1>7, <1>14, EvictedAre DEF Easing

LEMMA TrimmedTyped ==
    ASSUME pr_MinKeep \in Nat, NEW ms \in Seq(PromptMessage), NEW overhead
    PROVE  Prompt!Trimmed(ms, overhead) \in Seq(PromptMessage)
<1>1. PICK room : room = (pr_Limit * 4) \div 5
  OBVIOUS
<1>2. PICK target : target = IF room > overhead THEN room - overhead ELSE 0
  OBVIOUS
<1>3. Prompt!Trimmed(ms, overhead) = ms \/ Prompt!Trimmed(ms, overhead) = Prompt!Evicted(ms, target)
  BY <1>1, <1>2 DEF Prompt!Trimmed
<1>. QED  BY <1>3, EvictedTyped

LEMMA BuiltBacked ==
    ASSUME NEW a \in PromptMessage, NEW h \in Seq(PromptMessage), NEW q \in PromptMessage,
           NEW t \in Seq(PromptMessage)
    PROVE  /\ Prompt!Snipped(Prompt!Sanitized(<<a>> \o h \o <<q>> \o t)) \in Seq(PromptMessage)
           /\ Backed(Prompt!Snipped(Prompt!Sanitized(<<a>> \o h \o <<q>> \o t)))
<1>1. PICK x, y \in Seq(PromptMessage) : x = <<a>> /\ y = <<q>>
  <2>1. <<a>> \in Seq(PromptMessage) /\ <<q>> \in Seq(PromptMessage)
    OBVIOUS
  <2>. QED  BY <2>1
<1>2. PICK u \in Seq(PromptMessage) : u = x \o h
  BY ConcatProperties
<1>3. PICK v \in Seq(PromptMessage) : v = u \o y
  BY ConcatProperties
<1>4. PICK w \in Seq(PromptMessage) : w = v \o t
  BY ConcatProperties
<1>5. w = <<a>> \o h \o <<q>> \o t
  BY <1>1, <1>2, <1>3, <1>4
<1>6. Prompt!Sanitized(w) \in Seq(PromptMessage) /\ Attended(Prompt!Sanitized(w))
  BY SanitizedIs
<1>7. Prompt!Snipped(Prompt!Sanitized(w)) \in Seq(PromptMessage) /\ Backed(Prompt!Snipped(Prompt!Sanitized(w)))
  BY <1>6, SnippedIs
<1>. QED  BY <1>5, <1>7

\* The results of an iteration are of the calls of this iteration.
ResultsBody(f, c, n, shots) ==
    [k \in 0..n |-> IF k = 0 THEN <<>> ELSE f[k - 1] \o Prompt!Result(c + k, k \in shots)]
ResultsOf(c, n, shots) == CHOOSE f : f = ResultsBody(f, c, n, shots)

Ours(s, c, n) ==
    s \in Seq(PromptMessage) /\ \A i \in 1..Len(s) : s[i].role = "tool" => s[i].id \in (c + 1)..(c + n)

LEMMA ResultTyped ==
    ASSUME NEW c \in Nat, NEW n \in Nat, NEW k \in 1..n, NEW shot \in BOOLEAN
    PROVE  Ours(Prompt!Result(c + k, shot), c, n)
<1>1. PICK e, u \in PromptMessage : e = Prompt!Entry("tool", c + k) /\ u = Prompt!User(1)
  BY EntryTyped, UserTyped
<1>2. e.id = c + k /\ u.role = "user"
  BY <1>1, EntryTyped, UserTyped
<1>3. PICK x, y : x = <<e>> /\ y = IF shot THEN <<u>> ELSE <<>>
  OBVIOUS
<1>4. x \in Seq(PromptMessage) /\ Len(x) = 1 /\ x[1] = e
  BY <1>3
<1>5. y \in Seq(PromptMessage) /\ \A i \in 1..Len(y) : y[i].role # "tool"
  <2>1. CASE shot
    <3>1. y \in Seq(PromptMessage) /\ Len(y) = 1 /\ y[1] = u
      BY <1>3, <2>1
    <3>. QED  BY <1>2, <3>1
  <2>2. CASE ~shot
    <3>1. y \in Seq(PromptMessage) /\ Len(y) = 0
      BY <1>3, <2>2, EmptySeq
    <3>. QED  BY <3>1
  <2>. QED  BY <2>1, <2>2
<1>6. PICK w : w = x \o y
  OBVIOUS
<1>7. /\ w \in Seq(PromptMessage) /\ Len(w) = 1 + Len(y)
      /\ \A i \in 1..(1 + Len(y)) : w[i] = IF i <= 1 THEN x[i] ELSE y[i - 1]
  <2>1. /\ w \in Seq(PromptMessage) /\ Len(w) = Len(x) + Len(y)
        /\ \A i \in 1..(Len(x) + Len(y)) : w[i] = IF i <= Len(x) THEN x[i] ELSE y[i - Len(x)]
    BY <1>4, <1>5, <1>6, ConcatProperties
  <2>. QED  BY <1>4, <2>1
<1>8. ASSUME NEW i \in 1..Len(w), w[i].role = "tool" PROVE w[i].id \in (c + 1)..(c + n)
  <2>1. CASE i = 1
    <3>1. w[i] = e
      BY <1>4, <1>7, <2>1
    <3>. QED  BY <1>2, <3>1
  <2>2. CASE i # 1
    <3>1. PICK m \in Nat : m = Len(y)
      BY <1>5
    <3>2. i - 1 \in 1..m /\ ~(i <= 1) /\ i \in 1..(1 + m)
      BY <1>7, <2>2, <3>1
    <3>3. w[i] = y[i - 1]
      BY <1>7, <3>1, <3>2
    <3>. QED  BY <1>5, <1>8, <3>1, <3>2, <3>3
  <2>. QED  BY <2>1, <2>2
<1>9. Prompt!Result(c + k, shot) = w
  BY <1>1, <1>3, <1>6 DEF Prompt!Result
<1>. QED  BY <1>7, <1>8, <1>9 DEF Ours

LEMMA OursJoin ==
    ASSUME NEW c, NEW n, NEW s, NEW t, Ours(s, c, n), Ours(t, c, n)
    PROVE  Ours(s \o t, c, n)
<1>0. s \in Seq(PromptMessage) /\ t \in Seq(PromptMessage)
  BY DEF Ours
<1>1. PICK m, k \in Nat : m = Len(s) /\ k = Len(t)
  BY <1>0
<1>2. PICK u : u = s \o t
  OBVIOUS
<1>3. /\ u \in Seq(PromptMessage) /\ Len(u) = m + k
      /\ \A i \in 1..(m + k) : u[i] = IF i <= m THEN s[i] ELSE t[i - m]
  BY <1>0, <1>1, <1>2, ConcatProperties
<1>4. ASSUME NEW i \in 1..(m + k), u[i].role = "tool" PROVE u[i].id \in (c + 1)..(c + n)
  <2>1. CASE i <= m
    <3>1. i \in 1..m /\ u[i] = s[i]
      BY <1>3, <2>1
    <3>. QED  BY <1>1, <1>4, <3>1 DEF Ours
  <2>2. CASE ~(i <= m)
    <3>1. i - m \in 1..k /\ u[i] = t[i - m]
      BY <1>3, <2>2
    <3>. QED  BY <1>1, <1>4, <3>1 DEF Ours
  <2>. QED  BY <2>1, <2>2
<1>. QED  BY <1>2, <1>3, <1>4 DEF Ours

LEMMA ResultsAre ==
    ASSUME NEW c \in Nat, NEW n \in Nat, NEW shots
    PROVE  Ours(ResultsOf(c, n, shots)[n], c, n)
<1>1. PICK A, e : A = {s \in Seq(PromptMessage) : Ours(s, c, n)} /\ e = <<>>
  OBVIOUS
<1>2. e \in A
  <2>1. e \in Seq(PromptMessage) /\ Len(e) = 0
    BY <1>1, EmptySeq
  <2>2. Ours(e, c, n)
    BY <2>1 DEF Ours
  <2>. QED  BY <1>1, <2>1, <2>2
<1>3. ASSUME NEW s \in A, NEW k \in 1..n
      PROVE  s \o Prompt!Result(c + k, k \in shots) \in A
  <2>1. PICK b \in BOOLEAN : b = (k \in shots)
    <3>1. (k \in shots) \in BOOLEAN
      OBVIOUS
    <3>. QED  BY <3>1, Zenon
  <2>2. Ours(Prompt!Result(c + k, b), c, n)
    BY ResultTyped
  <2>3. Ours(s, c, n)
    BY <1>1
  <2>4. PICK r : r = Prompt!Result(c + k, b)
    OBVIOUS
  <2>5. Ours(s \o r, c, n)
    BY <2>2, <2>3, <2>4, OursJoin
  <2>6. s \o r \in A
    BY <1>1, <2>5 DEF Ours
  <2>7. Prompt!Result(c + k, k \in shots) = r
    BY <2>1, <2>4, Zenon
  <2>. QED  BY <2>6, <2>7
<1>4. PICK F \in [A \X (1..n) -> A] :
        F = [p \in A \X (1..n) |-> p[1] \o Prompt!Result(c + p[2], p[2] \in shots)]
  <2>1. ASSUME NEW p \in A \X (1..n)
        PROVE  p[1] \o Prompt!Result(c + p[2], p[2] \in shots) \in A
    BY <1>3
  <2>. QED  BY <2>1
<1>5. PICK f \in [0..n -> A] :
        f[0] = e /\ \A j \in 1..n : f[j] = F[<<f[j - 1], j>>]
  <2>1. \E f \in [0..n -> A] : Unrolls(f, n, e, F)
    BY <1>2, Recursion
  <2>. QED  BY <2>1 DEF Unrolls
<1>6. ASSUME NEW j \in 1..n
      PROVE  f[j] = f[j - 1] \o Prompt!Result(c + j, j \in shots)
  <2>1. j - 1 \in 0..n
    OBVIOUS
  <2>2. <<f[j - 1], j>> \in A \X (1..n)
    BY <1>5, <2>1
  <2>. QED  BY <1>4, <1>5, <2>2
<1>7. f = ResultsBody(f, c, n, shots)
  <2>1. \A i \in 0..n : f[i] = IF i = 0 THEN <<>> ELSE f[i - 1] \o Prompt!Result(c + i, i \in shots)
    <3>1. \A i \in 0..n : i # 0 => i \in 1..n
      OBVIOUS
    <3>. QED  BY <3>1, <1>1, <1>5, <1>6
  <2>2. f = [i \in 0..n |-> f[i]]
    BY <1>5
  <2>. QED  BY <2>1, <2>2 DEF ResultsBody
<1>8. PICK h : h = ResultsOf(c, n, shots)
  OBVIOUS
<1>9. h = ResultsBody(h, c, n, shots)
  BY <1>7, <1>8 DEF ResultsOf
<1>10. \A i \in 0..n : h[i] = IF i = 0 THEN <<>> ELSE h[i - 1] \o Prompt!Result(c + i, i \in shots)
  BY <1>9 DEF ResultsBody
<1> DEFINE S == {j \in 0..n : h[j] \in A}
<1>11. 0 \in S
  <2>1. 0 \in 0..n
    OBVIOUS
  <2>. QED  BY <1>1, <1>2, <1>10, <2>1
<1>12. ASSUME NEW j \in 0..n, j \in S, j < n PROVE j + 1 \in S
  <2>1. j + 1 \in 0..n /\ (j + 1) - 1 = j /\ j + 1 # 0 /\ j + 1 \in 1..n
    BY <1>12
  <2>2. h[j + 1] = h[j] \o Prompt!Result(c + (j + 1), (j + 1) \in shots)
    BY <1>10, <2>1
  <2>3. h[j + 1] \in A
    BY <1>3, <1>12, <2>1, <2>2
  <2>. QED  BY <2>1, <2>3
<1> HIDE DEF S
<1>13. \A j \in 0..n : j \in S
  BY <1>11, <1>12, Counting
<1>14. n \in S
  BY <1>13
<1>. QED  BY <1>1, <1>8, <1>14 DEF S
BackedInv ==
    pr_messages \in Seq(PromptMessage) /\ pr_prompt \in Seq(PromptMessage) /\ pr_calls \in Nat /\ Backed(pr_prompt)

LEMMA BackedInit == Prompt!Init => BackedInv
<1> SUFFICES ASSUME Prompt!Init PROVE BackedInv
  OBVIOUS
<1>1. pr_messages = <<>> /\ pr_prompt = <<>> /\ pr_calls = 0
  BY DEF Prompt!Init
<1>. QED  BY <1>1, NoneBacked DEF BackedInv

LEMMA StoredTwo ==
    ASSUME NEW ms \in Seq(PromptMessage), NEW a \in PromptMessage, NEW b \in PromptMessage
    PROVE  ms \o <<a, b>> \in Seq(PromptMessage)
<1>1. PICK x \in Seq(PromptMessage) : x = <<a, b>>
  <2>1. PICK A : A = PromptMessage
    OBVIOUS
  <2>2. <<a, b>> \in Seq(A)
    BY <2>1
  <2>. QED  BY <2>1, <2>2
<1>. QED  BY <1>1, ConcatProperties

LEMMA StoredThree ==
    ASSUME NEW ms \in Seq(PromptMessage), NEW a \in PromptMessage, NEW b \in PromptMessage, NEW c \in PromptMessage
    PROVE  ms \o <<a, b, c>> \in Seq(PromptMessage)
<1>1. PICK x \in Seq(PromptMessage) : x = <<a, b, c>>
  <2>1. PICK A : A = PromptMessage
    OBVIOUS
  <2>2. <<a, b, c>> \in Seq(A)
    BY <2>1
  <2>. QED  BY <2>1, <2>2
<1>. QED  BY <1>1, ConcatProperties

LEMMA BackedStep ==
    ASSUME pr_Window \in Nat, pr_MinKeep \in Nat, BackedInv, [Prompt!Next]_(Prompt!vars)
    PROVE  BackedInv'
<1>i. pr_messages \in Seq(PromptMessage) /\ pr_prompt \in Seq(PromptMessage) /\ pr_calls \in Nat /\ Backed(pr_prompt)
  BY DEF BackedInv
<1>k. ASSUME UNCHANGED pr_prompt PROVE pr_prompt' \in Seq(PromptMessage) /\ Backed(pr_prompt')
  BY <1>i, <1>k
<1>1. ASSUME NEW n \in 0..1, NEW long \in BOOLEAN, NEW m \in BOOLEAN, Prompt!Turn(n, long, m)
      PROVE  BackedInv'
  <2>1. PICK a, b \in PromptMessage : a = Prompt!User(n) /\ b = Prompt!Answer(long, m)
    BY UserTyped, AnswerTyped
  <2>2. pr_messages' = pr_messages \o <<a, b>> /\ UNCHANGED <<pr_prompt, pr_calls>>
    BY <1>1, <2>1 DEF Prompt!Turn
  <2>3. pr_messages' \in Seq(PromptMessage)
    BY <1>i, <2>2, StoredTwo
  <2>. QED  BY <1>i, <1>k, <2>2, <2>3 DEF BackedInv
<1>2. CASE Prompt!Approved \/ Prompt!Noticed
  <2>1. PICK u \in BOOLEAN : Prompt!CallAndResult(u)
    BY <1>2 DEF Prompt!Approved, Prompt!Noticed
  <2>2. PICK a \in PromptMessage : a = [Prompt!Calling({pr_calls + 1}) EXCEPT !.unsaved = u]
    <3>1. PICK x \in PromptMessage : x = Prompt!Calling({pr_calls + 1})
      BY <1>i, CallingTyped
    <3>2. [x EXCEPT !.unsaved = u] \in PromptMessage
      BY DEF PromptMessage
    <3>. QED  BY <3>1, <3>2
  <2>3. PICK b, c \in PromptMessage : b = Prompt!Entry("tool", pr_calls + 1) /\ c = Prompt!Answer(FALSE, FALSE)
    <3>1. Prompt!Entry("tool", pr_calls + 1) \in PromptMessage
      BY <1>i, EntryTyped
    <3>2. Prompt!Answer(FALSE, FALSE) \in PromptMessage
      BY AnswerTyped
    <3>. QED  BY <3>1, <3>2
  <2>4. pr_messages' = pr_messages \o <<a, b, c>> /\ pr_calls' = pr_calls + 1 /\ UNCHANGED pr_prompt
    BY <2>1, <2>2, <2>3 DEF Prompt!CallAndResult
  <2>5. pr_messages' \in Seq(PromptMessage)
    BY <1>i, <2>4, StoredThree
  <2>. QED  BY <1>i, <1>k, <2>4, <2>5 DEF BackedInv
<1>3. CASE Prompt!Reload
  <2>1. pr_messages' = Prompt!At(pr_messages, {i \in DOMAIN pr_messages : ~pr_messages[i].unsaved})
        /\ UNCHANGED <<pr_prompt, pr_calls>>
    BY <1>3 DEF Prompt!Reload
  <2>2. pr_messages' \in Seq(PromptMessage)
    BY <1>i, <2>1, AtTyped
  <2>. QED  BY <1>i, <1>k, <2>1, <2>2 DEF BackedInv
<1>4. ASSUME NEW size \in pr_Systems, NEW n \in 0..1, Prompt!Build(size, n) PROVE BackedInv'
  <2>1. PICK hs : hs = Prompt!History
    OBVIOUS
  <2>2. hs \in Seq(PromptMessage)
    <3>1. CASE Len(pr_messages) <= pr_Window
      BY <1>i, <2>1, <3>1 DEF Prompt!History
    <3>2. CASE ~(Len(pr_messages) <= pr_Window)
      <4>1. PICK m \in Nat : m = Len(pr_messages)
        BY <1>i
      <4>2. hs = SubSeq(pr_messages, m - pr_Window + 1, m)
        BY <2>1, <3>2, <4>1 DEF Prompt!History
      <4>3. m - pr_Window + 1 \in Int /\ m \in Int
            /\ \A k \in (m - pr_Window + 1)..m : pr_messages[k] \in PromptMessage
        BY <1>i, <3>2, <4>1
      <4>. QED  BY <4>2, <4>3, SubSeqProperties
    <3>. QED  BY <3>1, <3>2
  <2>3. PICK q \in PromptMessage : q = Prompt!User(n)
    BY UserTyped
  <2>4. PICK h \in Seq(PromptMessage) : h = Prompt!Trimmed(hs, size + Prompt!Size(q))
    BY <2>2, TrimmedTyped
  <2>5. PICK a \in PromptMessage : a = [Prompt!Entry("system", 0) EXCEPT !.long = size > 1]
    <3>1. PICK x \in PromptMessage : x = Prompt!Entry("system", 0)
      BY EntryTyped
    <3>2. (size > 1) \in BOOLEAN
      OBVIOUS
    <3>3. \A b \in BOOLEAN : [x EXCEPT !.long = b] \in PromptMessage
      BY DEF PromptMessage
    <3>4. [x EXCEPT !.long = size > 1] \in PromptMessage
      BY <3>2, <3>3, Zenon
    <3>. QED  BY <3>1, <3>4, Zenon
  <2>6. PICK t \in Seq(PromptMessage) : t = IF Prompt!Degraded(hs, h) THEN <<Prompt!Notice>> ELSE <<>>
    <3>1. PICK x \in PromptMessage : x = Prompt!Notice
      BY EntryTyped DEF Prompt!Notice
    <3>2. <<x>> \in Seq(PromptMessage)
      OBVIOUS
    <3>. QED  BY <3>1, <3>2, NoneBacked
  <2>7. pr_prompt' = Prompt!Snipped(Prompt!Sanitized(<<a>> \o h \o <<q>> \o t))
    BY <1>4, <2>1, <2>3, <2>4, <2>5, <2>6, Zenon DEF Prompt!Build
  <2>8. UNCHANGED <<pr_messages, pr_calls>>
    BY <1>4 DEF Prompt!Build
  <2>9. pr_prompt' \in Seq(PromptMessage) /\ Backed(pr_prompt')
    BY <2>7, BuiltBacked
  <2>. QED  BY <1>i, <2>8, <2>9 DEF BackedInv
<1>5. ASSUME NEW n \in 1..2, NEW shots \in SUBSET (1..n), Prompt!Iterate(n, shots) PROVE BackedInv'
  <2>1. PICK ids \in SUBSET Nat : ids = (pr_calls + 1)..(pr_calls + n)
    BY <1>i
  <2>2. PICK a \in PromptMessage : a = Prompt!Calling(ids) /\ a.role = "assistant" /\ a.calls = ids
    BY CallingTyped
  <2>3. PICK r : r = ResultsOf(pr_calls, n, shots)[n]
    OBVIOUS
  <2>4. Ours(r, pr_calls, n)
    BY <1>i, <2>3, ResultsAre
  <2>5. pr_prompt' = pr_prompt \o <<a>> \o r
    BY <1>5, <2>1, <2>2, <2>3 DEF Prompt!Iterate, ResultsOf, ResultsBody
  <2>6. UNCHANGED pr_messages /\ pr_calls' = pr_calls + n
    BY <1>5 DEF Prompt!Iterate
  <2>7. PICK x \in Seq(PromptMessage) : x = <<a>> /\ Len(x) = 1 /\ x[1] = a
    <3>1. PICK y : y = <<a>>
      OBVIOUS
    <3>2. y \in Seq(PromptMessage) /\ Len(y) = 1 /\ y[1] = a
      BY <3>1
    <3>. QED  BY <3>1, <3>2
  <2>8. PICK u \in Seq(PromptMessage) : u = x \o r
    BY <2>4, ConcatProperties DEF Ours
  <2>9. PICK k \in Nat : k = Len(r)
    BY <2>4 DEF Ours
  <2>10. Len(u) = 1 + k /\ u[1] = a /\ \A i \in 2..(1 + k) : u[i] = r[i - 1]
    <3>1. /\ Len(u) = Len(x) + Len(r)
          /\ \A i \in 1..(Len(x) + Len(r)) : u[i] = IF i <= Len(x) THEN x[i] ELSE r[i - Len(x)]
      BY <2>4, <2>8, ConcatProperties DEF Ours
    <3>. QED  BY <2>7, <2>9, <3>1
  <2>11. Backed(u)
    <3>1. ASSUME NEW i \in 1..(1 + k), u[i].role = "tool"
          PROVE  \E j \in 1..(i - 1) : u[i].id \in u[j].calls
      <4>1. i # 1
        BY <2>2, <2>10, <3>1
      <4>2. i \in 2..(1 + k) /\ i - 1 \in 1..k /\ 1 \in 1..(i - 1)
        BY <4>1
      <4>3. u[i] = r[i - 1]
        BY <2>10, <4>2
      <4>4. u[i].id \in ids
        BY <2>1, <2>4, <2>9, <3>1, <4>2, <4>3 DEF Ours
      <4>. QED  BY <2>2, <2>10, <4>2, <4>4
    <3>. QED  BY <2>10, <3>1 DEF Backed
  <2>12. pr_prompt' = pr_prompt \o u
    <3>1. r \in Seq(PromptMessage)
      BY <2>4 DEF Ours
    <3>2. (pr_prompt \o x) \o r = pr_prompt \o (x \o r)
      BY <1>i, <3>1, ConcatAssociative
    <3>. QED  BY <2>5, <2>7, <2>8, <3>2
  <2>13. pr_prompt \o u \in Seq(PromptMessage) /\ Backed(pr_prompt \o u)
    BY <1>i, <2>11, ConcatProperties, JoinBacked
  <2>14. pr_prompt' \in Seq(PromptMessage) /\ Backed(pr_prompt')
    BY <2>12, <2>13
  <2>. QED  BY <1>i, <2>6, <2>14 DEF BackedInv
<1>6. CASE Prompt!End
  <2>1. pr_prompt' = <<>> /\ UNCHANGED <<pr_messages, pr_calls>>
    BY <1>6 DEF Prompt!End
  <2>2. pr_prompt' \in Seq(PromptMessage) /\ Backed(pr_prompt')
    BY <2>1, NoneBacked
  <2>. QED  BY <1>i, <2>1, <2>2 DEF BackedInv
<1>7. CASE UNCHANGED Prompt!vars
  BY <1>i, <1>7 DEF Prompt!vars, BackedInv
<1>. QED  BY <1>1, <1>2, <1>3, <1>4, <1>5, <1>6, <1>7 DEF Prompt!Next

LEMMA BackedShows == BackedInv => Prompt!ResultsHaveCalls
<1> SUFFICES ASSUME BackedInv PROVE Prompt!ResultsHaveCalls
  OBVIOUS
<1>1. Backed(pr_prompt) /\ DOMAIN pr_prompt = 1..Len(pr_prompt)
  BY DEF BackedInv
<1>. QED  BY <1>1 DEF Backed, Prompt!ResultsHaveCalls

LEMMA PromptSteps == [AllNext]_All => [Prompt!Next]_(Prompt!vars)
BY DEF AllNext, All, Prompt!vars, promptVars

\* For any window, limit, budget and sizes: every result of a tool that the model
\* is asked with follows the call it answers, whatever _sanitize_messages,
\* _trim_history and snip_history took out before it.
THEOREM ResultsKeepTheirCalls ==
    ASSUME pr_Window \in Nat, pr_MinKeep \in Nat
    PROVE  AllSpec => []ResultsHaveCalls
<1>1. AllInit => BackedInv
  BY BackedInit DEF AllInit
<1>2. BackedInv /\ [AllNext]_All => BackedInv'
  BY BackedStep, PromptSteps
<1>3. BackedInv => ResultsHaveCalls
  BY BackedShows DEF ResultsHaveCalls
<1>. QED  BY <1>1, <1>2, <1>3, AllSafe, PTL

------------------------------------------------------------------------------
(* The skills of a prompt, each after those it needs.                           *)

(* The order of a list, and the lists that keep it. *)

\* A prerequisite that need not come first.
Exempt(d, s) == ~SkillPrompt!Loaded(d) \/ s \in SkillPrompt!Reaches(d)

Ready(l, s) == \A d \in SkillPrompt!ToSet(SkillPrompt!Needs(s)) : Exempt(d, s) \/ d \in SkillPrompt!ToSet(l)

Sorted(l) == \A i \in 1..Len(l) : \A d \in SkillPrompt!ToSet(SkillPrompt!Needs(l[i])) :
                 Exempt(d, l[i]) \/ \E k \in 1..(i - 1) : l[k] = d

LEMMA Elements ==
    ASSUME NEW l \in Seq(sk_Skills)
    PROVE  /\ SkillPrompt!ToSet(l) \subseteq sk_Skills
           /\ \A d : d \in SkillPrompt!ToSet(l) <=> \E k \in 1..Len(l) : l[k] = d
BY DEF SkillPrompt!ToSet

LEMMA AppendIs ==
    ASSUME NEW l \in Seq(sk_Skills), NEW s \in sk_Skills
    PROVE  /\ Append(l, s) \in Seq(sk_Skills)
           /\ SkillPrompt!ToSet(Append(l, s)) = SkillPrompt!ToSet(l) \cup {s}
<1>1. PICK r \in Seq(sk_Skills), n \in Nat :
        /\ r = Append(l, s) /\ n = Len(l) /\ Len(r) = n + 1
        /\ r[n + 1] = s /\ \A k \in 1..n : r[k] = l[k]
  <2>1. PICK r \in Seq(sk_Skills) : r = Append(l, s)
    BY AppendProperties
  <2>2. PICK n \in Nat : n = Len(l)
    OBVIOUS
  <2>3. Len(r) = n + 1 /\ r[n + 1] = s /\ \A k \in 1..n : r[k] = l[k]
    BY <2>1, <2>2, AppendProperties
  <2>. QED  BY <2>1, <2>2, <2>3
<1>2. SkillPrompt!ToSet(r) = SkillPrompt!ToSet(l) \cup {s}
  <2>1. DOMAIN r = 1..(n + 1) /\ DOMAIN l = 1..n
    BY <1>1
  <2>2. ASSUME NEW d \in SkillPrompt!ToSet(r) PROVE d \in SkillPrompt!ToSet(l) \cup {s}
    <3>1. PICK k \in 1..(n + 1) : r[k] = d
      BY <2>1, <2>2 DEF SkillPrompt!ToSet
    <3>2. k \in 1..n \/ k = n + 1
      BY <1>1
    <3>. QED  BY <1>1, <2>1, <3>1, <3>2 DEF SkillPrompt!ToSet
  <2>3. ASSUME NEW d \in SkillPrompt!ToSet(l) \cup {s} PROVE d \in SkillPrompt!ToSet(r)
    <3>1. CASE d = s
      BY <1>1, <2>1, <3>1 DEF SkillPrompt!ToSet
    <3>2. CASE d \in SkillPrompt!ToSet(l)
      <4>1. PICK k \in 1..n : l[k] = d
        BY <2>1, <3>2 DEF SkillPrompt!ToSet
      <4>2. k \in 1..(n + 1)
        BY <1>1
      <4>. QED  BY <1>1, <2>1, <4>1, <4>2 DEF SkillPrompt!ToSet
    <3>. QED  BY <2>3, <3>1, <3>2
  <2>. QED  BY <2>2, <2>3
<1>. QED  BY <1>1, <1>2

LEMMA AppendSorted ==
    ASSUME NEW l \in Seq(sk_Skills), NEW s \in sk_Skills, Sorted(l), Ready(l, s)
    PROVE  Sorted(Append(l, s))
<1>1. PICK r \in Seq(sk_Skills), n \in Nat :
        /\ r = Append(l, s) /\ n = Len(l) /\ Len(r) = n + 1
        /\ r[n + 1] = s /\ \A k \in 1..n : r[k] = l[k]
  <2>1. PICK r \in Seq(sk_Skills) : r = Append(l, s)
    BY AppendProperties
  <2>2. PICK n \in Nat : n = Len(l)
    OBVIOUS
  <2>3. Len(r) = n + 1 /\ r[n + 1] = s /\ \A k \in 1..n : r[k] = l[k]
    BY <2>1, <2>2, AppendProperties
  <2>. QED  BY <2>1, <2>2, <2>3
<1>2. ASSUME NEW i \in 1..(n + 1), NEW d \in SkillPrompt!ToSet(SkillPrompt!Needs(r[i])), ~Exempt(d, r[i])
      PROVE  \E k \in 1..(i - 1) : r[k] = d
  <2>1. CASE i = n + 1
    <3>1. d \in SkillPrompt!ToSet(l)
      BY <1>1, <1>2, <2>1 DEF Ready
    <3>2. PICK k \in 1..n : l[k] = d
      BY <1>1, <3>1, Elements
    <3>. QED  BY <1>1, <2>1, <3>2
  <2>2. CASE i # n + 1
    <3>1. i \in 1..n /\ r[i] = l[i]
      BY <1>1, <2>2
    <3>2. PICK k \in 1..(i - 1) : l[k] = d
      BY <1>1, <1>2, <3>1 DEF Sorted
    <3>3. k \in 1..n
      BY <3>1
    <3>. QED  BY <1>1, <3>2, <3>3
  <2>. QED  BY <2>1, <2>2
<1>. QED  BY <1>1, <1>2 DEF Sorted

\* r is l with the skills of a set behind it.
Grown(r, l, S) == r \in Seq(sk_Skills) /\ SkillPrompt!ToSet(r) = SkillPrompt!ToSet(l) \cup S

LEMMA AddedIs ==
    ASSUME NEW l \in Seq(sk_Skills), NEW s \in sk_Skills
    PROVE  /\ Grown(SkillPrompt!Added(l, s), l, {s})
           /\ Sorted(l) /\ Ready(l, s) => Sorted(SkillPrompt!Added(l, s))
<1>1. CASE s \in SkillPrompt!ToSet(l)
  <2>1. SkillPrompt!Added(l, s) = l
    BY <1>1 DEF SkillPrompt!Added
  <2>2. SkillPrompt!ToSet(l) = SkillPrompt!ToSet(l) \cup {s}
    BY <1>1
  <2>. QED  BY <2>1, <2>2 DEF Grown
<1>2. CASE s \notin SkillPrompt!ToSet(l)
  <2>1. SkillPrompt!Added(l, s) = Append(l, s)
    BY <1>2 DEF SkillPrompt!Added
  <2>. QED  BY <2>1, AppendIs, AppendSorted DEF Grown
<1>. QED  BY <1>1, <1>2

LEMMA ReadyGrows ==
    ASSUME NEW l, NEW r, NEW s, SkillPrompt!ToSet(l) \subseteq SkillPrompt!ToSet(r), Ready(l, s)
    PROVE  Ready(r, s)
BY DEF Ready

------------------------------------------------------------------------------
(* One list behind another. *)

JoBody(f, l, m) == [n \in 0..Len(m) |-> IF n = 0 THEN l ELSE SkillPrompt!Added(f[n - 1], m[n])]
JoOf(l, m) == CHOOSE f : f = JoBody(f, l, m)

LEMMA JoinedAre == ASSUME NEW l, NEW m PROVE SkillPrompt!Joined(l, m) = JoOf(l, m)[Len(m)]
BY DEF SkillPrompt!Joined, JoOf, JoBody

LEMMA JoinedFound ==
    ASSUME NEW l \in Seq(sk_Skills), NEW m \in Seq(sk_Skills)
    PROVE  JoOf(l, m) = JoBody(JoOf(l, m), l, m)
<1>1. PICK n \in Nat : n = Len(m)
  OBVIOUS
<1>2. PICK A : A = Seq(sk_Skills) /\ l \in A
  OBVIOUS
<1>3. PICK F \in [A \X (1..n) -> A] :
        F = [p \in A \X (1..n) |-> SkillPrompt!Added(p[1], m[p[2]])]
  <2>1. ASSUME NEW p \in A \X (1..n) PROVE SkillPrompt!Added(p[1], m[p[2]]) \in A
    <3>1. p[1] \in Seq(sk_Skills) /\ m[p[2]] \in sk_Skills
      BY <1>1, <1>2
    <3>. QED  BY <1>2, <3>1, AddedIs DEF Grown
  <2>. QED  BY <2>1
<1>4. PICK f \in [0..n -> A] : f[0] = l /\ \A j \in 1..n : f[j] = F[<<f[j - 1], j>>]
  <2>1. \E f \in [0..n -> A] : Unrolls(f, n, l, F)
    BY <1>2, Recursion
  <2>. QED  BY <2>1 DEF Unrolls
<1>5. ASSUME NEW j \in 1..n PROVE f[j] = SkillPrompt!Added(f[j - 1], m[j])
  <2>1. j - 1 \in 0..n
    OBVIOUS
  <2>2. <<f[j - 1], j>> \in A \X (1..n)
    BY <1>4, <2>1
  <2>. QED  BY <1>3, <1>4, <2>2
<1>6. f = JoBody(f, l, m)
  <2>1. \A i \in 0..n : f[i] = IF i = 0 THEN l ELSE SkillPrompt!Added(f[i - 1], m[i])
    <3>1. \A i \in 0..n : i # 0 => i \in 1..n
      OBVIOUS
    <3>. QED  BY <3>1, <1>4, <1>5
  <2>2. f = [i \in 0..n |-> f[i]]
    BY <1>4
  <2>. QED  BY <1>1, <2>1, <2>2 DEF JoBody
<1>. QED  BY <1>6 DEF JoOf

JoinedTo(r, l, m) ==
    Grown(r, l, SkillPrompt!ToSet(m)) /\ (Sorted(l) /\ Sorted(m) => Sorted(r))

LEMMA BehindOneAnother ==
    ASSUME NEW l \in Seq(sk_Skills), NEW m \in Seq(sk_Skills)
    PROVE  JoinedTo(SkillPrompt!Joined(l, m), l, m)
<1>1. PICK n \in Nat : n = Len(m)
  OBVIOUS
<1>2. PICK f : f = JoOf(l, m)
  OBVIOUS
<1>3. \A i \in 0..n : f[i] = IF i = 0 THEN l ELSE SkillPrompt!Added(f[i - 1], m[i])
  <2>1. f = JoBody(f, l, m)
    BY <1>2, JoinedFound
  <2>. QED  BY <1>1, <2>1 DEF JoBody
<1> DEFINE Up(j) == {m[k] : k \in 1..j}
           Good(j) == Grown(f[j], l, Up(j)) /\ (Sorted(l) /\ Sorted(m) => Sorted(f[j]))
           S == {j \in 0..n : Good(j)}
<1>4. 0 \in S
  <2>1. 0 \in 0..n /\ f[0] = l
    BY <1>3
  <2>2. Up(0) = {}
    OBVIOUS
  <2>3. SkillPrompt!ToSet(l) = SkillPrompt!ToSet(l) \cup {}
    OBVIOUS
  <2>. QED  BY <2>1, <2>2, <2>3 DEF Grown
<1>5. ASSUME NEW j \in 0..n, j \in S, j < n PROVE j + 1 \in S
  <2>1. j + 1 \in 1..n /\ j + 1 \in 0..n /\ (j + 1) - 1 = j
    BY <1>5
  <2>2. PICK u \in Seq(sk_Skills) : u = f[j] /\ SkillPrompt!ToSet(u) = SkillPrompt!ToSet(l) \cup Up(j)
    BY <1>5 DEF Grown
  <2>3. PICK s \in sk_Skills : s = m[j + 1]
    BY <1>1, <2>1
  <2>4. f[j + 1] = SkillPrompt!Added(u, s)
    BY <1>3, <2>1, <2>2, <2>3
  <2>5. Up(j + 1) = Up(j) \cup {s}
    <3>1. \A k \in 1..(j + 1) : k \in 1..j \/ k = j + 1
      OBVIOUS
    <3>2. \A k \in 1..j : k \in 1..(j + 1)
      OBVIOUS
    <3>3. j + 1 \in 1..(j + 1)
      OBVIOUS
    <3>. QED  BY <2>3, <3>1, <3>2, <3>3
  <2>6. Grown(f[j + 1], l, Up(j + 1))
    <3>1. Grown(SkillPrompt!Added(u, s), u, {s})
      BY AddedIs
    <3>. QED  BY <2>2, <2>4, <2>5, <3>1 DEF Grown
  <2>7. ASSUME Sorted(l), Sorted(m) PROVE Sorted(f[j + 1])
    <3>1. Sorted(u)
      BY <1>5, <2>2, <2>7
    <3>2. Ready(u, s)
      <4>1. ASSUME NEW d \in SkillPrompt!ToSet(SkillPrompt!Needs(s)), ~Exempt(d, s) PROVE d \in SkillPrompt!ToSet(u)
        <5>1. PICK k \in 1..((j + 1) - 1) : m[k] = d
          BY <1>1, <2>1, <2>3, <2>7, <4>1 DEF Sorted
        <5>2. k \in 1..j
          BY <2>1
        <5>3. d \in Up(j)
          BY <5>1, <5>2
        <5>. QED  BY <2>2, <5>3
      <4>. QED  BY <4>1 DEF Ready
    <3>. QED  BY <2>4, <3>1, <3>2, AddedIs
  <2>. QED  BY <2>1, <2>6, <2>7
<1> HIDE DEF S
<1>6. \A j \in 0..n : j \in S /\ j < n => j + 1 \in S
  BY <1>5
<1>7. n \in S
  <2>1. \A j \in 0..n : j \in S
    BY <1>4, <1>6, Counting
  <2>2. n \in 0..n
    OBVIOUS
  <2>. QED  BY <2>1, <2>2
<1>8. Up(n) = SkillPrompt!ToSet(m)
  BY <1>1 DEF SkillPrompt!ToSet
<1>9. SkillPrompt!Joined(l, m) = f[n]
  BY <1>1, <1>2, JoinedAre
<1>. QED  BY <1>7, <1>8, <1>9 DEF S, JoinedTo

LEMMA BehindIs ==
    ASSUME NEW l \in Seq(sk_Skills), NEW ds \in Seq(sk_Skills), NEW d \in sk_Skills
    PROVE  /\ Grown(SkillPrompt!Behind(l, ds, d), l, SkillPrompt!ToSet(ds) \cup {d})
           /\ Sorted(l) /\ Sorted(ds) /\ Ready(ds, d) => Sorted(SkillPrompt!Behind(l, ds, d))
<1>1. PICK r \in Seq(sk_Skills) :
        /\ r = SkillPrompt!Joined(l, ds) /\ SkillPrompt!ToSet(r) = SkillPrompt!ToSet(l) \cup SkillPrompt!ToSet(ds)
        /\ Sorted(l) /\ Sorted(ds) => Sorted(r)
  <2>1. JoinedTo(SkillPrompt!Joined(l, ds), l, ds)
    BY BehindOneAnother
  <2>. QED  BY <2>1 DEF JoinedTo, Grown
<1>2. SkillPrompt!Behind(l, ds, d) = SkillPrompt!Added(r, d)
  BY <1>1 DEF SkillPrompt!Behind
<1>3. Grown(SkillPrompt!Added(r, d), r, {d}) /\ (Sorted(r) /\ Ready(r, d) => Sorted(SkillPrompt!Added(r, d)))
  BY AddedIs
<1>4. Ready(ds, d) => Ready(r, d)
  BY <1>1, ReadyGrows
<1>5. Grown(SkillPrompt!Added(r, d), l, SkillPrompt!ToSet(ds) \cup {d})
  BY <1>1, <1>3 DEF Grown
<1>. QED  BY <1>1, <1>2, <1>3, <1>4, <1>5

------------------------------------------------------------------------------
(* What a skill sk_needs, one after the other. *)

Typed == \A s \in sk_Skills : SkillPrompt!Needs(s) \in Seq(sk_Skills)

Taken(l, d, seen, sub) ==
    IF d \in seen \/ ~SkillPrompt!Loaded(d) THEN l ELSE SkillPrompt!Behind(l, sub[d], d)

GaBody(f, s, seen, sub) ==
    [n \in 0..Len(SkillPrompt!Needs(s)) |->
        IF n = 0 THEN <<>>
        ELSE IF SkillPrompt!Needs(s)[n] \in seen \/ ~SkillPrompt!Loaded(SkillPrompt!Needs(s)[n]) THEN f[n - 1]
        ELSE SkillPrompt!Behind(f[n - 1], sub[SkillPrompt!Needs(s)[n]], SkillPrompt!Needs(s)[n])]
GaOf(s, seen, sub) == CHOOSE f : f = GaBody(f, s, seen, sub)

LEMMA GatheredAre ==
    ASSUME NEW s, NEW seen, NEW sub
    PROVE  SkillPrompt!Gathered(s, seen, sub) = GaOf(s, seen, sub)[Len(SkillPrompt!Needs(s))]
BY DEF SkillPrompt!Gathered, GaOf, GaBody

LEMMA TakenIs ==
    ASSUME NEW l \in Seq(sk_Skills), NEW d \in sk_Skills, NEW seen, NEW sub \in [sk_Skills -> Seq(sk_Skills)]
    PROVE  Taken(l, d, seen, sub) \in Seq(sk_Skills)
<1>1. sub[d] \in Seq(sk_Skills)
  OBVIOUS
<1>2. SkillPrompt!Behind(l, sub[d], d) \in Seq(sk_Skills)
  BY <1>1, BehindIs DEF Grown
<1>. QED  BY <1>2 DEF Taken

LEMMA GatheredFound ==
    ASSUME Typed, NEW s \in sk_Skills, NEW seen, NEW sub \in [sk_Skills -> Seq(sk_Skills)]
    PROVE  GaOf(s, seen, sub) = GaBody(GaOf(s, seen, sub), s, seen, sub)
<1>1. PICK m \in Seq(sk_Skills), n \in Nat : m = SkillPrompt!Needs(s) /\ n = Len(m)
  BY DEF Typed
<1>2. PICK A, e : A = Seq(sk_Skills) /\ e = <<>>
  OBVIOUS
<1>e. e \in A
  BY <1>2, EmptySeq
<1>3. PICK F \in [A \X (1..n) -> A] :
        F = [p \in A \X (1..n) |-> Taken(p[1], m[p[2]], seen, sub)]
  <2>1. ASSUME NEW p \in A \X (1..n) PROVE Taken(p[1], m[p[2]], seen, sub) \in A
    <3>1. p[1] \in Seq(sk_Skills) /\ m[p[2]] \in sk_Skills
      BY <1>1, <1>2
    <3>. QED  BY <1>2, <3>1, TakenIs
  <2>. QED  BY <2>1
<1>4. PICK f \in [0..n -> A] : f[0] = e /\ \A j \in 1..n : f[j] = F[<<f[j - 1], j>>]
  <2>1. \E f \in [0..n -> A] : Unrolls(f, n, e, F)
    BY <1>e, Recursion
  <2>. QED  BY <2>1 DEF Unrolls
<1>5. ASSUME NEW j \in 1..n PROVE f[j] = Taken(f[j - 1], m[j], seen, sub)
  <2>1. j - 1 \in 0..n
    OBVIOUS
  <2>2. <<f[j - 1], j>> \in A \X (1..n)
    BY <1>4, <2>1
  <2>. QED  BY <1>3, <1>4, <2>2
<1>6. f = GaBody(f, s, seen, sub)
  <2>1. \A i \in 0..n : f[i] = IF i = 0 THEN <<>>
                               ELSE IF m[i] \in seen \/ ~SkillPrompt!Loaded(m[i]) THEN f[i - 1]
                               ELSE SkillPrompt!Behind(f[i - 1], sub[m[i]], m[i])
    <3>1. \A i \in 0..n : i # 0 => i \in 1..n
      OBVIOUS
    <3>. QED  BY <3>1, <1>2, <1>4, <1>5 DEF Taken
  <2>2. f = [i \in 0..n |-> f[i]]
    BY <1>4
  <2>. QED  BY <1>1, <2>1, <2>2 DEF GaBody
<1>. QED  BY <1>6 DEF GaOf

\* The needs of s that may come before it are in r.
Covers(r, s, seen) ==
    \A d \in SkillPrompt!ToSet(SkillPrompt!Needs(s)) : d \in seen \/ ~SkillPrompt!Loaded(d) \/ d \in SkillPrompt!ToSet(r)

\* What each prerequisite needs, in order.
Before(s, seen, sub) ==
    \A d \in SkillPrompt!ToSet(SkillPrompt!Needs(s)) \ seen : Sorted(sub[d]) /\ Ready(sub[d], d)

LEMMA NoneSorted == Sorted(<<>>)
BY DEF Sorted

LEMMA GatheredIs ==
    ASSUME Typed, NEW s \in sk_Skills, NEW seen, NEW sub \in [sk_Skills -> Seq(sk_Skills)]
    PROVE  /\ SkillPrompt!Gathered(s, seen, sub) \in Seq(sk_Skills)
           /\ Before(s, seen, sub) => /\ Sorted(SkillPrompt!Gathered(s, seen, sub))
                                      /\ Covers(SkillPrompt!Gathered(s, seen, sub), s, seen)
<1>1. PICK m \in Seq(sk_Skills), n \in Nat : m = SkillPrompt!Needs(s) /\ n = Len(m)
  BY DEF Typed
<1>2. PICK f : f = GaOf(s, seen, sub)
  OBVIOUS
<1>3. \A i \in 0..n : f[i] = IF i = 0 THEN <<>> ELSE Taken(f[i - 1], m[i], seen, sub)
  <2>1. f = GaBody(f, s, seen, sub)
    BY <1>2, GatheredFound
  <2>. QED  BY <1>1, <2>1 DEF GaBody, Taken
<1>4. SkillPrompt!ToSet(SkillPrompt!Needs(s)) = {m[k] : k \in 1..n}
  <2>1. DOMAIN m = 1..n
    BY <1>1
  <2>. QED  BY <1>1, <2>1 DEF SkillPrompt!ToSet
<1> DEFINE Has(j) == \A k \in 1..j : m[k] \in seen \/ ~SkillPrompt!Loaded(m[k]) \/ m[k] \in SkillPrompt!ToSet(f[j])
           Good(j) == f[j] \in Seq(sk_Skills) /\ (Before(s, seen, sub) => Sorted(f[j]) /\ Has(j))
           S == {j \in 0..n : Good(j)}
<1>5. 0 \in S
  <2>1. 0 \in 0..n /\ f[0] = <<>>
    BY <1>3
  <2>2. f[0] \in Seq(sk_Skills)
    BY <2>1, EmptySeq
  <2>3. Has(0)
    OBVIOUS
  <2>4. Sorted(f[0])
    BY <2>1, NoneSorted
  <2>. QED  BY <2>1, <2>2, <2>3, <2>4
<1>6. ASSUME NEW j \in 0..n, j \in S, j < n PROVE j + 1 \in S
  <2>1. j + 1 \in 1..n /\ j + 1 \in 0..n /\ (j + 1) - 1 = j
    BY <1>6
  <2>2. PICK u \in Seq(sk_Skills) : u = f[j]
    BY <1>6
  <2>3. PICK d \in sk_Skills : d = m[j + 1] /\ d \in SkillPrompt!ToSet(SkillPrompt!Needs(s))
    BY <1>1, <1>4, <2>1
  <2>4. PICK ds \in Seq(sk_Skills) : ds = sub[d]
    OBVIOUS
  <2>5. f[j + 1] = IF d \in seen \/ ~SkillPrompt!Loaded(d) THEN u ELSE SkillPrompt!Behind(u, ds, d)
    BY <1>3, <2>1, <2>2, <2>3, <2>4 DEF Taken
  <2>6. Grown(SkillPrompt!Behind(u, ds, d), u, SkillPrompt!ToSet(ds) \cup {d})
    BY BehindIs
  <2>7. f[j + 1] \in Seq(sk_Skills) /\ SkillPrompt!ToSet(u) \subseteq SkillPrompt!ToSet(f[j + 1])
        /\ (d \in seen \/ ~SkillPrompt!Loaded(d) \/ d \in SkillPrompt!ToSet(f[j + 1]))
    BY <2>5, <2>6 DEF Grown
  <2>8. ASSUME Before(s, seen, sub) PROVE Sorted(f[j + 1]) /\ Has(j + 1)
    <3>1. Sorted(u) /\ Has(j)
      BY <1>6, <2>2, <2>8
    <3>2. Sorted(f[j + 1])
      <4>1. CASE d \in seen \/ ~SkillPrompt!Loaded(d)
        BY <2>5, <3>1, <4>1
      <4>2. CASE ~(d \in seen \/ ~SkillPrompt!Loaded(d))
        <5>1. Sorted(ds) /\ Ready(ds, d)
          BY <2>3, <2>4, <2>8, <4>2 DEF Before
        <5>. QED  BY <2>5, <3>1, <4>2, <5>1, BehindIs
      <4>. QED  BY <4>1, <4>2
    <3>3. ASSUME NEW k \in 1..(j + 1)
          PROVE  m[k] \in seen \/ ~SkillPrompt!Loaded(m[k]) \/ m[k] \in SkillPrompt!ToSet(f[j + 1])
      <4>1. k \in 1..j \/ k = j + 1
        OBVIOUS
      <4>. QED  BY <2>2, <2>3, <2>7, <3>1, <4>1
    <3>. QED  BY <3>2, <3>3
  <2>. QED  BY <2>1, <2>7, <2>8
<1> HIDE DEF S
<1>7. \A j \in 0..n : j \in S /\ j < n => j + 1 \in S
  BY <1>6
<1>8. n \in S
  <2>1. \A j \in 0..n : j \in S
    BY <1>5, <1>7, Counting
  <2>2. n \in 0..n
    OBVIOUS
  <2>. QED  BY <2>1, <2>2
<1>9. SkillPrompt!Gathered(s, seen, sub) = f[n]
  BY <1>1, <1>2, GatheredAre
<1>10. Has(n) => Covers(f[n], s, seen)
  BY <1>4 DEF Covers
<1>. QED  BY <1>8, <1>9, <1>10 DEF S

------------------------------------------------------------------------------
(* resolve_dependencies: the function exists, since each call has one skill more *)
(* that is being resolved.                                                       *)

Value(f, s, v) == IF s \in v THEN <<>> ELSE SkillPrompt!Gathered(s, v \cup {s}, f[v \cup {s}])
ReBody(f) == [v \in SUBSET sk_Skills |-> [s \in sk_Skills |-> Value(f, s, v)]]
Tables == [SUBSET sk_Skills -> [sk_Skills -> Seq(sk_Skills)]]

LEMMA ResolvedAre == SkillPrompt!Resolved = CHOOSE f : f = ReBody(f)
BY DEF SkillPrompt!Resolved, ReBody, Value

LEMMA ReTyped == ASSUME Typed, NEW f \in Tables PROVE ReBody(f) \in Tables
<1>1. ASSUME NEW s \in sk_Skills, NEW v \in SUBSET sk_Skills PROVE Value(f, s, v) \in Seq(sk_Skills)
  <2>1. PICK seen \in SUBSET sk_Skills : seen = v \cup {s}
    OBVIOUS
  <2>2. PICK sub \in [sk_Skills -> Seq(sk_Skills)] : sub = f[seen]
    BY DEF Tables
  <2>3. SkillPrompt!Gathered(s, seen, sub) \in Seq(sk_Skills)
    BY GatheredIs
  <2>4. <<>> \in Seq(sk_Skills)
    BY EmptySeq
  <2>5. Value(f, s, v) = IF s \in v THEN <<>> ELSE SkillPrompt!Gathered(s, seen, sub)
    BY <2>1, <2>2 DEF Value
  <2>. QED  BY <2>3, <2>4, <2>5
<1>. QED  BY <1>1 DEF ReBody, Tables

LEMMA FewerLeft ==
    ASSUME IsFiniteSet(sk_Skills), NEW v \in SUBSET sk_Skills, NEW s \in sk_Skills \ v
    PROVE  /\ Cardinality(sk_Skills \ v) \in Nat
           /\ Cardinality(sk_Skills \ (v \cup {s})) \in Nat
           /\ Cardinality(sk_Skills \ (v \cup {s})) < Cardinality(sk_Skills \ v)
<1>1. PICK S : S = sk_Skills \ v
  OBVIOUS
<1>2. IsFiniteSet(S) /\ s \in S
  BY <1>1, FS_Difference
<1>3. sk_Skills \ (v \cup {s}) = S \ {s}
  BY <1>1
<1>4. Cardinality(S) \in Nat /\ Cardinality(S \ {s}) \in Nat
      /\ Cardinality(S \ {s}) = Cardinality(S) - 1
  <2>1. IsFiniteSet(S \ {s}) /\ Cardinality(S \ {s}) = Cardinality(S) - 1
    BY <1>2, FS_RemoveElement
  <2>. QED  BY <1>2, <2>1, FS_CardinalityType
<1>. QED  BY <1>1, <1>3, <1>4

LEMMA LeftType ==
    ASSUME IsFiniteSet(sk_Skills), NEW v \in SUBSET sk_Skills
    PROVE  /\ Cardinality(sk_Skills \ v) \in Nat
           /\ Cardinality(sk_Skills \ v) = 0 => v = sk_Skills
<1>1. IsFiniteSet(sk_Skills \ v)
  BY FS_Difference
<1>2. Cardinality(sk_Skills \ v) \in Nat
  BY <1>1, FS_CardinalityType
<1>3. Cardinality(sk_Skills \ v) = 0 => sk_Skills \ v = {}
  BY <1>1, FS_EmptySet
<1>. QED  BY <1>2, <1>3

\* Where f and g agree on what remains to be resolved.
Agree(f, g, k) == \A v \in SUBSET sk_Skills : Cardinality(sk_Skills \ v) <= k => f[v] = g[v]

LEMMA Begins == ASSUME IsFiniteSet(sk_Skills), NEW f, NEW g PROVE Agree(ReBody(f), ReBody(g), 0)
<1> SUFFICES ASSUME NEW v \in SUBSET sk_Skills, Cardinality(sk_Skills \ v) <= 0, NEW s \in sk_Skills
             PROVE  Value(f, s, v) = Value(g, s, v)
  BY DEF Agree, ReBody
<1>1. PICK c \in Nat : c = Cardinality(sk_Skills \ v)
  BY LeftType
<1>2. c = 0
  BY <1>1
<1>3. s \in v
  BY <1>1, <1>2, LeftType
<1>. QED  BY <1>3 DEF Value

LEMMA Settles ==
    ASSUME IsFiniteSet(sk_Skills), NEW f, NEW g, NEW k \in Nat, Agree(f, g, k)
    PROVE  Agree(ReBody(f), ReBody(g), k + 1)
<1> SUFFICES ASSUME NEW v \in SUBSET sk_Skills, Cardinality(sk_Skills \ v) <= k + 1, NEW s \in sk_Skills
             PROVE  Value(f, s, v) = Value(g, s, v)
  BY DEF Agree, ReBody
<1>1. CASE s \in v
  BY <1>1 DEF Value
<1>2. CASE s \notin v
  <2>1. PICK seen \in SUBSET sk_Skills : seen = v \cup {s}
    OBVIOUS
  <2>2. PICK b \in Nat, c \in Nat : b = Cardinality(sk_Skills \ seen) /\ c = Cardinality(sk_Skills \ v)
    BY LeftType
  <2>3. b < c
    BY <1>2, <2>1, <2>2, FewerLeft
  <2>4. b <= k
    BY <2>2, <2>3
  <2>5. f[seen] = g[seen]
    BY <2>2, <2>4 DEF Agree
  <2>. QED  BY <1>2, <2>1, <2>5 DEF Value
<1>. QED  BY <1>1, <1>2

\* Solutions of the equation agree everywhere.
LEMMA AgreeAll ==
    ASSUME IsFiniteSet(sk_Skills), NEW f, f = ReBody(f), NEW g, g = ReBody(g)
    PROVE  f = g
<1>1. PICK N \in Nat : N = Cardinality(sk_Skills)
  BY FS_CardinalityType
<1> DEFINE S == {j \in 0..N : Agree(f, g, j)}
<1>2. 0 \in S
  BY Begins
<1>3. ASSUME NEW j \in 0..N, j \in S, j < N PROVE j + 1 \in S
  <2>1. j \in Nat /\ j + 1 \in 0..N
    BY <1>3
  <2>2. Agree(ReBody(f), ReBody(g), j + 1)
    BY <1>3, <2>1, Settles
  <2>. QED  BY <2>1, <2>2
<1> HIDE DEF S
<1>4. \A j \in 0..N : j \in S /\ j < N => j + 1 \in S
  BY <1>3
<1>5. Agree(f, g, N)
  <2>1. \A j \in 0..N : j \in S
    BY <1>2, <1>4, Counting
  <2>2. N \in 0..N
    OBVIOUS
  <2>. QED  BY <2>1, <2>2 DEF S
<1>6. ASSUME NEW v \in SUBSET sk_Skills PROVE f[v] = g[v]
  <2>1. Cardinality(sk_Skills \ v) <= N
    <3>1. sk_Skills \ v \in SUBSET sk_Skills
      OBVIOUS
    <3>. QED  BY <1>1, <3>1, FS_Subset
  <2>. QED  BY <1>5, <2>1 DEF Agree
<1>7. ReBody(f) = ReBody(g)
  <2>1. \A v \in SUBSET sk_Skills : ReBody(f)[v] = ReBody(g)[v]
    BY <1>6
  <2>. QED  BY <2>1 DEF ReBody
<1>. QED  BY <1>7

LEMMA ResolvedFound ==
    ASSUME IsFiniteSet(sk_Skills), Typed
    PROVE  SkillPrompt!Resolved = ReBody(SkillPrompt!Resolved) /\ SkillPrompt!Resolved \in Tables
<1>1. PICK N \in Nat : N = Cardinality(sk_Skills)
  BY FS_CardinalityType
<1>2. PICK m \in Nat : m = N + 2
  OBVIOUS
<1>3. PICK A, e : A = Tables /\ e = [v \in SUBSET sk_Skills |-> [s \in sk_Skills |-> <<>>]]
  OBVIOUS
<1>e. e \in A
  <2>1. <<>> \in Seq(sk_Skills)
    BY EmptySeq
  <2>. QED  BY <1>3, <2>1 DEF Tables
<1>4. PICK F \in [A \X (1..m) -> A] : F = [p \in A \X (1..m) |-> ReBody(p[1])]
  <2>1. ASSUME NEW p \in A \X (1..m) PROVE ReBody(p[1]) \in A
    <3>1. p[1] \in Tables
      BY <1>3
    <3>. QED  BY <1>3, <3>1, ReTyped
  <2>. QED  BY <2>1
<1>5. PICK f \in [0..m -> A] : f[0] = e /\ \A j \in 1..m : f[j] = F[<<f[j - 1], j>>]
  <2>1. \E f \in [0..m -> A] : Unrolls(f, m, e, F)
    BY <1>e, Recursion
  <2>. QED  BY <2>1 DEF Unrolls
<1>6. ASSUME NEW j \in 1..m PROVE f[j] = ReBody(f[j - 1]) /\ f[j] \in Tables
  <2>1. j - 1 \in 0..m /\ j \in 0..m
    OBVIOUS
  <2>2. <<f[j - 1], j>> \in A \X (1..m)
    BY <1>5, <2>1
  <2>. QED  BY <1>3, <1>4, <1>5, <2>1, <2>2
<1> DEFINE S == {j \in 0..N : Agree(f[j + 1], f[j + 2], j)}
<1>7. 0 \in S
  <2>1. 1 \in 1..m /\ 2 \in 1..m /\ 0 \in 0..N /\ 0 + 1 = 1 /\ 0 + 2 = 2
    BY <1>2
  <2>2. PICK a, b : f[1] = ReBody(a) /\ f[2] = ReBody(b)
    BY <1>6, <2>1
  <2>3. Agree(f[1], f[2], 0)
    BY <2>2, Begins
  <2>. QED  BY <2>1, <2>3
<1>8. ASSUME NEW j \in 0..N, j \in S, j < N PROVE j + 1 \in S
  <2>1. /\ j + 1 \in 0..N /\ j \in Nat
        /\ j + 2 \in 1..m /\ (j + 2) - 1 = j + 1 /\ (j + 1) + 1 = j + 2
        /\ j + 3 \in 1..m /\ (j + 3) - 1 = j + 2 /\ (j + 1) + 2 = j + 3
    BY <1>2, <1>8
  <2>2. f[j + 2] = ReBody(f[j + 1]) /\ f[j + 3] = ReBody(f[j + 2])
    BY <1>6, <2>1
  <2>3. Agree(f[j + 1], f[j + 2], j)
    BY <1>8
  <2>4. Agree(f[j + 2], f[j + 3], j + 1)
    BY <2>1, <2>2, <2>3, Settles
  <2>. QED  BY <2>1, <2>4
<1> HIDE DEF S
<1>9. \A j \in 0..N : j \in S /\ j < N => j + 1 \in S
  BY <1>8
<1>10. N \in S
  <2>1. \A j \in 0..N : j \in S
    BY <1>7, <1>9, Counting
  <2>2. N \in 0..N
    OBVIOUS
  <2>. QED  BY <2>1, <2>2
<1>11. PICK g \in Tables : g = f[N + 1] /\ f[N + 2] = ReBody(g)
  <2>1. N + 1 \in 1..m /\ N + 2 \in 1..m /\ (N + 2) - 1 = N + 1
    BY <1>2
  <2>. QED  BY <1>6, <2>1
<1>12. g = ReBody(g)
  <2>1. Agree(g, ReBody(g), N)
    BY <1>10, <1>11 DEF S
  <2>2. ASSUME NEW v \in SUBSET sk_Skills PROVE g[v] = ReBody(g)[v]
    <3>1. Cardinality(sk_Skills \ v) <= N
      <4>1. sk_Skills \ v \in SUBSET sk_Skills
        OBVIOUS
      <4>. QED  BY <1>1, <4>1, FS_Subset
    <3>. QED  BY <2>1, <3>1 DEF Agree
  <2>3. PICK h \in Tables : h = ReBody(g)
    BY ReTyped
  <2>4. \A v \in SUBSET sk_Skills : g[v] = h[v]
    BY <2>2, <2>3
  <2>5. g = h
    BY <2>4 DEF Tables
  <2>. QED  BY <2>3, <2>5
<1>13. SkillPrompt!Resolved = ReBody(SkillPrompt!Resolved)
  BY <1>12, ResolvedAre
<1>14. SkillPrompt!Resolved = g
  BY <1>12, <1>13, AgreeAll
<1>. QED  BY <1>13, <1>14

LEMMA ReachesSelf == ASSUME NEW s \in sk_Skills PROVE s \in SkillPrompt!Reaches(s)
BY DEF SkillPrompt!Reaches

LEMMA ReachesOn ==
    ASSUME NEW u, NEW s \in SkillPrompt!Reaches(u), NEW d \in SkillPrompt!ToSet(SkillPrompt!Needs(s)), d \in sk_Skills
    PROVE  d \in SkillPrompt!Reaches(u)
<1> SUFFICES ASSUME NEW S \in SUBSET sk_Skills, u \in S, \A t \in S : SkillPrompt!ToSet(SkillPrompt!Needs(t)) \subseteq S
             PROVE  d \in S
  BY DEF SkillPrompt!Reaches
<1>1. s \in S
  BY DEF SkillPrompt!Reaches
<1>. QED  BY <1>1

\* Every skill of v is being resolved for the sake of s.
OnTheWay(v, s) == s \in sk_Skills \ v /\ \A u \in v : s \in SkillPrompt!Reaches(u)

Ordered(v) ==
    \A s \in sk_Skills : OnTheWay(v, s) => Sorted(SkillPrompt!Resolved[v][s]) /\ Ready(SkillPrompt!Resolved[v][s], s)

LEMMA OrderedStep ==
    ASSUME IsFiniteSet(sk_Skills), Typed, NEW v \in SUBSET sk_Skills, NEW s \in sk_Skills, OnTheWay(v, s),
           Ordered(v \cup {s})
    PROVE  Sorted(SkillPrompt!Resolved[v][s]) /\ Ready(SkillPrompt!Resolved[v][s], s)
<1>1. PICK seen \in SUBSET sk_Skills : seen = v \cup {s}
  OBVIOUS
<1>2. PICK sub \in [sk_Skills -> Seq(sk_Skills)] : sub = SkillPrompt!Resolved[seen]
  BY ResolvedFound DEF Tables
<1>3. PICK r \in Seq(sk_Skills) : r = SkillPrompt!Gathered(s, seen, sub)
  BY GatheredIs
<1>4. SkillPrompt!Resolved[v][s] = r
  <2>1. SkillPrompt!Resolved[v][s] = Value(SkillPrompt!Resolved, s, v)
    <3>1. PICK f : f = SkillPrompt!Resolved
      OBVIOUS
    <3>2. f = ReBody(f)
      BY <3>1, ResolvedFound
    <3>3. ReBody(f)[v][s] = Value(f, s, v)
      BY DEF ReBody
    <3>. QED  BY <3>1, <3>2, <3>3
  <2>. QED  BY <1>1, <1>2, <1>3, <2>1 DEF Value, OnTheWay
<1>5. ASSUME NEW d \in SkillPrompt!ToSet(SkillPrompt!Needs(s)) PROVE d \in sk_Skills /\ \A u \in seen : d \in SkillPrompt!Reaches(u)
  <2>1. d \in sk_Skills
    BY Elements DEF Typed
  <2>2. ASSUME NEW u \in seen PROVE s \in SkillPrompt!Reaches(u)
    BY <1>1, ReachesSelf DEF OnTheWay
  <2>. QED  BY <2>1, <2>2, ReachesOn
<1>6. Before(s, seen, sub)
  <2>1. ASSUME NEW d \in SkillPrompt!ToSet(SkillPrompt!Needs(s)) \ seen PROVE Sorted(sub[d]) /\ Ready(sub[d], d)
    <3>1. OnTheWay(seen, d)
      BY <1>5 DEF OnTheWay
    <3>. QED  BY <1>1, <1>2, <1>5, <3>1 DEF Ordered
  <2>. QED  BY <2>1 DEF Before
<1>7. Sorted(r) /\ Covers(r, s, seen)
  BY <1>3, <1>6, GatheredIs
<1>8. Ready(r, s)
  <2>1. ASSUME NEW d \in SkillPrompt!ToSet(SkillPrompt!Needs(s)) PROVE Exempt(d, s) \/ d \in SkillPrompt!ToSet(r)
    <3>1. d \in seen \/ ~SkillPrompt!Loaded(d) \/ d \in SkillPrompt!ToSet(r)
      BY <1>7 DEF Covers
    <3>2. d \in seen => s \in SkillPrompt!Reaches(d)
      BY <1>1, ReachesSelf DEF OnTheWay
    <3>. QED  BY <3>1, <3>2 DEF Exempt
  <2>. QED  BY <2>1 DEF Ready
<1>. QED  BY <1>4, <1>7, <1>8

LEMMA ResolvedIsOrdered ==
    ASSUME IsFiniteSet(sk_Skills), Typed, NEW v \in SUBSET sk_Skills
    PROVE  Ordered(v)
<1> DEFINE Bad == {w \in SUBSET sk_Skills : ~Ordered(w)}
           Left == {Cardinality(sk_Skills \ w) : w \in Bad}
<1> SUFFICES ASSUME Bad # {} PROVE FALSE
  OBVIOUS
<1>1. Left \in SUBSET Nat /\ Left # {}
  BY LeftType
<1>2. PICK x \in Left : \A y \in Left : x <= y
  <2> HIDE DEF Left
  <2>. QED  BY <1>1, LeastElement
<1>3. PICK w \in Bad : x = Cardinality(sk_Skills \ w)
  BY <1>2
<1>4. PICK s \in sk_Skills : OnTheWay(w, s) /\ ~(Sorted(SkillPrompt!Resolved[w][s]) /\ Ready(SkillPrompt!Resolved[w][s], s))
  BY <1>3 DEF Ordered
<1>5. s \in sk_Skills \ w /\ w \cup {s} \in SUBSET sk_Skills
  BY <1>4 DEF OnTheWay
<1>6. PICK y \in Nat : y = Cardinality(sk_Skills \ (w \cup {s})) /\ y < x
  BY <1>3, <1>5, FewerLeft
<1>7. w \cup {s} \notin Bad
  <2>1. x \in Nat
    <3> HIDE DEF Left
    <3>. QED  BY <1>1
  <2>2. ~(x <= y)
    BY <1>6, <2>1
  <2>. QED  BY <1>2, <1>6, <2>2
<1>8. Ordered(w \cup {s})
  BY <1>5, <1>7
<1>. QED  BY <1>3, <1>4, <1>8, OrderedStep

LEMMA EachIsOrdered ==
    ASSUME IsFiniteSet(sk_Skills), Typed, NEW s \in sk_Skills
    PROVE  /\ SkillPrompt!Resolved[{}][s] \in Seq(sk_Skills)
           /\ Sorted(SkillPrompt!Resolved[{}][s]) /\ Ready(SkillPrompt!Resolved[{}][s], s)
<1>1. PICK v \in SUBSET sk_Skills : v = {}
  OBVIOUS
<1>2. OnTheWay(v, s)
  BY <1>1 DEF OnTheWay
<1>3. Ordered(v)
  BY ResolvedIsOrdered
<1>4. SkillPrompt!Resolved[v][s] \in Seq(sk_Skills)
  BY ResolvedFound DEF Tables
<1>. QED  BY <1>1, <1>2, <1>3, <1>4 DEF Ordered

------------------------------------------------------------------------------
(* The skills of a prompt. *)

WaBody(f, ts) == [n \in 0..Len(ts) |->
                    IF n = 0 THEN <<>>
                    ELSE SkillPrompt!Behind(f[n - 1], SkillPrompt!Resolved[{}][ts[n]], ts[n])]
WaOf(ts) == CHOOSE f : f = WaBody(f, ts)

LEMMA WantedAre == ASSUME NEW ts PROVE SkillPrompt!Wanted(ts) = WaOf(ts)[Len(ts)]
BY DEF SkillPrompt!Wanted, WaOf, WaBody

LEMMA WantedNext ==
    ASSUME IsFiniteSet(sk_Skills), Typed, NEW l \in Seq(sk_Skills), NEW s \in sk_Skills
    PROVE  /\ SkillPrompt!Behind(l, SkillPrompt!Resolved[{}][s], s) \in Seq(sk_Skills)
           /\ Sorted(l) => Sorted(SkillPrompt!Behind(l, SkillPrompt!Resolved[{}][s], s))
<1>1. PICK ds \in Seq(sk_Skills) : ds = SkillPrompt!Resolved[{}][s] /\ Sorted(ds) /\ Ready(ds, s)
  BY EachIsOrdered
<1>2. Grown(SkillPrompt!Behind(l, ds, s), l, SkillPrompt!ToSet(ds) \cup {s}) /\ (Sorted(l) => Sorted(SkillPrompt!Behind(l, ds, s)))
  BY <1>1, BehindIs
<1>. QED  BY <1>1, <1>2 DEF Grown

LEMMA WantedFound ==
    ASSUME IsFiniteSet(sk_Skills), Typed, NEW ts \in Seq(sk_Skills)
    PROVE  WaOf(ts) = WaBody(WaOf(ts), ts)
<1>1. PICK n \in Nat : n = Len(ts)
  OBVIOUS
<1>2. PICK A, e : A = Seq(sk_Skills) /\ e = <<>>
  OBVIOUS
<1>e. e \in A
  BY <1>2, EmptySeq
<1>3. PICK F \in [A \X (1..n) -> A] :
        F = [p \in A \X (1..n) |-> SkillPrompt!Behind(p[1], SkillPrompt!Resolved[{}][ts[p[2]]], ts[p[2]])]
  <2>1. ASSUME NEW p \in A \X (1..n)
        PROVE  SkillPrompt!Behind(p[1], SkillPrompt!Resolved[{}][ts[p[2]]], ts[p[2]]) \in A
    <3>1. p[1] \in Seq(sk_Skills) /\ ts[p[2]] \in sk_Skills
      BY <1>1, <1>2
    <3>. QED  BY <1>2, <3>1, WantedNext
  <2>. QED  BY <2>1
<1>4. PICK f \in [0..n -> A] : f[0] = e /\ \A j \in 1..n : f[j] = F[<<f[j - 1], j>>]
  <2>1. \E f \in [0..n -> A] : Unrolls(f, n, e, F)
    BY <1>e, Recursion
  <2>. QED  BY <2>1 DEF Unrolls
<1>5. ASSUME NEW j \in 1..n PROVE f[j] = SkillPrompt!Behind(f[j - 1], SkillPrompt!Resolved[{}][ts[j]], ts[j])
  <2>1. j - 1 \in 0..n
    OBVIOUS
  <2>2. <<f[j - 1], j>> \in A \X (1..n)
    BY <1>4, <2>1
  <2>. QED  BY <1>3, <1>4, <2>2
<1>6. f = WaBody(f, ts)
  <2>1. \A i \in 0..n : f[i] = IF i = 0 THEN <<>> ELSE SkillPrompt!Behind(f[i - 1], SkillPrompt!Resolved[{}][ts[i]], ts[i])
    <3>1. \A i \in 0..n : i # 0 => i \in 1..n
      OBVIOUS
    <3>. QED  BY <3>1, <1>2, <1>4, <1>5
  <2>2. f = [i \in 0..n |-> f[i]]
    BY <1>4
  <2>. QED  BY <1>1, <2>1, <2>2 DEF WaBody
<1>. QED  BY <1>6 DEF WaOf

LEMMA WantedSorted ==
    ASSUME IsFiniteSet(sk_Skills), Typed, NEW ts \in Seq(sk_Skills)
    PROVE  SkillPrompt!Wanted(ts) \in Seq(sk_Skills) /\ Sorted(SkillPrompt!Wanted(ts))
<1>1. PICK n \in Nat : n = Len(ts)
  OBVIOUS
<1>2. PICK f : f = WaOf(ts)
  OBVIOUS
<1>3. \A i \in 0..n : f[i] = IF i = 0 THEN <<>> ELSE SkillPrompt!Behind(f[i - 1], SkillPrompt!Resolved[{}][ts[i]], ts[i])
  <2>1. f = WaBody(f, ts)
    BY <1>2, WantedFound
  <2>. QED  BY <1>1, <2>1 DEF WaBody
<1> DEFINE S == {j \in 0..n : f[j] \in Seq(sk_Skills) /\ Sorted(f[j])}
<1>4. 0 \in S
  <2>1. 0 \in 0..n /\ f[0] = <<>>
    BY <1>3
  <2>. QED  BY <2>1, EmptySeq, NoneSorted
<1>5. ASSUME NEW j \in 0..n, j \in S, j < n PROVE j + 1 \in S
  <2>1. j + 1 \in 0..n /\ j + 1 # 0 /\ (j + 1) - 1 = j /\ ts[j + 1] \in sk_Skills
    BY <1>1, <1>5
  <2>2. f[j + 1] = SkillPrompt!Behind(f[j], SkillPrompt!Resolved[{}][ts[j + 1]], ts[j + 1])
    BY <1>3, <2>1
  <2>. QED  BY <1>5, <2>1, <2>2, WantedNext
<1> HIDE DEF S
<1>6. \A j \in 0..n : j \in S /\ j < n => j + 1 \in S
  BY <1>5
<1>7. n \in S
  <2>1. \A j \in 0..n : j \in S
    BY <1>4, <1>6, Counting
  <2>2. n \in 0..n
    OBVIOUS
  <2>. QED  BY <2>1, <2>2
<1>. QED  BY <1>1, <1>2, <1>7, WantedAre DEF S

BlBody(f, l) == [n \in 0..Len(l) |-> IF n = 0 THEN <<>>
                                     ELSE IF SkillPrompt!Loaded(l[n]) THEN Append(f[n - 1], l[n])
                                     ELSE f[n - 1]]
BlOf(l) == CHOOSE f : f = BlBody(f, l)

LEMMA BlocksAre == ASSUME NEW l PROVE SkillPrompt!Blocks(l) = BlOf(l)[Len(l)]
BY DEF SkillPrompt!Blocks, BlOf, BlBody

LEMMA BlocksFound == ASSUME NEW l \in Seq(sk_Skills) PROVE BlOf(l) = BlBody(BlOf(l), l)
<1>1. PICK n \in Nat : n = Len(l)
  OBVIOUS
<1>2. PICK A, e : A = Seq(sk_Skills) /\ e = <<>>
  OBVIOUS
<1>e. e \in A
  BY <1>2, EmptySeq
<1>3. PICK F \in [A \X (1..n) -> A] :
        F = [p \in A \X (1..n) |-> IF SkillPrompt!Loaded(l[p[2]]) THEN Append(p[1], l[p[2]]) ELSE p[1]]
  <2>1. ASSUME NEW p \in A \X (1..n)
        PROVE  (IF SkillPrompt!Loaded(l[p[2]]) THEN Append(p[1], l[p[2]]) ELSE p[1]) \in A
    <3>1. p[1] \in Seq(sk_Skills) /\ l[p[2]] \in sk_Skills
      BY <1>1, <1>2
    <3>2. Append(p[1], l[p[2]]) \in Seq(sk_Skills)
      BY <3>1, AppendIs
    <3>. QED  BY <1>2, <3>1, <3>2
  <2>. QED  BY <2>1
<1>4. PICK f \in [0..n -> A] : f[0] = e /\ \A j \in 1..n : f[j] = F[<<f[j - 1], j>>]
  <2>1. \E f \in [0..n -> A] : Unrolls(f, n, e, F)
    BY <1>e, Recursion
  <2>. QED  BY <2>1 DEF Unrolls
<1>5. ASSUME NEW j \in 1..n
      PROVE  f[j] = IF SkillPrompt!Loaded(l[j]) THEN Append(f[j - 1], l[j]) ELSE f[j - 1]
  <2>1. j - 1 \in 0..n
    OBVIOUS
  <2>2. <<f[j - 1], j>> \in A \X (1..n)
    BY <1>4, <2>1
  <2>. QED  BY <1>3, <1>4, <2>2
<1>6. f = BlBody(f, l)
  <2>1. \A i \in 0..n : f[i] = IF i = 0 THEN <<>>
                               ELSE IF SkillPrompt!Loaded(l[i]) THEN Append(f[i - 1], l[i]) ELSE f[i - 1]
    <3>1. \A i \in 0..n : i # 0 => i \in 1..n
      OBVIOUS
    <3>. QED  BY <3>1, <1>2, <1>4, <1>5
  <2>2. f = [i \in 0..n |-> f[i]]
    BY <1>4
  <2>. QED  BY <1>1, <2>1, <2>2 DEF BlBody
<1>. QED  BY <1>6 DEF BlOf

LEMMA BlocksSorted ==
    ASSUME NEW l \in Seq(sk_Skills), Sorted(l)
    PROVE  SkillPrompt!Blocks(l) \in Seq(sk_Skills) /\ Sorted(SkillPrompt!Blocks(l))
<1>1. PICK n \in Nat : n = Len(l)
  OBVIOUS
<1>2. PICK f : f = BlOf(l)
  OBVIOUS
<1>3. \A i \in 0..n : f[i] = IF i = 0 THEN <<>>
                             ELSE IF SkillPrompt!Loaded(l[i]) THEN Append(f[i - 1], l[i]) ELSE f[i - 1]
  <2>1. f = BlBody(f, l)
    BY <1>2, BlocksFound
  <2>. QED  BY <1>1, <2>1 DEF BlBody
<1> DEFINE Has(j) == \A k \in 1..j : SkillPrompt!Loaded(l[k]) => l[k] \in SkillPrompt!ToSet(f[j])
           S == {j \in 0..n : f[j] \in Seq(sk_Skills) /\ Sorted(f[j]) /\ Has(j)}
<1>4. 0 \in S
  <2>1. 0 \in 0..n /\ f[0] = <<>>
    BY <1>3
  <2>2. Has(0)
    OBVIOUS
  <2>. QED  BY <2>1, <2>2, EmptySeq, NoneSorted
<1>5. ASSUME NEW j \in 0..n, j \in S, j < n PROVE j + 1 \in S
  <2>1. j + 1 \in 1..n /\ j + 1 \in 0..n /\ j + 1 # 0 /\ (j + 1) - 1 = j
    BY <1>5
  <2>2. PICK u \in Seq(sk_Skills), s \in sk_Skills : u = f[j] /\ s = l[j + 1] /\ Sorted(u) /\ Has(j)
    BY <1>1, <1>5, <2>1
  <2>3. f[j + 1] = IF SkillPrompt!Loaded(s) THEN Append(u, s) ELSE u
    BY <1>3, <2>1, <2>2
  <2>4. Append(u, s) \in Seq(sk_Skills) /\ SkillPrompt!ToSet(Append(u, s)) = SkillPrompt!ToSet(u) \cup {s}
    BY AppendIs
  <2>5. Ready(u, s)
    <3>1. ASSUME NEW d \in SkillPrompt!ToSet(SkillPrompt!Needs(s)), ~Exempt(d, s) PROVE d \in SkillPrompt!ToSet(u)
      <4>1. PICK k \in 1..((j + 1) - 1) : l[k] = d
        BY <1>1, <2>1, <2>2, <3>1 DEF Sorted
      <4>2. k \in 1..j /\ SkillPrompt!Loaded(l[k])
        BY <2>1, <3>1, <4>1 DEF Exempt
      <4>. QED  BY <2>2, <4>1, <4>2
    <3>. QED  BY <3>1 DEF Ready
  <2>6. Sorted(Append(u, s))
    BY <2>2, <2>5, AppendSorted
  <2>7. ASSUME NEW k \in 1..(j + 1), SkillPrompt!Loaded(l[k]) PROVE l[k] \in SkillPrompt!ToSet(f[j + 1])
    <3>1. k \in 1..j \/ k = j + 1
      OBVIOUS
    <3>. QED  BY <2>2, <2>3, <2>4, <2>7, <3>1
  <2>. QED  BY <2>1, <2>2, <2>3, <2>4, <2>6, <2>7
<1> HIDE DEF S
<1>6. \A j \in 0..n : j \in S /\ j < n => j + 1 \in S
  BY <1>5
<1>7. n \in S
  <2>1. \A j \in 0..n : j \in S
    BY <1>4, <1>6, Counting
  <2>2. n \in 0..n
    OBVIOUS
  <2>. QED  BY <2>1, <2>2
<1>. QED  BY <1>1, <1>2, <1>7, BlocksAre DEF S

LEMMA CutSorted ==
    ASSUME NEW l \in Seq(sk_Skills), Sorted(l), NEW k \in 0..Len(l)
    PROVE  SubSeq(l, 1, k) \in Seq(sk_Skills) /\ Sorted(SubSeq(l, 1, k))
<1>1. PICK r \in Seq(sk_Skills) : r = SubSeq(l, 1, k) /\ Len(r) = k /\ \A i \in 1..k : r[i] = l[i]
  <2>1. PICK r : r = SubSeq(l, 1, k)
    OBVIOUS
  <2>2. \A i \in 1..k : l[i] \in sk_Skills
    OBVIOUS
  <2>3. r \in Seq(sk_Skills) /\ Len(r) = k /\ \A i \in 1..k : r[i] = l[i]
    BY <2>1, <2>2, SubSeqProperties
  <2>. QED  BY <2>1, <2>3
<1>2. ASSUME NEW i \in 1..k, NEW d \in SkillPrompt!ToSet(SkillPrompt!Needs(r[i])), ~Exempt(d, r[i])
      PROVE  \E q \in 1..(i - 1) : r[q] = d
  <2>1. i \in 1..Len(l) /\ r[i] = l[i]
    BY <1>1
  <2>2. PICK q \in 1..(i - 1) : l[q] = d
    BY <1>2, <2>1 DEF Sorted
  <2>3. q \in 1..k
    OBVIOUS
  <2>. QED  BY <1>1, <2>2, <2>3
<1>. QED  BY <1>1, <1>2 DEF Sorted

LEMMA FittingSorted ==
    ASSUME NEW l \in Seq(sk_Skills), Sorted(l)
    PROVE  SkillPrompt!Fitting(l) \in Seq(sk_Skills) /\ Sorted(SkillPrompt!Fitting(l))
<1>1. PICK n \in Nat : n = Len(l)
  OBVIOUS
<1> DEFINE S == {k \in 0..n : \A j \in 1..k : SkillPrompt!Length(SubSeq(l, 1, j)) <= sk_Budget}
           T == {n - k : k \in S}
<1>2. 0 \in S
  OBVIOUS
<1>3. T \in SUBSET Nat /\ T # {}
  BY <1>2
<1>4. PICK x \in T : \A y \in T : x <= y
  <2> HIDE DEF T
  <2>. QED  BY <1>3, LeastElement
<1>5. PICK k \in S : x = n - k
  BY <1>4
<1>6. \A y \in S : k >= y
  <2>1. ASSUME NEW y \in S PROVE k >= y
    <3>1. n - y \in T
      OBVIOUS
    <3>2. n - k <= n - y
      BY <1>4, <1>5, <3>1
    <3>3. k \in Nat /\ y \in Nat
      OBVIOUS
    <3>. QED  BY <3>2, <3>3
  <2>. QED  BY <2>1
<1>7. SkillPrompt!Max(S) \in S
  <2>1. \E z \in S : \A y \in S : z >= y
    BY <1>6
  <2> HIDE DEF S
  <2>. QED  BY <2>1 DEF SkillPrompt!Max
<1>8. SkillPrompt!Max(S) \in 0..Len(l) /\ SkillPrompt!Fitting(l) = SubSeq(l, 1, SkillPrompt!Max(S))
  BY <1>1, <1>7 DEF SkillPrompt!Fitting
<1>. QED  BY <1>8, CutSorted

------------------------------------------------------------------------------
(* The configurations name skills, and a prompt is built from what they name. *)

SkillInv ==
    /\ sk_home \in [sk_Skills -> {"none", "program", "workspace"}]
    /\ sk_needs \in [{"program", "workspace"} -> [sk_Skills -> Seq(sk_Skills)]]

LEMMA SkillInit == SkillPrompt!Init => SkillInv
<1>1. <<>> \in Seq(sk_Skills)
  BY EmptySeq
<1>. QED  BY <1>1 DEF SkillPrompt!Init, SkillInv

LEMMA ListsTyped == ASSUME NEW l \in SkillPrompt!Lists PROVE l \in Seq(sk_Skills)
<1>1. PICK m \in 0..2 : l \in [1..m -> sk_Skills]
  BY DEF SkillPrompt!Lists, SkillPrompt!SeqOf
<1>. QED  BY <1>1

LEMMA OrdersTyped ==
    ASSUME IsFiniteSet(sk_Skills), sk_Always \subseteq sk_Skills, NEW l \in SkillPrompt!Orders
    PROVE  l \in Seq(sk_Skills)
<1>1. PICK c \in Nat : c = Cardinality(sk_Always)
  <2>1. IsFiniteSet(sk_Always)
    BY FS_Subset
  <2>. QED  BY <2>1, FS_CardinalityType
<1>c. SkillPrompt!Cardinality(sk_Always) = Cardinality(sk_Always)
  BY DEF SkillPrompt!Cardinality, Cardinality
<1>2. l \in SkillPrompt!SeqOf(sk_Always, c)
  BY <1>1, <1>c DEF SkillPrompt!Orders
<1>3. PICK m \in 0..c : l \in [1..m -> sk_Always]
  BY <1>2 DEF SkillPrompt!SeqOf
<1>. QED  BY <1>3

LEMMA SkillsTyped == ASSUME SkillInv PROVE Typed
<1> SUFFICES ASSUME NEW s \in sk_Skills PROVE SkillPrompt!Needs(s) \in Seq(sk_Skills)
  BY DEF Typed
<1>1. CASE sk_home[s] = "none"
  BY <1>1, EmptySeq DEF SkillPrompt!Needs
<1>2. CASE sk_home[s] # "none"
  BY <1>2 DEF SkillPrompt!Needs, SkillInv
<1>. QED  BY <1>1, <1>2

LEMMA SkillStep == ASSUME SkillInv, [SkillPrompt!Next]_(SkillPrompt!vars) PROVE SkillInv'
<1>1. ASSUME NEW s \in sk_Skills, NEW l \in SkillPrompt!Lists, NEW whole \in BOOLEAN, SkillPrompt!SaveSkill(s, l, whole)
      PROVE  SkillInv'
  <2>1. sk_home' \in [sk_Skills -> {"none", "program", "workspace"}]
    BY <1>1 DEF SkillPrompt!SaveSkill, SkillInv
  <2>2. [sk_needs EXCEPT !["workspace"][s] = l] \in [{"program", "workspace"} -> [sk_Skills -> Seq(sk_Skills)]]
    BY ListsTyped DEF SkillInv
  <2>3. sk_needs' \in [{"program", "workspace"} -> [sk_Skills -> Seq(sk_Skills)]]
    BY <1>1, <2>2 DEF SkillPrompt!SaveSkill, SkillInv
  <2>. QED  BY <2>1, <2>3 DEF SkillInv
<1>2. ASSUME NEW s \in sk_Skills, NEW l \in SkillPrompt!Lists, SkillPrompt!SaveConfig(s, l) PROVE SkillInv'
  <2>1. sk_home[s] \in {"program", "workspace"}
    BY <1>2 DEF SkillPrompt!SaveConfig, SkillInv
  <2>2. [sk_needs EXCEPT ![sk_home[s]][s] = l] \in [{"program", "workspace"} -> [sk_Skills -> Seq(sk_Skills)]]
    BY <2>1, ListsTyped DEF SkillInv
  <2>. QED  BY <1>2, <2>2 DEF SkillPrompt!SaveConfig, SkillInv
<1>3. ASSUME NEW always, NEW asked, SkillPrompt!Build(always, asked) PROVE SkillInv'
  BY <1>3 DEF SkillPrompt!Build, SkillInv
<1>4. CASE UNCHANGED SkillPrompt!vars
  BY <1>4 DEF SkillPrompt!vars, SkillInv
<1>. QED  BY <1>1, <1>2, <1>3, <1>4 DEF SkillPrompt!Next

LEMMA BuildSorted ==
    ASSUME IsFiniteSet(sk_Skills), sk_Always \subseteq sk_Skills, SkillInv,
           NEW always \in SkillPrompt!Orders, NEW asked \in SkillPrompt!Lists
    PROVE  LET l == SkillPrompt!Fitting(SkillPrompt!Blocks(SkillPrompt!Wanted(SkillPrompt!Joined(always, asked))))
           IN  l \in Seq(sk_Skills) /\ Sorted(l)
<1>1. always \in Seq(sk_Skills) /\ asked \in Seq(sk_Skills) /\ Typed
  BY OrdersTyped, ListsTyped, SkillsTyped
<1>2. PICK ts \in Seq(sk_Skills) : ts = SkillPrompt!Joined(always, asked)
  BY <1>1, BehindOneAnother DEF JoinedTo, Grown
<1>3. PICK l \in Seq(sk_Skills) : l = SkillPrompt!Wanted(ts) /\ Sorted(l)
  BY <1>1, WantedSorted
<1>4. PICK b \in Seq(sk_Skills) : b = SkillPrompt!Blocks(l) /\ Sorted(b)
  BY <1>3, BlocksSorted
<1>5. SkillPrompt!Fitting(b) \in Seq(sk_Skills) /\ Sorted(SkillPrompt!Fitting(b))
  BY <1>4, FittingSorted
<1>. QED  BY <1>2, <1>3, <1>4, <1>5

Prepared == sk_active' # sk_active =>
    \A i \in DOMAIN sk_active' : \A d \in SkillPrompt!ToSet(SkillPrompt!Needs(sk_active'[i])) :
        \/ ~SkillPrompt!Loaded(d) \/ sk_active'[i] \in SkillPrompt!Reaches(d)
        \/ \E k \in 1..(i - 1) : sk_active'[k] = d

LEMMA PromptPrepared ==
    ASSUME IsFiniteSet(sk_Skills), sk_Always \subseteq sk_Skills, SkillInv, [SkillPrompt!Next]_(SkillPrompt!vars)
    PROVE  Prepared
<1> SUFFICES ASSUME sk_active' # sk_active PROVE Prepared
  BY DEF Prepared
<1>1. PICK always \in SkillPrompt!Orders, asked \in SkillPrompt!Lists : SkillPrompt!Build(always, asked)
  BY DEF SkillPrompt!Next, SkillPrompt!SaveSkill, SkillPrompt!SaveConfig, SkillPrompt!vars
<1>2. PICK l \in Seq(sk_Skills) : l = sk_active' /\ Sorted(l)
  BY <1>1, BuildSorted DEF SkillPrompt!Build
<1>3. DOMAIN l = 1..Len(l)
  BY <1>2
<1>4. \A i \in DOMAIN l : \A d \in SkillPrompt!ToSet(SkillPrompt!Needs(l[i])) :
          \/ ~SkillPrompt!Loaded(d) \/ l[i] \in SkillPrompt!Reaches(d)
          \/ \E k \in 1..(i - 1) : l[k] = d
  BY <1>2, <1>3 DEF Sorted, Exempt
<1>. QED  BY <1>2, <1>4 DEF Prepared

LEMMA SkillPromptSteps == [AllNext]_All => [SkillPrompt!Next]_(SkillPrompt!vars)
BY DEF AllNext, All, SkillPrompt!vars, skillpromptVars

\* For any skills, configurations and orders of the directories: a skill is in a
\* prompt only after the skills it needs that are there, unless they need it
\* themselves, wherever resolve_dependencies cuts a cycle and the budget ends.
THEOREM PrerequisitesComeFirst ==
    ASSUME IsFiniteSet(sk_Skills), sk_Always \subseteq sk_Skills
    PROVE  AllSpec => PrerequisitesFirst
<1>1. AllInit => SkillInv
  BY SkillInit DEF AllInit
<1>2. SkillInv /\ [AllNext]_All => SkillInv'
  BY SkillStep, SkillPromptSteps
<1>3. SkillInv /\ [AllNext]_All => [Prepared]_(SkillPrompt!vars)
  BY PromptPrepared, SkillPromptSteps
<1>. QED  BY <1>1, <1>2, <1>3, AllSafe, PTL
          DEF PrerequisitesFirst, SkillPrompt!PrerequisitesFirst, Prepared

------------------------------------------------------------------------------
(* Workers and subagents: the theorem of the component, in the sum. *)

LEMMA WorkersSteps == [AllNext]_All => [Workers!Next]_(Workers!vars)
BY DEF AllNext, All, Workers!vars, workersVars, Workers!node, Workers!manager, Workers!poll

\* For any jobs and any number of workers: a job whose start was promised is
\* watched until it is announced, and it is announced once.
THEOREM PromisedJobsAreAnnouncedOnce == AllSpec => []NotifiedOnce
<1>1. AllInit => Workers!Init
  BY DEF AllInit
<1>2. [AllNext]_All => [Workers!Next]_(Workers!vars)
  BY WorkersSteps
<1>3. Workers!Spec => []Workers!NotifiedOnce
  BY Workers!PromisesAreKept
<1>. QED  BY <1>1, <1>2, <1>3, AllSafe, PTL DEF NotifiedOnce, Workers!Spec
==============================================================================
