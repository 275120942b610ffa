-------------------------------- MODULE Proxy --------------------------------
(* The proxy between clients and the provider (src/bff): the tokens of the    *)
(* clients, the bucket that limits the requests of each user, and what a      *)
(* request is turned into and answered with.                                 *)
EXTENDS Naturals, Sequences, FiniteSets, FiniteSetTheorems, TLAPS

CONSTANTS Users,
          Capacity,       \* requests a full bucket holds, and a minute refills
          Unit, Rate,     \* a request costs Unit, a tick refills Rate of them
          HasKey,         \* the key of the provider is configured
          MaxTime, MaxRequests

VARIABLES now,
          buckets,        \* user -> what is left and since when, {} before the first
          granted,        \* user -> times of the requests that passed
          request,        \* the request that is served
          served

vars == <<now, buckets, granted, request, served>>

NoRequest == [pc |-> "none", params |-> {}, sent |-> 0, answer |-> <<>>]
Full == Capacity * Unit

Init ==
    /\ now = 0 /\ buckets = [u \in Users |-> {}] /\ granted = [u \in Users |-> <<>>]
    /\ request = NoRequest /\ served = 0

Tick == now < MaxTime /\ now' = now + 1 /\ UNCHANGED <<buckets, granted, request, served>>

------------------------------------------------------------------------------
(* The limiter. *)
Bucket(u) == IF buckets[u] = {} THEN [tokens |-> Full, at |-> now] ELSE CHOOSE b \in buckets[u] : TRUE
Least(a, b) == IF a <= b THEN a ELSE b
Refilled(u) == Least(Full, Bucket(u).tokens + (now - Bucket(u).at) * Rate)

Kept_OldTime(u, tokens) == {[tokens |-> tokens, at |-> Bucket(u).at]}
Kept(u, tokens) == {[tokens |-> tokens, at |-> now]}

Allowed(u) == Refilled(u) >= Unit

\* gate_request: the token is known, the bucket has one left, the body is JSON.
Refuse(code) ==
    /\ request.pc = "none" /\ served < MaxRequests
    /\ request' = [NoRequest EXCEPT !.pc = "done", !.answer = <<code>>]
    /\ served' = served + 1

UnknownToken == Refuse("401") /\ UNCHANGED <<now, buckets, granted>>

Limited(u) ==
    /\ ~Allowed(u) /\ Refuse("429")
    /\ buckets' = [buckets EXCEPT ![u] = Kept(u, Refilled(u))]
    /\ UNCHANGED <<now, granted>>

Consume(u) ==
    /\ Allowed(u)
    /\ buckets' = [buckets EXCEPT ![u] = Kept(u, Refilled(u) - Unit)]
    /\ granted' = [granted EXCEPT ![u] = Append(@, now)]
    /\ UNCHANGED now

BadBody(u) == Consume(u) /\ Refuse("400")

------------------------------------------------------------------------------
(* The request. *)

\* What the client may pass on; a reasoning model is not given all of it.
Optional == {"temperature", "tools", "stream"}
Sanitized(params, reasoning) == IF reasoning THEN params \ {"temperature"} ELSE params

Pass(u, params, reasoning) ==
    /\ Consume(u)
    /\ IF HasKey
       THEN /\ request.pc = "none" /\ served < MaxRequests
            /\ request' = [NoRequest EXCEPT !.pc = IF "stream" \in params THEN "stream" ELSE "whole",
                                       !.params = Sanitized(params, reasoning)]
            /\ served' = served + 1
       ELSE Refuse("500")

\* The call names the parameter stream itself; named twice it is no call at all.
Callable == "stream" \notin request.params

\* _stream_litellm: pieces of the provider, an error in their place, the end.
Stream(pieces, breaks) ==
    /\ request.pc = "stream"
    /\ request' = [request EXCEPT !.pc = "done", !.sent = pieces, !.answer =
            IF ~Callable THEN <<"error", "end">>
            ELSE [i \in 1..pieces |-> "text"] \o (IF breaks THEN <<"error">> ELSE <<>>) \o <<"end">>]
    /\ UNCHANGED <<now, buckets, granted, served>>

\* Without a stream: the text, what the filter blocked, or what went wrong.
Whole(code) ==
    /\ request.pc = "whole"
    /\ request' = [request EXCEPT !.pc = "done", !.answer = <<code>>]
    /\ UNCHANGED <<now, buckets, granted, served>>

Done ==
    /\ request.pc = "done"
    /\ request' = NoRequest
    /\ UNCHANGED <<now, buckets, granted, served>>

Next ==
    \/ Tick \/ UnknownToken \/ Done
    \/ \E u \in Users : Limited(u) \/ BadBody(u)
    \/ \E u \in Users, params \in SUBSET Optional, r \in BOOLEAN : Pass(u, params, r)
    \/ \E n \in 0..2, b \in BOOLEAN : Stream(n, b)
    \/ \E code \in {"text", "400", "502"} : Whole(code)

Spec == Init /\ [][Next]_vars

------------------------------------------------------------------------------
(* In no stretch of time does a user get more requests through than a full    *)
(* bucket and what the stretch refills; refusals in between do not matter.    *)
Passed(u, s) == Cardinality({i \in DOMAIN granted[u] : granted[u][i] >= s})

RateHolds ==
    \A u \in Users, s \in 0..now :
        Unit * Passed(u, s) <= Full + Rate * (now - s)

(* A client that asks for a stream is given what the provider streams.        *)
(* Not kept: the parameter stream is passed twice, which is no call.          *)
StreamsBack == request.sent <= Cardinality({i \in DOMAIN request.answer : request.answer[i] = "text"})
------------------------------------------------------------------------------
(* What passed since any time and what the bucket would hold now stay below   *)
(* a full bucket and what was refilled since that time.                       *)
Buckets ==
    /\ now \in Nat /\ granted \in [Users -> Seq(Nat)]
    /\ buckets \in [Users -> SUBSET [tokens : 0..Full, at : Nat]]
    /\ \A u \in Users : \/ buckets[u] = {}
                       \/ \E t \in 0..Full, a \in 0..now : buckets[u] = {[tokens |-> t, at |-> a]}
    /\ \A u \in Users : \A i \in DOMAIN granted[u] : granted[u][i] <= now

Spent(u) == \A s \in 0..now : Unit * Passed(u, s) + Refilled(u) <= Full + Rate * (now - s)

BucketInv == Buckets /\ \A u \in Users : Spent(u)

Numbers == Capacity \in Nat /\ Unit \in Nat /\ Rate \in Nat

LEMMA FullIsNat == ASSUME Numbers PROVE Full \in Nat
BY DEF Numbers, Full

LEMMA Products ==
    ASSUME NEW a \in Nat, NEW b \in Nat, NEW c \in Nat
    PROVE  a * b \in Nat /\ (b + c) * a = b * a + c * a /\ a * (b + c) = a * b + a * c
OBVIOUS

(* Fewer requests passed since a time than passed at all: a number.           *)
LEMMA PassedIsNat ==
    ASSUME NEW u \in Users, Buckets, NEW s PROVE Passed(u, s) \in Nat
<1>1. DOMAIN granted[u] = 1..Len(granted[u]) /\ Len(granted[u]) \in Nat BY DEF Buckets
<1>2. IsFiniteSet(DOMAIN granted[u]) BY <1>1, FS_Interval
<1>3. IsFiniteSet({i \in DOMAIN granted[u] : granted[u][i] >= s}) BY <1>2, FS_Subset
<1>4. QED BY <1>3, FS_CardinalityType DEF Passed

(* One that passes now counts for every time up to now.                       *)
LEMMA OneMorePassed ==
    ASSUME NEW u \in Users, Buckets, NEW s \in 0..now,
           granted' = [granted EXCEPT ![u] = Append(@, now)]
    PROVE  Passed(u, s)' = Passed(u, s) + 1
<1> DEFINE n == Len(granted[u])
           S == {i \in DOMAIN granted[u] : granted[u][i] >= s}
           T == {i \in DOMAIN granted'[u] : granted'[u][i] >= s}
<1>1. n \in Nat /\ DOMAIN granted[u] = 1..n BY DEF Buckets
<1>2. granted'[u] = Append(granted[u], now) BY DEF Buckets
<1>3. /\ DOMAIN granted'[u] = 1..(n + 1) /\ granted'[u][n + 1] = now
      /\ \A i \in 1..n : granted'[u][i] = granted[u][i]
    BY <1>1, <1>2 DEF Buckets
<1>4. now >= s BY DEF Buckets
<1>5. T = S \cup {n + 1} BY <1>1, <1>3, <1>4
<1>6. n + 1 \notin S BY <1>1
<1>7. IsFiniteSet(S)
  <2>1. IsFiniteSet(1..n) BY <1>1, FS_Interval
  <2>2. QED BY <1>1, <2>1, FS_Subset
<1>8. Cardinality(T) = Cardinality(S) + 1 BY <1>5, <1>6, <1>7, FS_AddElement
<1>9. QED BY <1>8 DEF Passed

(* What is in the bucket now.                                                 *)
LEMMA RefilledIsNat ==
    ASSUME Numbers, Buckets, NEW u \in Users PROVE Refilled(u) \in 0..Full
<1>0. Full \in Nat /\ now \in Nat BY FullIsNat DEF Buckets
<1>1. CASE buckets[u] = {}
  <2>1. Bucket(u) = [tokens |-> Full, at |-> now] BY <1>1 DEF Bucket
  <2>2. Refilled(u) = Least(Full, Full + 0 * Rate) BY <2>1, <1>0 DEF Refilled
  <2>3. QED BY <2>2, <1>0 DEF Least, Numbers
<1>2. ASSUME NEW t \in 0..Full, NEW a \in 0..now, buckets[u] = {[tokens |-> t, at |-> a]}
      PROVE  Refilled(u) \in 0..Full
  <2>1. Bucket(u) = [tokens |-> t, at |-> a] BY <1>2 DEF Bucket
  <2>2. Refilled(u) = Least(Full, t + (now - a) * Rate) BY <2>1 DEF Refilled
  <2>3. now - a \in Nat BY <1>0
  <2>4. (now - a) * Rate \in Nat BY <2>3, Products DEF Numbers
  <2>5. QED BY <2>2, <2>4, <1>0 DEF Least
<1>3. QED BY <1>1, <1>2 DEF Buckets

(* A bucket that was just written holds what was written.                     *)
LEMMA Written ==
    ASSUME Numbers, Buckets, NEW u \in Users, NEW t \in 0..Full, now' = now,
           buckets' = [buckets EXCEPT ![u] = {[tokens |-> t, at |-> now]}]
    PROVE  Refilled(u)' = t
<1>1. buckets'[u] = {[tokens |-> t, at |-> now]} BY DEF Buckets
<1>2. Bucket(u)' = [tokens |-> t, at |-> now] BY <1>1 DEF Bucket
<1>3. Refilled(u)' = Least(Full, t + (now - now) * Rate) BY <1>2 DEF Refilled, Full
<1>4. Full \in Nat /\ now \in Nat BY FullIsNat DEF Buckets
<1>5. (now - now) * Rate = 0 BY <1>4 DEF Numbers
<1>6. QED BY <1>3, <1>4, <1>5 DEF Least

(* A tick adds at most what it refills.                                       *)
LEMMA TickRefills ==
    ASSUME Numbers, Buckets, NEW u \in Users, Tick
    PROVE  Refilled(u)' <= Refilled(u) + Rate
<1>0. Full \in Nat /\ now \in Nat /\ now' = now + 1 /\ buckets' = buckets /\ Rate \in Nat
    BY FullIsNat DEF Buckets, Tick, Numbers
<1>1. CASE buckets[u] = {}
  <2>1. Bucket(u) = [tokens |-> Full, at |-> now] /\ Bucket(u)' = [tokens |-> Full, at |-> now']
      BY <1>0, <1>1 DEF Bucket, Full
  <2>2. Refilled(u) = Least(Full, Full + (now - now) * Rate)
      BY <2>1 DEF Refilled
  <2>3. Refilled(u)' = Least(Full, Full + (now' - now') * Rate)
      BY <2>1 DEF Refilled, Full
  <2>4. (now - now) * Rate = 0 /\ (now' - now') * Rate = 0 BY <1>0
  <2>5. QED BY <2>2, <2>3, <2>4, <1>0 DEF Least
<1>2. ASSUME NEW t \in 0..Full, NEW a \in 0..now, buckets[u] = {[tokens |-> t, at |-> a]}
      PROVE  Refilled(u)' <= Refilled(u) + Rate
  <2>1. Bucket(u) = [tokens |-> t, at |-> a] /\ Bucket(u)' = [tokens |-> t, at |-> a]
      BY <1>0, <1>2 DEF Bucket
  <2>2. Refilled(u) = Least(Full, t + (now - a) * Rate) BY <2>1 DEF Refilled
  <2>3. Refilled(u)' = Least(Full, t + (now' - a) * Rate) BY <2>1 DEF Refilled, Full
  <2>4. now - a \in Nat /\ now' - a = (now - a) + 1 BY <1>0
  <2>5. /\ (now - a) * Rate \in Nat
        /\ (now' - a) * Rate = (now - a) * Rate + Rate
      BY <2>4, <1>0, Products
  <2>6. t \in Nat BY <1>0
  <2>7. QED BY <2>2, <2>3, <2>5, <2>6, <1>0 DEF Least
<1>3. QED BY <1>1, <1>2 DEF Buckets

LEMMA TickKeeps == ASSUME Numbers, BucketInv, Tick PROVE BucketInv'
<1>0. /\ now \in Nat /\ now' = now + 1 /\ buckets' = buckets /\ granted' = granted
      /\ Rate \in Nat /\ Unit \in Nat /\ Full \in Nat
    BY FullIsNat DEF BucketInv, Buckets, Tick, Numbers
<1>1. Buckets'
  <2>1. buckets' \in [Users -> SUBSET [tokens : 0..Full', at : Nat]]
      BY <1>0 DEF BucketInv, Buckets, Full
  <2>2. ASSUME NEW u \in Users
        PROVE  \/ buckets'[u] = {}
               \/ \E t \in 0..Full', a \in 0..now' : buckets'[u] = {[tokens |-> t, at |-> a]}
    <3>1. 0..now \subseteq 0..now' /\ Full' = Full BY <1>0 DEF Full
    <3>2. QED BY <1>0, <3>1 DEF BucketInv, Buckets
  <2>3. ASSUME NEW u \in Users, NEW i \in DOMAIN granted'[u] PROVE granted'[u][i] <= now'
    <3>1. granted[u] \in Seq(Nat) /\ granted[u][i] <= now /\ i \in DOMAIN granted[u]
        BY <1>0, <2>3 DEF BucketInv, Buckets
    <3>2. granted[u][i] \in Nat BY <3>1
    <3>3. QED BY <3>1, <3>2, <1>0
  <2>4. QED BY <1>0, <2>1, <2>2, <2>3 DEF BucketInv, Buckets
<1>2. ASSUME NEW u \in Users PROVE Spent(u)'
  <2> SUFFICES ASSUME NEW s \in 0..now'
               PROVE  Unit * Passed(u, s)' + Refilled(u)' <= Full + Rate * (now' - s)
      BY DEF Spent, Full
  <2>0. /\ Passed(u, s) \in Nat /\ Passed(u, s)' = Passed(u, s)
        /\ Refilled(u) \in 0..Full /\ Refilled(u)' \in 0..Full
    <3>1. Passed(u, s) \in Nat BY PassedIsNat DEF BucketInv
    <3>2. Passed(u, s)' = Passed(u, s) BY <1>0 DEF Passed
    <3>3. Refilled(u) \in 0..Full BY RefilledIsNat DEF BucketInv
    <3>4. Refilled(u)' \in 0..Full
      <4>1. CASE buckets[u] = {}
        <5>1. Bucket(u)' = [tokens |-> Full, at |-> now'] BY <1>0, <4>1 DEF Bucket, Full
        <5>2. Refilled(u)' = Least(Full, Full + (now' - now') * Rate) BY <5>1 DEF Refilled, Full
        <5>3. (now' - now') * Rate = 0 BY <1>0
        <5>4. QED BY <5>2, <5>3, <1>0 DEF Least
      <4>2. ASSUME NEW t \in 0..Full, NEW a \in 0..now, buckets[u] = {[tokens |-> t, at |-> a]}
            PROVE  Refilled(u)' \in 0..Full
        <5>1. Bucket(u)' = [tokens |-> t, at |-> a] BY <1>0, <4>2 DEF Bucket
        <5>2. Refilled(u)' = Least(Full, t + (now' - a) * Rate) BY <5>1 DEF Refilled, Full
        <5>3. now' - a \in Nat /\ t \in Nat BY <1>0
        <5>4. (now' - a) * Rate \in Nat BY <5>3, <1>0, Products
        <5>5. QED BY <5>2, <5>3, <5>4, <1>0 DEF Least
      <4>3. QED BY <4>1, <4>2 DEF BucketInv, Buckets
    <3>5. QED BY <3>1, <3>2, <3>3, <3>4
  <2>1. CASE s <= now
    <3>1. Unit * Passed(u, s) + Refilled(u) <= Full + Rate * (now - s)
        BY <2>1 DEF BucketInv, Spent
    <3>2. Refilled(u)' <= Refilled(u) + Rate BY TickRefills DEF BucketInv
    <3>3. now - s \in Nat /\ now' - s = (now - s) + 1 BY <1>0, <2>1
    <3>4. Rate * (now - s) \in Nat /\ Rate * (now' - s) = Rate * (now - s) + Rate
        BY <3>3, <1>0, Products
    <3>5. Unit * Passed(u, s) \in Nat BY <2>0, <1>0, Products
    <3>6. QED BY <3>1, <3>2, <3>4, <3>5, <2>0, <1>0
  <2>2. CASE s = now'
    <3>1. {i \in DOMAIN granted[u] : granted[u][i] >= s} = {}
      <4> SUFFICES ASSUME NEW i \in DOMAIN granted[u] PROVE ~(granted[u][i] >= s)
          OBVIOUS
      <4>1. granted[u] \in Seq(Nat) /\ granted[u][i] <= now BY DEF BucketInv, Buckets
      <4>2. granted[u][i] \in Nat BY <4>1
      <4>3. QED BY <4>1, <4>2, <2>2, <1>0
    <3>2. Passed(u, s) = 0 BY <3>1, FS_EmptySet DEF Passed
    <3>3. Unit * 0 = 0 /\ Rate * (now' - s) = 0 BY <2>2, <1>0
    <3>4. QED BY <3>2, <3>3, <2>0, <1>0
  <2>3. QED BY <2>1, <2>2, <1>0
<1>3. QED BY <1>1, <1>2 DEF BucketInv

(* A refusal writes what the bucket holds, a request one less.                *)
LEMMA WriteKeeps ==
    ASSUME Numbers, BucketInv, NEW u \in Users, now' = now, NEW t \in 0..Full,
           buckets' = [buckets EXCEPT ![u] = {[tokens |-> t, at |-> now]}],
           \/ t = Refilled(u) /\ granted' = granted
           \/ t + Unit = Refilled(u) /\ granted' = [granted EXCEPT ![u] = Append(@, now)]
    PROVE  BucketInv'
<1>0. now \in Nat /\ Rate \in Nat /\ Unit \in Nat /\ Full \in Nat
    BY FullIsNat DEF BucketInv, Buckets, Numbers
<1>1. Buckets'
  <2>1. granted' \in [Users -> Seq(Nat)]
    <3>1. granted \in [Users -> Seq(Nat)] BY DEF BucketInv, Buckets
    <3>2. Append(granted[u], now) \in Seq(Nat) BY <3>1, <1>0
    <3>3. QED BY <3>1, <3>2
  <2>2. buckets' \in [Users -> SUBSET [tokens : 0..Full', at : Nat]]
      BY <1>0 DEF BucketInv, Buckets, Full
  <2>3. ASSUME NEW v \in Users
        PROVE  \/ buckets'[v] = {}
               \/ \E w \in 0..Full', a \in 0..now' : buckets'[v] = {[tokens |-> w, at |-> a]}
    <3>1. CASE v = u
      <4>1. buckets'[v] = {[tokens |-> t, at |-> now]} BY <3>1 DEF BucketInv, Buckets
      <4>2. now \in 0..now' /\ t \in 0..Full' BY <1>0 DEF Full
      <4>3. QED BY <4>1, <4>2
    <3>2. CASE v # u
      <4>1. buckets'[v] = buckets[v] BY <3>2 DEF BucketInv, Buckets
      <4>2. \/ buckets[v] = {}
            \/ \E w \in 0..Full, a \in 0..now : buckets[v] = {[tokens |-> w, at |-> a]}
          BY DEF BucketInv, Buckets
      <4>3. Full' = Full BY DEF Full
      <4>4. QED BY <4>1, <4>2, <4>3
    <3>3. QED BY <3>1, <3>2
  <2>4. ASSUME NEW v \in Users, NEW i \in DOMAIN granted'[v] PROVE granted'[v][i] <= now'
    <3>1. CASE granted'[v] = granted[v] BY <2>4, <3>1 DEF BucketInv, Buckets
    <3>2. CASE v = u /\ granted'[u] = Append(granted[u], now)
      <4>1. granted[u] \in Seq(Nat) BY DEF BucketInv, Buckets
      <4>2. \/ i \in DOMAIN granted[u] /\ granted'[u][i] = granted[u][i]
            \/ granted'[u][i] = now
          BY <4>1, <3>2, <2>4
      <4>3. QED BY <4>2, <3>2, <1>0 DEF BucketInv, Buckets
    <3>3. QED BY <3>1, <3>2 DEF BucketInv, Buckets
  <2>5. QED BY <1>0, <2>1, <2>2, <2>3, <2>4 DEF Buckets
<1>2. ASSUME NEW v \in Users PROVE Spent(v)'
  <2> SUFFICES ASSUME NEW s \in 0..now
               PROVE  Unit * Passed(v, s)' + Refilled(v)' <= Full + Rate * (now - s)
      BY DEF Spent, Full
  <2>0. Unit * Passed(v, s) + Refilled(v) <= Full + Rate * (now - s)
      BY DEF BucketInv, Spent
  <2>1. CASE v # u
    <3>1. granted'[v] = granted[v] /\ buckets'[v] = buckets[v] BY <2>1 DEF BucketInv, Buckets
    <3>2. Passed(v, s)' = Passed(v, s) BY <3>1 DEF Passed
    <3>3. Bucket(v)' = Bucket(v)
      <4>1. CASE buckets[v] = {} BY <3>1, <4>1 DEF Bucket, Full
      <4>2. ASSUME NEW w, buckets[v] = {w} PROVE Bucket(v)' = Bucket(v) BY <3>1, <4>2 DEF Bucket
      <4>3. QED BY <4>1, <4>2 DEF BucketInv, Buckets
    <3>4. Refilled(v)' = Refilled(v) BY <3>3 DEF Refilled, Full
    <3>5. QED BY <2>0, <3>2, <3>4
  <2>2. CASE v = u
    <3>1. Refilled(u)' = t BY Written DEF BucketInv
    <3>2. Passed(u, s) \in Nat BY PassedIsNat DEF BucketInv
    <3>3. CASE t = Refilled(u) /\ granted' = granted
      <4>1. Passed(u, s)' = Passed(u, s) BY <3>3 DEF Passed
      <4>2. QED BY <2>0, <2>2, <3>1, <3>3, <4>1
    <3>4. CASE t + Unit = Refilled(u) /\ granted' = [granted EXCEPT ![u] = Append(@, now)]
      <4>1. Passed(u, s)' = Passed(u, s) + 1 BY <3>4, OneMorePassed DEF BucketInv
      <4>2. Unit * (Passed(u, s) + 1) = Unit * Passed(u, s) + Unit /\ Unit * Passed(u, s) \in Nat
          BY <3>2, <1>0, Products
      <4>3. now - s \in Nat BY <1>0
      <4>4. Rate * (now - s) \in Nat BY <4>3, <1>0, Products
      <4>5. QED BY <2>0, <2>2, <3>1, <3>4, <4>1, <4>2, <4>4, <1>0
    <3>5. QED BY <3>3, <3>4
  <2>3. QED BY <2>1, <2>2
<1>3. QED BY <1>1, <1>2 DEF BucketInv

LEMMA BucketStep == ASSUME Numbers, BucketInv, [Next]_vars PROVE BucketInv'
<1>1. ASSUME UNCHANGED <<now, buckets, granted>> PROVE BucketInv'
    BY <1>1 DEF BucketInv, Buckets, Spent, Passed, Refilled, Bucket, Full
<1>2. ASSUME NEW u \in Users, Limited(u) PROVE BucketInv'
  <2>1. Refilled(u) \in 0..Full BY RefilledIsNat DEF BucketInv
  <2>2. QED BY <1>2, <2>1, WriteKeeps DEF Limited, Kept
<1>3. ASSUME NEW u \in Users, Consume(u) PROVE BucketInv'
  <2>1. Refilled(u) \in 0..Full /\ Full \in Nat BY RefilledIsNat, FullIsNat DEF BucketInv
  <2>2. Unit \in Nat /\ Refilled(u) >= Unit BY <1>3 DEF Consume, Allowed, Numbers
  <2>3. Refilled(u) - Unit \in 0..Full /\ (Refilled(u) - Unit) + Unit = Refilled(u) BY <2>1, <2>2
  <2>4. QED BY <1>3, <2>3, WriteKeeps DEF Consume, Kept
<1>4. CASE Tick BY <1>4, TickKeeps
<1>5. CASE UnknownToken \/ Done BY <1>1, <1>5 DEF UnknownToken, Done
<1>6. ASSUME NEW n \in 0..2, NEW b \in BOOLEAN, Stream(n, b) PROVE BucketInv' BY <1>1, <1>6 DEF Stream
<1>7. ASSUME NEW code \in {"text", "400", "502"}, Whole(code) PROVE BucketInv' BY <1>1, <1>7 DEF Whole
<1>8. CASE UNCHANGED vars BY <1>1, <1>8 DEF vars
<1>9. ASSUME NEW u \in Users, BadBody(u) \/ \E params \in SUBSET Optional, r \in BOOLEAN : Pass(u, params, r)
      PROVE  BucketInv'
    BY <1>3, <1>9 DEF BadBody, Pass
<1>10. QED BY <1>2, <1>4, <1>5, <1>6, <1>7, <1>8, <1>9 DEF Next

(* For any capacity, cost and refill: the limiter of rate_limiter.py:31-52    *)
(* never lets more through than a full bucket and the refill of the stretch.  *)
THEOREM LimiterHolds == ASSUME Numbers PROVE Spec => []RateHolds
<1>1. Init => BucketInv
  <2> SUFFICES ASSUME Init PROVE BucketInv OBVIOUS
  <2>0. now = 0 /\ Full \in Nat /\ Rate \in Nat /\ Unit \in Nat BY FullIsNat DEF Init, Numbers
  <2>1. Buckets BY <2>0 DEF Init, Buckets
  <2>2. ASSUME NEW u \in Users, NEW s \in 0..now
        PROVE  Unit * Passed(u, s) + Refilled(u) <= Full + Rate * (now - s)
    <3>1. {i \in DOMAIN granted[u] : granted[u][i] >= s} = {} BY DEF Init
    <3>2. Passed(u, s) = 0 BY <3>1, FS_EmptySet DEF Passed
    <3>3. Refilled(u) \in 0..Full BY <2>1, RefilledIsNat
    <3>4. s = 0 /\ Unit * 0 = 0 /\ Rate * (now - s) = 0 BY <2>0
    <3>5. QED BY <2>0, <3>2, <3>3, <3>4
  <2>3. QED BY <2>1, <2>2 DEF BucketInv, Spent
<1>2. BucketInv /\ [Next]_vars => BucketInv' BY BucketStep
<1>3. BucketInv => RateHolds
  <2> SUFFICES ASSUME BucketInv, NEW u \in Users, NEW s \in 0..now
               PROVE  Unit * Passed(u, s) <= Full + Rate * (now - s)
      BY DEF RateHolds
  <2>1. Unit * Passed(u, s) + Refilled(u) <= Full + Rate * (now - s) BY DEF BucketInv, Spent
  <2>2. Passed(u, s) \in Nat /\ Refilled(u) \in 0..Full BY PassedIsNat, RefilledIsNat DEF BucketInv
  <2>3. now - s \in Nat /\ Full \in Nat BY FullIsNat DEF BucketInv, Buckets
  <2>4. Unit * Passed(u, s) \in Nat /\ Rate * (now - s) \in Nat BY <2>2, <2>3, Products DEF Numbers
  <2>5. QED BY <2>1, <2>2, <2>3, <2>4
<1>4. QED BY <1>1, <1>2, <1>3, PTL DEF Spec
==============================================================================
