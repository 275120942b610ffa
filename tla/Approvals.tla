----------------------------- MODULE Approvals ------------------------------
(* Who may let a high-risk call run: the prompts of the gate (middleware/        *)
(* hitl.py), answered in the chat they came from or by a master identity in its  *)
(* own chat through a short id (loop.py), the handler that runs the call and     *)
(* resumes the turn (state_handler.py), and the rules an "always" leaves         *)
(* (hitl_store.py). Each chat has a lock; a master's answer is handled under the *)
(* lock of the master's chat.                                                    *)
EXTENDS Naturals, FiniteSets, Sequences, TLAPS

CONSTANTS Chats, Master,  \* sessions, and the one of them that is a master identity
          Calls,          \* what a model may call: records [tool, action, context]
          Short(_),       \* the last characters of a request's call id
          MaxRules,       \* 50 in the code
          MaxRequests,    \* bound: prompts
          MaxMessages     \* bound: messages

VARIABLES requests,       \* prompts so far, in order: [chat, call]
          pending,        \* pending_approval_task of each session, 0 none
          approvals,      \* pending_approvals: set of [short, chat]
          rules,          \* the rules of the store
          inbox,          \* messages on their way: [id, chat, verb, short, seen], seen
                          \* the prompts sent before it was written
          written,
          task,           \* what each chat's lock covers: Idle, a turn, or a call that
                          \* runs: [kind, own], own: it answers the chat's own request
          runs,           \* history: per request how often its call was started
          asked,          \* history: the short ids of the answers that started calls
          promised,       \* history: calls answered with "always"
          askedAgain      \* history: prompts for such calls afterwards

history == <<runs, asked, promised, askedAgain>>
vars == <<requests, pending, approvals, rules, inbox, written, task, history>>

Idle      == [kind |-> "idle", own |-> FALSE]
Turn(own) == [kind |-> "turn", own |-> own]
Run(own)  == [kind |-> "run", own |-> own]

Init == /\ requests = <<>> /\ pending = [c \in Chats |-> 0] /\ approvals = {} /\ rules = {}
        /\ inbox = {} /\ written = 0 /\ task = [c \in Chats |-> Idle]
        /\ runs = [r \in 1..MaxRequests |-> 0] /\ asked = {} /\ promised = {} /\ askedAgain = {}

(* A message: a task, or an answer with or without a short id. *)
Say(c, verb, short) ==
    /\ written < MaxMessages /\ written' = written + 1
    /\ verb = "task" => short = 0
    /\ short \in {0} \union {Short(r) : r \in DOMAIN requests}
    /\ inbox' = inbox \union {[id |-> written', chat |-> c, verb |-> verb, short |-> short,
                               seen |-> Len(requests)]}
    /\ UNCHANGED <<requests, pending, approvals, rules, task, history>>

(* is_approved: a rule of the tool, of the action if it names one, whose context *)
(* the arguments match.                                                          *)
Allowed(call) == \E x \in rules : /\ x.tool = call.tool
                                  /\ x.action \in {"", call.action}
                                  /\ x.context \in {"", call.context}
(* The rule an "always" makes of a call: bound to the recipient of a mail and to *)
(* the command of exec, else to the tool and action alone. add_approval takes    *)
(* none for exec without an action (it raises), none above the limit, none       *)
(* beside a rule of the tool without action or an equal one.                     *)
Rule(call)     == IF call.tool = "exec" \/ call.action = "send_email" THEN call
                  ELSE [call EXCEPT !.context = ""]
Refuses(call)  == call.tool = "exec" /\ call.action = ""
Covered(call)  == \E x \in rules : x.tool = call.tool /\ (x.action = "" \/ x = Rule(call))
WithRule(call) == IF Cardinality(rules) >= MaxRules \/ Covered(call) THEN rules
                  ELSE rules \union {Rule(call)}

(* The gate: a call no rule allows is put to the user. The request takes the     *)
(* place of one that still waits, and its short id that of an equal one.         *)
Suspend(c, call) ==
    LET r == Len(requests) + 1 IN
    /\ ~Allowed(call) /\ r <= MaxRequests
    /\ requests' = Append(requests, [chat |-> c, call |-> call])
    /\ pending' = [pending EXCEPT ![c] = r]
    /\ approvals' = {a \in approvals : a.short # Short(r)} \union {[short |-> Short(r), chat |-> c]}
    /\ askedAgain' = IF call \in promised THEN askedAgain \union {r} ELSE askedAgain

(* A turn of the agent loop ends, or is suspended at a call. After the answer to *)
(* the chat's own request the mapping of the request that now waits is removed,  *)
(* not the mapping of the one that was answered.                                 *)
TurnEnds(c) ==
    /\ task[c].kind \in {"turn", "suspended"} /\ task' = [task EXCEPT ![c] = Idle]
    /\ approvals' = IF task[c].own /\ pending[c] # 0
                      THEN {a \in approvals : a.short # Short(pending[c])} ELSE approvals
    /\ UNCHANGED <<requests, pending, rules, inbox, written, history>>
TurnSuspends(c, call) ==
    /\ task[c].kind = "turn" /\ task' = [task EXCEPT ![c].kind = "suspended"]
    /\ Suspend(c, call)
    /\ UNCHANGED <<rules, inbox, written, runs, asked, promised>>

Stale(m, c) == m.seen < pending[c]

(* Mutated form of Cleared. *)
Cleared_Later(c) == pending
Cleared(c) == [pending EXCEPT ![c] = 0]
(* handle_pending_approval on the session of chat c, in the task of m's chat:    *)
(* the request is cleared before anything else happens. An "always" for exec     *)
(* raises out of the handler. A refusal resumes the turn without the call.       *)
Answer(m, c, left) ==
    LET r    == pending[c]
        call == requests[r].call
        raises == m.verb = "always" /\ Refuses(call) IN
    /\ pending' = Cleared(c)
    /\ approvals' = left
    /\ rules' = IF m.verb = "always" /\ ~raises THEN WithRule(call) ELSE rules
    /\ promised' = IF m.verb = "always" THEN promised \union {call} ELSE promised
    /\ IF m.verb \in {"approve", "always"} /\ ~raises
         THEN /\ task' = [task EXCEPT ![m.chat] = Run(m.chat = c)]
              /\ runs' = [runs EXCEPT ![r] = @ + 1]
              /\ asked' = asked \union {[request |-> r, short |-> m.short]}
         ELSE /\ task' = [task EXCEPT ![m.chat] = IF raises THEN Idle ELSE Turn(m.chat = c)]
              /\ UNCHANGED <<runs, asked>>
    /\ UNCHANGED <<requests, askedAgain, written>>

(* The remote interception: two words, the first an answer, the second a short   *)
(* id that is mapped, from a master's chat, to a session with a request. The     *)
(* mapping goes before the handler looks whether the message is older.           *)
Target(m)  == (CHOOSE a \in approvals : a.short = m.short).chat
Remote(m)  == /\ m.chat = Master /\ m.verb \in {"approve", "always", "reject"}
              /\ \E a \in approvals : a.short = m.short
              /\ pending[Target(m)] # 0
Unmapped(m) == IF Remote(m) THEN {a \in approvals : a.short # m.short} ELSE approvals

(* What _core_process_message does with a message that got its chat's lock: the  *)
(* remote request, the chat's own request whatever short id the answer names, or *)
(* a turn; an answer older than the prompt is no answer.                         *)
Handle(m) ==
    /\ task[m.chat] = Idle /\ inbox' = inbox \ {m}
    /\ \A n \in inbox : n.chat = m.chat => m.id <= n.id
    /\ IF Remote(m) /\ ~Stale(m, Target(m)) THEN Answer(m, Target(m), Unmapped(m))
       ELSE IF pending[m.chat] # 0 /\ ~Stale(m, m.chat) THEN Answer(m, m.chat, Unmapped(m))
       ELSE /\ task' = [task EXCEPT ![m.chat] = Turn(FALSE)] /\ approvals' = Unmapped(m)
            /\ UNCHANGED <<requests, pending, rules, written, history>>

(* The call has run and the turn is resumed: in the session of the message, also *)
(* for a request of another session.                                             *)
RunEnds(c) ==
    /\ task[c].kind = "run" /\ task' = [task EXCEPT ![c].kind = "turn"]
    /\ UNCHANGED <<requests, pending, approvals, rules, inbox, written, history>>

Next == \/ \E c \in Chats, v \in {"task", "approve", "always", "reject"}, s \in 0..MaxRequests : Say(c, v, s)
        \/ \E c \in Chats : TurnEnds(c) \/ RunEnds(c) \/ \E call \in Calls : TurnSuspends(c, call)
        \/ \E m \in inbox : Handle(m)
Spec == Init /\ [][Next]_vars
-----------------------------------------------------------------------------
(* A request is answered in its chat and by a master at the same time, each      *)
(* under a lock of its own: its call is started at most once.                    *)
RunOnce == \A r \in 1..MaxRequests : runs[r] <= 1

(* loop.py:1401 "Always remove mapped short_id on any local action", so that an  *)
(* answer with a short id lets only the request run that was shown with it.      *)
(* Not kept: a request of the chat itself is answered, whatever short id is      *)
(* named.                                                                        *)
ShortIdNamesRequest == \A x \in asked : x.short # 0 => x.short = Short(x.request)

(* hitl.py:103 "Always ... (allow this and future identical actions)".            *)
(* Not kept: exec raises, a full store and a rule of the tool take none.         *)
AlwaysMeansAlways == askedAgain = {}
-----------------------------------------------------------------------------
(* Why a call is started once: a request waits in its own chat only, and while   *)
(* it waits its call has not been started.                                       *)
Shapes == /\ requests \in Seq([chat : Chats, call : Calls]) /\ Len(requests) <= MaxRequests
          /\ pending \in [Chats -> 0..Len(requests)]
          /\ runs \in [1..MaxRequests -> {0, 1}]
          /\ \A a \in approvals : a.chat \in Chats
          /\ \A m \in inbox : m.chat \in Chats
WaitsAtHome   == \A c \in Chats : pending[c] # 0 => requests[pending[c]].chat = c
WaitsUnstarted == \A c \in Chats : pending[c] # 0 => runs[pending[c]] = 0
ComeUnstarted == \A r \in 1..MaxRequests : r > Len(requests) => runs[r] = 0
AnswerInv == Shapes /\ WaitsAtHome /\ WaitsUnstarted /\ ComeUnstarted

(* The prompt of a suspended call is new, and takes the place of the one before  *)
(* (hitl.py:77-94).                                                              *)
LEMMA NewPrompt ==
    ASSUME MaxRequests \in Nat, AnswerInv, NEW c \in Chats, NEW call \in Calls, TurnSuspends(c, call)
    PROVE  AnswerInv'
<1> DEFINE r == Len(requests) + 1
<1>1. /\ r \in 1..MaxRequests /\ requests' = Append(requests, [chat |-> c, call |-> call])
      /\ pending' = [pending EXCEPT ![c] = r] /\ UNCHANGED <<inbox, runs>>
      /\ approvals' = {a \in approvals : a.short # Short(r)} \union {[short |-> Short(r), chat |-> c]}
    BY DEF TurnSuspends, Suspend, AnswerInv, Shapes
<1>2. /\ requests' \in Seq([chat : Chats, call : Calls]) /\ Len(requests') = r
      /\ requests'[r].chat = c
      /\ \A i \in 1..Len(requests) : requests'[i] = requests[i]
    BY <1>1 DEF AnswerInv, Shapes
<1>3. Shapes'
  <2>1. pending' \in [Chats -> 0..Len(requests')]
      BY <1>1, <1>2 DEF AnswerInv, Shapes
  <2>2. \A a \in approvals' : a.chat \in Chats
      BY <1>1 DEF AnswerInv, Shapes
  <2>3. QED BY <1>1, <1>2, <2>1, <2>2 DEF AnswerInv, Shapes
<1>4. runs[r] = 0 BY <1>1 DEF AnswerInv, ComeUnstarted
<1>5. WaitsAtHome'
  <2> SUFFICES ASSUME NEW d \in Chats, pending'[d] # 0 PROVE requests'[pending'[d]].chat = d
      BY DEF WaitsAtHome
  <2>1. CASE d = c BY <2>1, <1>1, <1>2 DEF AnswerInv, Shapes
  <2>2. CASE d # c
    <3>1. pending'[d] = pending[d] /\ pending[d] \in 1..Len(requests)
        BY <2>2, <1>1 DEF AnswerInv, Shapes
    <3>2. QED BY <3>1, <1>2 DEF AnswerInv, WaitsAtHome
  <2>3. QED BY <2>1, <2>2
<1>6. WaitsUnstarted' BY <1>1, <1>4 DEF AnswerInv, Shapes, WaitsUnstarted
<1>7. ComeUnstarted' BY <1>1, <1>2 DEF AnswerInv, Shapes, ComeUnstarted
<1>8. QED BY <1>3, <1>5, <1>6, <1>7 DEF AnswerInv

(* An answer clears the request of its chat before the call starts               *)
(* (state_handler.py:187): no other chat's request is that one.                  *)
LEMMA AnswerStartsOne ==
    ASSUME MaxRequests \in Nat, AnswerInv, NEW m \in inbox, NEW c \in Chats, pending[c] # 0,
           NEW left \in SUBSET approvals, Answer(m, c, left), inbox' = inbox \ {m}
    PROVE  AnswerInv'
<1> DEFINE r == pending[c]
<1>1. /\ pending' = [pending EXCEPT ![c] = 0] /\ requests' = requests /\ approvals' = left
      /\ \/ runs' = [runs EXCEPT ![r] = @ + 1]
         \/ runs' = runs
    BY DEF Answer, Cleared
<1>2. r \in 1..Len(requests) /\ r \in 1..MaxRequests /\ runs[r] = 0
  <2>1. Len(requests) \in Nat /\ Len(requests) <= MaxRequests /\ r \in 0..Len(requests)
      BY DEF AnswerInv, Shapes
  <2>2. QED BY <2>1 DEF AnswerInv, WaitsUnstarted
<1>3. runs' \in [1..MaxRequests -> {0, 1}] /\ \A i \in 1..MaxRequests : i # r => runs'[i] = runs[i]
  <2>1. runs \in [1..MaxRequests -> {0, 1}] BY DEF AnswerInv, Shapes
  <2>2. CASE runs' = runs BY <2>1, <2>2
  <2>3. CASE runs' = [runs EXCEPT ![r] = @ + 1]
    <3> HIDE DEF r
    <3>1. runs' = [runs EXCEPT ![r] = 1] BY <1>2, <2>1, <2>3
    <3>2. QED BY <1>2, <2>1, <3>1
  <2>4. QED BY <1>1, <2>2, <2>3
<1>4. Shapes' BY <1>1, <1>3 DEF AnswerInv, Shapes
<1>5. WaitsAtHome' BY <1>1 DEF AnswerInv, Shapes, WaitsAtHome
<1>6. WaitsUnstarted'
  <2> SUFFICES ASSUME NEW d \in Chats, pending'[d] # 0 PROVE runs'[pending'[d]] = 0
      BY DEF WaitsUnstarted
  <2>1. d # c /\ pending'[d] = pending[d] BY <1>1 DEF AnswerInv, Shapes
  <2>2. requests[pending[d]].chat = d /\ requests[r].chat = c
      BY <2>1 DEF AnswerInv, WaitsAtHome
  <2>3. pending[d] \in 1..MaxRequests /\ pending[d] # r
      BY <2>1, <2>2 DEF AnswerInv, Shapes
  <2>4. runs[pending[d]] = 0 BY <2>1 DEF AnswerInv, WaitsUnstarted
  <2>5. QED BY <2>1, <2>3, <2>4, <1>3
<1>7. ComeUnstarted'
    BY <1>1, <1>2, <1>3 DEF AnswerInv, Shapes, ComeUnstarted
<1>8. QED BY <1>4, <1>5, <1>6, <1>7 DEF AnswerInv

LEMMA AnswerStep ==
    ASSUME MaxRequests \in Nat, AnswerInv, [Next]_vars PROVE AnswerInv'
<1> USE DEF history
<1>1. ASSUME NEW c \in Chats, NEW v, NEW s, Say(c, v, s) PROVE AnswerInv'
    BY <1>1 DEF Say, AnswerInv, Shapes, WaitsAtHome, WaitsUnstarted, ComeUnstarted
<1>2. ASSUME NEW c \in Chats, TurnEnds(c) \/ RunEnds(c) PROVE AnswerInv'
    BY <1>2 DEF TurnEnds, RunEnds, AnswerInv, Shapes, WaitsAtHome, WaitsUnstarted, ComeUnstarted
<1>3. ASSUME NEW c \in Chats, NEW call \in Calls, TurnSuspends(c, call) PROVE AnswerInv'
    BY <1>3, NewPrompt
<1>4. ASSUME NEW m \in inbox, Handle(m) PROVE AnswerInv'
  <2>1. inbox' = inbox \ {m} /\ Unmapped(m) \in SUBSET approvals /\ m.chat \in Chats
      BY <1>4 DEF Handle, Unmapped, AnswerInv, Shapes
  <2>2. CASE Remote(m) /\ Answer(m, Target(m), Unmapped(m))
    <3>1. Target(m) \in Chats /\ pending[Target(m)] # 0
        BY <2>2 DEF Remote, Target, AnswerInv, Shapes
    <3>2. QED BY <2>1, <2>2, <3>1, AnswerStartsOne
  <2>3. CASE pending[m.chat] # 0 /\ Answer(m, m.chat, Unmapped(m))
      BY <2>1, <2>3, AnswerStartsOne
  <2>4. CASE approvals' = Unmapped(m) /\ UNCHANGED <<requests, pending, rules, written, history>>
      BY <2>1, <2>4 DEF AnswerInv, Shapes, WaitsAtHome, WaitsUnstarted, ComeUnstarted
  <2>5. QED BY <1>4, <2>2, <2>3, <2>4 DEF Handle
<1>5. CASE UNCHANGED vars
    BY <1>5 DEF vars, AnswerInv, Shapes, WaitsAtHome, WaitsUnstarted, ComeUnstarted
<1>6. QED BY <1>1, <1>2, <1>3, <1>4, <1>5 DEF Next

(* Whatever the chats, calls and short ids are, and however the answers of the   *)
(* chat and of the master overlap, the call of a request is started at most once *)
(* (state_handler.py:174-259, loop.py:1380-1406).                                *)
THEOREM RequestsRunOnce == ASSUME MaxRequests \in Nat PROVE Spec => []RunOnce
<1>1. Init => AnswerInv
    BY DEF Init, AnswerInv, Shapes, WaitsAtHome, WaitsUnstarted, ComeUnstarted
<1>2. AnswerInv /\ [Next]_vars => AnswerInv' BY AnswerStep
<1>3. AnswerInv => RunOnce
    <2>1. runs \in [1..MaxRequests -> {0, 1}] => RunOnce BY DEF RunOnce
    <2>2. QED BY <2>1 DEF AnswerInv, Shapes
<1>4. QED BY <1>1, <1>2, <1>3, PTL DEF Spec
=============================================================================
