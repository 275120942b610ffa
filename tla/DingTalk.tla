------------------------------- MODULE DingTalk -------------------------------
(* DingTalk (channels/dingtalk.py): a stream of callbacks in, posts with a       *)
(* cached access token out. The outbound dispatcher sends one message at a time. *)
EXTENDS Naturals, TLAPS

CONSTANTS Users, AllowFrom,
          Lives,        \* expireIn of the tokens the service gives out
          Margin,       \* 60 seconds
          Delay,        \* the longest a request or an answer takes
          MaxTime, MaxMessages

VARIABLES mode,         \* off, linked, apart (waits five seconds)
          now,
          token,        \* [end, expiry]: when it ends, until when it is used here
          sender,       \* [at, since, end]: where send() is, and the token it carries
          tasks,        \* callbacks that were answered and still run
          acked, given

vars == <<mode, now, token, sender, tasks, acked, given>>

Idle == [at |-> "idle", since |-> 0, end |-> 0]
Init == /\ mode = "off" /\ now = 0 /\ token = [end |-> 0, expiry |-> 0] /\ sender = Idle
        /\ tasks = {} /\ acked = {} /\ given = {}

Start == /\ mode = "off" /\ mode' = "linked"
         /\ UNCHANGED <<now, token, sender, tasks, acked, given>>
(* The stream ends, with or without an error, and is started again.              *)
Link  == /\ mode \in {"linked", "apart"} /\ mode' = IF mode = "linked" THEN "apart" ELSE "linked"
         /\ UNCHANGED <<now, token, sender, tasks, acked, given>>
(* The client of the posts is closed and what callbacks left behind cancelled.   *)
Stop  == /\ mode # "off" /\ mode' = "off" /\ tasks' = {}
         /\ UNCHANGED <<now, token, sender, acked, given>>

(* process: a callback is answered at once, and with OK even when it fails; one  *)
(* with text is left to a task.                                                  *)
Process(i, u, readable) ==
    /\ mode = "linked" /\ i \notin {m[1] : m \in acked} /\ acked' = acked \union {<<i, u>>}
    /\ tasks' = IF readable THEN tasks \union {<<i, u>>} ELSE tasks
    /\ UNCHANGED <<mode, now, token, sender, given>>
OnMessage(m) ==
    /\ m \in tasks /\ tasks' = tasks \ {m}
    /\ given' = IF m[2] \in AllowFrom THEN given \union {m} ELSE given
    /\ UNCHANGED <<mode, now, token, sender, acked>>

(* Time passes, but no request stays on its way longer than Delay.               *)
Tick == /\ now < MaxTime /\ (sender.at # "idle" => now < sender.since + Delay) /\ now' = now + 1
        /\ UNCHANGED <<mode, token, sender, tasks, acked, given>>

(* _get_access_token: the cached token while it is used here, a new one otherwise. *)
(* A channel that never started has neither token nor client.                    *)
Fresh == now < token.expiry
Send == /\ sender.at = "idle" /\ (Fresh \/ mode # "off")
        /\ sender' = IF Fresh THEN (IF mode = "off" THEN Idle
                                    ELSE [at |-> "post", since |-> now, end |-> token.end])
                     ELSE [at |-> "ask", since |-> now, end |-> 0]
        /\ UNCHANGED <<mode, now, token, tasks, acked, given>>
(* The service gives out a token, or the request fails.                          *)
Grant(life) == /\ sender.at = "ask"
               /\ sender' = [at |-> "answer", since |-> now, end |-> now + life]
               /\ UNCHANGED <<mode, now, token, tasks, acked, given>>
(* Mutated form of Used: the margin is added to the life of the token.           *)
Used_Longer(life) == now + life + Margin
Used(life) == IF now + life > Margin THEN now + life - Margin ELSE 0
Granted(life) ==
    /\ sender.at = "answer" /\ token' = [end |-> sender.end, expiry |-> Used(life)]
    /\ sender.end = sender.since + life
    /\ sender' = IF mode = "off" THEN Idle
                 ELSE [at |-> "post", since |-> now, end |-> sender.end]
    /\ UNCHANGED <<mode, now, tasks, acked, given>>
(* The post is taken or refused, or a request fails: the message is not retried. *)
Ends == /\ sender.at # "idle" /\ sender' = Idle
        /\ UNCHANGED <<mode, now, token, tasks, acked, given>>

Next ==
    \/ Start \/ Link \/ Stop \/ Tick \/ Send \/ Ends
    \/ \E i \in 1..MaxMessages, u \in Users, b \in BOOLEAN : Process(i, u, b)
    \/ \E m \in tasks : OnMessage(m)
    \/ \E life \in Lives : Grant(life) \/ Granted(life)

Spec == Init /\ [][Next]_vars
------------------------------------------------------------------------------
(* "Expire 60s early to be safe" (dingtalk.py:191): a post never arrives with a  *)
(* token that has ended, though the clock of the cache starts only when the      *)
(* answer is here and the post takes time as well.                               *)
TokenHolds == sender.at = "post" => now <= sender.end

(* A callback that was answered with OK is not sent again: what a stop cancels   *)
(* is lost. Until then every message of an allowed sender is given or waits.     *)
AckedIsGiven ==
    \A m \in acked : m[2] \in AllowFrom => m \in given \union tasks
------------------------------------------------------------------------------
(* The proof of TokenHolds: the cached expiry lies far enough before the end     *)
(* for the delay of the answer and that of the post, and a token just given out  *)
(* outlives both.                                                                *)
LiveTokens == \A life \in Lives : life \in Nat /\ life >= 2 * Delay

Sender == [at : {"idle", "ask", "answer", "post"}, since : Nat, end : Nat]
Types  == /\ now \in Nat /\ sender \in Sender /\ token \in [end : Nat, expiry : Nat]

Punctual == sender.at # "idle" => sender.since <= now /\ now <= sender.since + Delay
Cached   == token.expiry # 0 => token.expiry + Delay <= token.end
Answered == sender.at = "answer" => sender.end >= sender.since + 2 * Delay
Posted   == sender.at = "post" => sender.since + Delay <= sender.end

TokenInv == Types /\ Punctual /\ Cached /\ Answered /\ Posted

(* No post carries a token that has ended, for any users, lives and times, when  *)
(* the margin covers two delays and no token lives shorter than that             *)
(* (_get_access_token and send, dingtalk.py:171-235).                            *)
THEOREM NoEndedToken ==
    ASSUME Delay \in Nat, Margin \in Nat, Margin >= 2 * Delay, LiveTokens
    PROVE  Spec => []TokenHolds
<1> USE DEF TokenInv, Types, Sender, Punctual, Cached, Answered, Posted
<1>1. Init => TokenInv
  BY DEF Init, Idle
<1>2. TokenInv /\ [Next]_vars => TokenInv'
  <2> SUFFICES ASSUME TokenInv, [Next]_vars PROVE TokenInv'
    OBVIOUS
  <2>1. CASE UNCHANGED <<now, token, sender>>
    BY <2>1
  <2>2. CASE Tick
    BY <2>2 DEF Tick
  <2>3. CASE Send
    BY <2>3 DEF Send, Fresh, Idle
  <2>4. CASE Ends
    BY <2>4 DEF Ends, Idle
  <2>5. ASSUME NEW life \in Lives, Grant(life) PROVE TokenInv'
    BY <2>5 DEF Grant, LiveTokens
  <2>6. ASSUME NEW life \in Lives, Granted(life) PROVE TokenInv'
    <3>1. life \in Nat /\ sender.end = sender.since + life /\ now <= sender.since + Delay
      BY <2>6 DEF Granted, LiveTokens
    <3>2. /\ Used(life) \in Nat
          /\ Used(life) # 0 => Used(life) + Delay <= sender.end
      BY <3>1 DEF Used
    <3> QED
      BY <2>6, <3>1, <3>2 DEF Granted, Idle
  <2> QED
    BY <2>1, <2>2, <2>3, <2>4, <2>5, <2>6
       DEF Next, vars, Start, Link, Stop, Process, OnMessage
<1>3. TokenInv => TokenHolds
  BY DEF TokenHolds
<1> QED
  BY <1>1, <1>2, <1>3, PTL DEF Spec
==============================================================================
