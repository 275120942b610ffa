----------------------------- MODULE PushChannels -----------------------------
(* Feishu, WeCom and QQ (channels/feishu.py, wecom.py, qq.py): services that     *)
(* push messages over a socket, and push again what they think unread. Every     *)
(* push is a task of its own, which fetches the content of its message while     *)
(* others go on, and gives it to the agent; answers go back by the chat.         *)
EXTENDS Naturals, Sequences, SequencesExt

CONSTANTS Users, AllowFrom,   \* senders, and those that are let in, {} for all
          Window,             \* ids a channel remembers
          MaxMessages, MaxPushes, MaxStarts

VARIABLES service,        \* the channel of a behaviour
          messages,       \* [from, kind] of the messages of the service
          mode,           \* off, connected, or waiting to connect again
          seen,           \* _processed_message_ids
          tasks,          \* message and the stage of its task
          frames,         \* WeCom: the last frame of each chat
          given, answers, \* messages of the agent, answers: message, chat, frame
          pushes, starts

vars == <<service, messages, mode, seen, tasks, frames, given, answers, pushes, starts>>

Services == {"feishu", "wecom", "qq"}
Kinds    == {"text", "empty", "bot", "image", "audio"}
Sender(m) == messages[m].from
Kind(m)   == messages[m].kind

Init ==
    /\ service \in Services /\ messages = <<>> /\ mode = "off" /\ seen = <<>>
    /\ tasks = {} /\ frames = [u \in Users |-> 0] /\ given = <<>> /\ answers = {}
    /\ pushes = 0 /\ starts = 0

UserWrites(u, k) ==
    /\ Len(messages) < MaxMessages /\ messages' = Append(messages, [from |-> u, kind |-> k])
    /\ UNCHANGED <<service, mode, seen, tasks, frames, given, answers, pushes, starts>>

(* start(): the configuration is whole. The thread of Feishu, the client of     *)
(* WeCom and the task of QQ connect again after a pause, until stop().           *)
Connect ==
    /\ mode \in {"off", "waiting"} /\ starts < MaxStarts
    /\ mode' = "connected" /\ starts' = starts + 1
    /\ UNCHANGED <<service, messages, seen, tasks, frames, given, answers, pushes>>
Disconnect(by) ==
    /\ mode # "off" /\ mode' = IF by = "stop" THEN "off" ELSE "waiting"
    /\ UNCHANGED <<service, messages, seen, tasks, frames, given, answers, pushes, starts>>
(* The process ends: what it remembered is gone.                                 *)
Crash ==
    /\ mode # "off" /\ mode' = "off" /\ seen' = <<>> /\ tasks' = {}
    /\ frames' = [u \in Users |-> 0] /\ given' = <<>> /\ answers' = {}
    /\ UNCHANGED <<service, messages, pushes, starts>>

Remember(m) == LET s == Append(seen, m) IN
               IF Len(s) > Window THEN Tail(s) ELSE s

(* What the task of a message awaits first: Feishu its reaction, then an image   *)
(* or a recording, whose text it asks for; WeCom a file; QQ nothing.             *)
FeishuFirst(m) == "reaction"
FeishuThen(m, stage) ==
    CASE stage = "reaction" /\ Kind(m) \in {"image", "audio"} -> "download"
      [] stage = "download" /\ Kind(m) = "audio" -> "transcribe"
      [] OTHER -> "give"
WecomFirst(m) == IF Kind(m) = "image" THEN "download" ELSE "give"
QqFirst(m)    == "give"
First(m) == CASE service = "feishu" -> FeishuFirst(m)
              [] service = "wecom"  -> WecomFirst(m)
              [] OTHER              -> QqFirst(m)

(* The first steps of _on_message and _process_message, up to an await: what the *)
(* channel remembers is dropped, the rest is remembered first. QQ's own messages *)
(* and WeCom's are not pushed to them.                                           *)
Push(m) ==
    /\ mode = "connected" /\ pushes < MaxPushes /\ pushes' = pushes + 1
    /\ m \in DOMAIN messages /\ (Kind(m) = "bot" => service = "feishu")
    /\ IF Contains(seen, m) THEN UNCHANGED <<seen, tasks>>
       ELSE /\ seen' = Remember(m)
            /\ tasks' = IF Kind(m) = "bot" THEN tasks
                        ELSE tasks \union {[msg |-> m, stage |-> First(m)]}
    /\ UNCHANGED <<service, messages, mode, frames, given, answers, starts>>

(* An await ends. A reaction or download that failed is told in the content; an  *)
(* exception of the transcription ends the task.                                 *)
Fetched(t) ==
    /\ t \in tasks /\ t.stage # "give"
    /\ \/ tasks' = (tasks \ {t}) \union
                   {[t EXCEPT !.stage = IF service = "feishu" THEN FeishuThen(t.msg, t.stage) ELSE "give"]}
       \/ t.stage = "transcribe" /\ tasks' = tasks \ {t}
    /\ UNCHANGED <<service, messages, mode, seen, frames, given, answers, pushes, starts>>

Allowed(u) == AllowFrom = {} \/ u \in AllowFrom
(* _handle_message, unless the content is empty. WeCom keeps the frame before it *)
(* asks who the sender is.                                                       *)
Give(t) ==
    /\ t \in tasks /\ t.stage = "give" /\ tasks' = tasks \ {t}
    /\ IF Kind(t.msg) = "empty" THEN UNCHANGED <<frames, given>>
       ELSE /\ frames' = IF service = "wecom" THEN [frames EXCEPT ![Sender(t.msg)] = t.msg] ELSE frames
            /\ given' = IF Allowed(Sender(t.msg)) THEN Append(given, t.msg) ELSE given
    /\ UNCHANGED <<service, messages, mode, seen, answers, pushes, starts>>

(* send(): Feishu uploads the pictures, leaves out those that fail, and sends    *)
(* one card to the chat; WeCom answers the last frame of the chat, and only logs *)
(* when it has none; QQ writes to the user. A request that fails is logged.      *)
FeishuSend(m) == [msg |-> m, to |-> Sender(m), frame |-> 0]
WecomSend(m)  == [msg |-> m, to |-> Sender(m), frame |-> frames[Sender(m)]]
QqSend(m)     == [msg |-> m, to |-> Sender(m), frame |-> 0]
Answer(m, ok) ==
    /\ starts > 0 /\ Contains(given, m) /\ \A a \in answers : a.msg # m
    /\ (service = "wecom" /\ ok => frames[Sender(m)] # 0)
    /\ answers' = IF ~ok THEN answers
                  ELSE answers \union {CASE service = "feishu" -> FeishuSend(m)
                                         [] service = "wecom"  -> WecomSend(m)
                                         [] OTHER              -> QqSend(m)}
    /\ UNCHANGED <<service, messages, mode, seen, tasks, frames, given, pushes, starts>>

Next ==
    \/ \E u \in Users, k \in Kinds : UserWrites(u, k)
    \/ Connect \/ Crash \/ \E by \in {"stop", "error"} : Disconnect(by)
    \/ \E m \in 1..MaxMessages : Push(m)
    \/ \E t \in tasks : Fetched(t) \/ Give(t)
    \/ \E m \in DOMAIN messages, ok \in BOOLEAN : Answer(m, ok)

Spec == Init /\ [][Next]_vars
------------------------------------------------------------------------------
(* The channels implement Inbox: a message that is pushed again while its task   *)
(* waits for a download, after a reconnection or much later is given once.       *)
Box == INSTANCE Inbox WITH Ids <- 1..MaxMessages, posted <- DOMAIN messages, given <- given
PushInbox == Box!Spec
==============================================================================
