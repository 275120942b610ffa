------------------------------ MODULE Delivery ------------------------------
(* The way of a message through the gateway: a channel or a finished worker puts *)
(* it on the bus (bus/queue.py), AgentLoop.run takes one message at a time,      *)
(* while cron jobs and the heartbeat run turns of their own beside it            *)
(* (process_direct); answers, alerts and what the message tool sends go to the   *)
(* outbound queue, which one dispatcher hands to the subscribed channels.        *)
(* What a turn does to its session is SessionTurns, what its loop does AgentLoop.*)
EXTENDS Naturals, Sequences, FiniteSets

CONSTANTS Chats,        \* conversations of the channels, as channel:chat_id
          ChannelOf,    \* the channel of each conversation
          Enabled,      \* channels that are enabled and can be imported
          AllowFrom,    \* allow_from over all channels; empty lets everyone in
          MaxMessages,  \* bound: messages and direct turns in a behaviour
          MaxCalls      \* bound: calls of the message tool in a behaviour

VARIABLES inbound, outbound,   \* the two asyncio queues
          subscribed,          \* channels with a subscriber for outbound messages
          dispatching,         \* dispatch_outbound runs
          sending,             \* the message in the hands of the dispatcher, or None
          turns,               \* per runner: the message it works on, or None
          context,             \* channel and chat stored in the shared message tool
          next,                \* id of the next message or direct turn
          calls,               \* calls of the message tool so far
          delivered,           \* history: what the channels were handed, in order
          dropped              \* history: what no subscriber was found for

vars == <<inbound, outbound, subscribed, dispatching, sending, turns, context, next, calls,
          delivered, dropped>>
history == <<delivered, dropped>>
bus     == <<inbound, outbound, subscribed, dispatching, sending>>

None     == [id |-> 0]
CliChat  == "cli:direct"       \* no channel subscribes to cli or system
SysChat  == "system:system"
Places   == Chats \union {CliChat, SysChat}
Channel(p) == IF p \in Chats THEN ChannelOf[p] ELSE p
Runners  == {"loop", "cron", "heartbeat"}
Kinds    == {"chat", "command", "notice"}

Init == /\ inbound = <<>> /\ outbound = <<>> /\ delivered = <<>> /\ dropped = {}
        /\ subscribed = {} /\ dispatching = FALSE /\ sending = None
        /\ turns = [r \in Runners |-> None]
        /\ context = CliChat /\ next = 1 /\ calls = 0

(* BaseChannel.is_allowed: an empty list admits every sender. *)
Allowed(c) == AllowFrom = {} \/ c \in AllowFrom

Incoming(kind, home) == [id |-> next, kind |-> kind, home |-> home, ready |-> FALSE]

(* A message on its way out: the turn it comes from, the conversation of that    *)
(* turn, the conversation it is addressed to.                                    *)
Out(r, what, to) == [id |-> turns[r].id, by |-> r, what |-> what, home |-> turns[r].home, to |-> to]
Publish(o) == outbound' = Append(outbound, o)

(* gather() starts AgentLoop.run, start_all and dispatch_outbound in this order; *)
(* start_all subscribes every channel before its first await.                    *)
StartChannels == /\ ~dispatching
                 /\ subscribed' = Enabled
                 /\ dispatching' = TRUE
                 /\ UNCHANGED <<inbound, outbound, sending, turns, context, next, calls, history>>

(* A channel's _handle_message, or the announcement of a worker or subagent:     *)
(* channel "system", the conversation it belongs to in chat_id.                  *)
Receive(c, kind) ==
    /\ dispatching /\ next <= MaxMessages
    /\ kind \in {"chat", "command"} => ChannelOf[c] \in Enabled /\ Allowed(c)
    /\ inbound' = Append(inbound, Incoming(kind, c))
    /\ next' = next + 1
    /\ UNCHANGED <<outbound, subscribed, dispatching, sending, turns, context, calls, history>>

(* AgentLoop.run: the next message is taken when the turn before has ended. *)
Take == /\ dispatching /\ turns["loop"] = None /\ inbound # <<>>
        /\ turns' = [turns EXCEPT !["loop"] = Head(inbound)]
        /\ inbound' = Tail(inbound)
        /\ UNCHANGED <<outbound, subscribed, dispatching, sending, context, next, calls, history>>

(* process_direct, for a job that delivers to a conversation, for a job of the   *)
(* gateway itself (channel "system", its text a command) and for the heartbeat.  *)
(* The cron service is started before the channels.                              *)
BeginDirect(r, kind, home) ==
    /\ turns[r] = None /\ next <= MaxMessages
    /\ turns' = [turns EXCEPT ![r] = Incoming(kind, home)]
    /\ next' = next + 1
    /\ UNCHANGED <<bus, context, calls, history>>
CronTurn(c, kind) == BeginDirect("cron", kind, c)
SystemJob   == BeginDirect("cron", "command", SysChat)
Heartbeat   == BeginDirect("heartbeat", "chat", CliChat)

(* What comes on the channel "system" is a notice, whatever its text says; a     *)
(* chat_id without a colon is taken for one of the command line.                 *)
IsCommand(t) == t.kind = "command" /\ t.home # SysChat

(* _set_tool_context: the tools are one object for all turns. *)
SetContext(r) ==
    /\ turns[r] # None /\ ~turns[r].ready /\ ~IsCommand(turns[r])
    /\ context' = IF turns[r].home = SysChat THEN CliChat ELSE turns[r].home
    /\ turns' = [turns EXCEPT ![r].ready = TRUE]
    /\ UNCHANGED <<bus, next, calls, history>>

(* The model calls the message tool without naming a target. *)
CallMessageTool(r) ==
    /\ turns[r] # None /\ turns[r].ready /\ calls < MaxCalls
    /\ Publish(Out(r, "tool", context))
    /\ calls' = calls + 1
    /\ UNCHANGED <<inbound, subscribed, dispatching, sending, turns, context, next, history>>

(* The reply of the loop goes where the message came from, a notice's to the     *)
(* conversation in its chat_id, that of a job with payload.deliver to payload.to *)
(* and nowhere otherwise; the heartbeat's is only logged.                        *)
Finish(r) ==
    LET t == turns[r] IN
    /\ t # None /\ (t.ready \/ IsCommand(t))
    /\ turns' = [turns EXCEPT ![r] = None]
    /\ IF r = "loop" \/ (r = "cron" /\ t.kind = "deliver")
         THEN Publish(Out(r, "reply", t.home)) ELSE UNCHANGED outbound
    /\ UNCHANGED <<inbound, subscribed, dispatching, sending, context, next, calls, history>>

(* Mutated form of Fail: the apology is left to the log. *)
Fail_Silent(r) ==
    /\ turns[r] # None /\ turns' = [turns EXCEPT ![r] = None]
    /\ UNCHANGED <<bus, context, next, calls, history>>
(* An exception leaves the turn: the loop apologises on msg.channel, which is    *)
(* "system" for a notice; a direct turn raises to its caller.                    *)
Fail(r) ==
    LET t == turns[r] IN
    /\ t # None
    /\ turns' = [turns EXCEPT ![r] = None]
    /\ IF r = "loop"
         THEN Publish(Out(r, "apology", IF t.kind = "notice" THEN SysChat ELSE t.home))
         ELSE UNCHANGED outbound
    /\ UNCHANGED <<inbound, subscribed, dispatching, sending, context, next, calls, history>>

(* dispatch_outbound takes one message and awaits its subscribers in turn. *)
Dispatch ==
    /\ dispatching /\ sending = None /\ outbound # <<>>
    /\ outbound' = Tail(outbound)
    /\ LET o == Head(outbound) IN
       IF Channel(o.to) \in subscribed
         THEN sending' = o /\ UNCHANGED dropped
         ELSE dropped' = dropped \union {o} /\ UNCHANGED sending
    /\ UNCHANGED <<inbound, subscribed, dispatching, turns, context, next, calls, delivered>>

(* send() returned or raised: an error of one channel is logged, and the         *)
(* dispatcher goes on.                                                           *)
Sent == /\ sending # None
        /\ delivered' = Append(delivered, sending)
        /\ sending' = None
        /\ UNCHANGED <<inbound, outbound, subscribed, dispatching, turns, context, next, calls, dropped>>

Next == \/ StartChannels \/ Take \/ Dispatch \/ Sent
        \/ \E c \in Chats, k \in Kinds : Receive(c, k)
        \/ \E c \in Chats, k \in {"deliver", "chat"} : CronTurn(c, k)
        \/ SystemJob \/ Heartbeat
        \/ \E r \in Runners : SetContext(r) \/ CallMessageTool(r) \/ Finish(r) \/ Fail(r)

(* The gateway starts its parts; turns end, by the limit of their iterations and *)
(* the time limit of every model call; send() returns.                           *)
Fairness == /\ WF_vars(StartChannels) /\ WF_vars(Take) /\ WF_vars(Dispatch) /\ WF_vars(Sent)
            /\ \A r \in Runners : WF_vars(SetContext(r)) /\ WF_vars(Finish(r) \/ Fail(r))
Spec == Init /\ [][Next]_vars /\ Fairness
-----------------------------------------------------------------------------
InInbound(id) == \E i \in DOMAIN inbound : inbound[i].id = id /\ inbound[i].kind # "notice"
AnswerReached(id) == \E i \in DOMAIN delivered :
                        /\ delivered[i].id = id /\ delivered[i].what # "tool"
                        /\ delivered[i].to = delivered[i].home

(* Whoever was let in gets an answer or the apology in his own conversation,     *)
(* whatever jobs, heartbeats, notices and failing turns come between: the loop   *)
(* and the dispatcher serve everybody, one after the other.                      *)
EveryoneAnswered == \A id \in 1..MaxMessages : InInbound(id) ~> AnswerReached(id)

(* "Names of tools that need channel/chat_id routing context set per message"    *)
(* (loop.py:534): what a turn sends without naming a target goes to the          *)
(* conversation of that turn.                                                    *)
(* Not kept: a cron turn that starts meanwhile changes the shared context        *)
(* (SetContext).                                                                 *)
ToolMessagesGoHome == \A i \in DOMAIN outbound :
    outbound[i].what = "tool" /\ outbound[i].home \in Chats => outbound[i].to = outbound[i].home

(* The text of a job is a command: it is dispatched as one and not given to the  *)
(* model as a notice to talk about.                                              *)
(* Not kept: what comes on the channel system is a notice, whatever its text.    *)
ScheduledCommandsRun == \A r \in Runners : turns[r] # None /\ turns[r].kind = "command"
                                             => ~turns[r].ready

=============================================================================
