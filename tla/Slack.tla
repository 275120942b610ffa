-------------------------------- MODULE Slack ---------------------------------
(* Slack (channels/slack.py) in socket mode: the events of a post, those the     *)
(* channel gives to the agent, and the threads the answers go to.                *)
EXTENDS Naturals, Sequences, FiniteSets

CONSTANTS Users, DmAllowed,   \* members, and those direct messages are let in from
          DmPolicy, GroupPolicy,      \* open, allowlist, mention
          GroupAllowed,       \* the channel is in group_allow_from
          InThread,           \* reply_in_thread
          MaxPosts

VARIABLES mode,       \* off, starting, on
          me,         \* _bot_user_id is known
          posts,      \* [by, where, mentions, thread] of each post
          events,     \* [post, type] on their way, at most one of each
          acked,      \* envelopes that were acknowledged
          given,      \* [post, thread, type] given to the agent
          answers     \* [post, thread] of the answers

vars == <<mode, me, posts, events, acked, given, answers>>

Init == /\ mode = "off" /\ me = FALSE /\ posts = <<>> /\ events = {} /\ acked = {}
        /\ given = <<>> /\ answers = {}

(* auth_test tells the bot's own id; the channel starts without it as well.      *)
Start     == /\ mode = "off" /\ mode' = "starting"
             /\ UNCHANGED <<me, posts, events, acked, given, answers>>
AuthTest(ok) == /\ mode = "starting" /\ mode' = "on" /\ me' = (me \/ ok)
                /\ UNCHANGED <<posts, events, acked, given, answers>>
Stop      == /\ mode = "on" /\ mode' = "off"
             /\ UNCHANGED <<me, posts, events, acked, given, answers>>

(* The service tells of a post as a message, and in a channel also as a mention; *)
(* posts of bots have a subtype.                                                 *)
Post(u, w, mention, thread) ==
    /\ mode = "on" /\ Len(posts) < MaxPosts
    /\ posts' = Append(posts, [by |-> u, where |-> w, mentions |-> mention, thread |-> thread])
    /\ events' = events \union {[post |-> Len(posts'), type |-> "message"]}
                 \union IF mention /\ w = "channel"
                          THEN {[post |-> Len(posts'), type |-> "app_mention"]} ELSE {}
    /\ UNCHANGED <<mode, me, acked, given, answers>>

(* _is_allowed and _should_respond_in_channel. A mention tells no channel type.  *)
IsDm(e) == posts[e.post].where = "im" /\ e.type = "message"
IsAllowed(e) == IF IsDm(e) THEN DmPolicy = "allowlist" => posts[e.post].by \in DmAllowed
                ELSE GroupPolicy = "allowlist" => GroupAllowed
ShouldRespond(e) ==
    CASE GroupPolicy = "open" -> TRUE
      [] GroupPolicy = "mention" -> e.type = "app_mention" \/ (me /\ posts[e.post].mentions)
      [] OTHER -> GroupAllowed

(* A mention comes as two events: the message is left to the other one, which    *)
(* takes the bot's id to see.                                                    *)
LeftToMention(e) == e.type = "message" /\ me /\ posts[e.post].mentions
(* Mutated form of Wanted: both events of a mention are taken.                   *)
Wanted_Both(e) == posts[e.post].by # "bot" /\ IsAllowed(e) /\ (IsDm(e) \/ ShouldRespond(e))
Wanted(e) == /\ posts[e.post].by # "bot" /\ ~LeftToMention(e)
             /\ IsAllowed(e) /\ (IsDm(e) \/ ShouldRespond(e))

(* The thread of an answer: that of the post, or the post itself.                *)
Thread(p) == IF posts[p].thread # 0 THEN posts[p].thread ELSE IF InThread THEN p ELSE 0

(* _on_socket_request: the event is acknowledged, the rest follows.              *)
OnSocketRequest(e) ==
    /\ mode = "on" /\ e \in events /\ events' = events \ {e} /\ acked' = acked \union {e}
    /\ given' = IF Wanted(e) THEN Append(given, [post |-> e.post, thread |-> Thread(e.post),
                                                 type |-> e.type])
                ELSE given
    /\ UNCHANGED <<mode, me, posts, answers>>

(* The answer carries the metadata of the message, and the client outlives a     *)
(* stop. In direct messages there are no threads; a mention does not tell them.  *)
Send(i, ok) ==
    /\ i \in DOMAIN given
    /\ LET g == given[i] IN
       answers' = IF ~ok THEN answers ELSE answers \union
         {[post |-> g.post,
           thread |-> IF posts[g.post].where = "im" /\ g.type = "message" THEN 0 ELSE g.thread]}
    /\ UNCHANGED <<mode, me, posts, events, acked, given>>

Next ==
    \/ Start \/ Stop \/ \E ok \in BOOLEAN : AuthTest(ok)
    \/ \E u \in Users, w \in {"im", "channel"}, mention \in BOOLEAN :
          \E t \in {0} \union {1} : Post(u, w, mention, t)
    \/ \E e \in events : OnSocketRequest(e)
    \/ \E i \in DOMAIN given, ok \in BOOLEAN : Send(i, ok)

Spec == Init /\ [][Next]_vars
------------------------------------------------------------------------------
(* "Avoid double-processing: Slack sends both `message` and `app_mention`"       *)
(* (slack.py:132): Slack implements Inbox, however the two events of a post and  *)
(* a restart are ordered, when only mentions are asked for. With an open policy  *)
(* and auth_test failed, both events are taken.                                  *)
Box == INSTANCE Inbox WITH Ids <- 1..MaxPosts, posted <- DOMAIN posts,
                           given <- [i \in DOMAIN given |-> given[i].post]
SlackInbox == Box!Spec

(* A direct message that names the bot is answered like any other. It is left to *)
(* a mention that never comes.                                                   *)
DirectMessagesTaken ==
    \A e \in acked : posts[e.post].where = "im" /\ posts[e.post].by \in DmAllowed =>
        \E i \in DOMAIN given : given[i].post = e.post
==============================================================================
