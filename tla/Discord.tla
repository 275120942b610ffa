------------------------------- MODULE Discord --------------------------------
(* Discord (channels/discord.py): the loop of the gateway connection with its    *)
(* heartbeat, the typing indicator of a chat, and answers over HTTP.             *)
EXTENDS Naturals, Sequences, FiniteSets

CONSTANTS Chats,
          MaxMessages, MaxLinks    \* bounds: messages, and what breaks or starts

VARIABLES running, http,    \* _running, _http is set
          link,             \* off, pause, connecting, open
          events,           \* events of the gateway that are not read yet
          hello,            \* HELLO was read on this connection
          beats,            \* heartbeat loops that are alive
          failed,           \* a heartbeat of this connection could not be sent
          handling,         \* the message whose attachments are downloaded, 0 for none
          typing,           \* chats with a typing loop
          chat,             \* the chat of each message
          owed,             \* messages in the hands of the agent
          sending, links    \* the message that is answered and the attempt

vars == <<running, http, link, events, hello, beats, failed, handling, typing, chat, owed,
          sending, links>>
gateway == <<running, http, link, hello, beats, failed>>

NotSending == [msg |-> 0, attempt |-> 0]
Breaks == links < MaxLinks /\ links' = links + 1

Init ==
    /\ running = FALSE /\ http = FALSE /\ link = "off" /\ events = <<>> /\ hello = FALSE
    /\ beats = 0 /\ failed = FALSE /\ handling = 0 /\ typing = {} /\ chat = <<>>
    /\ owed = {} /\ sending = NotSending /\ links = 0

Start ==
    /\ link = "off" /\ ~running /\ Breaks
    /\ running' = TRUE /\ http' = TRUE /\ link' = "connecting"
    /\ UNCHANGED <<events, hello, beats, failed, handling, typing, chat, owed, sending>>
Connect ==
    /\ link = "connecting" /\ running
    /\ link' = "open" /\ events' = <<"hello">> /\ hello' = FALSE /\ failed' = FALSE
    /\ UNCHANGED <<running, http, beats, handling, typing, chat, owed, sending, links>>
(* The connection ends: without an exception the next one is tried at once, else *)
(* after a pause. The heartbeat loop of the old one goes on with the new one.    *)
Closed(clean) ==
    /\ link = "open" /\ handling = 0 /\ Breaks
    /\ link' = IF ~running THEN "off" ELSE IF clean THEN "connecting" ELSE "pause"
    /\ events' = <<>> /\ hello' = FALSE
    /\ UNCHANGED <<running, http, beats, failed, handling, typing, chat, owed, sending>>
PauseEnds ==
    /\ link \in {"pause", "connecting"}
    /\ link' = IF running THEN "connecting" ELSE "off"
    /\ UNCHANGED <<running, http, events, hello, beats, failed, handling, typing, chat, owed,
                   sending, links>>
(* stop(): the heartbeat and the typing loops are cancelled, the socket and the  *)
(* client are closed. The loop ends when it sees that, after the message at hand. *)
Stop ==
    /\ running /\ running' = FALSE /\ http' = FALSE /\ beats' = 0 /\ typing' = {}
    /\ UNCHANGED <<link, events, hello, failed, handling, chat, owed, sending, links>>

(* Mutated form of Hello: the heartbeat of the connection before is forgotten.   *)
Hello_Added ==
    /\ link = "open" /\ handling = 0 /\ events # <<>> /\ Head(events) = "hello"
    /\ events' = Append(Tail(events), "ready") /\ hello' = TRUE
    /\ beats' = IF running THEN beats + 1 ELSE beats
    /\ UNCHANGED <<running, http, link, failed, handling, typing, chat, owed, sending, links>>
(* HELLO: _start_heartbeat replaces the loop, _identify asks for a new session,  *)
(* which READY answers.                                                          *)
Hello ==
    /\ link = "open" /\ handling = 0 /\ events # <<>> /\ Head(events) = "hello"
    /\ events' = Append(Tail(events), "ready") /\ hello' = TRUE
    /\ beats' = IF running THEN 1 ELSE 0
    /\ UNCHANGED <<running, http, link, failed, handling, typing, chat, owed, sending, links>>
(* Only a session that is ready is told of messages.                             *)
Ready ==
    /\ link = "open" /\ handling = 0 /\ events # <<>> /\ Head(events) = "ready"
    /\ events' = Tail(events)
    /\ UNCHANGED <<gateway, handling, typing, chat, owed, sending, links>>
(* A heartbeat cannot be sent: its loop ends, and only a HELLO starts another.   *)
HeartbeatFails ==
    /\ beats > 0 /\ Breaks /\ beats' = beats - 1 /\ failed' = (failed \/ link = "open")
    /\ UNCHANGED <<running, http, link, events, hello, handling, typing, chat, owed, sending>>

(* MESSAGE_CREATE of an allowed sender: the loop reads no other event while the  *)
(* attachments are downloaded.                                                   *)
MessageCreate(c) ==
    /\ link = "open" /\ hello /\ events = <<>> /\ handling = 0 /\ Len(chat) < MaxMessages
    /\ chat' = Append(chat, c) /\ handling' = Len(chat')
    /\ UNCHANGED <<gateway, events, typing, owed, sending, links>>
(* _start_typing, then the bus. A loop that starts after stop() ends at once.    *)
HandOver ==
    /\ handling # 0 /\ handling' = 0
    /\ typing' = IF running THEN typing \union {chat[handling]} ELSE typing \ {chat[handling]}
    /\ owed' = owed \union {handling}
    /\ UNCHANGED <<gateway, events, chat, sending, links>>

(* send(): without a client nothing is tried. Three attempts, one request each,  *)
(* which answers, asks to wait or fails; however they end, the typing ends.      *)
Answer(m) ==
    /\ m \in owed /\ sending = NotSending
    /\ IF http THEN sending' = [msg |-> m, attempt |-> 1] /\ UNCHANGED owed
               ELSE owed' = owed \ {m} /\ UNCHANGED sending
    /\ UNCHANGED <<gateway, events, handling, typing, chat, links>>
Attempt(ok) ==
    /\ sending # NotSending
    /\ IF ok \/ sending.attempt = 3
         THEN /\ sending' = NotSending /\ owed' = owed \ {sending.msg}
              /\ typing' = typing \ {chat[sending.msg]}
         ELSE /\ sending' = [sending EXCEPT !.attempt = @ + 1] /\ UNCHANGED <<typing, owed>>
    /\ UNCHANGED <<gateway, events, handling, chat, links>>

Next ==
    \/ Start \/ Connect \/ PauseEnds \/ Stop \/ Hello \/ Ready \/ HeartbeatFails
    \/ \E b \in BOOLEAN : Closed(b) \/ Attempt(b)
    \/ \E c \in Chats : MessageCreate(c)
    \/ HandOver \/ \E m \in owed : Answer(m)

Spec == Init /\ [][Next]_vars
------------------------------------------------------------------------------
(* The typing of a chat goes on only while a message of it is unanswered, over   *)
(* answers that fail, messages that come meanwhile, stops and reconnections.     *)
TypingIsOwed == \A c \in typing : \E m \in owed : chat[m] = c

(* There is never a second heartbeat, and a session has one until it breaks.     *)
OneHeartbeat ==
    /\ beats <= 1
    /\ running /\ link = "open" /\ hello => beats = 1 \/ failed

(* Both: no task of the channel outlives what it was started for.                *)
NothingLeftRunning == TypingIsOwed /\ OneHeartbeat
==============================================================================
