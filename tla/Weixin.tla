------------------------------- MODULE Weixin -------------------------------
(* The personal WeChat channel (channels/weixin.py): QR login, the long poll     *)
(* with its cursor, the dedup window, the context token every answer needs, the  *)
(* typing indicator, the pause after an expired session, and account.json, which *)
(* a restart reads. The service, an external server, keeps the messages in order *)
(* and answers a poll with what lies after the cursor it is sent.                *)
EXTENDS Naturals, Sequences, FiniteSets

CONSTANTS Users,
          AllowFrom,      \* senders that are let in
          Bot,            \* sender of the channel's own messages
          ConfigToken,    \* config.token is set: no login, account.json is not read
          Window,         \* length of _processed_ids, 1000 in the code
          MaxMessages,    \* bound: messages on the server
          MaxCrashes      \* bound: crashes and restarts

VARIABLES server,         \* senders of the messages the service holds, in order
          mode,           \* "off", "login" (QR code shown), "poll", or "failed" to log in
          token, cursor,  \* _token (set or not) and _get_updates_buf
          processed,      \* _processed_ids, oldest first
          tokens,         \* _context_tokens: per user the message it came with, 0 none
          disk,           \* account.json, or NoFile
          paused,         \* _session_pause_until lies ahead
          failures,       \* consecutive_failures of the poll loop
          refreshes,      \* refresh_count of the login
          batch,          \* messages of the poll still to be processed
          current,        \* the message being processed (media downloads), or 0
          typing,         \* users with a task in _typing_tasks
          sending,        \* answer being sent, or NoSend
          crashes,
          given,          \* history: messages published since the start
          over            \* history: messages whose processing ended, or that a
                          \* crash or stop caught in the channel's hands

account == <<token, cursor, tokens>>
inhand  == <<batch, current>>
vars == <<server, mode, account, processed, disk, paused, failures, refreshes, inhand,
          typing, sending, crashes, given, over>>

NoFile == [token |-> FALSE, cursor |-> 0, tokens |-> [u \in Users |-> 0]]
NoSend == [to |-> Bot, token |-> 0, parts |-> 0]
MaxFailures == 3        \* MAX_CONSECUTIVE_FAILURES
MaxRefresh  == 3        \* MAX_QR_REFRESH_COUNT

Init == /\ server = <<>> /\ mode = "off" /\ token = FALSE /\ cursor = 0
        /\ processed = <<>> /\ tokens = [u \in Users |-> 0] /\ disk = NoFile
        /\ paused = FALSE /\ failures = 0 /\ refreshes = 0
        /\ batch = <<>> /\ current = 0 /\ typing = {} /\ sending = NoSend
        /\ crashes = 0 /\ given = <<>> /\ over = {}

UserWrites(u) == /\ Len(server) < MaxMessages
                 /\ server' = Append(server, u)
                 /\ UNCHANGED <<mode, account, processed, disk, paused, failures, refreshes,
                                inhand, typing, sending, crashes, given, over>>

(* start(): a configured token skips account.json altogether, cursor and context *)
(* tokens included.                                                              *)
Start == /\ mode = "off" /\ crashes < MaxCrashes
         /\ IF ConfigToken
              THEN token' = TRUE /\ UNCHANGED <<cursor, tokens>>
              ELSE token' = disk.token /\ cursor' = disk.cursor /\ tokens' = disk.tokens
         /\ mode' = IF token' THEN "poll" ELSE "login"
         /\ failures' = 0 /\ refreshes' = 0
         /\ UNCHANGED <<server, processed, disk, paused, inhand, typing, sending, crashes,
                        given, over>>

LoginEnds(next) == /\ mode = "login" /\ mode' = next
                   /\ UNCHANGED <<server, cursor, tokens, processed, paused, failures,
                                  inhand, typing, sending, crashes, given, over>>
QrConfirmed == /\ LoginEnds("poll")
               /\ token' = TRUE
               /\ disk' = [token |-> TRUE, cursor |-> cursor, tokens |-> tokens]
               /\ UNCHANGED refreshes
(* No token in the confirmation, an error that is not transient, or one expired  *)
(* code too many: start() returns.                                                *)
QrFails     == LoginEnds("failed") /\ UNCHANGED <<token, disk, refreshes>>
QrExpired   == /\ LoginEnds(IF refreshes = MaxRefresh THEN "failed" ELSE "login")
               /\ refreshes' = refreshes + 1
               /\ UNCHANGED <<token, disk>>

Polling == mode = "poll" /\ ~paused /\ batch = <<>> /\ current = 0

(* A poll answered with the messages from the first after the cursor to the      *)
(* n-th; the answer carries the new cursor, or none and the next poll repeats.   *)
PollOk(n, moves) ==
    /\ Polling /\ n \in cursor+1..Len(server)
    /\ batch' = [i \in 1..n-cursor |-> cursor + i]
    /\ cursor' = IF moves THEN n ELSE cursor
    /\ disk' = IF moves THEN [token |-> token, cursor |-> cursor', tokens |-> tokens] ELSE disk
    /\ failures' = 0
    /\ UNCHANGED <<server, mode, token, tokens, processed, paused, refreshes, current, typing,
                   sending, crashes, given, over>>
(* An error answer or exception: two seconds' wait, after the third in a row     *)
(* thirty and the count starts again. A time-out of the poll changes nothing.    *)
PollFails ==
    /\ Polling
    /\ failures' = IF failures + 1 = MaxFailures THEN 0 ELSE failures + 1
    /\ UNCHANGED <<server, mode, account, processed, disk, paused, refreshes, inhand, typing,
                   sending, crashes, given, over>>
Pause(p) ==
    /\ paused = ~p /\ paused' = p
    /\ UNCHANGED <<server, mode, account, processed, disk, failures, refreshes, inhand, typing,
                   sending, crashes, given, over>>
SessionExpired == Polling /\ Pause(TRUE)
PauseEnds      == Pause(FALSE)

Last(s, k) == IF Len(s) <= k THEN s ELSE SubSeq(s, Len(s) - k + 1, Len(s))
Seen(m)    == \E i \in DOMAIN processed : processed[i] = m

(* The first part of _process_message, to the media downloads: own and repeated  *)
(* messages are left, the others enter the window and leave their context token. *)
Take ==
    /\ mode = "poll" /\ batch # <<>> /\ current = 0
    /\ batch' = Tail(batch)
    /\ LET m == Head(batch)
           u == server[m] IN
       IF u = Bot \/ Seen(m)
         THEN /\ over' = over \union {m}
              /\ UNCHANGED <<current, processed, tokens, disk>>
         ELSE /\ processed' = Last(Append(processed, m), Window)
              /\ tokens' = [tokens EXCEPT ![u] = m]
              /\ disk' = [token |-> token, cursor |-> cursor, tokens |-> tokens']
              /\ current' = m
              /\ UNCHANGED over
    /\ UNCHANGED <<server, mode, token, cursor, paused, failures, refreshes, typing, sending,
                   crashes, given>>

(* Mutated form of Done. *)
Done_EndsBatch(type, publish) ==
    /\ mode = "poll" /\ current # 0
    /\ current' = 0 /\ over' = over \union {current}
    /\ typing' = IF type THEN typing \union {server[current]} ELSE typing
    /\ given' = IF publish /\ server[current] \in AllowFrom THEN Append(given, current) ELSE given
    /\ batch' = IF publish THEN batch ELSE <<>>
    /\ UNCHANGED <<server, mode, account, processed, disk, paused, failures, refreshes,
                   sending, crashes>>
(* The rest: nothing readable in it, or an exception, and the message is left;   *)
(* otherwise the indicator is started, before the sender is looked up in         *)
(* allow_from, and the message published.                                        *)
Done(type, publish) ==
    /\ mode = "poll" /\ current # 0
    /\ current' = 0 /\ over' = over \union {current}
    /\ typing' = IF type THEN typing \union {server[current]} ELSE typing
    /\ given' = IF publish /\ server[current] \in AllowFrom THEN Append(given, current) ELSE given
    /\ UNCHANGED <<server, mode, account, processed, disk, paused, failures, refreshes, batch,
                   sending, crashes>>
Leave       == Done(FALSE, FALSE)
Publish(tk) == Done(tk, TRUE)      \* the typing ticket may be missing

(* send(): dropped without a word while the session is paused; the indicator is  *)
(* stopped; without a context token nothing can be sent.                         *)
Send(u, parts) ==
    /\ mode = "poll" /\ sending = NoSend /\ token
    /\ IF paused THEN UNCHANGED <<typing, sending>>
       ELSE /\ typing' = typing \ {u}
            /\ sending' = IF tokens[u] = 0 THEN NoSend
                          ELSE [to |-> u, token |-> tokens[u], parts |-> parts]
    /\ UNCHANGED <<server, mode, account, processed, disk, paused, failures, refreshes, inhand,
                   crashes, given, over>>
(* One file or chunk is out; an error of a chunk ends the answer. *)
SendPart(fails) ==
    /\ sending # NoSend
    /\ sending' = IF fails \/ sending.parts = 1 THEN NoSend
                  ELSE [sending EXCEPT !.parts = @ - 1]
    /\ UNCHANGED <<server, mode, account, processed, disk, paused, failures, refreshes, inhand,
                   typing, crashes, given, over>>

(* The process ends, by stop(), which saves the account, or by a crash. *)
Down(saved) ==
    /\ mode # "off" /\ mode' = "off"
    /\ disk' = IF saved THEN [token |-> token, cursor |-> cursor, tokens |-> tokens] ELSE disk
    /\ over' = over \union {batch[i] : i \in DOMAIN batch} \union ({current} \ {0})
    /\ token' = FALSE /\ cursor' = 0 /\ tokens' = [u \in Users |-> 0]
    /\ processed' = <<>> /\ batch' = <<>> /\ current' = 0 /\ paused' = FALSE
    /\ failures' = 0 /\ refreshes' = 0 /\ typing' = {} /\ sending' = NoSend
    /\ given' = <<>> /\ crashes' = crashes + 1
    /\ UNCHANGED server
Stop  == Down(TRUE)
Crash == Down(FALSE)

Next == \/ \E u \in Users \union {Bot} : UserWrites(u)
        \/ Start \/ QrConfirmed \/ QrFails \/ QrExpired
        \/ \E n \in 1..MaxMessages, b \in BOOLEAN : PollOk(n, b)
        \/ PollFails \/ SessionExpired \/ PauseEnds
        \/ Take \/ Leave \/ \E b \in BOOLEAN : Publish(b)
        \/ \E u \in Users, k \in 1..2 : Send(u, k)
        \/ \E b \in BOOLEAN : SendPart(b)
        \/ Stop \/ Crash
Spec == Init /\ [][Next]_vars
-----------------------------------------------------------------------------
(* A poll may repeat messages, and the service repeats what its cursor has not   *)
(* passed: between two starts the agent gets each message once.                  *)
Box == INSTANCE Inbox WITH Ids <- 1..MaxMessages, posted <- DOMAIN server, given <- given
WeixinInbox == Box!Spec

(* The cursor is moved before the messages are processed and is not moved back:  *)
(* every message it has passed is still in hand, was dealt with, or was in hand  *)
(* when the process ended. A failing message must not take the others with it.   *)
NothingSkipped == \A m \in 1..cursor :
                     m \in over \/ m = current \/ \E i \in DOMAIN batch : batch[i] = m

=============================================================================
