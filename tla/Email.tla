------------------------------- MODULE Email --------------------------------
(* The mail channel (channels/email.py): a poll that searches the mailbox for    *)
(* unread mails, fetches and flags them one by one in a thread, and only then    *)
(* hands the list to the agent; answers go out over SMTP as replies to the last  *)
(* mail of the address. The mailbox, external, numbers the mails; its owner      *)
(* reads them with other clients too.                                            *)
EXTENDS Naturals, Sequences, FiniteSets

CONSTANTS Senders, AllowFrom,
          MaxUids,        \* _MAX_PROCESSED_UIDS
          MaxMails,       \* bound: mails that arrive
          MaxStarts       \* bound: starts of the gateway

VARIABLES mails,          \* senders of the mails that arrived, in order
          flagged,        \* mails with the flag \Seen
          mode,           \* "off", "idle" between polls, "search", "fetch", "hand"
          mark,           \* config.mark_seen of this start
          uids,           \* _processed_uids
          found, got,     \* mails still to fetch, and those in the list of results
          lastId,         \* _last_message_id_by_chat, 0 none
          sending,        \* reply in the hands of SMTP: [to, inReplyTo], to none: no reply
          starts,
          given           \* history: mails handed to the agent since the start

thread == <<uids, found, got>>
vars == <<mails, flagged, mode, mark, thread, lastId, sending, starts, given>>

NoReply == [to |-> "", inReplyTo |-> 0]
Unread  == {i \in DOMAIN mails : i \notin flagged}

Init == /\ mails = <<>> /\ flagged = {} /\ mode = "off" /\ mark = FALSE
        /\ uids = {} /\ found = {} /\ got = <<>> /\ lastId = [s \in Senders |-> 0]
        /\ sending = NoReply /\ starts = 0 /\ given = <<>>

MailArrives(s) == /\ Len(mails) < MaxMails /\ mails' = Append(mails, s)
                  /\ UNCHANGED <<flagged, mode, mark, thread, lastId, sending, starts, given>>
OwnerReads(i)  == /\ i \in DOMAIN mails \ flagged /\ flagged' = flagged \union {i}
                  /\ UNCHANGED <<mails, mode, mark, thread, lastId, sending, starts, given>>

(* start(): only with the owner's consent and a whole configuration. *)
Start(m) == /\ mode = "off" /\ starts < MaxStarts /\ starts' = starts + 1
            /\ mode' = "idle" /\ mark' = m
            /\ UNCHANGED <<mails, flagged, thread, lastId, sending, given>>

(* _fetch_messages, in its thread: login and search, with limit 0. *)
Search == /\ mode = "idle"
          /\ mode' = "fetch" /\ found' = Unread /\ got' = <<>>
          /\ UNCHANGED <<mails, flagged, mark, uids, lastId, sending, starts, given>>
Oldest(i) == \A k \in found : i <= k
(* One mail of the search, the oldest first: known uids are left, the others     *)
(* enter the results and the uids, which start again when they are too many; the *)
(* flag is asked for, and a refusal of the server is not looked at.              *)
Fetch(flags) == \E i \in found :
    /\ mode = "fetch" /\ Oldest(i)
    /\ found' = found \ {i}
    /\ IF i \in uids THEN UNCHANGED <<uids, got, flagged>>
       ELSE /\ got' = Append(got, i)
            /\ uids' = IF Cardinality(uids \union {i}) > MaxUids THEN {} ELSE uids \union {i}
            /\ flagged' = IF mark /\ flags THEN flagged \union {i} ELSE flagged
    /\ UNCHANGED <<mails, mode, mark, lastId, sending, starts, given>>
(* No answer to the fetch, no bytes or no sender in it: the mail stays unread. *)
FetchSkips == /\ mode = "fetch" /\ \E i \in found : Oldest(i) /\ found' = found \ {i}
              /\ UNCHANGED <<mails, flagged, mode, mark, uids, got, lastId, sending, starts, given>>
FetchEnds  == /\ mode = "fetch" /\ found = {} /\ mode' = "hand"
              /\ UNCHANGED <<mails, flagged, mark, thread, lastId, sending, starts, given>>
(* A lost connection raises out of the thread: what was fetched so far, in the   *)
(* uids and perhaps flagged, is dropped with the list.                           *)
FetchRaises == /\ mode = "fetch" /\ mode' = "idle" /\ found' = {} /\ got' = <<>>
               /\ UNCHANGED <<mails, flagged, mark, uids, lastId, sending, starts, given>>

(* The rest of the loop's turn, one mail at a time: the thread of the answers,   *)
(* then _handle_message, which refuses senders that are not let in.              *)
Hand == /\ mode = "hand" /\ got # <<>>
        /\ LET i == Head(got) IN
           /\ lastId' = [lastId EXCEPT ![mails[i]] = i]
           /\ given' = IF mails[i] \in AllowFrom THEN Append(given, i) ELSE given
        /\ got' = Tail(got)
        /\ UNCHANGED <<mails, flagged, mode, mark, uids, found, sending, starts>>
HandEnds == /\ mode = "hand" /\ got = <<>> /\ mode' = "idle"
            /\ UNCHANGED <<mails, flagged, mark, thread, lastId, sending, starts, given>>

(* send(): consent, automatic replies and an SMTP host given, a reply to the     *)
(* last mail of the address, whichever the agent is answering.                   *)
Send(s)  == /\ mode # "off" /\ sending = NoReply /\ \E i \in DOMAIN given : mails[given[i]] = s
            /\ sending' = [to |-> s, inReplyTo |-> lastId[s]]
            /\ UNCHANGED <<mails, flagged, mode, mark, thread, lastId, starts, given>>
SmtpEnds == /\ sending # NoReply /\ sending' = NoReply
            /\ UNCHANGED <<mails, flagged, mode, mark, thread, lastId, starts, given>>

Down == /\ mode # "off" /\ mode' = "off"
        /\ uids' = {} /\ found' = {} /\ got' = <<>> /\ lastId' = [s \in Senders |-> 0]
        /\ sending' = NoReply /\ given' = <<>>
        /\ UNCHANGED <<mails, flagged, mark, starts>>

Next == \/ \E s \in Senders : MailArrives(s) \/ Send(s)
        \/ \E i \in 1..MaxMails : OwnerReads(i)
        \/ \E b \in BOOLEAN : Start(b) \/ Fetch(b)
        \/ Search \/ FetchSkips \/ FetchEnds \/ FetchRaises \/ Hand \/ HandEnds \/ SmtpEnds \/ Down
Spec == Init /\ [][Next]_vars
-----------------------------------------------------------------------------
(* With or without the flag, which the server may refuse to set, and however     *)
(* polls break off: between two starts the agent gets every mail at most once.   *)
Box == INSTANCE Inbox WITH Ids <- 1..MaxMails, posted <- 1..Len(mails), given <- given
EmailInbox == Box!Spec
=============================================================================
