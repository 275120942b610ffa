------------------------------- MODULE Mochat -------------------------------
(* A session of the Mochat channel (channels/mochat.py): events come over the    *)
(* websocket, from the fallback worker that polls while it is down, and as       *)
(* notifications; a lock per session, a cursor that is saved some time later,    *)
(* and a window of message ids keep them apart. The service, external, numbers   *)
(* the events of the session.                                                    *)
EXTENDS Integers, Sequences

CONSTANTS Window,         \* MAX_SEEN_MESSAGE_IDS
          MaxEvents,      \* bound: events of the session
          MaxChanges      \* bound: restarts and lost connections

VARIABLES log,            \* events the service holds: 1..log
          running,
          cursor, saved,  \* _session_cursor and its file, Unset when it has no entry
          cold,           \* the session is in _cold_sessions
          seen,           \* ids in the window, oldest first
          link,           \* "down", "connected", "ready" (subscribed)
          stream,         \* last event the service pushed on this connection
          pushed,         \* payloads of the socket waiting for the lock
          worker,         \* fallback worker: "none", "idle", "asking" or "waiting"
          answer,         \* what the worker asked from, and the answer it waits with
          holder, todo,   \* who holds the lock, and the events it has still to process
          changes,
          given           \* history: ids published since the start

remote == <<link, stream, pushed>>
poller == <<worker, answer>>
locked == <<holder, todo>>
vars == <<log, running, cursor, saved, cold, seen, remote, poller, locked, changes, given>>

Unset    == -1
Position == IF cursor = Unset THEN 0 ELSE cursor
Events(p) == [i \in 1..p.to - p.from |-> p.from + i]
Items(s) == {s[i] : i \in DOMAIN s}
NoAnswer == [from |-> 0, to |-> 0]

Init == /\ log = 0 /\ running = FALSE /\ cursor = Unset /\ saved = Unset /\ cold = FALSE
        /\ seen = <<>> /\ link = "down" /\ stream = 0 /\ pushed = <<>>
        /\ worker = "none" /\ answer = NoAnswer /\ holder = "none" /\ todo = <<>>
        /\ changes = 0 /\ given = <<>>

Post == /\ log < MaxEvents /\ log' = log + 1
        /\ UNCHANGED <<running, cursor, saved, cold, seen, remote, poller, locked, changes, given>>

(* start(): the cursors of the file; a configured session without one is cold.   *)
(* Without a socket the worker polls.                                            *)
Start(socket) ==
    /\ ~running /\ running' = TRUE
    /\ cursor' = saved /\ cold' = (saved = Unset)
    /\ link' = IF socket THEN "connected" ELSE "down"
    /\ stream' = IF saved = Unset THEN 0 ELSE saved
    /\ worker' = IF socket THEN "none" ELSE "idle"
    /\ UNCHANGED <<log, saved, seen, pushed, answer, locked, changes, given>>

(* subscribeSessions with the cursor: the service answers with what came after.  *)
Subscribe ==
    /\ running /\ link = "connected" /\ pushed = <<>> /\ stream = Position
    /\ pushed' = <<[from |-> stream, to |-> log]>> /\ stream' = log
    /\ link' = "subscribing"
    /\ cold' = (cold \/ cursor = Unset)
    /\ UNCHANGED <<log, running, cursor, saved, seen, poller, locked, changes, given>>
(* After the answer has been processed the fallback workers are cancelled, also  *)
(* one that is in the middle of its events. An answer without success keeps them.*)
Subscribed ==
    /\ link = "subscribing" /\ pushed = <<>> /\ holder # "socket"
    /\ link' = "ready" /\ worker' = "none" /\ answer' = NoAnswer
    /\ IF holder = "worker"
         THEN holder' = "none" /\ todo' = <<>>
         ELSE UNCHANGED locked
    /\ UNCHANGED <<log, running, cursor, saved, cold, seen, stream, pushed, changes, given>>
Refused ==
    /\ link = "connected" /\ link' = "refused"
    /\ worker' = IF worker = "none" THEN "idle" ELSE worker
    /\ UNCHANGED <<log, running, cursor, saved, cold, seen, stream, pushed, answer, locked,
                   changes, given>>
Disconnect ==
    /\ link # "down" /\ changes < MaxChanges /\ changes' = changes + 1
    /\ link' = "down"
    /\ worker' = IF worker = "none" THEN "idle" ELSE worker
    /\ UNCHANGED <<log, running, cursor, saved, cold, seen, stream, pushed, answer, locked, given>>
Reconnect ==
    /\ running /\ link = "down" /\ pushed = <<>> /\ link' = "connected" /\ stream' = Position
    /\ UNCHANGED <<log, running, cursor, saved, cold, seen, pushed, poller, locked, changes, given>>
Push == /\ link = "ready" /\ stream < log /\ Len(pushed) < 2
        /\ pushed' = Append(pushed, [from |-> stream, to |-> stream + 1])
        /\ stream' = stream + 1
        /\ UNCHANGED <<log, running, cursor, saved, cold, seen, link, poller, locked, changes, given>>

(* _session_watch_worker: the cursor is read when the request is sent. *)
Ask == /\ worker = "idle" /\ worker' = "asking"
       /\ answer' = [from |-> Position, to |-> Position]
       /\ UNCHANGED <<log, running, cursor, saved, cold, seen, remote, locked, changes, given>>
Answered(to) ==
    /\ worker = "asking" /\ to \in answer.from..log
    /\ worker' = "waiting" /\ answer' = [answer EXCEPT !.to = to]
    /\ UNCHANGED <<log, running, cursor, saved, cold, seen, remote, locked, changes, given>>

(* _handle_watch_payload with the lock: the cursor moves to the end of the       *)
(* payload, never back, before its events are processed; a cold session skips    *)
(* its first payload.                                                            *)
Mark(c) == IF c >= Position THEN c ELSE cursor
Handle(who, p) ==
    /\ holder = "none"
    /\ cursor' = Mark(p.to)
    /\ cold' = FALSE
    /\ IF cold THEN UNCHANGED locked
       ELSE todo' = Events(p) /\ holder' = IF todo' = <<>> THEN "none" ELSE who
HandlePushed == /\ pushed # <<>> /\ Handle("socket", Head(pushed)) /\ pushed' = Tail(pushed)
                /\ UNCHANGED <<log, running, saved, seen, link, stream, poller, changes, given>>
HandleAnswer == /\ worker = "waiting" /\ Handle("worker", answer) /\ worker' = "idle"
                /\ UNCHANGED <<log, running, saved, seen, remote, answer, changes, given>>

(* _remember_message_id, then the message is published. *)
Last(s, k) == IF Len(s) <= k THEN s ELSE SubSeq(s, Len(s) - k + 1, Len(s))
Inbound(m) == IF m \in Items(seen) THEN UNCHANGED <<seen, given>>
              ELSE seen' = Last(Append(seen, m), Window) /\ given' = Append(given, m)
Process == /\ holder # "none"
           /\ Inbound(Head(todo))
           /\ todo' = Tail(todo) /\ holder' = IF Tail(todo) = <<>> THEN "none" ELSE holder
           /\ UNCHANGED <<log, running, cursor, saved, cold, remote, poller, changes>>
(* notify:chat.inbox.append carries the message itself and takes no lock. *)
Notify(m) == /\ link = "ready" /\ m \in 1..log
             /\ Inbound(m)
             /\ UNCHANGED <<log, running, cursor, saved, cold, remote, poller, locked, changes>>

(* _save_cursor_debounced, some time after the cursor moved. *)
Save == /\ running /\ saved # cursor /\ saved' = cursor
        /\ UNCHANGED <<log, running, cursor, cold, seen, remote, poller, locked, changes, given>>
Down(save) ==
    /\ running /\ changes < MaxChanges /\ changes' = changes + 1
    /\ saved' = IF save THEN cursor ELSE saved
    /\ running' = FALSE /\ cursor' = Unset /\ cold' = FALSE /\ seen' = <<>> /\ given' = <<>>
    /\ link' = "down" /\ stream' = 0 /\ pushed' = <<>> /\ worker' = "none" /\ answer' = NoAnswer
    /\ holder' = "none" /\ todo' = <<>>
    /\ UNCHANGED log
Stop  == Down(TRUE)
Crash == Down(FALSE)

Next == \/ Post \/ Subscribe \/ Subscribed \/ Refused \/ Disconnect \/ Reconnect \/ Push
        \/ \E b \in BOOLEAN : Start(b)
        \/ Ask \/ \E to \in 0..MaxEvents : Answered(to)
        \/ HandlePushed \/ HandleAnswer \/ Process \/ \E m \in 1..MaxEvents : Notify(m)
        \/ Save \/ Stop \/ Crash
Spec == Init /\ [][Next]_vars
-----------------------------------------------------------------------------
(* Three sources deliver the same events, over each other: the agent still gets  *)
(* every message at most once between two starts.                                *)
Box == INSTANCE Inbox WITH Ids <- 1..MaxEvents, posted <- 1..log, given <- given
MochatInbox == Box!Spec
=============================================================================
