------------------------------ MODULE Dashboard -------------------------------
(* The dashboard's sockets (dashboard/app.py) and the notice of a crash that the *)
(* next start pushes to them (AgentLoop._recover_stale_checkpoints). A socket is *)
(* one connection: it is never reused.                                           *)
EXTENDS Naturals, FiniteSets

CONSTANTS Sockets, Streamers,   \* all sockets, those of /ws/stream
          Sessions,
          Polls, Tries,         \* 30 looks for a socket, 3 tries
          MaxSaid,              \* _WS_RATE_LIMIT_MAX_MSGS
          MaxPushes, MaxStarts  \* bounds of the model

VARIABLES up, starts,
          files,     \* sessions with a checkpoint file
          socket,    \* new, open, broken (nobody noticed yet), closed
          active,    \* _active_websockets and _stream_websockets
          said,      \* messages of each socket in the last minute
          pushes,    \* broadcasts under way: what, and the sockets still to come
          queued,    \* notices on the outbound queue
          notice,    \* the task that announces each crash
          seen,      \* the frames of notices that reached each socket
          owed       \* sockets registered when a try of a notice began

vars == <<up, starts, files, socket, active, said, pushes, queued, notice, seen, owed>>

Pages == active \ Streamers          \* _active_websockets
Silent == [phase |-> "none", polls |-> 0, try |-> 0, todo |-> {}]

Init == /\ up = FALSE /\ starts = 0 /\ files = {}
        /\ socket = [p \in Sockets |-> "new"] /\ active = {} /\ said = [p \in Sockets |-> 0]
        /\ pushes = {} /\ queued = {} /\ notice = [s \in Sessions |-> Silent]
        /\ seen = [p \in Sockets |-> {}] /\ owed = [s \in Sessions |-> {}]

(* The scan takes every file and starts a task for each; the files are deleted.  *)
Start == /\ ~up /\ starts < MaxStarts /\ up' = TRUE /\ starts' = starts + 1 /\ files' = {}
         /\ notice' = [s \in Sessions |->
               IF s \in files THEN [phase |-> "wait", polls |-> Polls, try |-> 1, todo |-> {}]
               ELSE Silent]
         /\ UNCHANGED <<socket, active, said, pushes, queued, seen, owed>>

(* A tool call keeps its checkpoint while it runs.                               *)
Work(s) == /\ up
           /\ files' = IF s \in files THEN files \ {s} ELSE files \union {s}
           /\ UNCHANGED <<up, starts, socket, active, said, pushes, queued, notice, seen, owed>>

Crash == /\ up /\ up' = FALSE
         /\ socket' = [p \in Sockets |-> IF socket[p] = "new" THEN "new" ELSE "closed"]
         /\ active' = {} /\ pushes' = {} /\ queued' = {}
         /\ notice' = [s \in Sessions |-> Silent] /\ owed' = [s \in Sessions |-> {}]
         /\ seen' = [p \in Sockets |-> {}] /\ said' = [p \in Sockets |-> 0]
         /\ UNCHANGED <<starts, files>>

(* websocket_endpoint, websocket_stream_endpoint: a wrong token is turned away.  *)
Connect(p, token) ==
    /\ up /\ socket[p] = "new"
    /\ socket' = [socket EXCEPT ![p] = IF token THEN "open" ELSE "closed"]
    /\ active' = IF token THEN active \union {p} ELSE active
    /\ UNCHANGED <<up, starts, files, said, pushes, queued, notice, seen, owed>>

(* What only an open socket has: its window of messages, what it shows.          *)
Forget(p) == /\ said' = [said EXCEPT ![p] = 0] /\ seen' = [seen EXCEPT ![p] = {}]
             /\ owed' = [s \in Sessions |-> owed[s] \ {p}]
Breaks(p) == /\ up /\ socket[p] = "open" /\ socket' = [socket EXCEPT ![p] = "broken"]
             /\ Forget(p) /\ UNCHANGED <<up, starts, files, active, pushes, queued, notice>>

(* The receive loop ends; the one of a stream forgets its socket only when the   *)
(* other side closed it in order.                                                *)
Leave(p, orderly) ==
    /\ up /\ socket[p] \in {"open", "broken"} /\ p \in active
    /\ socket' = [socket EXCEPT ![p] = "closed"]
    /\ active' = IF orderly \/ p \notin Streamers THEN active \ {p} ELSE active
    /\ Forget(p) /\ UNCHANGED <<up, starts, files, pushes, queued, notice>>

(* A message from a page: too long, too many, or given to the agent and logged.  *)
Say(p, fits) ==
    /\ up /\ socket[p] = "open" /\ p \in Pages
    /\ IF fits /\ said[p] < MaxSaid
       THEN /\ said' = [said EXCEPT ![p] = @ + 1] /\ Cardinality(pushes) < MaxPushes
            /\ pushes' = pushes \union {[msg |-> "chat", todo |-> Pages]}
       ELSE UNCHANGED <<said, pushes>>
    /\ UNCHANGED <<up, starts, files, socket, active, queued, notice, seen, owed>>
Elapse(p) == /\ said[p] > 0 /\ said' = [said EXCEPT ![p] = @ - 1]
             /\ UNCHANGED <<up, starts, files, socket, active, pushes, queued, notice, seen, owed>>

(* Domain events go to the pages, parts of an answer to the streams.             *)
Event(kind) ==
    /\ up /\ Cardinality(pushes) < MaxPushes
    /\ LET to == IF kind = "stream" THEN active \intersect Streamers ELSE Pages IN
       to # {} /\ pushes' = pushes \union {[msg |-> kind, todo |-> to]}
    /\ UNCHANGED <<up, starts, files, socket, active, said, queued, notice, seen, owed>>

(* dispatch_outbound logs what it delivers on the pages before the next message. *)
Dispatch(s) ==
    /\ up /\ s \in queued /\ \A b \in pushes : b.msg \notin Sessions
    /\ Cardinality(pushes) < MaxPushes /\ queued' = queued \ {s}
    /\ pushes' = pushes \union {[msg |-> s, todo |-> Pages]}
    /\ UNCHANGED <<up, starts, files, socket, active, said, notice, seen, owed>>

(* One send of a broadcast. It goes over a copy of the set: sockets come and go  *)
(* while a send is awaited. A socket that fails is forgotten.                    *)
SendTo(p) == active' = IF socket[p] = "open" THEN active ELSE active \ {p}
Broadcast(b, p) ==
    /\ up /\ p \in b.todo /\ SendTo(p)
    /\ pushes' = (pushes \ {b}) \union
                 IF b.todo = {p} THEN {} ELSE {[b EXCEPT !.todo = @ \ {p}]}
    /\ seen' = IF socket[p] = "open" /\ b.msg \in Sessions
               THEN [seen EXCEPT ![p] = @ \union {<<b.msg, "log">>}] ELSE seen
    /\ UNCHANGED <<up, starts, files, socket, said, queued, notice, owed>>
BroadcastEnds(b) == /\ up /\ b.todo = {} /\ pushes' = pushes \ {b}
                    /\ UNCHANGED <<up, starts, files, socket, active, said, queued, notice, seen,
                                   owed>>

(* _delayed_broadcast waits for a page, a bounded number of looks.               *)
Poll(s) ==
    /\ up /\ notice[s].phase = "wait"
    /\ notice' = [notice EXCEPT ![s] =
          IF Pages # {} \/ @.polls = 0 THEN [@ EXCEPT !.phase = "try"]
          ELSE [@ EXCEPT !.polls = notice[s].polls - 1]]
    /\ UNCHANGED <<up, starts, files, socket, active, said, pushes, queued, seen, owed>>

(* A try: over the bus, then to the pages, first as a log, then as a notification. *)
Try(s) ==
    /\ up /\ notice[s].phase = "try" /\ queued' = queued \union {s}
    /\ notice' = [notice EXCEPT ![s].phase = "log", ![s].todo = Pages]
    /\ owed' = [owed EXCEPT ![s] = @ \union {p \in Pages : socket[p] = "open"}]
    /\ UNCHANGED <<up, starts, files, socket, active, said, pushes, seen>>
(* Mutated form of PushTo: a socket that fails ends the push.                    *)
PushTo_StopsAtFailure(s, p) ==
    /\ up /\ p \in notice[s].todo /\ SendTo(p)
    /\ notice' = [notice EXCEPT ![s].todo = IF socket[p] = "open" THEN @ \ {p} ELSE {}]
    /\ seen' = IF socket[p] = "open"
               THEN [seen EXCEPT ![p] = @ \union {<<s, notice[s].phase>>}] ELSE seen
    /\ UNCHANGED <<up, starts, files, socket, said, pushes, queued, owed>>
PushTo(s, p) ==
    /\ up /\ p \in notice[s].todo /\ SendTo(p)
    /\ notice' = [notice EXCEPT ![s].todo = @ \ {p}]
    /\ seen' = IF socket[p] = "open"
               THEN [seen EXCEPT ![p] = @ \union {<<s, notice[s].phase>>}] ELSE seen
    /\ UNCHANGED <<up, starts, files, socket, said, pushes, queued, owed>>
PushEnds(s) ==
    /\ up /\ notice[s].phase \in {"log", "note"} /\ notice[s].todo = {}
    /\ notice' = [notice EXCEPT ![s] =
          IF @.phase = "log" THEN [@ EXCEPT !.phase = "note", !.todo = Pages]
          ELSE IF @.try < Tries THEN [@ EXCEPT !.phase = "try", !.try = notice[s].try + 1]
          ELSE [Silent EXCEPT !.phase = "done"]]
    /\ UNCHANGED <<up, starts, files, socket, active, said, pushes, queued, seen, owed>>

Next ==
    \/ Start \/ Crash
    \/ \E s \in Sessions : Work(s) \/ Dispatch(s) \/ Poll(s) \/ Try(s) \/ PushEnds(s)
    \/ \E s \in Sessions, p \in Sockets : PushTo(s, p)
    \/ \E p \in Sockets : Breaks(p) \/ Elapse(p)
    \/ \E p \in Sockets, b \in BOOLEAN : Connect(p, b) \/ Leave(p, b) \/ Say(p, b)
    \/ \E kind \in {"event", "stream"} : Event(kind)
    \/ \E b \in pushes, p \in Sockets : Broadcast(b, p)
    \/ \E b \in pushes : BroadcastEnds(b)

Spec == Init /\ [][Next]_vars
------------------------------------------------------------------------------
(* "Direct broadcast_ws_message -> ... (dashboard guaranteed)" (loop.py:1181): a  *)
(* page that was registered when one of the tries began, and stayed, has both    *)
(* frames of the notice, whatever other sockets did during the sends.            *)
NoticeShown ==
    \A s \in Sessions : notice[s].phase = "done" =>
        \A p \in owed[s] :
            <<s, "log">> \in seen[p] /\ <<s, "note">> \in seen[p]

(* A crash that left a checkpoint is announced by a later start. The scan       *)
(* deletes the file first: a second crash before the last try silences it.       *)
CrashIsTold ==
    [][~up' /\ up => \A s \in Sessions : notice[s].phase \in {"none", "done"}]_vars
==============================================================================
