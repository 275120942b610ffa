------------------------------- MODULE WhatsApp -------------------------------
(* WhatsApp (channels/whatsapp.py) and its bridge, a process of its own         *)
(* (bridge/src): the bridge keeps one socket to WhatsApp and tells the channels *)
(* that are connected to it of messages and of the state of that socket.        *)
EXTENDS Naturals, Sequences

CONSTANTS MaxMessages, MaxSends,    \* messages of users, answers of the agent
          MaxLinks                  \* bound: times something breaks or starts

VARIABLES auth,         \* the bridge asks for a token; the channel's is none, right, wrong
          bridge, wa,   \* the bridge, and its socket to WhatsApp
          reconnecting, timer,   \* the flag of the bridge and its pending timeout
          chan,         \* off, waiting for the bridge, up
          ws, connected,         \* _ws is set, _connected
          client,       \* what the bridge takes the connection of the channel for
          up, down,     \* frames to the bridge and to the channel
          relaying,     \* answers in handleCommand
          posted, given, asked, refused, reached, links

service == <<bridge, wa, reconnecting, timer>>
link    == <<client, up, down>>
flags   == <<ws, connected>>
agent   == <<asked, refused, reached>>
inbox   == <<posted, given>>
vars    == <<auth, service, chan, flags, link, relaying, agent, inbox, links>>

Frame(kind)  == <<kind, 0>>
Answer(n)    == <<"send", n>>
Message(n)   == <<"message", n>>

Init ==
    /\ auth \in [needs : BOOLEAN, sends : {"none", "right", "wrong"}]
    /\ bridge = "down" /\ wa = "none" /\ reconnecting = FALSE /\ timer = FALSE
    /\ chan = "off" /\ ws = FALSE /\ connected = FALSE
    /\ client = "none" /\ up = <<>> /\ down = <<>> /\ relaying = {}
    /\ posted = 0 /\ given = <<>> /\ asked = 0 /\ refused = {} /\ reached = {} /\ links = 0

Breaks == links < MaxLinks /\ links' = links + 1
NoLink == client' = "none" /\ up' = <<>> /\ down' = <<>>

(* Only clients that are set up are told.                                       *)
Broadcast(frame) == down' = IF client = "member" THEN Append(down, frame) ELSE down

(* The server listens before it connects to WhatsApp. When that connect fails,  *)
(* at the start or after a pause, the process ends.                             *)
BridgeStarts ==
    /\ bridge = "down" /\ Breaks /\ bridge' = "up"
    /\ UNCHANGED <<auth, wa, reconnecting, timer, chan, flags, link, relaying, agent, inbox>>
WaConnects ==
    /\ bridge = "up" /\ wa = "none" /\ wa' = "opening"
    /\ UNCHANGED <<auth, bridge, reconnecting, timer, chan, flags, link, relaying, agent, inbox, links>>
BridgeEnds ==
    /\ bridge = "up" /\ bridge' = "down" /\ wa' = "none"
    /\ reconnecting' = FALSE /\ timer' = FALSE /\ NoLink /\ relaying' = {}
    /\ UNCHANGED <<auth, chan, flags, agent, inbox, links>>

WaOpens ==
    /\ wa = "opening" /\ wa' = "open" /\ Broadcast(Frame("connected"))
    /\ UNCHANGED <<auth, bridge, reconnecting, timer, chan, flags, client, up, relaying, agent,
                   inbox, links>>
(* A session that was logged out is not opened again.                           *)
WaCloses(out) ==
    /\ wa \in {"opening", "open"} /\ Breaks
    /\ wa' = IF out THEN "out" ELSE "closed"
    /\ Broadcast(Frame("disconnected"))
    /\ IF ~out /\ ~reconnecting THEN reconnecting' = TRUE /\ timer' = TRUE
                                ELSE UNCHANGED <<reconnecting, timer>>
    /\ UNCHANGED <<auth, bridge, chan, flags, client, up, relaying, agent, inbox>>
(* Mutated form of TimerFires: the flag is kept until the socket is open.       *)
TimerFires_FlagKept ==
    /\ timer /\ timer' = FALSE /\ wa' = "opening"
    /\ UNCHANGED <<auth, bridge, reconnecting, chan, flags, link, relaying, agent, inbox, links>>
TimerFires ==
    /\ timer /\ timer' = FALSE /\ reconnecting' = FALSE /\ wa' = "opening"
    /\ UNCHANGED <<auth, bridge, chan, flags, link, relaying, agent, inbox, links>>

Start ==
    /\ chan = "off" /\ chan' = "waiting"
    /\ UNCHANGED <<auth, service, flags, link, relaying, agent, inbox, links>>
(* Connected to the bridge, the channel takes WhatsApp for connected.           *)
Connect ==
    /\ chan = "waiting" /\ bridge = "up" /\ chan' = "up"
    /\ ws' = TRUE /\ connected' = TRUE
    /\ up' = IF auth.sends = "none" THEN <<>> ELSE <<Frame("auth")>>
    /\ down' = <<>> /\ client' = IF auth.needs THEN "greeting" ELSE "member"
    /\ UNCHANGED <<auth, service, relaying, agent, inbox, links>>
ConnectFails ==
    /\ chan = "waiting" /\ ws' = FALSE /\ connected' = FALSE
    /\ UNCHANGED <<auth, service, chan, link, relaying, agent, inbox, links>>
(* The connection ends. A clean end leaves the loop without an exception, and   *)
(* then the socket and the flag stay as they were.                              *)
Lost(clean) ==
    /\ chan = "up" /\ Breaks /\ chan' = "waiting" /\ NoLink
    /\ IF clean THEN UNCHANGED flags ELSE ws' = FALSE /\ connected' = FALSE
    /\ UNCHANGED <<auth, service, relaying, agent, inbox>>
Stop ==
    /\ chan # "off" /\ Breaks /\ chan' = "off" /\ ws' = FALSE /\ connected' = FALSE /\ NoLink
    /\ UNCHANGED <<auth, service, relaying, agent, inbox>>

(* The first frame must be the right token when one is asked for, whatever else *)
(* it was meant for; without it in time the connection is closed as well.       *)
ReadGreeting ==
    /\ client = "greeting" /\ up # <<>> /\ up' = Tail(up)
    /\ client' = IF Head(up) = Frame("auth") /\ auth.sends = "right" THEN "member" ELSE "refused"
    /\ UNCHANGED <<auth, service, chan, flags, down, relaying, agent, inbox, links>>
AuthTimeout ==
    /\ client = "greeting" /\ client' = "refused"
    /\ UNCHANGED <<auth, service, chan, flags, up, down, relaying, agent, inbox, links>>
(* Frames are handled side by side: each awaits the socket.                     *)
HandleCommand ==
    /\ client = "member" /\ up # <<>> /\ up' = Tail(up)
    /\ relaying' = IF Head(up) = Frame("auth") THEN relaying ELSE relaying \union {Head(up)[2]}
    /\ UNCHANGED <<auth, service, chan, flags, client, down, agent, inbox, links>>
(* The reply tells of an error; the channel only logs it.                       *)
Relayed(n, ok) ==
    /\ n \in relaying /\ (ok => wa = "open")
    /\ relaying' = relaying \ {n}
    /\ reached' = IF ok THEN reached \union {n} ELSE reached
    /\ UNCHANGED <<auth, service, chan, flags, link, asked, refused, inbox, links>>

UserWrites ==
    /\ wa = "open" /\ posted < MaxMessages /\ posted' = posted + 1
    /\ Broadcast(Message(posted'))
    /\ UNCHANGED <<auth, service, chan, flags, client, up, relaying, agent, given, links>>
HandleBridgeMessage ==
    /\ chan = "up" /\ down # <<>> /\ down' = Tail(down)
    /\ IF Head(down)[1] # "message"
         THEN connected' = (Head(down) = Frame("connected")) /\ UNCHANGED given
         ELSE given' = Append(given, Head(down)[2]) /\ UNCHANGED connected
    /\ UNCHANGED <<auth, service, chan, ws, client, up, relaying, agent, posted, links>>

(* An answer is refused while the channel holds itself unconnected; one that is *)
(* written to a socket that has ended raises, and is logged.                    *)
Send ==
    /\ chan # "off" /\ asked < MaxSends /\ asked' = asked + 1
    /\ refused' = IF ws /\ connected THEN refused ELSE refused \union {asked'}
    /\ up' = IF ws /\ connected /\ chan = "up" /\ client # "none"
               THEN Append(up, Answer(asked')) ELSE up
    /\ UNCHANGED <<auth, service, chan, flags, client, down, relaying, reached, inbox, links>>

Next ==
    \/ BridgeStarts \/ WaConnects \/ BridgeEnds \/ WaOpens \/ TimerFires
    \/ Start \/ Connect \/ ConnectFails \/ Stop
    \/ \E b \in BOOLEAN : WaCloses(b) \/ Lost(b)
    \/ ReadGreeting \/ AuthTimeout \/ HandleCommand
    \/ \E n \in relaying, ok \in BOOLEAN : Relayed(n, ok)
    \/ UserWrites \/ HandleBridgeMessage \/ Send

Spec == Init /\ [][Next]_vars
------------------------------------------------------------------------------
(* The channel refuses no answer that could be sent: while the bridge has it as *)
(* a client and WhatsApp is open, it holds itself connected or is about to read *)
(* so, through reconnections of either side and tokens that fit or do not.      *)
NotSilent ==
    client = "member" /\ wa = "open" /\ ~connected =>
        \E i \in DOMAIN down : /\ down[i] = Frame("connected")
                               /\ \A j \in i..Len(down) : down[j] # Frame("disconnected")

(* A socket to WhatsApp that closed is opened again, however often it closes    *)
(* and at whatever moment.                                                      *)
ComesBack == wa = "closed" => timer

(* Both: a lost connection never ends the conversation for good.                *)
StaysInTouch == NotSilent /\ ComesBack
==============================================================================
