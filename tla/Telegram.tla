------------------------------- MODULE Telegram -------------------------------
(* Telegram (channels/telegram.py): an answer goes out in pieces that the        *)
(* service accepts, each as HTML or else as plain text, and a chat is shown as   *)
(* typing from a message until an answer.                                        *)
EXTENDS Naturals, Sequences, FiniteSetsExt

CONSTANTS Chats, AllowFrom,   \* private chats, and those whose user is let in
          MaxLen,             \* characters the service takes
          MaxText,            \* bound: characters of an answer
          MaxMessages

VARIABLES mode,       \* off, polling
          typing,     \* _typing_tasks: chats with a typing loop
          reading,    \* the message whose file is downloaded, 0 for none
          chat,       \* the chat of each message
          owed,       \* messages the agent has not answered
          sending,    \* the answer being sent: its message, text, pictures, state
          left,       \* what _split_message has not cut yet, or <<"done">>
          sent        \* what the chat was sent of this answer

vars == <<mode, typing, reading, chat, owed, sending, left, sent>>

Chars    == {"x", " ", "/"}       \* a letter, a blank, the end of a line
Blank(c) == c # "x"
Texts    == UNION {[1..n -> Chars] : n \in 1..MaxText}
NotSending == [msg |-> 0, text |-> <<>>, files |-> 0]
Done     == <<"done">>

Init == /\ mode = "off" /\ typing = {} /\ reading = 0 /\ chat = <<>> /\ owed = {}
        /\ sending = NotSending /\ left = Done /\ sent = <<>>

(* Messages of before the start are dropped by the service.                      *)
Start == /\ mode = "off" /\ mode' = "polling"
         /\ UNCHANGED <<typing, reading, chat, owed, sending, left, sent>>
Stop  == /\ mode = "polling" /\ sending = NotSending /\ reading = 0 /\ mode' = "off" /\ typing' = {}
         /\ UNCHANGED <<reading, chat, owed, sending, left, sent>>

(* Updates are handled one after the other; a file is downloaded first, and a    *)
(* recording transcribed.                                                        *)
OnMessage(c) ==
    /\ mode = "polling" /\ reading = 0 /\ Len(chat) < MaxMessages
    /\ chat' = Append(chat, c) /\ reading' = Len(chat')
    /\ UNCHANGED <<mode, typing, owed, sending, left, sent>>
(* The typing starts before _handle_message asks who the sender is.              *)
HandOver ==
    /\ reading # 0 /\ reading' = 0
    /\ typing' = typing \union {chat[reading]}
    /\ owed' = IF chat[reading] \in AllowFrom THEN owed \union {reading} ELSE owed
    /\ UNCHANGED <<mode, chat, sending, left, sent>>
(* A command is given on without typing.                                         *)
ForwardCommand(c) ==
    /\ mode = "polling" /\ reading = 0 /\ Len(chat) < MaxMessages /\ c \in AllowFrom
    /\ chat' = Append(chat, c) /\ owed' = owed \union {Len(chat')}
    /\ UNCHANGED <<mode, typing, reading, sending, left, sent>>
(* The action of a typing loop fails: it ends.                                   *)
TypingFails(c) ==
    /\ c \in typing /\ typing' = typing \ {c}
    /\ UNCHANGED <<mode, reading, chat, owed, sending, left, sent>>

Send(m, text, files) ==
    /\ mode = "polling" /\ sending = NotSending /\ m \in owed
    /\ typing' = typing \ {chat[m]}
    /\ sending' = [msg |-> m, text |-> text, files |-> files] /\ left' = text /\ sent' = <<>>
    /\ UNCHANGED <<mode, reading, chat, owed>>
(* A file that cannot be sent is named in a message; when that fails as well the *)
(* exception ends the answer.                                                    *)
SendFile(ok) ==
    /\ sending.files > 0
    /\ IF ok THEN sending' = [sending EXCEPT !.files = @ - 1] /\ UNCHANGED <<owed, left>>
             ELSE sending' = NotSending /\ owed' = owed \ {sending.msg} /\ left' = Done
    /\ UNCHANGED <<mode, typing, reading, chat, sent>>

LastOf(c, s) == Max({0} \union {i \in DOMAIN s : s[i] = c})
Stripped(s)  == SubSeq(s, Min({i \in DOMAIN s : ~Blank(s[i])} \union {Len(s) + 1}), Len(s))
(* One round of _split_message: the piece, and what is left of the content.      *)
Cut(s) ==
    LET head == SubSeq(s, 1, MaxLen)
        line == LastOf("/", head)  blank == LastOf(" ", head)
        pos  == IF line > 0 THEN line - 1 ELSE IF blank > 0 THEN blank - 1 ELSE MaxLen
    IN  [piece |-> SubSeq(s, 1, pos), rest |-> Stripped(SubSeq(s, pos + 1, Len(s)))]
(* Mutated form of Piece: the character at the cut is taken for a blank.         *)
Piece_SkipsOne(s) ==
    IF Len(s) <= MaxLen THEN [piece |-> s, rest |-> Done]
    ELSE LET c == Cut(s) IN
         [c EXCEPT !.rest = IF c.rest = <<>> THEN Done
                            ELSE SubSeq(s, Len(c.piece) + 2, Len(s))]
Piece(s) ==
    IF Len(s) <= MaxLen THEN [piece |-> s, rest |-> Done]
    ELSE LET c == Cut(s) IN [c EXCEPT !.rest = IF c.rest = <<>> THEN Done ELSE c.rest]
(* Each piece: HTML, then plain text, then only the log.                         *)
SendPiece(how) ==
    /\ sending # NotSending /\ sending.files = 0 /\ left # Done
    /\ sent' = Append(sent, [text |-> Piece(left).piece, how |-> how])
    /\ left' = Piece(left).rest
    /\ UNCHANGED <<mode, typing, reading, chat, owed, sending>>
SendEnds ==
    /\ sending # NotSending /\ left = Done /\ sending.files = 0
    /\ sending' = NotSending /\ owed' = owed \ {sending.msg} /\ sent' = <<>>
    /\ UNCHANGED <<mode, typing, reading, chat, left>>

Next ==
    \/ Start \/ Stop \/ HandOver \/ SendEnds
    \/ \E c \in Chats : OnMessage(c) \/ ForwardCommand(c) \/ TypingFails(c)
    \/ \E m \in owed, t \in Texts, n \in {0, 1} : Send(m, t, n)
    \/ \E ok \in BOOLEAN : SendFile(ok)
    \/ \E how \in {"html", "plain", "logged"} : SendPiece(how)

Spec == Init /\ [][Next]_vars
------------------------------------------------------------------------------
Letters(s) ==
    LET Upto[n \in 0..Len(s)] == IF n = 0 THEN <<>>
                                 ELSE IF Blank(s[n]) THEN Upto[n - 1]
                                 ELSE Append(Upto[n - 1], s[n])
    IN  Upto[Len(s)]
Joined(pieces) ==
    LET Upto[n \in 0..Len(pieces)] == IF n = 0 THEN <<>> ELSE Upto[n - 1] \o pieces[n].text
    IN  Upto[Len(pieces)]
(* The pieces of an answer hold every letter of it in order, none is longer than *)
(* the service takes, and only the first can be empty: wherever its blanks and   *)
(* lines are, and also where a word has none.                                    *)
NothingCutOff ==
    sending # NotSending /\ sending.files = 0 =>
       /\ \A i \in DOMAIN sent : /\ Len(sent[i].text) <= MaxLen
                                 /\ sent[i].text = <<>> => i = 1
       /\ left = Done => Letters(Joined(sent)) = Letters(sending.text)
==============================================================================
