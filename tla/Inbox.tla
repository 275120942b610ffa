------------------------------- MODULE Inbox --------------------------------
(* What a channel promises about the messages of its service: whatever the       *)
(* service repeats, the agent is given each message at most once, and only a     *)
(* restart makes the channel forget what it gave. Weixin, Mochat, Email, Slack,  *)
(* Feishu, WeCom and QQ are shown to implement it.                               *)
EXTENDS Naturals, Sequences

CONSTANT Ids            \* messages of the service

VARIABLES posted,       \* messages the service has accepted
          given         \* messages given to the agent since the last start, in order

Init     == posted = {} /\ given = <<>>
Post(m)  == m \notin posted /\ posted' = posted \union {m} /\ UNCHANGED given
Give(m)  == /\ m \in posted /\ \A i \in DOMAIN given : given[i] # m
            /\ given' = Append(given, m) /\ UNCHANGED posted
Forget   == given' = <<>> /\ UNCHANGED posted
Next     == (\E m \in Ids : Post(m) \/ Give(m)) \/ Forget
Spec     == Init /\ [][Next]_<<posted, given>>
=============================================================================
