---------------------------- MODULE MCCheckpoints ----------------------------
(* Checkpoints, and the services of the gateway that keep running beside    *)
(* the turns: channels, the scheduler, the configuration and the proxy.     *)
(* One configuration checks several components, each in behaviours of its   *)
(* own: `part` says whose, and the others keep their initial state. No      *)
(* state relates two of them. The constants of a component are constants    *)
(* here, with its prefix.                                                   *)
EXTENDS Checkpoints

CONSTANTS wx_Users, wx_AllowFrom, wx_Bot, wx_ConfigToken, wx_Window,
          wx_MaxMessages, wx_MaxCrashes,
          md_Block, md_MaxLength,
          mo_Window, mo_MaxEvents, mo_MaxChanges,
          em_Senders, em_AllowFrom, em_MaxUids, em_MaxMails, em_MaxStarts,
          sc_Jobs, sc_At, sc_MaxTime, sc_MaxLoads, sc_MaxFaults,
          cf_Fields, cf_Secrets, cf_Values, cf_Editors, cf_MaxTime,
          px_Users, px_Capacity, px_Unit, px_Rate, px_HasKey, px_MaxTime,
          px_MaxRequests,
          wa_MaxMessages, wa_MaxSends, wa_MaxLinks,
          pu_Users, pu_AllowFrom, pu_Window, pu_MaxMessages, pu_MaxPushes,
          pu_MaxStarts,
          di_Chats, di_MaxMessages, di_MaxLinks,
          tg_Chats, tg_AllowFrom, tg_MaxLen, tg_MaxText, tg_MaxMessages,
          sl_Users, sl_DmAllowed, sl_DmPolicy, sl_GroupPolicy,
          sl_GroupAllowed, sl_InThread, sl_MaxPosts,
          dt_Users, dt_AllowFrom, dt_Lives, dt_Margin, dt_Delay, dt_MaxTime,
          dt_MaxMessages,
          db_Sockets, db_Streamers, db_Sessions, db_Polls, db_Tries,
          db_MaxSaid, db_MaxPushes, db_MaxStarts

VARIABLES part,           \* the component of a behaviour, chosen at its start
          wx_server, wx_mode, wx_token, wx_cursor, wx_processed, wx_tokens,
          wx_disk, wx_paused, wx_failures, wx_refreshes, wx_batch, wx_current,
          wx_typing, wx_sending, wx_crashes, wx_given, wx_over,
          md_step, md_file, md_kind, md_size, md_wire, md_stored,
          mo_log, mo_running, mo_cursor, mo_saved, mo_cold, mo_seen, mo_link,
          mo_stream, mo_pushed, mo_worker, mo_answer, mo_holder, mo_todo,
          mo_changes, mo_given,
          em_mails, em_flagged, em_mode, em_mark, em_uids, em_found, em_got,
          em_lastId, em_sending, em_starts, em_given,
          sc_file, sc_table, sc_loop, sc_batch, sc_now, sc_loads, sc_faults,
          sc_fresh, sc_service,
          cf_file, cf_backup, cf_editors, cf_wizard, cf_config, cf_failed,
          px_now, px_buckets, px_granted, px_request, px_served,
          wa_auth, wa_bridge, wa_wa, wa_reconnecting, wa_timer, wa_chan,
          wa_ws, wa_connected, wa_client, wa_up, wa_down, wa_relaying,
          wa_posted, wa_given, wa_asked, wa_refused, wa_reached, wa_links,
          pu_service, pu_messages, pu_mode, pu_seen, pu_tasks, pu_frames,
          pu_given, pu_answers, pu_pushes, pu_starts,
          di_running, di_http, di_link, di_events, di_hello, di_beats,
          di_failed, di_handling, di_typing, di_chat, di_owed, di_sending,
          di_links,
          tg_mode, tg_typing, tg_reading, tg_chat, tg_owed, tg_sending,
          tg_left, tg_sent,
          sl_mode, sl_me, sl_posts, sl_events, sl_acked, sl_given, sl_answers,
          dt_mode, dt_now, dt_token, dt_sender, dt_tasks, dt_acked, dt_given,
          db_up, db_starts, db_files, db_socket, db_active, db_said,
          db_pushes, db_queued, db_notice, db_seen, db_owed

Weixin == INSTANCE Weixin WITH Users <- wx_Users, AllowFrom <- wx_AllowFrom,
     Bot <- wx_Bot, ConfigToken <- wx_ConfigToken, Window <- wx_Window,
     MaxMessages <- wx_MaxMessages, MaxCrashes <- wx_MaxCrashes,
     server <- wx_server, mode <- wx_mode, token <- wx_token,
     cursor <- wx_cursor, processed <- wx_processed, tokens <- wx_tokens,
     disk <- wx_disk, paused <- wx_paused, failures <- wx_failures,
     refreshes <- wx_refreshes, batch <- wx_batch, current <- wx_current,
     typing <- wx_typing, sending <- wx_sending, crashes <- wx_crashes,
     given <- wx_given, over <- wx_over
Media == INSTANCE WeixinMedia WITH Block <- md_Block,
     MaxLength <- md_MaxLength, step <- md_step, file <- md_file,
     kind <- md_kind, size <- md_size, wire <- md_wire, stored <- md_stored
Mochat == INSTANCE Mochat WITH Window <- mo_Window, MaxEvents <- mo_MaxEvents,
     MaxChanges <- mo_MaxChanges, log <- mo_log, running <- mo_running,
     cursor <- mo_cursor, saved <- mo_saved, cold <- mo_cold, seen <- mo_seen,
     link <- mo_link, stream <- mo_stream, pushed <- mo_pushed,
     worker <- mo_worker, answer <- mo_answer, holder <- mo_holder,
     todo <- mo_todo, changes <- mo_changes, given <- mo_given
Email == INSTANCE Email WITH Senders <- em_Senders, AllowFrom <- em_AllowFrom,
     MaxUids <- em_MaxUids, MaxMails <- em_MaxMails,
     MaxStarts <- em_MaxStarts, mails <- em_mails, flagged <- em_flagged,
     mode <- em_mode, mark <- em_mark, uids <- em_uids, found <- em_found,
     got <- em_got, lastId <- em_lastId, sending <- em_sending,
     starts <- em_starts, given <- em_given
Scheduler == INSTANCE Scheduler WITH Jobs <- sc_Jobs, At <- sc_At,
     MaxTime <- sc_MaxTime, MaxLoads <- sc_MaxLoads,
     MaxFaults <- sc_MaxFaults, file <- sc_file, table <- sc_table,
     loop <- sc_loop, batch <- sc_batch, now <- sc_now, loads <- sc_loads,
     faults <- sc_faults, fresh <- sc_fresh, service <- sc_service
Config == INSTANCE ConfigFile WITH Fields <- cf_Fields, Secrets <- cf_Secrets,
     Values <- cf_Values, Editors <- cf_Editors, MaxTime <- cf_MaxTime,
     file <- cf_file, backup <- cf_backup, editors <- cf_editors,
     wizard <- cf_wizard, config <- cf_config, failed <- cf_failed
Proxy == INSTANCE Proxy WITH Users <- px_Users, Capacity <- px_Capacity,
     Unit <- px_Unit, Rate <- px_Rate, HasKey <- px_HasKey,
     MaxTime <- px_MaxTime, MaxRequests <- px_MaxRequests, now <- px_now,
     buckets <- px_buckets, granted <- px_granted, request <- px_request,
     served <- px_served
WhatsApp == INSTANCE WhatsApp WITH MaxMessages <- wa_MaxMessages,
     MaxSends <- wa_MaxSends, MaxLinks <- wa_MaxLinks, auth <- wa_auth,
     bridge <- wa_bridge, wa <- wa_wa, reconnecting <- wa_reconnecting,
     timer <- wa_timer, chan <- wa_chan, ws <- wa_ws,
     connected <- wa_connected, client <- wa_client, up <- wa_up,
     down <- wa_down, relaying <- wa_relaying, posted <- wa_posted,
     given <- wa_given, asked <- wa_asked, refused <- wa_refused,
     reached <- wa_reached, links <- wa_links
Push == INSTANCE PushChannels WITH Users <- pu_Users,
     AllowFrom <- pu_AllowFrom, Window <- pu_Window,
     MaxMessages <- pu_MaxMessages, MaxPushes <- pu_MaxPushes,
     MaxStarts <- pu_MaxStarts, service <- pu_service,
     messages <- pu_messages, mode <- pu_mode, seen <- pu_seen,
     tasks <- pu_tasks, frames <- pu_frames, given <- pu_given,
     answers <- pu_answers, pushes <- pu_pushes, starts <- pu_starts
Discord == INSTANCE Discord WITH Chats <- di_Chats,
     MaxMessages <- di_MaxMessages, MaxLinks <- di_MaxLinks,
     running <- di_running, http <- di_http, link <- di_link,
     events <- di_events, hello <- di_hello, beats <- di_beats,
     failed <- di_failed, handling <- di_handling, typing <- di_typing,
     chat <- di_chat, owed <- di_owed, sending <- di_sending,
     links <- di_links
Telegram == INSTANCE Telegram WITH Chats <- tg_Chats,
     AllowFrom <- tg_AllowFrom, MaxLen <- tg_MaxLen, MaxText <- tg_MaxText,
     MaxMessages <- tg_MaxMessages, mode <- tg_mode, typing <- tg_typing,
     reading <- tg_reading, chat <- tg_chat, owed <- tg_owed,
     sending <- tg_sending, left <- tg_left, sent <- tg_sent
Slack == INSTANCE Slack WITH Users <- sl_Users, DmAllowed <- sl_DmAllowed,
     DmPolicy <- sl_DmPolicy, GroupPolicy <- sl_GroupPolicy,
     GroupAllowed <- sl_GroupAllowed, InThread <- sl_InThread,
     MaxPosts <- sl_MaxPosts, mode <- sl_mode, me <- sl_me, posts <- sl_posts,
     events <- sl_events, acked <- sl_acked, given <- sl_given,
     answers <- sl_answers
DingTalk == INSTANCE DingTalk WITH Users <- dt_Users,
     AllowFrom <- dt_AllowFrom, Lives <- dt_Lives, Margin <- dt_Margin,
     Delay <- dt_Delay, MaxTime <- dt_MaxTime, MaxMessages <- dt_MaxMessages,
     mode <- dt_mode, now <- dt_now, token <- dt_token, sender <- dt_sender,
     tasks <- dt_tasks, acked <- dt_acked, given <- dt_given
Dashboard == INSTANCE Dashboard WITH Sockets <- db_Sockets,
     Streamers <- db_Streamers, Sessions <- db_Sessions, Polls <- db_Polls,
     Tries <- db_Tries, MaxSaid <- db_MaxSaid, MaxPushes <- db_MaxPushes,
     MaxStarts <- db_MaxStarts, up <- db_up, starts <- db_starts,
     files <- db_files, socket <- db_socket, active <- db_active,
     said <- db_said, pushes <- db_pushes, queued <- db_queued,
     notice <- db_notice, seen <- db_seen, owed <- db_owed

weixinVars == <<wx_server, wx_mode, wx_token, wx_cursor, wx_processed,
    wx_tokens, wx_disk, wx_paused, wx_failures, wx_refreshes, wx_batch,
    wx_current, wx_typing, wx_sending, wx_crashes, wx_given, wx_over>>
mediaVars == <<md_step, md_file, md_kind, md_size, md_wire, md_stored>>
mochatVars == <<mo_log, mo_running, mo_cursor, mo_saved, mo_cold, mo_seen,
    mo_link, mo_stream, mo_pushed, mo_worker, mo_answer, mo_holder, mo_todo,
    mo_changes, mo_given>>
emailVars == <<em_mails, em_flagged, em_mode, em_mark, em_uids, em_found,
    em_got, em_lastId, em_sending, em_starts, em_given>>
schedulerVars == <<sc_file, sc_table, sc_loop, sc_batch, sc_now, sc_loads,
    sc_faults, sc_fresh, sc_service>>
configVars == <<cf_file, cf_backup, cf_editors, cf_wizard, cf_config,
    cf_failed>>
proxyVars == <<px_now, px_buckets, px_granted, px_request, px_served>>
whatsappVars == <<wa_auth, wa_bridge, wa_wa, wa_reconnecting, wa_timer,
    wa_chan, wa_ws, wa_connected, wa_client, wa_up, wa_down, wa_relaying,
    wa_posted, wa_given, wa_asked, wa_refused, wa_reached, wa_links>>
pushVars == <<pu_service, pu_messages, pu_mode, pu_seen, pu_tasks, pu_frames,
    pu_given, pu_answers, pu_pushes, pu_starts>>
discordVars == <<di_running, di_http, di_link, di_events, di_hello, di_beats,
    di_failed, di_handling, di_typing, di_chat, di_owed, di_sending, di_links>>
telegramVars == <<tg_mode, tg_typing, tg_reading, tg_chat, tg_owed,
    tg_sending, tg_left, tg_sent>>
slackVars == <<sl_mode, sl_me, sl_posts, sl_events, sl_acked, sl_given,
    sl_answers>>
dingtalkVars == <<dt_mode, dt_now, dt_token, dt_sender, dt_tasks, dt_acked,
    dt_given>>
dashboardVars == <<db_up, db_starts, db_files, db_socket, db_active, db_said,
    db_pushes, db_queued, db_notice, db_seen, db_owed>>

All == <<part, vars, weixinVars, mediaVars, mochatVars, emailVars,
    schedulerVars, configVars, proxyVars, whatsappVars, pushVars, discordVars,
    telegramVars, slackVars, dingtalkVars, dashboardVars>>

Parts == {"main", "weixin", "media", "mochat", "email", "scheduler", "config",
    "proxy", "whatsapp", "push", "discord", "telegram", "slack", "dingtalk",
    "dashboard"}

AllInit == /\ part \in Parts /\ Init
           /\ Weixin!Init
           /\ Media!Init
           /\ Mochat!Init
           /\ Email!Init
           /\ Scheduler!Init
           /\ Config!Init
           /\ Proxy!Init
           /\ WhatsApp!Init
           /\ Push!Init
           /\ Discord!Init
           /\ Telegram!Init
           /\ Slack!Init
           /\ DingTalk!Init
           /\ Dashboard!Init
           /\ (part # "main" => key = [t \in Turns |-> CHOOSE k \in Keys : TRUE])
           /\ (part # "scheduler" => sc_file = CHOOSE f \in [sc_Jobs -> [on : BOOLEAN, next : {1}]] : TRUE)
           /\ (part # "whatsapp" => wa_auth = [needs |-> FALSE, sends |-> "none"])
           /\ (part # "push" => pu_service = CHOOSE s \in Push!Services : TRUE)

\* Only the component that was chosen takes steps.
AllNext ==
    \/ /\ part = "main" /\ Next
       /\ UNCHANGED <<part, weixinVars, mediaVars, mochatVars, emailVars,
          schedulerVars, configVars, proxyVars, whatsappVars, pushVars,
          discordVars, telegramVars, slackVars, dingtalkVars, dashboardVars>>
    \/ /\ part = "weixin" /\ Weixin!Next
       /\ UNCHANGED <<part, vars, mediaVars, mochatVars, emailVars,
          schedulerVars, configVars, proxyVars, whatsappVars, pushVars,
          discordVars, telegramVars, slackVars, dingtalkVars, dashboardVars>>
    \/ /\ part = "media" /\ Media!Next
       /\ UNCHANGED <<part, vars, weixinVars, mochatVars, emailVars,
          schedulerVars, configVars, proxyVars, whatsappVars, pushVars,
          discordVars, telegramVars, slackVars, dingtalkVars, dashboardVars>>
    \/ /\ part = "mochat" /\ Mochat!Next
       /\ UNCHANGED <<part, vars, weixinVars, mediaVars, emailVars,
          schedulerVars, configVars, proxyVars, whatsappVars, pushVars,
          discordVars, telegramVars, slackVars, dingtalkVars, dashboardVars>>
    \/ /\ part = "email" /\ Email!Next
       /\ UNCHANGED <<part, vars, weixinVars, mediaVars, mochatVars,
          schedulerVars, configVars, proxyVars, whatsappVars, pushVars,
          discordVars, telegramVars, slackVars, dingtalkVars, dashboardVars>>
    \/ /\ part = "scheduler" /\ Scheduler!Next
       /\ UNCHANGED <<part, vars, weixinVars, mediaVars, mochatVars,
          emailVars, configVars, proxyVars, whatsappVars, pushVars,
          discordVars, telegramVars, slackVars, dingtalkVars, dashboardVars>>
    \/ /\ part = "config" /\ Config!Next
       /\ UNCHANGED <<part, vars, weixinVars, mediaVars, mochatVars,
          emailVars, schedulerVars, proxyVars, whatsappVars, pushVars,
          discordVars, telegramVars, slackVars, dingtalkVars, dashboardVars>>
    \/ /\ part = "proxy" /\ Proxy!Next
       /\ UNCHANGED <<part, vars, weixinVars, mediaVars, mochatVars,
          emailVars, schedulerVars, configVars, whatsappVars, pushVars,
          discordVars, telegramVars, slackVars, dingtalkVars, dashboardVars>>
    \/ /\ part = "whatsapp" /\ WhatsApp!Next
       /\ UNCHANGED <<part, vars, weixinVars, mediaVars, mochatVars,
          emailVars, schedulerVars, configVars, proxyVars, pushVars,
          discordVars, telegramVars, slackVars, dingtalkVars, dashboardVars>>
    \/ /\ part = "push" /\ Push!Next
       /\ UNCHANGED <<part, vars, weixinVars, mediaVars, mochatVars,
          emailVars, schedulerVars, configVars, proxyVars, whatsappVars,
          discordVars, telegramVars, slackVars, dingtalkVars, dashboardVars>>
    \/ /\ part = "discord" /\ Discord!Next
       /\ UNCHANGED <<part, vars, weixinVars, mediaVars, mochatVars,
          emailVars, schedulerVars, configVars, proxyVars, whatsappVars,
          pushVars, telegramVars, slackVars, dingtalkVars, dashboardVars>>
    \/ /\ part = "telegram" /\ Telegram!Next
       /\ UNCHANGED <<part, vars, weixinVars, mediaVars, mochatVars,
          emailVars, schedulerVars, configVars, proxyVars, whatsappVars,
          pushVars, discordVars, slackVars, dingtalkVars, dashboardVars>>
    \/ /\ part = "slack" /\ Slack!Next
       /\ UNCHANGED <<part, vars, weixinVars, mediaVars, mochatVars,
          emailVars, schedulerVars, configVars, proxyVars, whatsappVars,
          pushVars, discordVars, telegramVars, dingtalkVars, dashboardVars>>
    \/ /\ part = "dingtalk" /\ DingTalk!Next
       /\ UNCHANGED <<part, vars, weixinVars, mediaVars, mochatVars,
          emailVars, schedulerVars, configVars, proxyVars, whatsappVars,
          pushVars, discordVars, telegramVars, slackVars, dashboardVars>>
    \/ /\ part = "dashboard" /\ Dashboard!Next
       /\ UNCHANGED <<part, vars, weixinVars, mediaVars, mochatVars,
          emailVars, schedulerVars, configVars, proxyVars, whatsappVars,
          pushVars, discordVars, telegramVars, slackVars, dingtalkVars>>
    \/ part # "main" /\ UNCHANGED All    \* where its bounds end a component

AllSpec == AllInit /\ [][AllNext]_All

(* Every message the cursor has passed was dealt with or is still in hand.  *)
NothingSkipped == Weixin!NothingSkipped

(* The announced size is the uploaded one, and a file comes back as it was. *)
FilesSurvive == Media!FilesSurvive

(* A slot of a scheduled job runs once while the table is not loaded anew.  *)
SlotOnce == Scheduler!SlotOnce

(* The editor changes no setting but those its user changed.                *)
OnlyOwnChanges == Config!OnlyOwnChanges

(* In no stretch of time does a user get more than bucket and refill.       *)
RateHolds == Proxy!RateHolds

(* WhatsApp refuses no answer it could send, and opens a closed socket      *)
(* again.                                                                   *)
StaysInTouch == WhatsApp!StaysInTouch

(* Discord types only while it owes an answer, with one heartbeat at most.  *)
NothingLeftRunning == Discord!NothingLeftRunning

(* The pieces of an answer lack nothing but the blanks it was cut at.       *)
NothingCutOff == Telegram!NothingCutOff

(* DingTalk never posts with a token that has ended.                        *)
TokenHolds == DingTalk!TokenHolds

(* A page that stays sees the notice of a crash, whatever others do.        *)
NoticeShown == Dashboard!NoticeShown

(* Every channel that keeps track of what it has seen implements Inbox: Weixin    *)
(* over its polls, Mochat over socket and polls, Email while the process lives,  *)
(* Feishu, WeCom and QQ over repeated pushes, Slack over its two events a post.  *)
Inboxes == /\ Weixin!WeixinInbox /\ Mochat!MochatInbox /\ Email!EmailInbox
           /\ Push!PushInbox /\ Slack!SlackInbox

==============================================================================
