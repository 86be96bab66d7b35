---------------------------- MODULE WifiManager ----------------------------
(***************************************************************************)
(* The core of esp32-wifi-manager (src/esp32-wifi-manager-master/src):     *)
(* the wifi_manager task and everything that talks to it.  Four actors     *)
(* send messages into one FIFO queue of three slots, each with             *)
(* portMAX_DELAY, and only the wifi_manager task takes them out:           *)
(*   "task"       the wifi_manager task itself (it posts its own orders),  *)
(*   "event_loop" the ESP-IDF event-loop task running                      *)
(*                wifi_manager_event_handler,                              *)
(*   "timer"      the FreeRTOS timer daemon running the two callbacks,     *)
(*   "httpd"      the web server task running the request handlers.        *)
(* A handler of the task is one action up to the point where it blocks: a  *)
(* full queue (pending), or httpd_stop waiting for the web server (restart).*)
(* The handler of POST /connect.json writes the configuration that the task*)
(* reads and takes no lock: each of its writes is an action (posting).     *)
(***************************************************************************)
EXTENDS Naturals, Sequences

CONSTANTS
  Ssids,         \* the names of networks a user may type
  Passwords,     \* and the passwords
  Blank,         \* a zeroed ssid or password
  QueueCap,      \* slots of wifi_manager_queue (3 in the source)
  MaxRetry,      \* WIFI_MANAGER_MAX_RETRY_START_AP
  ImmediateStop, \* WIFI_MANAGER_SHUTDOWN_AP_TIMER is less than one tick
  TimerQueueLen, \* bound: commands waiting for the timer daemon
  MaxEvents,     \* bound: driver events waiting for the event loop
  SlowTimers,    \* timers expire long after the orders that started them
  Env            \* what the surroundings do: requests and failures enabled

EnvKinds == {"post", "delete", "scan", "linkloss", "renew", "powercut", "refuse"}

ASSUME ConstantsAssumption ==
  /\ Blank \notin Ssids \cup Passwords
  /\ QueueCap \in Nat \ {0}
  /\ MaxRetry \in Nat
  /\ ImmediateStop \in BOOLEAN
  /\ SlowTimers \in BOOLEAN
  /\ TimerQueueLen \in Nat \ {0}
  /\ MaxEvents \in Nat \ {0}
  /\ Env \subseteq EnvKinds

VARIABLES
  queue,         \* wifi_manager_queue
  pending,       \* per actor, the message it is blocked sending, or NoMsg
  restart,       \* the task is inside http_app_stop for this order, or "none"
  bits,          \* wifi_manager_event_group
  retries,       \* local variable of wifi_manager()
  retryTimer,    \* wifi_manager_retry_timer is running
  shutdownTimer, \* wifi_manager_shutdown_ap_timer is running
  timerCmds,     \* the timer daemon's command queue
  config,        \* *wifi_manager_config_sta
  nvs,           \* the station config saved in flash
  json,          \* ip_info_json: who it names and the update reason code
  posting,       \* the network a POST is copying into config, and its next step
  dns,           \* task_dns_server is not NULL
  sta,           \* driver: state of the station interface
  staCfg,        \* driver: configuration set by esp_wifi_set_config
  scanning,      \* driver: a scan is running
  mode,          \* driver: WIFI_MODE_STA or WIFI_MODE_APSTA
  events         \* driver events the event loop has not handled yet

drvVars   == <<sta, staCfg, scanning, mode, events>>
timerVars == <<retryTimer, shutdownTimer, timerCmds>>
cfgVars   == <<config, nvs, json, posting>>
vars == <<queue, pending, restart, bits, retries, retryTimer, shutdownTimer,
          timerCmds, config, nvs, json, posting, dns, sta, staCfg, scanning, mode,
          events>>

-----------------------------------------------------------------------------
Senders == {"task", "event_loop", "timer", "httpd"}

Msg(code, arg) == [code |-> code, arg |-> arg]

NoMsg         == Msg("NONE", "NULL")
LoadRestore   == Msg("ORDER_LOAD_AND_RESTORE_STA", "NULL")
StartAp       == Msg("ORDER_START_AP", "NULL")
StopAp        == Msg("ORDER_STOP_AP", "NULL")
StartScan     == Msg("ORDER_START_WIFI_SCAN", "NULL")
DisconnectSta == Msg("ORDER_DISCONNECT_STA", "NULL")
ConnectSta(who) == Msg("ORDER_CONNECT_STA", who)

ScanDone == Msg("EVENT_SCAN_DONE", "NULL")
GotIp    == Msg("EVENT_STA_GOT_IP", "NULL")
Disconnected(reason) == Msg("EVENT_STA_DISCONNECTED", reason)
ApStart  == Msg("AP_START", "NULL")
ApStop   == Msg("AP_STOP", "NULL")

Requesters == {"USER", "AUTO_RECONNECT", "RESTORE_CONNECTION"}
\* The reason code travels with the event; the code only logs it.
Reasons == {"LEAVE", "FAIL", "LOST"}

PostedEvents == {ScanDone, GotIp} \cup {Disconnected(r) : r \in Reasons}
Orders == {LoadRestore, StartAp, StopAp, StartScan, DisconnectSta}
            \cup {ConnectSta(w) : w \in Requesters}
Messages == PostedEvents \cup Orders
DriverEvents == PostedEvents \cup {ApStart, ApStop}

Bits == {"WIFI_CONNECTED", "AP_STARTED", "REQUEST_STA_CONNECT",
         "REQUEST_RESTORE_STA", "SCAN", "REQUEST_DISCONNECT"}

\* What a wifi_config_t may hold: a network, nothing, or one part of either.
Configs == [ssid : Ssids \cup {Blank}, password : Passwords \cup {Blank}]
Nets    == [ssid : Ssids, password : Passwords]
NoNet   == [ssid |-> Blank, password |-> Blank]

Named(c) == c.ssid # Blank

NotPosting == [net |-> NoNet, at |-> "idle"]
Stages == {"idle", "ssid", "password", "clear"}

Status(code, ssid) == [urc |-> code, ssid |-> ssid]
Cleared == Status("CLEARED", Blank)
ReasonCodes == {"CLEARED", "CONNECTION_OK", "FAILED_ATTEMPT",
                "USER_DISCONNECT", "LOST_CONNECTION"}

TimerCommands == {"start_retry", "stop_retry", "start_shutdown", "stop_shutdown"}

TypeOK ==
  /\ queue \in Seq(Messages) /\ Len(queue) <= QueueCap
  /\ pending \in [Senders -> Messages \cup {NoMsg}]
  /\ restart \in {"none", "start_ap", "stop_ap"}
  /\ bits \subseteq Bits
  /\ retries \in 0..MaxRetry
  /\ retryTimer \in BOOLEAN /\ shutdownTimer \in BOOLEAN
  /\ timerCmds \in Seq(TimerCommands) /\ Len(timerCmds) <= TimerQueueLen
  /\ config \in Configs /\ nvs \in Configs /\ staCfg \in Configs
  /\ json \in [urc : ReasonCodes, ssid : Ssids \cup {Blank}]
  /\ posting \in [net : Configs, at : Stages]
  /\ dns \in BOOLEAN /\ scanning \in BOOLEAN
  /\ sta \in {"idle", "connecting", "connected"}
  /\ mode \in {"STA", "APSTA"}
  /\ events \in Seq(DriverEvents) /\ Len(events) <= MaxEvents

-----------------------------------------------------------------------------
(* Power-on: wifi_manager_start and the prologue of wifi_manager().  The   *)
(* driver starts in station mode, the web server is up and the task is     *)
(* about to enqueue its first order.                                       *)
Boot(saved) ==
  /\ queue = <<>>
  /\ pending = [s \in Senders |-> IF s = "task" THEN LoadRestore ELSE NoMsg]
  /\ restart = "none" /\ bits = {} /\ retries = 0
  /\ retryTimer = FALSE /\ shutdownTimer = FALSE /\ timerCmds = <<>>
  /\ config = NoNet /\ nvs = saved /\ json = Cleared /\ posting = NotPosting
  /\ dns = FALSE
  /\ sta = "idle" /\ staCfg = NoNet /\ scanning = FALSE
  /\ mode = "STA" /\ events = <<>>

Init == \E saved \in Configs : Boot(saved)

(* Every RAM variable is lost, the flash is kept.                          *)
Reboot ==
  /\ queue' = <<>>
  /\ pending' = [s \in Senders |-> IF s = "task" THEN LoadRestore ELSE NoMsg]
  /\ restart' = "none" /\ bits' = {} /\ retries' = 0
  /\ retryTimer' = FALSE /\ shutdownTimer' = FALSE /\ timerCmds' = <<>>
  /\ config' = NoNet /\ nvs' = nvs /\ json' = Cleared /\ posting' = NotPosting
  /\ dns' = FALSE
  /\ sta' = "idle" /\ staCfg' = NoNet /\ scanning' = FALSE
  /\ mode' = "STA" /\ events' = <<>>

-----------------------------------------------------------------------------
(* wifi_manager_send_message: the actor stays blocked until the queue has  *)
(* room (xQueueSend with portMAX_DELAY).                                   *)
Send(s) ==
  /\ pending[s] # NoMsg
  /\ Len(queue) < QueueCap
  /\ queue' = Append(queue, pending[s])
  /\ pending' = [pending EXCEPT ![s] = NoMsg]
  /\ UNCHANGED <<restart, bits, retries, timerVars, cfgVars, dns, drvVars>>

Blocks(s, m) == pending' = [pending EXCEPT ![s] = m]

(* xTimerStart and xTimerStop with no wait: the command is lost when the   *)
(* daemon's queue is full.                                                 *)
PostTimer(cmd) ==
  timerCmds' = IF Len(timerCmds) < TimerQueueLen THEN Append(timerCmds, cmd)
                                                 ELSE timerCmds

\* A disconnection may end a running scan without a SCAN_DONE event.
ScanMayDie == scanning' \in {scanning, FALSE}

(* The driver announces what a call caused; it waits for room.             *)
Announce(e) == /\ Len(events) < MaxEvents
               /\ events' = Append(events, e)

-----------------------------------------------------------------------------
(* The wifi_manager task: xQueueReceive and one case of the switch.        *)
Receive(code) ==
  /\ pending["task"] = NoMsg
  /\ restart = "none"
  /\ queue # <<>> /\ Head(queue).code = code
  /\ queue' = Tail(queue)

(* The list of access points and its json are data (see ApList).           *)
HandleScanDone ==
  /\ Receive("EVENT_SCAN_DONE")
  /\ UNCHANGED <<pending, restart, bits, retries, timerVars, cfgVars, dns, drvVars>>

HandleStartScan ==
  /\ Receive("ORDER_START_WIFI_SCAN")
  /\ bits' = bits \cup {"SCAN"}
  /\ scanning' = (scanning \/ "SCAN" \notin bits)
  /\ UNCHANGED <<pending, restart, retries, timerVars, cfgVars, dns,
                 sta, staCfg, mode, events>>

HandleLoadAndRestore ==
  /\ Receive("ORDER_LOAD_AND_RESTORE_STA")
  /\ config' = nvs
  /\ Blocks("task", IF Named(nvs) THEN ConnectSta("RESTORE_CONNECTION") ELSE StartAp)
  /\ UNCHANGED <<restart, bits, retries, timerVars, nvs, json, posting, dns, drvVars>>

MutRequestBits(who) ==
  CASE who \in {"USER", "AUTO_RECONNECT"} -> {"REQUEST_STA_CONNECT"}
    [] who = "RESTORE_CONNECTION" -> {"REQUEST_RESTORE_STA"}
    [] OTHER -> {}

RequestBits(who) ==
  CASE who = "USER" -> {"REQUEST_STA_CONNECT"}
    [] who = "RESTORE_CONNECTION" -> {"REQUEST_RESTORE_STA"}
    [] OTHER -> {}

(* esp_wifi_scan_stop makes the driver announce the end of the scan.       *)
StopScan ==
  IF "SCAN" \in bits /\ scanning
  THEN scanning' = FALSE /\ Announce(ScanDone)
  ELSE UNCHANGED <<scanning, events>>

(* An already connected driver ignores esp_wifi_connect, and a driver that *)
(* is connecting carries on.                                               *)
HandleConnectSta ==
  /\ Receive("ORDER_CONNECT_STA")
  /\ bits' = bits \cup RequestBits(Head(queue).arg)
  /\ IF "WIFI_CONNECTED" \notin bits
     THEN /\ staCfg' = config
          /\ StopScan
          /\ sta' = IF sta = "idle" THEN "connecting" ELSE sta
     ELSE UNCHANGED <<staCfg, scanning, events, sta>>
  /\ UNCHANGED <<pending, restart, retries, timerVars, cfgVars, dns, mode>>

StopShutdownTimer ==
  IF shutdownTimer THEN PostTimer("stop_shutdown") ELSE UNCHANGED timerCmds

(* The cause of a disconnection is guessed from the request bits.          *)
MutCause ==
  CASE "REQUEST_STA_CONNECT" \in bits -> "attempt"
    [] bits \cap {"REQUEST_STA_CONNECT", "REQUEST_DISCONNECT", "REQUEST_RESTORE_STA"}
         \in {{"REQUEST_DISCONNECT"}, {"REQUEST_RESTORE_STA"}} -> "asked"
    [] OTHER -> "lost"

Cause == IF "REQUEST_STA_CONNECT" \in bits THEN "attempt"
         ELSE IF "REQUEST_DISCONNECT" \in bits THEN "asked"
         ELSE "lost"

(* wifi_manager_generate_ip_info_json under the json mutex.                *)
Reports(code, net) == json' = Status(code, net.ssid)

(* A user's attempt failed: no retry.                                      *)
MutAttemptFailed ==
  /\ Cause = "attempt"
  /\ Reports("FAILED_ATTEMPT", config)
  /\ StopShutdownTimer
  /\ UNCHANGED <<bits, pending, retries, config, nvs>>

AttemptFailed ==
  /\ Cause = "attempt"
  /\ bits' = bits \ {"REQUEST_STA_CONNECT"}
  /\ Reports("FAILED_ATTEMPT", config)
  /\ StopShutdownTimer
  /\ UNCHANGED <<pending, retries, config, nvs>>

(* A user asked to disconnect: the configuration is erased, also in flash, *)
(* and the access point is ordered.                                        *)
UserDisconnected ==
  /\ Cause = "asked"
  /\ bits' = bits \ {"REQUEST_DISCONNECT"}
  /\ config' = NoNet /\ nvs' = NoNet
  /\ Reports("USER_DISCONNECT", NoNet)
  /\ StopShutdownTimer
  /\ Blocks("task", StartAp)
  /\ UNCHANGED retries

(* xTimerStop, when the shutdown timer runs, then xTimerStart.             *)
MutStopShutdownStartRetry == StopShutdownTimer

StopShutdownStartRetry ==
  LET room(s) == Len(s) < TimerQueueLen
      stopped == IF shutdownTimer /\ room(timerCmds)
                 THEN Append(timerCmds, "stop_shutdown") ELSE timerCmds
  IN timerCmds' = IF room(stopped) THEN Append(stopped, "start_retry") ELSE stopped

MutRetriesLeft == retries <= MaxRetry

RetriesLeft == retries < MaxRetry

(* A connection was lost or an automatic attempt failed: retry, and order  *)
(* the access point when the retries are used up.                          *)
ConnectionLost ==
  /\ Cause = "lost"
  /\ bits' = bits \ {"REQUEST_RESTORE_STA"}
  /\ Reports("LOST_CONNECTION", config)
  /\ StopShutdownStartRetry
  /\ \/ /\ "AP_STARTED" \in bits
        /\ UNCHANGED <<retries, pending>>
     \/ /\ "AP_STARTED" \notin bits /\ RetriesLeft
        /\ retries' = retries + 1
        /\ UNCHANGED pending
     \/ /\ "AP_STARTED" \notin bits /\ ~RetriesLeft
        /\ retries' = 0
        /\ Blocks("task", StartAp)
  /\ UNCHANGED <<config, nvs>>

HandleStaDisconnected ==
  /\ Receive("EVENT_STA_DISCONNECTED")
  /\ AttemptFailed \/ UserDisconnected \/ ConnectionLost
  /\ UNCHANGED <<restart, retryTimer, shutdownTimer, posting, dns, drvVars>>

(* http_app_stop frees the URLs and calls httpd_stop, which returns only   *)
(* once the web server task has left its handler (FinishStartAp,           *)
(* FinishStopAp).                                                          *)
HandleStartAp ==
  /\ Receive("ORDER_START_AP")
  /\ mode' = "APSTA"
  /\ IF mode = "STA" THEN Announce(ApStart) ELSE UNCHANGED events
  /\ restart' = "start_ap"
  /\ UNCHANGED <<pending, bits, retries, timerVars, cfgVars, dns, sta, staCfg, scanning>>

Overwriting == posting.at # "idle"
HttpdIdle == pending["httpd"] = NoMsg /\ ~Overwriting

FinishStartAp ==
  /\ restart = "start_ap"
  /\ HttpdIdle
  /\ restart' = "none"
  /\ dns' = TRUE
  /\ UNCHANGED <<queue, pending, bits, retries, timerVars, cfgVars, drvVars>>

MutStillConnected == TRUE

StillConnected == "WIFI_CONNECTED" \in bits

HandleStopAp ==
  /\ Receive("ORDER_STOP_AP")
  /\ IF StillConnected
     THEN /\ mode' = "STA"
          /\ IF mode = "APSTA" THEN Announce(ApStop) ELSE UNCHANGED events
          /\ dns' = FALSE
          /\ restart' = "stop_ap"
     ELSE UNCHANGED <<mode, events, dns, restart>>
  /\ UNCHANGED <<pending, bits, retries, timerVars, cfgVars, sta, staCfg, scanning>>

FinishStopAp ==
  /\ restart = "stop_ap"
  /\ HttpdIdle
  /\ restart' = "none"
  /\ UNCHANGED <<queue, pending, bits, retries, timerVars, cfgVars, dns, drvVars>>

(* Whether the access point must be shut down is decided from the bit the  *)
(* event loop sets, not from the mode the task itself has chosen.          *)
MutScheduleApShutdown == UNCHANGED <<pending, timerCmds>>

ScheduleApShutdown ==
  \/ /\ "AP_STARTED" \notin bits
     /\ UNCHANGED <<pending, timerCmds>>
  \/ /\ "AP_STARTED" \in bits /\ ~ImmediateStop
     /\ PostTimer("start_shutdown")
     /\ UNCHANGED pending
  \/ /\ "AP_STARTED" \in bits /\ ImmediateStop
     /\ Blocks("task", StopAp)
     /\ UNCHANGED timerCmds

ConfigToSave == IF "REQUEST_RESTORE_STA" \in bits THEN nvs ELSE config

MutHandleGotIp ==
  /\ Receive("EVENT_STA_GOT_IP")
  /\ bits' = bits \ {"REQUEST_STA_CONNECT", "REQUEST_RESTORE_STA"}
  /\ nvs' = ConfigToSave
  /\ retries' = 0
  /\ Reports("CONNECTION_OK", config)
  /\ ScheduleApShutdown
  /\ UNCHANGED <<restart, retryTimer, shutdownTimer, config, posting, dns, drvVars>>

HandleGotIp ==
  /\ Receive("EVENT_STA_GOT_IP")
  /\ bits' = bits \ {"REQUEST_STA_CONNECT", "REQUEST_RESTORE_STA"}
  /\ nvs' = ConfigToSave
  /\ retries' = 0
  /\ Reports("CONNECTION_OK", config)
  /\ dns' = FALSE
  /\ ScheduleApShutdown
  /\ UNCHANGED <<restart, retryTimer, shutdownTimer, config, posting, drvVars>>

(* esp_wifi_disconnect is silent when there is nothing to disconnect.      *)
HandleDisconnectSta ==
  /\ Receive("ORDER_DISCONNECT_STA")
  /\ bits' = bits \cup {"REQUEST_DISCONNECT"}
  /\ IF sta = "idle"
     THEN UNCHANGED <<sta, scanning, events>>
     ELSE sta' = "idle" /\ ScanMayDie /\ Announce(Disconnected("LEAVE"))
  /\ UNCHANGED <<pending, restart, retries, timerVars, cfgVars, dns, staCfg, mode>>

(* ESP_ERROR_CHECK aborts, and the device restarts, when the driver refuses*)
(* to scan, to be configured or to connect.                                *)
DriverRefuses ==
  /\ "refuse" \in Env
  /\ pending["task"] = NoMsg /\ restart = "none" /\ queue # <<>>
  /\ \/ /\ Head(queue).code = "ORDER_START_WIFI_SCAN"
        /\ "SCAN" \notin bits /\ sta = "connecting"
     \/ /\ Head(queue).code = "ORDER_CONNECT_STA"
        /\ "WIFI_CONNECTED" \notin bits
        /\ sta = "connecting" \/ ~Named(config)
  /\ Reboot

TaskStep ==
  \/ HandleScanDone \/ HandleStartScan \/ HandleLoadAndRestore
  \/ HandleConnectSta \/ HandleStaDisconnected
  \/ HandleStartAp \/ FinishStartAp \/ HandleStopAp \/ FinishStopAp
  \/ HandleGotIp \/ HandleDisconnectSta
  \/ DriverRefuses

-----------------------------------------------------------------------------
(* wifi_manager_event_handler in the event-loop task: the bits change      *)
(* first, the message is sent after.                                       *)
MutEventBitsScan(e) ==
  CASE e.code = "EVENT_SCAN_DONE" -> bits \ {"SCAN"}
    [] e.code = "EVENT_STA_DISCONNECTED" -> bits \ {"WIFI_CONNECTED"}
    [] e.code = "AP_START" -> bits \cup {"AP_STARTED"}
    [] e.code = "AP_STOP" -> bits \ {"AP_STARTED"}
    [] e.code = "EVENT_STA_GOT_IP" -> bits \cup {"WIFI_CONNECTED"}

MutEventBitsAp(e) ==
  CASE e.code = "EVENT_SCAN_DONE" -> bits \ {"SCAN"}
    [] e.code = "EVENT_STA_DISCONNECTED" -> bits \ {"WIFI_CONNECTED", "SCAN"}
    [] e.code = "AP_START" -> bits \cup {"AP_STARTED"}
    [] e.code = "AP_STOP" -> bits
    [] e.code = "EVENT_STA_GOT_IP" -> bits \cup {"WIFI_CONNECTED"}

EventBits(e) ==
  CASE e.code = "EVENT_SCAN_DONE" -> bits \ {"SCAN"}
    [] e.code = "EVENT_STA_DISCONNECTED" -> bits \ {"WIFI_CONNECTED", "SCAN"}
    [] e.code = "AP_START" -> bits \cup {"AP_STARTED"}
    [] e.code = "AP_STOP" -> bits \ {"AP_STARTED"}
    [] e.code = "EVENT_STA_GOT_IP" -> bits \cup {"WIFI_CONNECTED"}

EventHandler ==
  /\ pending["event_loop"] = NoMsg
  /\ events # <<>>
  /\ events' = Tail(events)
  /\ bits' = EventBits(Head(events))
  /\ IF Head(events) \in Messages THEN Blocks("event_loop", Head(events))
                                  ELSE UNCHANGED pending
  /\ UNCHANGED <<queue, restart, retries, timerVars, cfgVars, dns,
                 sta, staCfg, scanning, mode>>

-----------------------------------------------------------------------------
(* The timers run for seconds, the messages for milliseconds: with         *)
(* SlowTimers an expiry finds nothing left of what was ordered when the    *)
(* timer was started; later messages it may overtake.                      *)
ApOrders == {StartAp, StopAp}
ApChanging ==
  \/ restart # "none" \/ pending["task"] \in ApOrders
  \/ \E i \in 1..Len(queue) : queue[i] \in ApOrders
  \/ \E i \in 1..Len(events) : events[i] \in {ApStart, ApStop}

MayExpire ==
  /\ pending["timer"] = NoMsg
  /\ SlowTimers => timerCmds = <<>> /\ ~ApChanging

(* The timer daemon: an expired one-shot timer runs its callback, which    *)
(* posts a stop command and then blocks in the send.                       *)
MutTimerRetryCb ==
  /\ MayExpire
  /\ retryTimer
  /\ Blocks("timer", ConnectSta("AUTO_RECONNECT"))
  /\ UNCHANGED <<queue, restart, bits, retries, timerVars, cfgVars, dns, drvVars>>

TimerRetryCb ==
  /\ MayExpire
  /\ retryTimer
  /\ retryTimer' = FALSE
  /\ PostTimer("stop_retry")
  /\ Blocks("timer", ConnectSta("AUTO_RECONNECT"))
  /\ UNCHANGED <<queue, restart, bits, retries, shutdownTimer, cfgVars, dns, drvVars>>

TimerShutdownApCb ==
  /\ MayExpire
  /\ shutdownTimer
  /\ shutdownTimer' = FALSE
  /\ PostTimer("stop_shutdown")
  /\ Blocks("timer", StopAp)
  /\ UNCHANGED <<queue, restart, bits, retries, retryTimer, cfgVars, dns, drvVars>>

TimerCommand ==
  /\ pending["timer"] = NoMsg
  /\ timerCmds # <<>>
  /\ timerCmds' = Tail(timerCmds)
  /\ retryTimer' = CASE Head(timerCmds) = "start_retry" -> TRUE
                     [] Head(timerCmds) = "stop_retry" -> FALSE
                     [] OTHER -> retryTimer
  /\ shutdownTimer' = CASE Head(timerCmds) = "start_shutdown" -> TRUE
                        [] Head(timerCmds) = "stop_shutdown" -> FALSE
                        [] OTHER -> shutdownTimer
  /\ UNCHANGED <<queue, pending, restart, bits, retries, cfgVars, dns, drvVars>>

TimerStep == TimerRetryCb \/ TimerShutdownApCb \/ TimerCommand

-----------------------------------------------------------------------------
(* The web server task.  A browser reaches it through the access point or  *)
(* through the station's network, and it serves one request at a time.     *)
Serving ==
  /\ restart = "none"
  /\ HttpdIdle
  /\ mode = "APSTA" \/ sta = "connected"

(* POST /connect.json overwrites the shared configuration without a lock:  *)
(* memset, then memcpy of the ssid and of the password.  Each is a step,   *)
(* and the task may read what there is between two of them.                *)
PostConnect(net) ==
  /\ "post" \in Env
  /\ Serving
  /\ config' = NoNet
  /\ posting' = [net |-> net, at |-> "ssid"]
  /\ UNCHANGED <<queue, pending, restart, bits, retries, timerVars, nvs, json, dns,
                 drvVars>>

After(stage) == IF stage = "ssid" THEN "password" ELSE "clear"

PostCopies ==
  /\ posting.at \in {"ssid", "password"}
  /\ config' = [config EXCEPT ![posting.at] = posting.net[posting.at]]
  /\ posting' = [posting EXCEPT !.at = After(posting.at)]
  /\ UNCHANGED <<queue, pending, restart, bits, retries, timerVars, nvs, json, dns,
                 drvVars>>

(* wifi_manager_connect_async clears the status, then sends the order.     *)
ConnectAsync ==
  /\ posting.at = "clear"
  /\ json' = Cleared
  /\ posting' = NotPosting
  /\ Blocks("httpd", ConnectSta("USER"))
  /\ UNCHANGED <<queue, restart, bits, retries, timerVars, config, nvs, dns, drvVars>>

PostContinues == PostCopies \/ ConnectAsync

(* DELETE /connect.json                                                    *)
DeleteConnect ==
  /\ "delete" \in Env
  /\ Serving
  /\ Blocks("httpd", DisconnectSta)
  /\ UNCHANGED <<queue, restart, bits, retries, timerVars, cfgVars, dns, drvVars>>

(* GET /ap.json serves the last list and then asks for a scan.             *)
GetApJson ==
  /\ "scan" \in Env
  /\ Serving
  /\ Blocks("httpd", StartScan)
  /\ UNCHANGED <<queue, restart, bits, retries, timerVars, cfgVars, dns, drvVars>>

Request == (\E net \in Nets : PostConnect(net)) \/ DeleteConnect \/ GetApJson

HttpStep == Request \/ PostContinues

-----------------------------------------------------------------------------
(* The driver and the radio.                                               *)
ConnectSucceeds ==
  /\ sta = "connecting" /\ Named(staCfg)
  /\ sta' = "connected"
  /\ Announce(GotIp)
  /\ UNCHANGED <<queue, pending, restart, bits, retries, timerVars, cfgVars, dns,
                 staCfg, scanning, mode>>

ConnectFails ==
  /\ sta = "connecting"
  /\ sta' = "idle"
  /\ Announce(Disconnected("FAIL"))
  /\ ScanMayDie
  /\ UNCHANGED <<queue, pending, restart, bits, retries, timerVars, cfgVars, dns,
                 staCfg, mode>>

LinkLost ==
  /\ "linkloss" \in Env
  /\ sta = "connected"
  /\ sta' = "idle"
  /\ Announce(Disconnected("LOST"))
  /\ ScanMayDie
  /\ UNCHANGED <<queue, pending, restart, bits, retries, timerVars, cfgVars, dns,
                 staCfg, mode>>

\* A lease is renewed long after the previous address was dealt with.
AddressRenewed ==
  /\ "renew" \in Env
  /\ sta = "connected"
  /\ events = <<>> /\ timerCmds = <<>> /\ queue = <<>>
  /\ pending["event_loop"] = NoMsg
  /\ Announce(GotIp)
  /\ UNCHANGED <<queue, pending, restart, bits, retries, timerVars, cfgVars, dns,
                 sta, staCfg, scanning, mode>>

ScanCompletes ==
  /\ scanning
  /\ scanning' = FALSE
  /\ Announce(ScanDone)
  /\ UNCHANGED <<queue, pending, restart, bits, retries, timerVars, cfgVars, dns,
                 sta, staCfg, mode>>

PowerCut == "powercut" \in Env /\ Reboot

DriverStep == ConnectSucceeds \/ ConnectFails \/ LinkLost \/ AddressRenewed
                \/ ScanCompletes

Next ==
  \/ TaskStep
  \/ \E s \in Senders : Send(s)
  \/ EventHandler
  \/ TimerStep
  \/ HttpStep
  \/ DriverStep
  \/ PowerCut

Spec == Init /\ [][Next]_vars

(* Tasks, daemon and driver are scheduled for ever; the radio, the users   *)
(* and the power supply owe nothing.  A blocked sender is woken in turn.   *)
Fairness ==
  /\ WF_vars(TaskStep) /\ WF_vars(PostContinues)
  /\ \A s \in Senders : SF_vars(Send(s))
  /\ WF_vars(EventHandler)
  /\ WF_vars(TimerRetryCb) /\ WF_vars(TimerShutdownApCb) /\ WF_vars(TimerCommand)
  /\ WF_vars(ConnectSucceeds \/ ConnectFails)
  /\ WF_vars(ScanCompletes)

-----------------------------------------------------------------------------
(* Properties.                                                             *)

\* Nothing is queued, blocked, announced or under way.
Quiescent ==
  /\ queue = <<>> /\ events = <<>> /\ timerCmds = <<>>
  /\ \A s \in Senders : pending[s] = NoMsg
  /\ restart = "none" /\ ~Overwriting
  /\ sta # "connecting"

\* The last element of q whose code is in codes is c, or b is, if there is none.
Follows(q, codes, b, c) ==
  /\ (\A i \in 1..Len(q) : q[i].code \notin codes) => b = c
  /\ \A i \in 1..Len(q) :
       (/\ q[i].code \in codes
        /\ \A j \in (i+1)..Len(q) : q[j].code \notin codes)
         => q[i].code = c

LinkCodes == {"EVENT_STA_GOT_IP", "EVENT_STA_DISCONNECTED"}
LinkCode(up) == IF up THEN "EVENT_STA_GOT_IP" ELSE "EVENT_STA_DISCONNECTED"
ApCodes == {"AP_START", "AP_STOP"}
ApCode(up) == IF up THEN "AP_START" ELSE "AP_STOP"

(* The event group is a delayed copy of the driver: the last link event not*)
(* yet handled, or else WIFI_CONNECTED, tells whether the station is       *)
(* connected, however the driver, the event loop and the task interleave.  *)
ConnectedBitFollowsLink ==
  Follows(events, LinkCodes, LinkCode("WIFI_CONNECTED" \in bits), LinkCode(sta = "connected"))

(* The same for AP_STARTED and the wifi mode.                              *)
ApBitFollowsMode ==
  Follows(events, ApCodes, ApCode("AP_STARTED" \in bits), ApCode(mode = "APSTA"))

(* The DNS hijack, which answers every name with the access point's        *)
(* address, runs only while the access point is on.                        *)
DnsOnlyWithAp == dns => mode = "APSTA"

(* What the task knows of the driver mirrors it, late but never wrongly:   *)
(* both bits, and the hijack, which depends on the order of their events.  *)
Mirrored == ConnectedBitFollowsLink /\ ApBitFollowsMode /\ DnsOnlyWithAp

(* An access point is taken down (WM_ORDER_STOP_AP) only while the station *)
(* is connected, or when the loss of the link is still being announced and *)
(* will therefore be retried; power cuts and aborts apart.                 *)
LossAnnounced == \E i \in 1..Len(events) : events[i].code = "EVENT_STA_DISCONNECTED"
ApStopsOnline ==
  [][mode = "APSTA" /\ mode' = "STA" /\ pending'["task"] # LoadRestore
       => sta = "connected" \/ LossAnnounced]_vars

(* A device that has come to rest without a link can still be reached or   *)
(* still tries: the access point is on or the retry timer runs             *)
(* (wifi_manager.h:71-74, a lost connection is followed by an attempt).    *)
NeverInLimbo == Quiescent /\ sta = "idle" => retryTimer \/ mode = "APSTA"

(* The task never waits for room in the queue that only it can empty.      *)
NeverBlockedOnItself == ~(pending["task"] # NoMsg /\ Len(queue) = QueueCap)

(* Once things settle, a user's request has had its verdict: the bit that  *)
(* waits for it is cleared with it.  One case is excepted, since the code  *)
(* leaves it: a request taken while the station is connected only sets the *)
(* bit (wifi_manager.c:1052-1060).  It rests without a verdict, and then   *)
(* the old link still stands and status.json holds no failure or loss that *)
(* could be taken for one.                                                 *)
RequestGetsVerdict ==
  Quiescent /\ "REQUEST_STA_CONNECT" \in bits =>
    sta = "connected" /\ json.urc \in {"CLEARED", "CONNECTION_OK"}

(* At rest without a link, status.json does not claim a connection.        *)
StatusNotStale == Quiescent /\ sta = "idle" => json.urc # "CONNECTION_OK"

(* At rest with a link the hijack is down: the browsers of the access point *)
(* are answered normally although the access point is still on.            *)
HijackEndsOnline == Quiescent /\ sta = "connected" => ~dns

(* When nothing is left to handle the parts agree, however links, timers,  *)
(* orders and restarts were interleaved: without a link the device retries *)
(* or can be reached, with one it answers names truthfully, and what       *)
(* status.json says is so.                                                 *)
SoundAtRest == NeverInLimbo /\ StatusNotStale /\ HijackEndsOnline

(* The SCAN bit never outlives the scan: a later request would be ignored  *)
(* for ever (wifi_manager.c:659).                                          *)
ScanBitIsBacked == Quiescent /\ "SCAN" \in bits => scanning

(* Without a DELETE from a user, and while no POST is half way through its *)
(* overwrite, a save loses nothing: the saved network stays or a whole one *)
(* takes its place, whatever the radio, the timers, the power supply and   *)
(* other requests do.  A connection that completes during the overwrite    *)
(* saves what it finds, a blank or a name without its password.            *)
SavedSurvives ==
  [][("delete" \notin Env /\ ~Overwriting) => nvs' \in Nets \cup {nvs}]_vars

(* What the pages see of the task: status.json names what the shared       *)
(* configuration held when it was written, a network or what a POST had    *)
(* left of it by then; a request clears it; and an attempt is reported as  *)
(* failed only while a request is queued or its bit is set, however        *)
(* requests, retries and late events interleave (wifi_manager.c:1090).     *)
RequestUnderway ==
  \/ "REQUEST_STA_CONNECT" \in bits
  \/ \E s \in Senders : pending[s] = ConnectSta("USER")
  \/ \E i \in 1..Len(queue) : queue[i] = ConnectSta("USER")
Portal == INSTANCE ConnectionStatus
            WITH ssid <- config.ssid, status <- json, asked <- RequestUnderway,
                 writing <- Overwriting
StatusSpec == Portal!Spec

(* From some moment on the power stays and no lease needs to be renewed.   *)
Calm == <>[][~PowerCut /\ ~AddressRenewed]_vars

(* A device left alone can always be reached again, by its link or by its  *)
(* access point.                                                           *)
AlwaysReachableAgain == Calm => []<>(sta = "connected" \/ mode = "APSTA")

(* A saved network is tried again and again for as long as it is saved.    *)
SavedIsRetried == Calm /\ []Named(nvs) => []<>(sta # "idle")

(* A lasting connection eventually closes the access point (README.md:9).  *)
ApEventuallyStops == Calm /\ <>[](sta = "connected") => <>[](mode = "STA")
=============================================================================
