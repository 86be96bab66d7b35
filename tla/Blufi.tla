------------------------------- MODULE Blufi -------------------------------
(***************************************************************************)
(* The blufi example (blufi/main): a phone configures and supervises the   *)
(* device's Wi-Fi over a BLE connection.  Two tasks share the gl_sta_*     *)
(* variables without a lock:                                               *)
(*   "event_loop"  runs wifi_event_handler and ip_event_handler,           *)
(*   "bluetooth"   runs example_event_callback and the key negotiation.    *)
(* A handler is one action up to the point where a driver call lets the    *)
(* other task run: the answer of esp_wifi_connect is assigned in a step of *)
(* its own, and esp_wifi_scan_start blocks its caller.                     *)
(*                                                                         *)
(* Abstractions: names, passwords and signal strengths are left out, but   *)
(* not whether the driver holds a configuration; so are the settings of    *)
(* the soft access point, and the cases that only log.                     *)
(***************************************************************************)
EXTENDS BlufiSecurity, Sequences

CONSTANTS
  MaxRetry,   \* EXAMPLE_WIFI_CONNECTION_MAXIMUM_RETRY
  Bluedroid,  \* which host blufi_init.c is built for: Bluedroid or NimBLE
  Prompt,     \* timing: no association ends while a task is inside a handler
  MaxEvents,  \* bound: driver events waiting for the event loop
  Requests    \* bound: requests phones make in a behaviour

ASSUME BlufiAssumption ==
  /\ MaxRetry \in 0 .. 255
  /\ Bluedroid \in BOOLEAN /\ Prompt \in BOOLEAN
  /\ MaxEvents \in Nat \ {0}
  /\ Requests \in Nat

VARIABLES
  todo,        \* steps of app_main that are left
  registered,  \* esp_blufi_register_callbacks was called
  at,          \* per task, where it is inside a handler
  connected,   \* gl_sta_connected
  connecting,  \* gl_sta_is_connecting
  gotIp,       \* gl_sta_got_ip, and CONNECTED_BIT of wifi_event_group
  retry,       \* example_wifi_retry, a uint8_t
  connInfo,    \* gl_sta_conn_info: "retrying" or "ended" fields are set
  ble,         \* ble_is_connected
  told,        \* state of the last connection report sent to the phone
  mode,        \* driver: the Wi-Fi mode
  config,      \* driver: a network has been configured
  link,        \* driver: the station interface
  dhcp,        \* netif: "off", "started" or "bound"
  events,      \* events the event loop has to handle, the head until it is done
  bleLink,     \* a phone holds a BLE connection
  advertising,
  calls,       \* events the Bluetooth task has not called back yet
  left         \* requests phones may still make

progVars   == <<connected, connecting, gotIp, retry, connInfo, told>>
driverVars == <<mode, config, link, dhcp>>
bleVars    == <<bleLink, advertising, calls>>
bootVars   == <<todo, registered>>
vars == <<bootVars, at, progVars, ble, driverVars, events, bleVars, left,
          securityVars>>

Tasks == {"event_loop", "bluetooth"}
Modes == {"STA", "AP", "APSTA"}
DriverEvents == {"STA_START", "STA_CONNECTED", "STA_DISCONNECTED", "GOT_IP",
                 "AP_START", "SCAN_DONE"}
Calls == {"INIT_FINISH", "BLE_CONNECT", "BLE_DISCONNECT"}
BootSteps == {"wifi", "controller", "host", "callbacks", "profile", "failed"}

TypeOK ==
  /\ todo \in Seq(BootSteps) /\ registered \in BOOLEAN
  /\ at \in [Tasks -> {"ready", "connect", "accepted", "refused", "scan"}]
  /\ connected \in BOOLEAN /\ connecting \in BOOLEAN /\ gotIp \in BOOLEAN
  /\ retry \in 0 .. 255
  /\ connInfo \in {"retrying", "ended"}
  /\ ble \in BOOLEAN
  /\ told \in {"nothing", "success", "no_ip", "connecting", "fail"}
  /\ mode \in Modes /\ config \in BOOLEAN
  /\ link \in {"idle", "connecting", "up"} /\ dhcp \in {"off", "started", "bound"}
  /\ events \in Seq(DriverEvents)
  /\ bleLink \in BOOLEAN /\ advertising \in BOOLEAN /\ calls \in Seq(Calls)
  /\ left \in 0 .. Requests
  /\ SecurityTypeOK

\* app_main, with esp_blufi_host_and_cb_init as it is written for each host
BluedroidStart == <<"wifi", "controller", "host", "callbacks", "profile">>
NimbleStart == <<"wifi", "controller", "callbacks", "host", "profile">>

Init ==
  /\ todo = IF Bluedroid THEN BluedroidStart ELSE NimbleStart
  /\ registered = FALSE
  /\ at = [t \in Tasks |-> "ready"]
  /\ connected = FALSE /\ connecting = FALSE /\ gotIp = FALSE /\ retry = 0
  /\ connInfo = "ended" /\ ble = FALSE /\ told = "nothing"
  /\ mode = "STA" /\ config \in BOOLEAN /\ link = "idle" /\ dhcp = "off"
  /\ events = <<>>
  /\ bleLink = FALSE /\ advertising = FALSE /\ calls = <<>>
  /\ left = Requests
  /\ SecurityStart

-----------------------------------------------------------------------------
(* The Wi-Fi driver *)

Room == Len(events) < MaxEvents
Post(e) == events' = events \o e

Idle == \A t \in Tasks : at[t] = "ready"

\* esp_wifi_connect: refused without a network or a station interface.  While
\* the interface is busy the call starts nothing, and may be refused too.
EspWifiConnect(accepted) ==
  \/ /\ mode = "AP" \/ ~config
     /\ ~accepted /\ UNCHANGED link
  \/ /\ mode # "AP" /\ config
     /\ IF link = "idle" THEN accepted /\ link' = "connecting" ELSE UNCHANGED link

\* esp_wifi_disconnect, or the interface is taken away: an event follows only
\* if there was something to end.
Dropped == IF link = "idle" THEN <<>> ELSE <<"STA_DISCONNECTED">>

Associates ==
  /\ link = "connecting" /\ Room
  /\ Prompt => Idle
  /\ link' = "up" /\ Post(<<"STA_CONNECTED">>)
  /\ UNCHANGED <<bootVars, at, progVars, ble, mode, config, dhcp, bleVars, left,
                 securityVars>>

\* An association fails, or a link breaks.
Breaks ==
  /\ link # "idle" /\ Room
  /\ (link = "connecting" /\ Prompt) => Idle
  /\ link' = "idle" /\ Post(<<"STA_DISCONNECTED">>)
  /\ UNCHANGED <<bootVars, at, progVars, ble, mode, config, dhcp, bleVars, left,
                 securityVars>>

\* The lease may have been on its way when the link broke.
LeaseArrives ==
  /\ dhcp = "started" /\ Room
  /\ dhcp' = "bound" /\ Post(<<"GOT_IP">>)
  /\ UNCHANGED <<bootVars, at, progVars, ble, mode, config, link, bleVars, left,
                 securityVars>>

ScanCompletes ==
  /\ at["bluetooth"] = "scan" /\ Room
  /\ at' = [at EXCEPT !["bluetooth"] = "ready"]
  /\ Post(<<"SCAN_DONE">>)
  /\ UNCHANGED <<bootVars, progVars, ble, driverVars, bleVars, left, securityVars>>

-----------------------------------------------------------------------------
(* Functions both tasks call *)

\* The connection report: from the variables, whatever the driver is doing.
Report == IF connected THEN IF gotIp THEN "success" ELSE "no_ip"
          ELSE IF connecting THEN "connecting" ELSE "fail"

\* example_wifi_connect and example_wifi_reconnect call the driver; what it
\* answered is assigned, and recorded, when the task runs again.
Attempt(task) ==
  \E accepted \in BOOLEAN :
    /\ EspWifiConnect(accepted)
    /\ at' = [at EXCEPT ![task] = IF accepted THEN "accepted" ELSE "refused"]

Assign(task) ==
  /\ at[task] \in {"accepted", "refused"}
  /\ at' = [at EXCEPT ![task] = "ready"]
  /\ connecting' = (at[task] = "accepted")
  /\ connInfo' = IF at[task] = "accepted" THEN "retrying" ELSE "ended"

-----------------------------------------------------------------------------
(* The event loop *)

Handles(e) ==
  /\ events # <<>> /\ Head(events) = e
  /\ UNCHANGED <<bootVars, ble, mode, config, bleVars, left, securityVars>>

Starts(e) == Handles(e) /\ at["event_loop"] = "ready"
Done == events' = Tail(events)

HandleStaStart ==
  /\ Starts("STA_START")
  /\ retry' = 0
  /\ Attempt("event_loop")
  /\ UNCHANGED <<events, connected, connecting, gotIp, connInfo, told, dhcp>>

StaStartAssigns ==
  /\ Handles("STA_START") /\ Assign("event_loop") /\ Done
  /\ UNCHANGED <<connected, gotIp, retry, told, link, dhcp>>

HandleStaConnected ==
  /\ Starts("STA_CONNECTED") /\ Done
  /\ connected' = TRUE /\ connecting' = FALSE
  /\ dhcp' = "started"
  /\ UNCHANGED <<at, gotIp, retry, connInfo, told, link>>

MutLinkGone ==
  /\ gotIp' = FALSE
  /\ dhcp' = "off"
  /\ Done
  /\ UNCHANGED <<told, connected>>

\* What the handler of STA_DISCONNECTED ends with, whatever it did before.
LinkGone ==
  /\ connected' = FALSE /\ gotIp' = FALSE
  /\ dhcp' = "off"
  /\ Done
  /\ UNCHANGED told

MutGiveUp ==
  /\ connInfo' = "ended"
  /\ LinkGone
  /\ UNCHANGED <<at, link, connecting>>

GiveUp ==
  /\ connecting' = FALSE /\ connInfo' = "ended"
  /\ LinkGone
  /\ UNCHANGED <<at, link>>

\* A link that was up is not taken up again.
HandleLinkLost ==
  /\ Starts("STA_DISCONNECTED") /\ connected
  /\ LinkGone
  /\ UNCHANGED <<at, connecting, retry, connInfo, link>>

\* While connecting, example_wifi_retry counts even the attempt it denies.
HandleAttemptFailed ==
  /\ Starts("STA_DISCONNECTED") /\ ~connected
  /\ \/ /\ connecting /\ retry < MaxRetry
        /\ retry' = (retry + 1) % 256
        /\ Attempt("event_loop")
        /\ UNCHANGED <<events, connected, connecting, gotIp, connInfo, told, dhcp>>
     \/ connecting /\ retry >= MaxRetry /\ retry' = (retry + 1) % 256 /\ GiveUp
     \/ ~connecting /\ GiveUp /\ UNCHANGED retry

ReconnectAssigns ==
  /\ Handles("STA_DISCONNECTED") /\ Assign("event_loop")
  /\ LinkGone
  /\ UNCHANGED <<retry, link>>

HandleGotIp ==
  /\ Starts("GOT_IP") /\ Done
  /\ gotIp' = TRUE
  /\ told' = IF ble THEN "success" ELSE told
  /\ UNCHANGED <<at, connected, connecting, retry, connInfo, link, dhcp>>

HandleApStart ==
  /\ Starts("AP_START") /\ Done
  /\ told' = IF ble THEN Report ELSE told
  /\ UNCHANGED <<at, connected, connecting, gotIp, retry, connInfo, link, dhcp>>

HandleScanDone ==
  /\ Starts("SCAN_DONE") /\ Done
  /\ UNCHANGED <<at, progVars, link, dhcp>>

EventLoop ==
  \/ HandleStaStart \/ StaStartAssigns \/ HandleStaConnected
  \/ HandleLinkLost \/ HandleAttemptFailed \/ ReconnectAssigns
  \/ HandleGotIp \/ HandleApStart \/ HandleScanDone

-----------------------------------------------------------------------------
(* app_main, and the BLE connection *)

Boots(step) ==
  /\ todo # <<>> /\ Head(todo) = step /\ todo' = Tail(todo)
  /\ UNCHANGED <<at, progVars, ble, driverVars, bleLink, advertising, left,
                 securityVars>>

InitialiseWifi ==
  Boots("wifi") /\ Room /\ Post(<<"STA_START">>) /\ UNCHANGED <<registered, calls>>

ControllerStarts == Boots("controller") /\ UNCHANGED <<registered, events, calls>>
HostStarts == Boots("host") /\ UNCHANGED <<registered, events, calls>>

RegisterCallbacks ==
  Boots("callbacks") /\ registered' = TRUE /\ UNCHANGED <<events, calls>>

\* The profile reports that it is ready, if anybody is there to be told.
ProfileStarts ==
  /\ Boots("profile")
  /\ calls' = IF registered THEN Append(calls, "INIT_FINISH") ELSE calls
  /\ UNCHANGED <<registered, events>>

BootStep ==
  \/ InitialiseWifi \/ ControllerStarts \/ HostStarts
  \/ RegisterCallbacks \/ ProfileStarts

\* app_main returns: the device is on the network it knows, if it does, but
\* no phone will see it.
BootFails ==
  /\ todo # <<>> /\ Head(todo) \notin {"wifi", "failed"}
  /\ todo' = <<"failed">>
  /\ UNCHANGED <<registered, at, progVars, ble, driverVars, events, bleVars, left,
                 securityVars>>

\* A connection ends the advertising that led to it.
PhoneConnects ==
  /\ advertising /\ ~bleLink
  /\ bleLink' = TRUE /\ advertising' = FALSE
  /\ calls' = Append(calls, "BLE_CONNECT")
  /\ UNCHANGED <<bootVars, at, progVars, ble, driverVars, events, left, securityVars>>

PhoneLeaves ==
  /\ bleLink
  /\ bleLink' = FALSE
  /\ calls' = Append(calls, "BLE_DISCONNECT")
  /\ UNCHANGED <<bootVars, at, progVars, ble, driverVars, events, advertising, left,
                 securityVars>>

-----------------------------------------------------------------------------
(* The Bluetooth task *)

CallsBack(c) ==
  /\ at["bluetooth"] = "ready"
  /\ calls # <<>> /\ Head(calls) = c /\ calls' = Tail(calls)
  /\ UNCHANGED <<bootVars, at, connected, connecting, gotIp, retry, connInfo,
                 driverVars, events, bleLink, left>>

InitFinish ==
  /\ CallsBack("INIT_FINISH")
  /\ advertising' = TRUE
  /\ UNCHANGED <<ble, told, securityVars>>

BleConnect ==
  /\ CallsBack("BLE_CONNECT")
  /\ ble' = TRUE /\ told' = "nothing"
  /\ advertising' = FALSE
  /\ SecurityInit

MutBleDisconnect ==
  /\ CallsBack("BLE_DISCONNECT")
  /\ ble' = FALSE
  /\ SecurityDeinit
  /\ UNCHANGED <<told, advertising>>

BleDisconnect ==
  /\ CallsBack("BLE_DISCONNECT")
  /\ ble' = FALSE
  /\ SecurityDeinit
  /\ advertising' = TRUE
  /\ UNCHANGED told

\* A request reaches the task in its turn after the connection it came over.
Serves ==
  /\ at["bluetooth"] = "ready" /\ calls = <<>> /\ ble
  /\ UNCHANGED <<bootVars, connected, connecting, gotIp, connInfo, ble, dhcp,
                 advertising>>

Request == Serves /\ left > 0 /\ left' = left - 1

\* What a change of mode starts and stops in the driver.
SetWifiOpmode(m) ==
  /\ Request /\ Room
  /\ m # mode /\ mode' = m
  /\ IF m = "AP" THEN link' = "idle" ELSE UNCHANGED link
  /\ Post((IF m = "AP" THEN Dropped ELSE <<>>)
          \o (IF mode = "AP" THEN <<"STA_START">> ELSE <<>>)
          \o (IF mode = "STA" THEN <<"AP_START">> ELSE <<>>))
  /\ UNCHANGED <<at, retry, told, config, bleLink, calls, securityVars>>

\* ESP_BLUFI_EVENT_REQ_CONNECT_TO_AP: esp_wifi_disconnect, then
\* example_wifi_connect; the event loop may run before each.
ReqConnect ==
  /\ Request /\ Room
  /\ link' = "idle" /\ Post(Dropped)
  /\ at' = [at EXCEPT !["bluetooth"] = "connect"]
  /\ UNCHANGED <<retry, told, mode, config, bleLink, calls, securityVars>>

ReqConnectCalls ==
  /\ at["bluetooth"] = "connect"
  /\ retry' = 0
  /\ Attempt("bluetooth")
  /\ UNCHANGED <<bootVars, connected, connecting, gotIp, connInfo, told, ble, mode,
                 config, dhcp, events, bleVars, left, securityVars>>

ReqConnectAssigns ==
  /\ Assign("bluetooth")
  /\ UNCHANGED <<bootVars, connected, gotIp, retry, told, ble, driverVars, events,
                 bleVars, left, securityVars>>

ReqDisconnect ==
  /\ Request /\ Room
  /\ link' = "idle" /\ Post(Dropped)
  /\ UNCHANGED <<at, retry, told, mode, config, bleLink, calls, securityVars>>

GetWifiStatus ==
  /\ Serves
  /\ told' = Report
  /\ UNCHANGED <<at, retry, mode, config, link, events, bleLink, calls, left,
                 securityVars>>

SlaveDisconnect ==
  /\ Request /\ bleLink
  /\ bleLink' = FALSE /\ calls' = Append(calls, "BLE_DISCONNECT")
  /\ UNCHANGED <<at, retry, told, mode, config, link, events, securityVars>>

\* The driver takes no configuration while it is connecting: the call is
\* refused, and nobody looks.
RecvStaConfig ==
  /\ Request
  /\ config' = (config \/ link # "connecting")
  /\ UNCHANGED <<at, retry, told, mode, link, events, bleLink, calls, securityVars>>

\* esp_wifi_scan_start blocks until the scan is over, unless it fails.
GetWifiList ==
  /\ Request
  /\ at' = IF link = "connecting" \/ mode = "AP" THEN at
           ELSE [at EXCEPT !["bluetooth"] = "scan"]
  /\ UNCHANGED <<retry, told, mode, config, link, events, bleLink, calls,
                 securityVars>>

ReceiveNegotiation ==
  /\ Request /\ Negotiate
  /\ UNCHANGED <<at, retry, told, mode, config, link, events, bleLink, calls>>

Bluetooth ==
  \/ InitFinish \/ BleConnect \/ BleDisconnect
  \/ ReqConnectCalls \/ ReqConnectAssigns

Phone ==
  \/ PhoneConnects \/ PhoneLeaves \/ GetWifiStatus
  \/ ReqConnect \/ ReqDisconnect \/ SlaveDisconnect
  \/ \E m \in Modes : SetWifiOpmode(m)
  \/ RecvStaConfig \/ GetWifiList \/ ReceiveNegotiation

Driver == Associates \/ Breaks \/ LeaseArrives \/ ScanCompletes

Next == BootStep \/ BootFails \/ EventLoop \/ Bluetooth \/ Phone \/ Driver

AssociationEnds == link = "connecting" /\ (Associates \/ Breaks)

\* The tasks are scheduled, an association ends, and a phone that stays asks
\* for the status again and again.
Fairness ==
  /\ WF_vars(EventLoop) /\ WF_vars(Bluetooth)
  /\ WF_vars(AssociationEnds) /\ WF_vars(ScanCompletes)
  /\ WF_vars(GetWifiStatus)

Spec == Init /\ [][Next]_vars
FairSpec == Spec /\ Fairness

-----------------------------------------------------------------------------
(* Properties *)

LinkEvents == {"STA_CONNECTED", "STA_DISCONNECTED"}

\* gl_sta_connected is a delayed copy of the link: the last event of a link
\* that waits to be handled says what the link is, and with none waiting the
\* flag does, however requests, retries and changes of mode interleave.
ConnectedFollowsLink ==
  /\ \A i \in DOMAIN events :
       events[i] \in LinkEvents
         /\ (\A j \in DOMAIN events : j > i => events[j] \notin LinkEvents)
       => (link = "up" <=> events[i] = "STA_CONNECTED")
  /\ (\A i \in DOMAIN events : events[i] \notin LinkEvents)
       => (link = "up" <=> connected)

\* Once app_main has started blufi, a phone can always find the device or is
\* connected to it; the negotiated key dies with the connection.
PhoneCanReturn ==
  todo = <<>> /\ calls = <<>> =>
    /\ ble = bleLink
    /\ advertising = ~bleLink
    /\ context => ble

\* A phone that stays connected, and asks, is in the end told the truth: that
\* the station is connected, or that it failed.
StatusConverges ==
  <>[]bleLink => <>[](/\ told \in {"success", "no_ip"} <=> link = "up"
                      /\ told = "fail" <=> link = "idle")
=============================================================================
