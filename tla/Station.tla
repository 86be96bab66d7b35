-------------------------------- MODULE Station --------------------------------
(***************************************************************************)
(* wifi_station.c: the Wi-Fi station that the Bluetooth callback of        *)
(* gatt_server_service_table starts and waits for.  event_handler runs in  *)
(* the event loop's task, the waiting in the Bluetooth task; the driver    *)
(* answers every attempt to connect by an event, later.                    *)
(* station_example_main.c has the same handler and the same wait.          *)
(***************************************************************************)
EXTENDS Naturals, Sequences

CONSTANTS
  MaximumRetry, \* EXAMPLE_ESP_MAXIMUM_RETRY
  Refusals      \* bound: attempts and connections that the access point ends

ASSUME StationAssumption == MaximumRetry \in Nat /\ Refusals \in Nat

VARIABLES
  sta,          \* driver: "off", "idle", "joining" or "up"
  hasSsid,      \* driver: whether wifi_config names a network
  wifiEvents,   \* events that event_handler has not handled yet
  s_retry_num,
  bits,         \* s_wifi_event_group
  refusalsLeft

driverVars  == <<sta, wifiEvents>>
stationVars == <<driverVars, hasSsid, s_retry_num, bits, refusalsLeft>>

Bits == {"CONNECTED", "FAIL"}
WifiEvents == {"STA_START", "STA_DISCONNECTED", "GOT_IP"}

StationTypeOK ==
  /\ sta \in {"off", "idle", "joining", "up"} /\ hasSsid \in BOOLEAN
  /\ wifiEvents \in Seq(WifiEvents)
  /\ s_retry_num \in 0 .. MaximumRetry
  /\ bits \in SUBSET Bits
  /\ refusalsLeft \in 0 .. Refusals

StationOff ==
  /\ sta = "off" /\ hasSsid = FALSE /\ wifiEvents = <<>>
  /\ s_retry_num = 0 /\ bits = {}

\* Everything but the access point's patience is lost in a reboot.
StationReset ==
  /\ sta' = "off" /\ hasSsid' = FALSE /\ wifiEvents' = <<>>
  /\ s_retry_num' = 0 /\ bits' = {}
  /\ UNCHANGED refusalsLeft

-----------------------------------------------------------------------------
(* The driver *)

\* esp_wifi_connect fails at once when no network is named: no event follows,
\* and the result is not looked at.
esp_wifi_connect == sta' = IF hasSsid THEN "joining" ELSE sta

Refuses == refusalsLeft > 0 /\ refusalsLeft' = refusalsLeft - 1

JoinFails ==
  /\ sta = "joining" /\ Refuses
  /\ sta' = "idle" /\ wifiEvents' = Append(wifiEvents, "STA_DISCONNECTED")
  /\ UNCHANGED <<hasSsid, s_retry_num, bits>>

JoinSucceeds ==
  /\ sta = "joining"
  /\ sta' = "up" /\ wifiEvents' = Append(wifiEvents, "GOT_IP")
  /\ UNCHANGED <<hasSsid, s_retry_num, bits, refusalsLeft>>

LosesAp ==
  /\ sta = "up" /\ Refuses
  /\ sta' = "idle" /\ wifiEvents' = Append(wifiEvents, "STA_DISCONNECTED")
  /\ UNCHANGED <<hasSsid, s_retry_num, bits>>

-----------------------------------------------------------------------------
(* event_handler *)

ReceiveWifi(e) ==
  wifiEvents # <<>> /\ Head(wifiEvents) = e /\ wifiEvents' = Tail(wifiEvents)

HandleStaStart ==
  /\ ReceiveWifi("STA_START")
  /\ esp_wifi_connect
  /\ UNCHANGED <<hasSsid, s_retry_num, bits, refusalsLeft>>

MutStaDisconnected ==
  /\ ReceiveWifi("STA_DISCONNECTED")
  /\ s_retry_num < MaximumRetry
  /\ esp_wifi_connect /\ s_retry_num' = s_retry_num + 1
  /\ UNCHANGED <<bits, hasSsid, refusalsLeft>>

HandleStaDisconnected ==
  /\ ReceiveWifi("STA_DISCONNECTED")
  /\ IF s_retry_num < MaximumRetry
     THEN esp_wifi_connect /\ s_retry_num' = s_retry_num + 1 /\ UNCHANGED bits
     ELSE bits' = bits \cup {"FAIL"} /\ UNCHANGED <<sta, s_retry_num>>
  /\ UNCHANGED <<hasSsid, refusalsLeft>>

HandleGotIp ==
  /\ ReceiveWifi("GOT_IP")
  /\ s_retry_num' = 0 /\ bits' = bits \cup {"CONNECTED"}
  /\ UNCHANGED <<sta, hasSsid, refusalsLeft>>

DriverAnswers == JoinFails \/ JoinSucceeds
StationHandles == HandleStaStart \/ HandleStaDisconnected \/ HandleGotIp

-----------------------------------------------------------------------------
(* wifi_init_sta, in the Bluetooth task *)

\* esp_event_loop_create_default has succeeded once in the life of the device.
Started == sta # "off"

\* Up to esp_wifi_start, with the SSID that was read from flash.
StartStation(named) ==
  /\ ~Started
  /\ sta' = "idle" /\ hasSsid' = named
  /\ wifiEvents' = <<"STA_START">> /\ bits' = {}
  /\ UNCHANGED <<s_retry_num, refusalsLeft>>

\* xEventGroupWaitBits(..., portMAX_DELAY) returns.
WaitEnds == bits # {} /\ UNCHANGED stationVars
=============================================================================
