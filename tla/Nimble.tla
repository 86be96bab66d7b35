-------------------------------- MODULE Nimble --------------------------------
(***************************************************************************)
(* esp_nible_test: a phone writes the credentials of a network and of an   *)
(* MQTT topic as one JSON text; the device saves them under four keys and  *)
(* answers.  All callbacks run in the task of the NimBLE host, in the      *)
(* order of the events; saving a key is a step, so that events queue up    *)
(* and a power cut may come between two keys.                              *)
(* Packets are numbered in the order they are written.                     *)
(***************************************************************************)
EXTENDS KeyStore, Sequences

CONSTANTS
  Packets,  \* bound: packets with credentials
  Bad,      \* a packet that is no JSON, or lacks one of the four items
  Requests, \* bound: requests of the phone that wait to be handled
  Troubles  \* bound: lost links, resets of the host, calls that fail, power cuts

ASSUME NimbleAssumption ==
  /\ Keys = {"ssid", "pass", "topic", "uuid"}
  /\ Packets \in Nat /\ Values = 1 .. Packets /\ Unset = 0
  /\ Bad \notin 0 .. Packets
  /\ Requests \in Nat \ {0} /\ Troubles \in Nat

VARIABLES
  synced, advertising, link,  \* the NimBLE host
  inbox,     \* events the host's task has not called back yet
  doing,     \* "idle", or the key that device_write saves next
  packet,    \* the one it is handling
  number,    \* packets written so far
  answered,  \* the latest packet the phone has had an answer for
  deaf,      \* ble_gap_adv_start has failed, and nothing has happened since
  troublesLeft

hostVars == <<synced, advertising, link, inbox, deaf>>
taskVars == <<doing, packet>>
logVars  == <<number, answered>>
vars     == <<storeVars, hostVars, taskVars, logVars, troublesLeft>>

GapEvents == {"SYNC", "CONNECT_FAILED", "CONNECT", "DISCONNECT", "ADV_COMPLETE", "READ"}

TypeOK ==
  /\ StoreTypeOK
  /\ synced \in BOOLEAN /\ advertising \in BOOLEAN /\ link \in BOOLEAN
  /\ inbox \in Seq((GapEvents \X {0}) \cup ({"WRITE"} \X (Values \cup {Bad})))
  /\ doing \in {"idle"} \cup Keys /\ packet \in Values \cup {Bad}
  /\ number \in 0 .. Packets /\ answered \in 0 .. Packets
  /\ deaf \in BOOLEAN /\ troublesLeft \in 0 .. Troubles

\* app_main has set up the services and started the host's task.
Booted ==
  /\ synced = FALSE /\ advertising = FALSE /\ link = FALSE
  /\ inbox = <<>> /\ doing = "idle" /\ packet = Bad /\ deaf = FALSE

Init ==
  /\ StoreInit /\ Booted
  /\ number = 0 /\ answered = 0 /\ troublesLeft = Troubles

Trouble == troublesLeft > 0 /\ troublesLeft' = troublesLeft - 1

PowerCut ==
  /\ Trouble
  /\ synced' = FALSE /\ advertising' = FALSE /\ link' = FALSE
  /\ inbox' = <<>> /\ doing' = "idle" /\ packet' = Bad /\ deaf' = FALSE
  /\ UNCHANGED <<storeVars, logVars>>

-----------------------------------------------------------------------------
(* The host and the phone *)

Occurs(e) == inbox' = Append(inbox, <<e, 0>>)

Syncs ==
  /\ ~synced /\ inbox = <<>>
  /\ synced' = TRUE /\ Occurs("SYNC")
  /\ UNCHANGED <<storeVars, advertising, link, deaf, taskVars, logVars, troublesLeft>>

\* The controller is lost: what the host was doing ends, and it syncs again.
Resets ==
  /\ synced /\ Trouble
  /\ synced' = FALSE /\ link' = FALSE /\ advertising' = FALSE
  /\ inbox' = inbox \o (IF link THEN <<<<"DISCONNECT", 0>>>> ELSE <<>>)
                    \o (IF advertising THEN <<<<"ADV_COMPLETE", 0>>>> ELSE <<>>)
  /\ UNCHANGED <<storeVars, deaf, taskVars, logVars>>

Connects ==
  /\ advertising /\ advertising' = FALSE
  /\ \/ link' = TRUE /\ Occurs("CONNECT") /\ UNCHANGED troublesLeft
     \/ Trouble /\ Occurs("CONNECT_FAILED") /\ UNCHANGED link
  /\ UNCHANGED <<storeVars, synced, deaf, taskVars, logVars>>

LosesLink ==
  /\ link /\ Trouble
  /\ link' = FALSE /\ Occurs("DISCONNECT")
  /\ UNCHANGED <<storeVars, synced, advertising, deaf, taskVars, logVars>>

Asks ==
  /\ link /\ Len(SelectSeq(inbox, LAMBDA e : e[1] \in {"READ", "WRITE"})) < Requests
  /\ UNCHANGED <<storeVars, synced, advertising, link, deaf, taskVars, answered>>

Writes ==
  /\ Asks /\ number < Packets /\ number' = number + 1
  /\ inbox' = Append(inbox, <<"WRITE", number'>>)
  /\ UNCHANGED troublesLeft

WritesBad == Asks /\ Trouble /\ inbox' = Append(inbox, <<"WRITE", Bad>>) /\ UNCHANGED number

Reads == Asks /\ Trouble /\ Occurs("READ") /\ UNCHANGED number

-----------------------------------------------------------------------------
(* ble_gap_event *)

Receive(e) == doing = "idle" /\ inbox # <<>> /\ Head(inbox) = e /\ inbox' = Tail(inbox)

(* ble_gap_adv_start, forever: it is refused before the host is in sync,   *)
(* and may fail; nobody looks at the result.                               *)
ble_app_advertise ==
  \/ advertising' = synced /\ deaf' = FALSE /\ UNCHANGED troublesLeft
  \/ ~advertising /\ Trouble /\ deaf' = TRUE /\ UNCHANGED advertising

MutConnectFailed ==
  /\ Receive(<<"CONNECT_FAILED", 0>>)
  /\ UNCHANGED <<advertising, deaf, troublesLeft>>
  /\ UNCHANGED <<storeVars, synced, link, taskVars, logVars>>

HandleSync ==
  /\ Receive(<<"SYNC", 0>>)
  /\ ble_app_advertise
  /\ UNCHANGED <<storeVars, synced, link, taskVars, logVars>>

HandleConnect ==
  /\ Receive(<<"CONNECT", 0>>)
  /\ UNCHANGED <<storeVars, synced, advertising, link, deaf, taskVars, logVars, troublesLeft>>

HandleConnectFailed ==
  /\ Receive(<<"CONNECT_FAILED", 0>>)
  /\ ble_app_advertise
  /\ UNCHANGED <<storeVars, synced, link, taskVars, logVars>>

HandleDisconnect ==
  /\ Receive(<<"DISCONNECT", 0>>)
  /\ ble_app_advertise
  /\ UNCHANGED <<storeVars, synced, link, taskVars, logVars>>

HandleAdvComplete ==
  /\ Receive(<<"ADV_COMPLETE", 0>>)
  /\ ble_app_advertise
  /\ UNCHANGED <<storeVars, synced, link, taskVars, logVars>>

-----------------------------------------------------------------------------
(* device_write and device_read *)

HandleRead ==
  /\ Receive(<<"READ", 0>>)
  /\ UNCHANGED <<storeVars, synced, advertising, link, deaf, taskVars, logVars, troublesLeft>>

\* BLE_packet_parser: without all four items nothing is saved.
HandleWrite ==
  \E p \in Values \cup {Bad} :
    /\ Receive(<<"WRITE", p>>)
    /\ IF p = Bad THEN UNCHANGED taskVars ELSE packet' = p /\ doing' = "ssid"
    /\ UNCHANGED <<storeVars, synced, advertising, link, deaf, logVars, troublesLeft>>

Saves(k, ok) ==
  /\ doing = k /\ NVS_store_key(k, packet, ok)
  /\ UNCHANGED <<hostVars, packet, number, troublesLeft>>

MutSaveSsid ==
  \E ok \in BOOLEAN : /\ Saves("ssid", ok) /\ UNCHANGED answered
                      /\ doing' = "pass"

\* NVS_set_wifi_credential
SaveSsid ==
  \E ok \in BOOLEAN : /\ Saves("ssid", ok) /\ UNCHANGED answered
                      /\ doing' = IF ok THEN "pass" ELSE "topic"

SavePass ==
  \E ok \in BOOLEAN : Saves("pass", ok) /\ doing' = "topic" /\ UNCHANGED answered

\* The phone is answered, whatever has been saved, if it is still there.
Answers == /\ doing' = "idle"
           /\ answered' = IF link THEN packet ELSE answered

MutSaveTopic ==
  \E ok \in BOOLEAN : Saves("topic", ok) /\ Answers

\* NVS_set_mqtt_credential, whether or not the network was saved
SaveTopic ==
  \E ok \in BOOLEAN : /\ Saves("topic", ok)
                      /\ IF ok THEN doing' = "uuid" /\ UNCHANGED answered ELSE Answers

SaveUuid ==
  \E ok \in BOOLEAN : Saves("uuid", ok) /\ Answers

-----------------------------------------------------------------------------
HostTask ==
  \/ HandleSync \/ HandleConnect \/ HandleConnectFailed \/ HandleDisconnect
  \/ HandleAdvComplete \/ HandleRead \/ HandleWrite
  \/ SaveSsid \/ SavePass \/ SaveTopic \/ SaveUuid

Environment ==
  Syncs \/ Resets \/ Connects \/ LosesLink \/ Writes \/ WritesBad \/ Reads \/ PowerCut

Next == HostTask \/ Environment

Spec == Init /\ [][Next]_vars

\* The host's task goes on, and the host syncs with its controller.
FairSpec == Spec /\ WF_vars(HostTask) /\ WF_vars(Syncs)

-----------------------------------------------------------------------------
(* Properties *)

(* What the phone had an answer for has been saved, and no later packet    *)
(* takes it back, whatever power cuts there are: an answer comes after the *)
(* last commit.  This needs every access to flash to succeed.              *)
AnsweredIsSaved == Failures = {} => \A k \in Keys : flash[k] >= answered

(* A key is never older than the next one: a power cut between commits     *)
(* leaves a mixture of packets, but the name of a network is then at least *)
(* as new as its password.  Failed accesses keep this within a pair unless *)
(* it was a set, whose failure the code takes for a success.               *)
SavedInOrder ==
  /\ flashErrors["set"] = 0 => /\ flash["ssid"] >= flash["pass"]
                               /\ flash["topic"] >= flash["uuid"]
  /\ Failures = {} => flash["pass"] >= flash["topic"]

(* A device without a phone advertises, after resets and connections that  *)
(* fail: unless the last ble_gap_adv_start failed, of which no event tells. *)
FindableAgain == []<>(advertising \/ link \/ deaf)
=============================================================================
