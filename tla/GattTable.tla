------------------------------- MODULE GattTable -------------------------------
(***************************************************************************)
(* gatt_server_service_table: a phone sends the credentials of a network   *)
(* as a JSON text in a long write; the device saves them and joins the     *)
(* network from within the Bluetooth callback.  A step is a callback of    *)
(* the Bluetooth task, or a part of the callback of an execute write, which *)
(* saves two keys and waits for the station.                               *)
(*                                                                         *)
(* Every attribute is ESP_GATT_AUTO_RSP: the stack answers the phone by    *)
(* itself, before the program hears of the request.                        *)
(* A text is two pieces, of which the first holds the SSID and the second  *)
(* the password; a piece is named by the text it is from.                  *)
(***************************************************************************)
EXTENDS KeyStore, Station

CONSTANTS
  Texts,     \* texts a phone may send, each with credentials of its own
  Pointless, \* a text of Texts that is JSON but has no credentials
  Garbage,   \* what malloc left in a piece of the buffer
  Troubles   \* bound: lost links, power cuts, failed allocations and stack calls,
             \* and what a phone does besides sending a text and waiting

ASSUME TableAssumption ==
  /\ Keys = {"ssid", "pass"} /\ Values = Texts \ {Pointless}
  /\ Pointless \in Texts /\ Garbage \notin Texts /\ Unset \notin Texts
  /\ Troubles \in Nat

VARIABLES
  advConfig, advertising, \* adv_config_done, and whether the stack advertises
  table,        \* stack: what it knows of gatt_db
  requested,    \* calls into the stack that are not completed, in order
  inbox,        \* events the Bluetooth task has not called back yet
  buffer,       \* prepare_buf, as far as written; <<>> if it is NULL
  prepareLen,   \* prepare_len, in pieces
  doing,        \* what the Bluetooth task is doing
  parsed,       \* the credentials in the text being handled
  link, sending, \* the phone's connection, and what it has sent of a text
  whole,        \* texts that a phone has sent without a break
  troublesLeft,
  troubles      \* the kinds of trouble so far

advVars   == <<advConfig, advertising, table, requested>>
taskVars  == <<inbox, buffer, prepareLen, doing, parsed>>
phoneVars == <<link, sending, whole>>
faultVars == <<troublesLeft, troubles>>
vars == <<storeVars, stationVars, advVars, taskVars, phoneVars, faultVars>>

Kinds == {"stack", "memory", "break", "loss", "power", "restart", "flash",
          "early", "cancel", "empty", "write"}
Pieces == 2
DataSets == {"adv", "scan_rsp"}
NoText == <<Pointless, Pointless>>
Nothing == <<"none", 0>>

TypeOK ==
  /\ StoreTypeOK /\ StationTypeOK
  /\ advConfig \in SUBSET DataSets /\ advertising \in BOOLEAN
  /\ table \in {"none", "made", "started"}
  /\ prepareLen \in Nat
  /\ doing \in {"idle", "ssid", "pass", "init", "wait"}
  /\ parsed \in Texts \X Texts
  /\ link \in BOOLEAN /\ whole \in SUBSET Texts
  /\ troublesLeft \in 0 .. Troubles
  /\ troubles \in SUBSET Kinds

\* app_main has registered the callbacks and the application.
Booted ==
  /\ advConfig = {} /\ advertising = FALSE /\ table = "none"
  /\ requested = <<<<"register", "app">>>> /\ inbox = <<>>
  /\ buffer = <<>> /\ prepareLen = 0
  /\ doing = "idle" /\ parsed = NoText
  /\ link = FALSE /\ sending = Nothing

Init ==
  /\ StoreInit /\ StationOff /\ Booted
  /\ refusalsLeft = Refusals
  /\ whole = {}
  /\ troublesLeft = Troubles /\ troubles = {}

Reboot ==
  /\ advConfig' = {} /\ advertising' = FALSE /\ table' = "none"
  /\ requested' = <<<<"register", "app">>>> /\ inbox' = <<>>
  /\ buffer' = <<>> /\ prepareLen' = 0
  /\ doing' = "idle" /\ parsed' = NoText
  /\ link' = FALSE /\ sending' = Nothing
  /\ StationReset
  /\ UNCHANGED <<storeVars, whole>>

-----------------------------------------------------------------------------
Trouble(kind) ==
  /\ troublesLeft > 0 /\ troublesLeft' = troublesLeft - 1
  /\ troubles' = troubles \cup {kind}

Outcome(ok, kind) == IF ok THEN UNCHANGED faultVars ELSE Trouble(kind)

\* A failed access to flash is a trouble as well.
FlashOutcome == Outcome(UNCHANGED flashErrors, "flash")

Completes ==
  \E ok \in BOOLEAN :
    LET r == Head(requested) IN
    /\ requested # <<>> /\ requested' = Tail(requested)
    /\ Outcome(ok, "stack")
    /\ inbox' = Append(inbox, <<r[1], r[2], ok>>)
    /\ UNCHANGED <<advConfig, advertising, table, buffer, prepareLen, doing, parsed,
                   phoneVars, storeVars, stationVars>>

\* A cut is bad between the two keys.
PowerCut == Trouble(IF doing = "pass" THEN "power" ELSE "restart") /\ Reboot

-----------------------------------------------------------------------------
(* gap_event_handler and the set-up of the profile *)

Receive(e) ==
  doing = "idle" /\ inbox # <<>> /\ Head(inbox) = e /\ inbox' = Tail(inbox)

\* esp_ble_gap_start_advertising is refused, or completes with a failure that
\* is only logged: nobody tries again.
StartAdvertising ==
  \E ok \in BOOLEAN : Outcome(ok, "stack") /\ advertising' = (advertising \/ ok)

\* ADV_DATA_SET_COMPLETE and SCAN_RSP_DATA_SET_COMPLETE, whatever the status
HandleDataSet(d) ==
  /\ \E ok \in BOOLEAN : Receive(<<"config", d, ok>>)
  /\ advConfig' = advConfig \ {d}
  /\ IF advConfig' = {} THEN StartAdvertising ELSE UNCHANGED <<advertising, faultVars>>
  /\ UNCHANGED <<table, requested, buffer, prepareLen, doing, parsed,
                 phoneVars, storeVars, stationVars>>

HandleRegFailed ==
  /\ Receive(<<"register", "app", FALSE>>)
  /\ UNCHANGED <<advVars, buffer, prepareLen, doing, parsed,
                 phoneVars, faultVars, storeVars, stationVars>>

\* Each flag is set after its call; a call that is refused brings no event.
HandleReg ==
  /\ Receive(<<"register", "app", TRUE>>)
  /\ \E accepted \in {<<>>, <<"adv">>, <<"scan_rsp">>, <<"adv", "scan_rsp">>} :
       /\ IF Len(accepted) = 2 THEN UNCHANGED faultVars ELSE Trouble("stack")
       /\ requested' = requested \o [i \in 1 .. Len(accepted) |-> <<"config", accepted[i]>>]
                                 \o <<<<"table", "app">>>>
  /\ advConfig' = DataSets
  /\ UNCHANGED <<advertising, table, buffer, prepareLen, doing, parsed, phoneVars,
                 storeVars, stationVars>>

\* The handles are stored, and the service started, if the table is complete.
HandleTable ==
  \E ok \in BOOLEAN :
    /\ Receive(<<"table", "app", ok>>)
    /\ table' = IF ok THEN "started" ELSE table
    /\ UNCHANGED <<advConfig, advertising, requested, buffer, prepareLen, doing, parsed,
                   phoneVars, faultVars, storeVars, stationVars>>

\* The prepare buffer stays as it is.
HandleDisconnect ==
  /\ Receive(<<"DISCONNECT">>)
  /\ StartAdvertising
  /\ UNCHANGED <<advConfig, table, requested, buffer, prepareLen, doing, parsed,
                 phoneVars, storeVars, stationVars>>

\* Only asks for other connection parameters.
HandleConnect ==
  /\ Receive(<<"CONNECT">>)
  /\ UNCHANGED <<advVars, buffer, prepareLen, doing, parsed,
                 phoneVars, faultVars, storeVars, stationVars>>

\* A write of the client configuration: an indication is sent, or nothing.
HandleWrite ==
  /\ Receive(<<"WRITE">>)
  /\ UNCHANGED <<advVars, buffer, prepareLen, doing, parsed,
                 phoneVars, faultVars, storeVars, stationVars>>

-----------------------------------------------------------------------------
(* The long write *)

Written(i, t) ==
  IF i <= Len(buffer) THEN [buffer EXCEPT ![i] = t]
  ELSE [j \in 1 .. i |-> IF j <= Len(buffer) THEN buffer[j]
                         ELSE IF j = i THEN t ELSE Garbage]

(* The buffer is made for the first piece.  No text is as long as          *)
(* PREPARE_BUF_MAX_SIZE, so the later pieces pass the checks on it.        *)
HandlePrepare ==
  \E t \in Texts, i \in 1 .. Pieces :
    /\ Receive(<<"PREPARE", t, i>>)
    /\ \/ buffer' = Written(i, t) /\ prepareLen' = prepareLen + 1 /\ UNCHANGED faultVars
       \/ buffer = <<>> /\ Trouble("memory") /\ UNCHANGED <<buffer, prepareLen>>
    /\ UNCHANGED <<advVars, doing, parsed, phoneVars, storeVars, stationVars>>

\* temp_buff: what cJSON_Parse is given; it ignores what follows a JSON text.
Piece(i) == IF i <= prepareLen /\ i <= Len(buffer) THEN buffer[i] ELSE Garbage

\* The rest of one text may or may not make a JSON text of the start of another.
MayParse   == Garbage \notin {Piece(i) : i \in 1 .. Pieces}
MustParse  == MayParse /\ Piece(1) = Piece(Pieces)
Credentials(p) == Pointless \notin {p[1], p[2]}

MutFreed == UNCHANGED <<buffer, prepareLen>>

Freed == buffer' = <<>> /\ prepareLen' = 0

\* The text is handled before the flag that cancels the write is looked at.
HandleExec ==
  \E flag \in {"exec", "cancel"} :
    /\ Receive(<<"EXEC", flag>>)
    /\ \/ /\ MayParse
          /\ parsed' = <<Piece(1), Piece(Pieces)>>
          /\ doing' = IF Credentials(parsed') THEN "ssid" ELSE "init"
          /\ UNCHANGED <<buffer, prepareLen>>
       \/ ~MustParse /\ Freed /\ UNCHANGED <<doing, parsed>>
    /\ UNCHANGED <<advVars, phoneVars, faultVars, storeVars, stationVars>>

\* NVS_set_wifi_credential
SaveSsid ==
  /\ doing = "ssid"
  /\ \E ok \in BOOLEAN : /\ NVS_store_key("ssid", parsed[1], ok)
                         /\ doing' = IF ok THEN "pass" ELSE "init"
  /\ FlashOutcome
  /\ UNCHANGED <<advVars, inbox, buffer, prepareLen, parsed, phoneVars, stationVars>>

SavePass ==
  /\ doing = "pass"
  /\ \E ok \in BOOLEAN : NVS_store_key("pass", parsed[2], ok)
  /\ doing' = "init" /\ FlashOutcome
  /\ UNCHANGED <<advVars, inbox, buffer, prepareLen, parsed, phoneVars, stationVars>>

\* The first call since the boot; the password that is read is left out.
InitSta ==
  /\ doing = "init" /\ doing' = "wait"
  /\ \E got \in Values \cup {Unset} :
       NVS_read_key("ssid", got) /\ StartStation(got # Unset)
  /\ FlashOutcome
  /\ UNCHANGED <<advVars, inbox, buffer, prepareLen, parsed, flash, phoneVars>>

\* Any other: the event loop exists, and ESP_ERROR_CHECK restarts the device.
Aborts == doing = "init" /\ Started /\ Reboot /\ UNCHANGED faultVars

Joined ==
  /\ doing = "wait" /\ WaitEnds
  /\ doing' = "idle" /\ Freed
  /\ UNCHANGED <<advVars, inbox, parsed, storeVars, phoneVars, faultVars>>

-----------------------------------------------------------------------------
(* The phone *)

Phone(e) ==
  /\ inbox' = Append(inbox, e)
  /\ UNCHANGED <<advConfig, table, requested, buffer, prepareLen, doing, parsed,
                 storeVars, stationVars>>

Connects ==
  /\ ~link /\ advertising
  /\ link' = TRUE /\ advertising' = FALSE
  /\ Phone(<<"CONNECT">>)
  /\ UNCHANGED <<sending, whole, faultVars>>

\* A break is a loss in the middle of a text.
LosesLink ==
  /\ link /\ Trouble(IF sending = Nothing THEN "loss" ELSE "break")
  /\ link' = FALSE /\ sending' = Nothing
  /\ Phone(<<"DISCONNECT">>)
  /\ UNCHANGED <<advertising, whole>>

Sends(e) == link /\ table = "started" /\ Phone(e) /\ UNCHANGED <<link, advertising>>

\* The device is not online, nor doing anything about it.
Needed == sta = "idle" \/ sta = "off"
Settled == doing = "idle" /\ inbox = <<>> /\ wifiEvents = <<>>

SendsPiece(t, i) ==
  /\ Sends(<<"PREPARE", t, i>>)
  /\ sending' = <<t, i>>
  /\ whole' = IF i = Pieces THEN whole \cup {t} ELSE whole

StartsText(t) == sending = Nothing /\ SendsPiece(t, 1)
GoesOn == sending # Nothing /\ sending[2] < Pieces /\ SendsPiece(sending[1], sending[2] + 1)
Executes(flag) == Sends(<<"EXEC", flag>>) /\ sending' = Nothing /\ UNCHANGED whole

PhoneSends ==
  /\ \/ Needed /\ Settled /\ \E t \in Values : StartsText(t)
     \/ GoesOn
     \/ sending # Nothing /\ sending[2] = Pieces /\ Executes("exec")
  /\ UNCHANGED faultVars

\* A phone need not wait, may change its mind, and may do other things.
PhoneDallies ==
  \/ Trouble("early") /\ \E t \in Texts : StartsText(t)
  \/ Trouble("cancel") /\ sending # Nothing /\ Executes("cancel")
  \/ Trouble("empty") /\ sending = Nothing /\ Executes("exec")
  \/ Trouble("write") /\ Sends(<<"WRITE">>) /\ UNCHANGED <<sending, whole>>

-----------------------------------------------------------------------------
Callback ==
  \/ \E d \in DataSets : HandleDataSet(d)
  \/ HandleRegFailed \/ HandleReg \/ HandleTable
  \/ HandleConnect \/ HandleDisconnect \/ HandleWrite
  \/ HandlePrepare \/ HandleExec
  \/ SaveSsid \/ SavePass \/ InitSta \/ Aborts \/ Joined

Others == UNCHANGED <<storeVars, advVars, taskVars, phoneVars, faultVars>>
EventLoop == StationHandles /\ Others
Driver == DriverAnswers /\ Others
ApLost == LosesAp /\ Others

Next ==
  \/ Callback \/ Completes \/ PowerCut
  \/ EventLoop \/ Driver \/ ApLost
  \/ Connects \/ LosesLink \/ PhoneSends \/ PhoneDallies

Spec == Init /\ [][Next]_vars

(* Tasks, stack and driver go on; a phone whose device is not online       *)
(* connects and sends.                                                     *)
Fairness ==
  /\ WF_vars(Callback) /\ WF_vars(Completes)
  /\ WF_vars(EventLoop) /\ WF_vars(Driver)
  /\ WF_vars(Connects) /\ WF_vars(PhoneSends)

FairSpec == Spec /\ Fairness

-----------------------------------------------------------------------------
(* Properties *)

(* What flash holds is one text that a phone has sent without a break:     *)
(* prepared writes of several texts do not mix, unless a phone ends one      *)
(* early after the link was lost during another.  A power cut between the  *)
(* keys and a failed access to flash are the other two ways to a mixed one. *)
SavedWasSent ==
  \/ doing = "pass" \/ "power" \in troubles \/ Failures # {}
  \/ "break" \in troubles /\ ("cancel" \in troubles \/ "empty" \in troubles)
  \/ \E t \in Texts : \/ t \in whole /\ flash = [k \in Keys |-> t]
                      \/ flash = [k \in Keys |-> Unset]

\* The callback waits for a station that has no network to join.
Stuck == doing = "wait" /\ ~hasSsid

(* A phone that keeps sending credentials brings the device online, even   *)
(* if that takes a restart, since the station cannot be started twice:     *)
(* unless the callback is stuck, or a call into the stack failed, which may *)
(* have been the one that starts to advertise.                             *)
OnlineInTheEnd == <>[](sta = "up" \/ Stuck \/ "stack" \in troubles)
=============================================================================
