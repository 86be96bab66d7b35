------------------------------ MODULE GattClient ------------------------------
(***************************************************************************)
(* The GATT client of gatt_client_native_example/main: it scans for one    *)
(* name, opens a connection, discovers the service of profile A, turns the *)
(* notifications of its characteristic on and writes the characteristic.   *)
(* Its program is esp_gap_cb and gattc_profile_event_handler, one action   *)
(* per event.  Each handler makes the next call into the stack; calls and  *)
(* events are named by what they are about.                                *)
(***************************************************************************)
EXTENDS Naturals, Sequences

VARIABLES
  connect,    \* the variable of that name: a connection is wanted or held
  getServer,  \* get_server: the service was found
  scan,       \* stack: the scan of thirty seconds
  calls,      \* calls into the stack that are not completed
  cInbox,     \* events the Bluetooth task has not called back yet
  cache,      \* stack: attributes of profile A found by the discovery
  heard,      \* a notification was received over this connection
  written,    \* the characteristic was written over this connection
  failed      \* a call of this connection failed, or found no memory

aimVars    == <<connect, getServer, scan>>
logVars    == <<heard, written>>
clientVars == <<aimVars, calls, cInbox, cache, logVars, failed>>

Calls == {"register", "scan_params", "open", "discover", "search",
          "reg_for_notify", "write_descr", "write_char"}
\* A completion carries its status; a search reports what it found before it ends.
ClientEvents == (Calls \X BOOLEAN)
  \cup {<<"SCAN_RESULT">>, <<"CONNECT">>, <<"SEARCH_RES">>, <<"NOTIFY">>, <<"DISCONNECT">>}

ClientTypeOK ==
  /\ connect \in BOOLEAN /\ getServer \in BOOLEAN
  /\ scan \in {"off", "on", "over"}
  /\ calls \in SUBSET Calls /\ cInbox \in Seq(ClientEvents)
  /\ cache \in SUBSET {"service", "char", "descr"}
  /\ heard \in BOOLEAN /\ written \in BOOLEAN /\ failed \in BOOLEAN

\* app_main has registered the callbacks and the application.
ClientInit ==
  /\ connect = FALSE /\ getServer = FALSE
  /\ scan = "off" /\ calls = {"register"} /\ cInbox = <<>> /\ cache = {}
  /\ heard = FALSE /\ written = FALSE /\ failed = FALSE

-----------------------------------------------------------------------------

Takes(e) == cInbox # <<>> /\ Head(cInbox) = e /\ cInbox' = Tail(cInbox)
Call(c) == calls' = calls \cup {c}

\* A failed completion is logged: nothing is called next, nothing is undone.
HandleFailure ==
  /\ \E c \in Calls \ {"scan_params"} : Takes(<<c, FALSE>>)
  /\ UNCHANGED <<aimVars, calls, cache, logVars, failed>>

HandleReg ==
  /\ Takes(<<"register", TRUE>>)
  /\ Call("scan_params")
  /\ UNCHANGED <<aimVars, cache, logVars, failed>>

\* The status is not looked at.
HandleScanParamsSet ==
  /\ \E ok \in BOOLEAN : Takes(<<"scan_params", ok>>)
  /\ scan' = "on"
  /\ UNCHANGED <<connect, getServer, calls, cache, logVars, failed>>

\* The device is found: only the first of several reports opens a connection.
MutScanResult ==
  /\ Takes(<<"SCAN_RESULT">>)
  /\ IF ~connect THEN scan' = "over" /\ Call("open")
     ELSE UNCHANGED <<scan, calls>>
  /\ UNCHANGED <<connect, getServer, cache, logVars, failed>>

HandleScanResult ==
  /\ Takes(<<"SCAN_RESULT">>)
  /\ IF ~connect THEN connect' = TRUE /\ scan' = "over" /\ Call("open")
     ELSE UNCHANGED <<connect, scan, calls>>
  /\ UNCHANGED <<getServer, cache, logVars, failed>>

\* conn_id and remote_bda are stored; the answer about the MTU is only logged.
HandleConnect ==
  /\ Takes(<<"CONNECT">>)
  /\ UNCHANGED <<aimVars, calls, cache, logVars, failed>>

HandleOpen ==
  /\ Takes(<<"open", TRUE>>)
  /\ UNCHANGED <<aimVars, calls, cache, logVars, failed>>

HandleDiscovered(alive) ==
  /\ Takes(<<"discover", TRUE>>)
  /\ IF alive THEN Call("search") ELSE UNCHANGED calls
  /\ UNCHANGED <<aimVars, cache, logVars, failed>>

MutSearchRes ==
  /\ Takes(<<"SEARCH_RES">>)
  /\ UNCHANGED <<connect, scan, calls, cache, logVars, failed, getServer>>

HandleSearchRes ==
  /\ Takes(<<"SEARCH_RES">>)
  /\ getServer' = TRUE
  /\ UNCHANGED <<connect, scan, calls, cache, logVars, failed>>

\* The characteristic is looked up among what the discovery found, which needs
\* memory and, like every call about a connection, the connection.
Looks(a, alive, next) ==
  \/ alive /\ a \in cache /\ Call(next) /\ UNCHANGED failed
  \/ alive /\ failed' = TRUE /\ UNCHANGED calls
  \/ ~(alive /\ a \in cache) /\ UNCHANGED <<calls, failed>>

HandleSearchCmpl(alive) ==
  /\ Takes(<<"search", TRUE>>)
  /\ IF getServer THEN Looks("char", alive, "reg_for_notify")
     ELSE UNCHANGED <<calls, failed>>
  /\ UNCHANGED <<aimVars, cache, logVars>>

HandleRegForNotify(alive) ==
  /\ Takes(<<"reg_for_notify", TRUE>>)
  /\ Looks("descr", alive, "write_descr")
  /\ UNCHANGED <<aimVars, cache, logVars>>

HandleNotify ==
  /\ Takes(<<"NOTIFY">>)
  /\ heard' = TRUE
  /\ UNCHANGED <<aimVars, calls, cache, written, failed>>

HandleWriteDescr(alive) ==
  /\ Takes(<<"write_descr", TRUE>>)
  /\ IF alive THEN Call("write_char") ELSE UNCHANGED calls
  /\ UNCHANGED <<aimVars, cache, logVars, failed>>

HandleWriteChar ==
  /\ Takes(<<"write_char", TRUE>>)
  /\ written' = TRUE
  /\ UNCHANGED <<aimVars, calls, cache, heard, failed>>

\* The scan is not started again.
HandleDisconnect ==
  /\ Takes(<<"DISCONNECT">>)
  /\ connect' = FALSE /\ getServer' = FALSE
  /\ UNCHANGED <<scan, calls, cache, logVars, failed>>

ClientHandles(alive) ==
  \/ HandleFailure \/ HandleReg \/ HandleScanParamsSet \/ HandleScanResult
  \/ HandleConnect \/ HandleOpen \/ HandleDiscovered(alive) \/ HandleSearchRes
  \/ HandleSearchCmpl(alive) \/ HandleRegForNotify(alive) \/ HandleNotify
  \/ HandleWriteDescr(alive) \/ HandleWriteChar \/ HandleDisconnect
=============================================================================
