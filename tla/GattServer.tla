------------------------------ MODULE GattServer ------------------------------
(***************************************************************************)
(* The GATT server of gatt_server/main: two profiles, A and B, each with a *)
(* service of one characteristic and its client configuration descriptor.  *)
(* Its program is the callbacks gap_event_handler, gatts_event_handler and *)
(* gatts_profile_{a,b}_event_handler, which the Bluetooth task runs in the *)
(* order of the events; every callback is one action.  The stack serves    *)
(* calls in order and answers each by an event of its own, later.          *)
(*                                                                         *)
(* Abstractions: values and identifiers are left out, but for what a write *)
(* asks of the descriptor; a prepared write carries one unit of data.      *)
(***************************************************************************)
EXTENDS Naturals, Sequences

CONSTANTS
  BufferSize,  \* PREPARE_BUF_MAX_SIZE, in prepared writes
  Faults       \* bound: calls of the server that fail in a behaviour

ASSUME ServerAssumption == BufferSize \in Nat \ {0} /\ Faults \in Nat

VARIABLES
  attr,         \* stack: per profile, the attributes a client can discover
  handles,      \* per profile, the handles gl_profile_tab holds
  advConfig,    \* adv_config_done: the data sets not known to be configured
  advData,      \* stack: the data sets that are configured
  advertising,  \* stack
  deaf,         \* the latest start of advertising has failed
  prepareLen,   \* per profile, prepare_len; prepare_buf is NULL if it is 0
  requested,    \* calls into the stack that are not completed, in order
  faultsLeft,
  inbox,        \* events the Bluetooth task has not called back yet
  answers       \* packets sent to the central, in order

tableVars  == <<attr, handles>>
advVars    == <<advConfig, advData, advertising, deaf>>
callVars   == <<requested, faultsLeft>>
serverVars == <<tableVars, advVars, prepareLen, callVars, inbox, answers>>

Profiles == {"A", "B"}
DataSets == {"adv", "scan_rsp"}
Attributes == {"service", "char", "descr"}
Values == {"notify", "indicate", "off"}
Packets == {"NOTIFY", "WRITE_RSP", "PREPARE_RSP", "ERROR_RSP", "EXEC_RSP", "READ_RSP"}

Requests == ({"register"} \X Profiles) \cup ({"config"} \X DataSets)
            \cup (Attributes \X Profiles)
Completed == {<<r[1], r[2], ok>> : r \in Requests, ok \in BOOLEAN}
Accesses == ({"WRITE"} \X Profiles \X {"descr"} \X Values)
            \cup ({"WRITE"} \X Profiles \X {"char"} \X {"off"})
            \cup ({"PREPARE"} \X Profiles \X (0 .. BufferSize))
            \cup ({"EXEC", "READ"} \X Profiles)
Links == {<<"CONNECT">>, <<"DISCONNECT">>}

ServerTypeOK ==
  /\ attr \in [Profiles -> SUBSET Attributes]
  /\ handles \in [Profiles -> SUBSET Attributes]
  /\ advConfig \in SUBSET DataSets /\ advData \in SUBSET DataSets
  /\ advertising \in BOOLEAN /\ deaf \in BOOLEAN
  /\ prepareLen \in [Profiles -> Nat]
  /\ requested \in Seq(Requests) /\ faultsLeft \in 0 .. Faults
  /\ inbox \in Seq(Completed \cup Accesses \cup Links)
  /\ answers \in Seq(Packets)

\* app_main has registered the callbacks and both applications.
ServerInit ==
  /\ attr = [p \in Profiles |-> {}] /\ handles = [p \in Profiles |-> {}]
  /\ advConfig = {} /\ advData = {} /\ advertising = FALSE /\ deaf = FALSE
  /\ prepareLen = [p \in Profiles |-> 0]
  /\ requested = <<<<"register", "A">>, <<"register", "B">>>>
  /\ faultsLeft = Faults
  /\ inbox = <<>> /\ answers = <<>>

-----------------------------------------------------------------------------
(* The stack *)

\* A call fails no more often than Faults says.
Outcome(ok) == IF ok THEN UNCHANGED faultsLeft
               ELSE faultsLeft > 0 /\ faultsLeft' = faultsLeft - 1

\* An attribute needs the one it belongs to: a call for it fails without.
Possible(r) ==
  \/ r[1] \notin Attributes \/ r[1] = "service"
  \/ r[1] = "char" /\ "service" \in attr[r[2]]
  \/ r[1] = "descr" /\ "char" \in attr[r[2]]

Completes ==
  \E ok \in BOOLEAN :
    LET r == Head(requested) IN
    /\ requested # <<>> /\ requested' = Tail(requested)
    /\ IF Possible(r) THEN Outcome(ok) ELSE ~ok /\ UNCHANGED faultsLeft
    /\ inbox' = Append(inbox, <<r[1], r[2], ok>>)
    /\ advData' = IF ok /\ r[1] = "config" THEN advData \cup {r[2]} ELSE advData
    /\ attr' = IF ok /\ r[1] \in {"char", "descr"}
               THEN [attr EXCEPT ![r[2]] = @ \cup {r[1]}] ELSE attr
    /\ UNCHANGED <<handles, advConfig, advertising, deaf, prepareLen, answers>>

-----------------------------------------------------------------------------
(* gap_event_handler *)

Receive(e) == inbox # <<>> /\ Head(inbox) = e /\ inbox' = Tail(inbox)

\* esp_ble_gap_start_advertising is refused, or completes with a failure that
\* is only logged: nobody tries again.
StartAdvertising ==
  \E ok \in BOOLEAN :
    Outcome(ok) /\ advertising' = (advertising \/ ok) /\ deaf' = ~ok

\* ADV_DATA_SET_COMPLETE and SCAN_RSP_DATA_SET_COMPLETE: the status of the
\* call is not looked at.
HandleDataSet(d) ==
  /\ \E ok \in BOOLEAN : Receive(<<"config", d, ok>>)
  /\ advConfig' = advConfig \ {d}
  /\ IF advConfig' = {} THEN StartAdvertising
     ELSE UNCHANGED <<advertising, deaf, faultsLeft>>
  /\ UNCHANGED <<tableVars, advData, prepareLen, requested, answers>>

-----------------------------------------------------------------------------
(* The profiles *)

\* gatts_event_handler returns if the registration failed.
HandleRegFailed(p) ==
  /\ Receive(<<"register", p, FALSE>>)
  /\ UNCHANGED <<tableVars, advVars, prepareLen, callVars, answers>>

\* A flag is set after its call, whether or not the call was accepted.
ConfigureAdv ==
  \E accepted \in {<<>>, <<<<"config", "adv">>>>, <<<<"config", "scan_rsp">>>>,
                   <<<<"config", "adv">>, <<"config", "scan_rsp">>>>} :
    /\ Outcome(Len(accepted) = 2)
    /\ requested' = requested \o accepted \o <<<<"service", "A">>>>
    /\ advConfig' = advConfig \cup DataSets

HandleRegA ==
  /\ Receive(<<"register", "A", TRUE>>)
  /\ ConfigureAdv
  /\ UNCHANGED <<tableVars, advData, advertising, deaf, prepareLen, answers>>

HandleRegB ==
  /\ Receive(<<"register", "B", TRUE>>)
  /\ requested' = Append(requested, <<"service", "B">>)
  /\ UNCHANGED <<tableVars, advVars, prepareLen, faultsLeft, answers>>

\* The handle of a new attribute is stored, and the next attribute asked for,
\* though the attribute may not have been made.
Store(p, a, ok) == handles' = [handles EXCEPT ![p] = IF ok THEN @ \cup {a} ELSE @ \ {a}]

\* The service becomes visible by esp_ble_gatts_start_service.
HandleCreate(p) ==
  \E ok \in BOOLEAN :
    /\ Receive(<<"service", p, ok>>)
    /\ Store(p, "service", ok)
    /\ attr' = IF ok THEN [attr EXCEPT ![p] = @ \cup {"service"}] ELSE attr
    /\ requested' = Append(requested, <<"char", p>>)
    /\ UNCHANGED <<advVars, prepareLen, faultsLeft, answers>>

HandleAddChar(p) ==
  \E ok \in BOOLEAN :
    /\ Receive(<<"char", p, ok>>)
    /\ Store(p, "char", ok)
    /\ requested' = Append(requested, <<"descr", p>>)
    /\ UNCHANGED <<attr, advVars, prepareLen, faultsLeft, answers>>

MutAddDescr(p) ==
  \E ok \in BOOLEAN :
    /\ Receive(<<"descr", p, ok>>)
    /\ UNCHANGED <<handles, attr, advVars, prepareLen, callVars, answers>>

HandleAddDescr(p) ==
  \E ok \in BOOLEAN :
    /\ Receive(<<"descr", p, ok>>)
    /\ Store(p, "descr", ok)
    /\ UNCHANGED <<attr, advVars, prepareLen, callVars, answers>>

\* A write to the descriptor that asks for notifications is answered by one;
\* no characteristic has the property that indications need.
Notifies(p, target, value) ==
  target = "descr" /\ "descr" \in handles[p] /\ value = "notify"

HandleWrite(p) ==
  \E target \in {"char", "descr"}, value \in Values :
    /\ Receive(<<"WRITE", p, target, value>>)
    /\ answers' = answers \o (IF Notifies(p, target, value) THEN <<"NOTIFY">> ELSE <<>>)
                          \o <<"WRITE_RSP">>
    /\ UNCHANGED <<tableVars, advVars, prepareLen, callVars>>

\* example_write_event_env: the buffer is made for the first prepared write,
\* which is not checked against its size; later ones are.
HandlePrepare(p) ==
  \E offset \in 0 .. BufferSize :
    /\ Receive(<<"PREPARE", p, offset>>)
    /\ \/ /\ prepareLen[p] > 0 => offset < BufferSize
          /\ prepareLen' = [prepareLen EXCEPT ![p] = @ + 1]
          /\ answers' = Append(answers, "PREPARE_RSP")
       \/ /\ prepareLen[p] = 0 \/ offset >= BufferSize
          /\ answers' = Append(answers, "ERROR_RSP")
          /\ UNCHANGED prepareLen
    /\ UNCHANGED <<tableVars, advVars, callVars>>

HandleExec(p) ==
  /\ Receive(<<"EXEC", p>>)
  /\ answers' = Append(answers, "EXEC_RSP")
  /\ prepareLen' = [prepareLen EXCEPT ![p] = 0]
  /\ UNCHANGED <<tableVars, advVars, callVars>>

HandleRead(p) ==
  /\ Receive(<<"READ", p>>)
  /\ answers' = Append(answers, "READ_RSP")
  /\ UNCHANGED <<tableVars, advVars, prepareLen, callVars>>

\* Profiles A and B note the connection; A asks for other parameters.
HandleConnected ==
  /\ Receive(<<"CONNECT">>)
  /\ UNCHANGED <<tableVars, advVars, prepareLen, callVars, answers>>

\* Only profile A acts; what the central had prepared stays where it is.
MutDisconnected ==
  /\ Receive(<<"DISCONNECT">>)
  /\ UNCHANGED <<tableVars, advVars, prepareLen, callVars, answers>>

HandleDisconnected ==
  /\ Receive(<<"DISCONNECT">>)
  /\ StartAdvertising
  /\ UNCHANGED <<tableVars, advConfig, advData, prepareLen, requested, answers>>

ServerHandles ==
  \/ \E d \in DataSets : HandleDataSet(d)
  \/ HandleRegA \/ HandleRegB
  \/ \E p \in Profiles :
       HandleRegFailed(p) \/ HandleCreate(p) \/ HandleAddChar(p) \/ HandleAddDescr(p)
         \/ HandleWrite(p) \/ HandlePrepare(p) \/ HandleExec(p) \/ HandleRead(p)
  \/ HandleConnected \/ HandleDisconnected
=============================================================================
