----------------------------- MODULE ShadowDemo -----------------------------
(***************************************************************************)
(* The device shadow demo of thing_shadow/main: aws_iot_demo_main runs a   *)
(* fixed script of MQTT calls over a session with a broker, and runs it    *)
(* again, a few times, while it fails.  One task does everything: packets  *)
(* are handled by eventCallback from inside the calls, so the interleaving *)
(* is that of the task with the broker, the network and the other clients  *)
(* of the same shadow.                                                     *)
(*                                                                         *)
(* Abstractions: a call is its kind and its topic; payloads are reduced to *)
(* what the handlers read; the back-off of the TLS connection is inside    *)
(* ConnectFails; messages whose handling only logs, and clientToken, which *)
(* is only compared to be logged, are left out.  mqttSessionEstablished is *)
(* TRUE wherever it is read.                                               *)
(***************************************************************************)
EXTENDS Integers, Sequences, FiniteSets

CONSTANTS
  MaxRuns,       \* SHADOW_MAX_DEMO_LOOP_COUNT
  Versions,      \* the version numbers of the shadow's deltas
  Refusable,     \* the topics whose subscription the broker may refuse
  MaxInFlight    \* bound: messages of the broker on their way to the device

ASSUME RunsAssumption == MaxRuns \in Nat \ {0}
ASSUME VersionsAssumption == Versions \subseteq Nat \ {0}
ASSUME InFlightAssumption == MaxInFlight \in Nat

VARIABLES
  phase,           \* where the task is
  call,            \* the call of the script it is at
  ok,              \* returnStatus
  runs,            \* demoRunCount
  nextId,          \* the library's next packet identifier
  subId, unsubId,  \* globalSubscribe- and globalUnsubscribePacketIdentifier
  ack,             \* globalAckPacketIdentifier
  unacked,         \* identifiers stored in outgoingPublishPackets
  deleteResponse,  \* deleteResponseReceived
  shadowDeleted,
  stateChanged,
  callbackError,   \* eventCallbackError
  power,           \* currentPowerOnState
  version,         \* currentVersion
  link,            \* the connection is up
  outbox, inbox,   \* packets on their way to the broker and to the device
  subs,            \* the broker's subscriptions of this client
  refused          \* the topic of the request waited for, if the broker refuses it

session == <<nextId, subId, unsubId, unacked>>
flags   == <<deleteResponse, shadowDeleted, stateChanged, callbackError>>
shadow  == <<power, version>>
network == <<link, outbox, inbox, subs, refused>>
vars == <<phase, call, ok, runs, ack, session, flags, shadow, network>>

Topics == {"delete/accepted", "delete/rejected",
           "update/delta", "update/accepted", "update/rejected"}

-----------------------------------------------------------------------------
(* The script *)

Call(kind, topic) == [kind |-> kind, topic |-> topic]

MutScript == <<
  Call("sub", "delete/accepted"), Call("sub", "delete/rejected"),
  Call("pub", "delete"),
  Call("unsub", "delete/accepted"),
  Call("check", "delete"),
  Call("sub", "update/delta"), Call("sub", "update/accepted"),
  Call("sub", "update/rejected"),
  Call("pub", "desired"), Call("pub", "reported"),
  Call("unsub", "update/delta"), Call("unsub", "update/accepted"),
  Call("unsub", "update/rejected") >>

Script == <<
  Call("sub", "delete/accepted"), Call("sub", "delete/rejected"),
  Call("pub", "delete"),
  Call("unsub", "delete/accepted"), Call("unsub", "delete/rejected"),
  Call("check", "delete"),
  Call("sub", "update/delta"), Call("sub", "update/accepted"),
  Call("sub", "update/rejected"),
  Call("pub", "desired"), Call("pub", "reported"),
  Call("unsub", "update/delta"), Call("unsub", "update/accepted"),
  Call("unsub", "update/rejected") >>

Phases == {"establish", "call", "wait", "loop", "disconnect", "judge", "done"}

At(kind) == phase = "call" /\ Script[call].kind = kind

\* The next call of the script, or the end of the session.
Advance ==
  /\ call' = call + 1
  /\ phase' = IF call = Len(Script) THEN "disconnect" ELSE "call"
  /\ UNCHANGED ok

\* The calls that are left are skipped, the session is disconnected.
Fail == phase' = "disconnect" /\ ok' = FALSE /\ UNCHANGED call

-----------------------------------------------------------------------------
(* Packets *)

Ids == 1 .. Len(Script)

Request(type, id, topic) == [type |-> type, id |-> id, topic |-> topic]
Packet(type, id) == [type |-> type, id |-> id]

Requests == [type : {"SUBSCRIBE", "UNSUBSCRIBE"}, id : Ids, topic : Topics]
              \cup [type : {"PUBLISH"}, id : Ids]
Acks == [type : {"SUBACK", "UNSUBACK", "PUBACK"}, id : Ids]

\* A delta carries the powerOn that is wanted, or none when another client
\* has changed another attribute; an accepted update has a token if the client
\* that asked for it gave one.
Deleted  == [type : {"delete/accepted"}]
Rejected == [type : {"delete/rejected"}, notFound : BOOLEAN]
Deltas   == [type : {"update/delta"}, version : Versions,
             powerOn : {{}, {0}, {1}}]
Accepted == [type : {"update/accepted"}, token : BOOLEAN]
Messages == Deleted \cup Rejected \cup Deltas \cup Accepted

Send(request) ==
  /\ outbox' = IF link THEN outbox \cup {request} ELSE outbox
  /\ UNCHANGED <<link, inbox, subs, refused>>

\* The identifier the call in progress has got from the library.
Awaited == nextId - 1

-----------------------------------------------------------------------------
Init ==
  /\ phase = "establish" /\ call = 1 /\ ok = TRUE /\ runs = 0
  /\ nextId = 1 /\ subId = 0 /\ unsubId = 0 /\ ack = 0 /\ unacked = {}
  /\ deleteResponse = FALSE /\ shadowDeleted = FALSE
  /\ stateChanged = FALSE /\ callbackError = FALSE
  /\ power = 0 /\ version = 0
  /\ link = FALSE /\ outbox = {} /\ inbox = {}
  /\ subs \in SUBSET Topics   \* those of the session of an earlier boot
  /\ refused = {}

(* EstablishMqttSession *)

\* TLS, CONNECT or the resending of a stored publish has failed.
ConnectFails ==
  /\ phase = "establish"
  /\ phase' = "judge" /\ ok' = FALSE
  /\ nextId' = 1
  /\ UNCHANGED <<call, runs, ack, subId, unsubId, unacked, flags, shadow, network>>

MutConnects ==
  /\ phase = "establish"
  /\ phase' = "call" /\ call' = 1 /\ ok' = TRUE
  /\ nextId' = 1
  /\ deleteResponse' = FALSE /\ shadowDeleted' = FALSE /\ stateChanged' = FALSE
  /\ link' = TRUE /\ inbox' = {}
  /\ UNCHANGED <<runs, ack, subId, unsubId, callbackError, shadow, refused>>

\* The common part of both kinds of session: the identifiers start again.
Connects ==
  /\ phase = "establish"
  /\ phase' = "call" /\ call' = 1 /\ ok' = TRUE
  /\ nextId' = 1
  /\ deleteResponse' = FALSE /\ shadowDeleted' = FALSE
  /\ link' = TRUE /\ inbox' = {}
  /\ UNCHANGED <<runs, ack, subId, unsubId, stateChanged, callbackError, shadow, refused>>

\* The broker has no session of this client: nothing to resend.
StartsClean ==
  /\ Connects
  /\ unacked' = {} /\ outbox' = {} /\ subs' = {}

\* The broker resumes its session: stored publishes are sent again, with the
\* identifiers they had.
Resumes ==
  /\ Connects
  /\ outbox' = {Packet("PUBLISH", id) : id \in unacked}
  /\ UNCHANGED <<unacked, subs>>

-----------------------------------------------------------------------------
(* SubscribeToTopic, UnsubscribeFromTopic and PublishToTopic *)

\* Sent, or refused by the transport.
Subscribe ==
  /\ At("sub")
  /\ subId' = nextId /\ nextId' = nextId + 1
  /\ \/ /\ Send(Request("SUBSCRIBE", nextId, Script[call].topic))
        /\ phase' = "wait" /\ ack' = 0 /\ UNCHANGED <<call, ok>>
     \/ Fail /\ UNCHANGED <<ack, network>>
  /\ UNCHANGED <<runs, unsubId, unacked, flags, shadow>>

Unsubscribe ==
  /\ At("unsub")
  /\ unsubId' = nextId /\ nextId' = nextId + 1
  /\ \/ /\ Send(Request("UNSUBSCRIBE", nextId, Script[call].topic))
        /\ phase' = "wait" /\ ack' = 0 /\ UNCHANGED <<call, ok>>
     \/ Fail /\ UNCHANGED <<ack, network>>
  /\ UNCHANGED <<runs, subId, unacked, flags, shadow>>

\* A reported state is published only if there is one to report.
Due == Script[call].topic = "reported" => stateChanged

\* The library refuses an identifier that is still in use.
Publish ==
  /\ At("pub") /\ Due
  /\ nextId' = nextId + 1
  /\ \/ /\ nextId \notin unacked
        /\ unacked' = unacked \cup {nextId}
        /\ Send(Packet("PUBLISH", nextId))
        /\ phase' = "loop" /\ UNCHANGED <<call, ok>>
     \/ Fail /\ UNCHANGED <<unacked, network>>
  /\ UNCHANGED <<runs, ack, subId, unsubId, flags, shadow>>

NothingToReport ==
  /\ At("pub") /\ ~Due
  /\ Advance
  /\ UNCHANGED <<runs, ack, session, flags, shadow, network>>

(* waitForPacketAck and processLoopWithTimeout *)

\* The condition of the loop that calls MQTT_ProcessLoop.
Processing == phase = "loop" \/ (phase = "wait" /\ ack # Awaited)

WaitEnds ==
  /\ phase = "wait" /\ ack = Awaited
  /\ Advance
  /\ refused' = {}
  /\ UNCHANGED <<runs, ack, session, flags, shadow, link, outbox, inbox, subs>>

MutWaitFails ==
  /\ phase = "wait" /\ (ack # Awaited \/ ~link)
  /\ Advance
  /\ refused' = {}
  /\ UNCHANGED <<runs, ack, session, flags, shadow, link, outbox, inbox, subs>>

\* A timeout, or MQTT_ProcessLoop has failed.
WaitFails ==
  /\ phase = "wait" /\ (ack # Awaited \/ ~link)
  /\ Fail
  /\ refused' = {}
  /\ UNCHANGED <<runs, ack, session, flags, shadow, link, outbox, inbox, subs>>

\* PublishToTopic does not care how its loop ended.
LoopEnds ==
  /\ phase = "loop"
  /\ Advance
  /\ UNCHANGED <<runs, ack, session, flags, shadow, network>>

-----------------------------------------------------------------------------
(* eventCallback *)

Take(m) ==
  /\ Processing
  /\ m \in inbox
  /\ inbox' = inbox \ {m}
  /\ UNCHANGED <<phase, call, ok, runs, nextId, subId, unsubId, link, outbox, subs, refused>>

\* HandleOtherIncomingPacket, whose assertions are AcksMatchRequests.
HandleAck(m) ==
  /\ Take(m)
  /\ m \in Acks
  /\ ack' = m.id
  /\ unacked' = IF m.type = "PUBACK" THEN unacked \ {m.id} ELSE unacked
  /\ UNCHANGED <<flags, shadow>>

HandleDeleted(m) ==
  /\ Take(m)
  /\ m \in Deleted
  /\ deleteResponse' = TRUE /\ shadowDeleted' = TRUE
  /\ UNCHANGED <<ack, unacked, stateChanged, callbackError, shadow>>

deleteRejectedHandler(m) ==
  /\ Take(m)
  /\ m \in Rejected
  /\ deleteResponse' = TRUE
  /\ shadowDeleted' = (shadowDeleted \/ m.notFound)
  /\ UNCHANGED <<ack, unacked, stateChanged, callbackError, shadow>>

\* What the handler takes for the powerOn of a delta.  For one that is not
\* newer the search for it is skipped, and the result of the search for the
\* version is still there.
NewState(m) == IF m.version > version THEN m.powerOn ELSE {m.version}

updateDeltaHandler(m) ==
  /\ Take(m)
  /\ m \in Deltas
  /\ version' = IF m.version > version THEN m.version ELSE version
  /\ \/ NewState(m) = {} /\ callbackError' = TRUE /\ UNCHANGED <<power, stateChanged>>
     \/ \E state \in NewState(m) :
          /\ power' = state
          /\ stateChanged' = (stateChanged \/ state # power)
          /\ UNCHANGED callbackError
  /\ UNCHANGED <<ack, unacked, deleteResponse, shadowDeleted>>

updateAcceptedHandler(m) ==
  /\ Take(m)
  /\ m \in Accepted
  /\ callbackError' = (callbackError \/ ~m.token)
  /\ UNCHANGED <<ack, unacked, deleteResponse, shadowDeleted, stateChanged, shadow>>

eventCallback ==
  \E m \in inbox :
    \/ HandleAck(m)
    \/ HandleDeleted(m)
    \/ deleteRejectedHandler(m)
    \/ updateDeltaHandler(m)
    \/ updateAcceptedHandler(m)

-----------------------------------------------------------------------------
(* The rest of aws_iot_demo_main *)

CheckDelete ==
  /\ At("check")
  /\ \/ deleteResponse /\ shadowDeleted /\ Advance
     \/ ~(deleteResponse /\ shadowDeleted) /\ Fail
  /\ UNCHANGED <<runs, ack, session, flags, shadow, network>>

\* DISCONNECT may be refused; what it returns replaces what the calls did.
DisconnectMqttSession ==
  /\ phase = "disconnect"
  /\ phase' = "judge" /\ ok' \in BOOLEAN
  /\ link' = FALSE /\ outbox' = {} /\ inbox' = {}
  /\ UNCHANGED <<call, runs, ack, session, flags, shadow, subs, refused>>

MutJudgeUncounted ==
  /\ phase = "judge"
  /\ ok' = (ok /\ ~callbackError)
  /\ runs' = IF ok' THEN runs + 1 ELSE runs
  /\ phase' = IF ok' \/ runs' = MaxRuns THEN "done" ELSE "establish"
  /\ UNCHANGED <<call, ack, session, flags, shadow, network>>

Judge ==
  /\ phase = "judge"
  /\ runs' = runs + 1
  /\ ok' = (ok /\ ~callbackError)
  /\ phase' = IF ok' \/ runs' = MaxRuns THEN "done" ELSE "establish"
  /\ UNCHANGED <<call, ack, session, flags, shadow, network>>

-----------------------------------------------------------------------------
(* The broker, the network and the other clients of the shadow *)

client == <<phase, call, ok, runs, ack, session, flags, shadow>>

BrokerSubscribes(r) ==
  /\ r.type = "SUBSCRIBE"
  /\ subs' = subs \cup {r.topic}
  /\ inbox' = inbox \cup {Packet("SUBACK", r.id)}
  /\ UNCHANGED refused

\* A SUBACK with the code for a failure: coreMQTT logs it and hands it over
\* like any other.
BrokerRefuses(r) ==
  /\ r.type = "SUBSCRIBE" /\ r.topic \in Refusable
  /\ refused' = IF phase = "wait" THEN {r.topic} ELSE refused
  /\ inbox' = inbox \cup {Packet("SUBACK", r.id)}
  /\ UNCHANGED subs

BrokerUnsubscribes(r) ==
  /\ r.type = "UNSUBSCRIBE"
  /\ subs' = subs \ {r.topic}
  /\ inbox' = inbox \cup {Packet("UNSUBACK", r.id)}
  /\ UNCHANGED refused

BrokerTakes(r) ==
  /\ r.type = "PUBLISH"
  /\ inbox' = inbox \cup {Packet("PUBACK", r.id)}
  /\ UNCHANGED <<subs, refused>>

BrokerAnswers ==
  \E r \in outbox :
    /\ \/ BrokerSubscribes(r) \/ BrokerRefuses(r)
       \/ BrokerUnsubscribes(r) \/ BrokerTakes(r)
    /\ outbox' = outbox \ {r}
    /\ UNCHANGED <<client, link>>

\* The shadow service answers a delete, reports a difference or forwards what
\* another client did, once or again, early or late.
ShadowPublishes ==
  \E m \in Messages :
    /\ link /\ m.type \in subs
    /\ Cardinality(inbox) < MaxInFlight
    /\ inbox' = inbox \cup {m}
    /\ UNCHANGED <<client, link, outbox, subs, refused>>

LinkBreaks ==
  /\ link
  /\ link' = FALSE /\ outbox' = {} /\ inbox' = {}
  /\ UNCHANGED <<client, subs, refused>>

-----------------------------------------------------------------------------
Task ==
  \/ ConnectFails \/ StartsClean \/ Resumes
  \/ Subscribe \/ Unsubscribe \/ Publish \/ NothingToReport
  \/ WaitEnds \/ WaitFails \/ LoopEnds
  \/ CheckDelete \/ DisconnectMqttSession \/ Judge

Next == Task \/ eventCallback \/ BrokerAnswers \/ ShadowPublishes \/ LinkBreaks

\* Every call of the task ends: its waits have timeouts.  Nothing is assumed
\* of the broker, the network or the other clients.
Spec == Init /\ [][Next]_vars /\ WF_vars(Task)

-----------------------------------------------------------------------------
TaskTypes ==
  /\ phase \in Phases /\ call \in 1 .. Len(Script) + 1 /\ runs \in 0 .. MaxRuns
  /\ nextId \in 1 .. Len(Script) + 1
  /\ subId \in 0 .. Len(Script) /\ unsubId \in 0 .. Len(Script)
  /\ ack \in 0 .. Len(Script) /\ unacked \subseteq Ids
  /\ power \in Nat /\ version \in Nat

FlagTypes ==
  /\ ok \in BOOLEAN /\ link \in BOOLEAN
  /\ deleteResponse \in BOOLEAN /\ shadowDeleted \in BOOLEAN
  /\ stateChanged \in BOOLEAN /\ callbackError \in BOOLEAN

PacketsInFlight ==
  /\ subs \subseteq Topics /\ refused \subseteq Topics
  /\ outbox \subseteq Requests /\ inbox \subseteq Acks \cup Messages

\* Types of all state; the identifiers and counters stay within their bounds.
TypeOK == TaskTypes /\ FlagTypes /\ PacketsInFlight

\* An acknowledgment the task handles is the one of the request it has made
\* last, although requests are given up on timeouts, connections are resumed
\* and identifiers start again with each: the assertions of
\* HandleOtherIncomingPacket never stop the device.
AcksMatchRequests ==
  \A m \in inbox : Processing =>
    /\ m.type = "SUBACK" => m.id = subId
    /\ m.type = "UNSUBACK" => m.id = unsubId

\* When a subscribe or an unsubscribe returns success the broker has answered
\* this very request: it has taken the subscription back, or made it, or
\* refused to make it, which the device takes for success too, since
\* HandleOtherIncomingPacket does not look into a SUBACK.  waitForPacketAck
\* compares identifiers only, and a publish of an earlier session that is
\* acknowledged late has an identifier that may be in use again.
AckIsGenuine ==
  phase = "wait" /\ ack = Awaited =>
    /\ Script[call].kind = "sub" => Script[call].topic \in subs \cup refused
    /\ Script[call].kind = "unsub" => Script[call].topic \notin subs

\* A run whose calls have all succeeded leaves no subscription behind, those
\* included that an earlier run or boot has left in the broker's session.
LeavesNoSubscription == phase = "disconnect" /\ ok => subs = {}

\* The demo ends, whatever the broker and the network do.
Terminates == <>(phase = "done")
=============================================================================
