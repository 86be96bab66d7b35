------------------------------- MODULE BleLink -------------------------------
(***************************************************************************)
(* The client of gatt_client_native_example and the server of gatt_server  *)
(* over the air: the two stacks connect them, carry the requests of one    *)
(* and the answers of the other in order, and lose the link at any time.   *)
(* The service and characteristic the client looks for are those of the    *)
(* server's profile A.  The name it scans for is not the server's: the     *)
(* composition is of the two programs with one name in both.               *)
(* A guest is any other central, such as a phone with a generic GATT tool. *)
(***************************************************************************)
EXTENDS GattServer, GattClient

CONSTANTS
  Connections, \* bound: connections in a behaviour
  GuestWrites, \* bound: requests guests make
  Reports      \* bound: scan results that wait to be handled

ASSUME LinkAssumption == Connections \in Nat /\ GuestWrites \in Nat /\ Reports \in Nat \ {0}

VARIABLES
  link,    \* who holds the connection
  sent,    \* packets of the client's current call that await an answer
  linksLeft, guestLeft

airVars == <<link, sent, linksLeft, guestLeft>>
vars == <<serverVars, clientVars, airVars>>

TypeOK ==
  /\ ServerTypeOK /\ ClientTypeOK
  /\ link \in {"none", "client", "guest"}
  /\ sent \in Seq(Packets)
  /\ linksLeft \in 0 .. Connections /\ guestLeft \in 0 .. GuestWrites

Init ==
  /\ ServerInit /\ ClientInit
  /\ link = "none" /\ sent = <<>>
  /\ linksLeft = Connections /\ guestLeft = GuestWrites

-----------------------------------------------------------------------------
(* The programs *)

ServerStep == ServerHandles /\ UNCHANGED <<clientVars, airVars>>
StackStep == Completes /\ UNCHANGED <<clientVars, airVars>>
ClientStep == ClientHandles(link = "client") /\ UNCHANGED <<serverVars, airVars>>

-----------------------------------------------------------------------------
(* The client's stack *)

\* What a stack can do without the other side.
Local(c) ==
  /\ c \in calls /\ calls' = calls \ {c}
  /\ UNCHANGED <<aimVars, logVars, serverVars, airVars>>

Fails(c) ==
  /\ c \in calls \ {"open"} /\ sent = <<>>
  /\ calls' = calls \ {c} /\ cInbox' = Append(cInbox, <<c, FALSE>>)
  /\ failed' = TRUE
  /\ UNCHANGED <<aimVars, cache, logVars, serverVars, airVars>>

Registered ==
  \E c \in {"register", "scan_params", "reg_for_notify"} :
    Local(c) /\ cInbox' = Append(cInbox, <<c, TRUE>>) /\ UNCHANGED <<cache, failed>>

\* The stack discovers what the attribute table holds at that time.
Discovered ==
  /\ link = "client" /\ Local("discover")
  /\ cache' = attr["A"]
  /\ cInbox' = Append(cInbox, <<"discover", TRUE>>)
  /\ UNCHANGED failed

Searched ==
  /\ link = "client" /\ Local("search")
  /\ cInbox' = cInbox \o (IF "service" \in cache THEN <<<<"SEARCH_RES">>>> ELSE <<>>)
                      \o <<<<"search", TRUE>>>>
  /\ UNCHANGED <<cache, failed>>

ScanReports ==
  /\ scan = "on" /\ advertising /\ link = "none"
  /\ Len(SelectSeq(cInbox, LAMBDA e : e = <<"SCAN_RESULT">>)) < Reports
  /\ cInbox' = Append(cInbox, <<"SCAN_RESULT">>)
  /\ UNCHANGED <<aimVars, calls, cache, logVars, failed, serverVars,
                 airVars>>

ScanEnds ==
  /\ scan = "on" /\ scan' = "over"
  /\ UNCHANGED <<connect, getServer, calls, cInbox, cache, logVars,
                 failed, serverVars, airVars>>

-----------------------------------------------------------------------------
(* The connection *)

Connects(who) ==
  /\ link = "none" /\ advertising /\ linksLeft > 0
  /\ link' = who /\ linksLeft' = linksLeft - 1
  /\ advertising' = FALSE
  /\ inbox' = Append(inbox, <<"CONNECT">>) /\ answers' = <<>>
  /\ UNCHANGED <<tableVars, advConfig, advData, deaf, prepareLen, callVars,
                 sent, guestLeft>>

\* A new connection is discovered at once.
Opens ==
  /\ "open" \in calls /\ Connects("client")
  /\ calls' = (calls \ {"open"}) \cup {"discover"}
  /\ cInbox' = cInbox \o <<<<"CONNECT">>, <<"open", TRUE>>>>
  /\ cache' = {} /\ heard' = FALSE /\ written' = FALSE /\ failed' = FALSE
  /\ UNCHANGED <<aimVars>>

\* An attempt that had got as far as a connection also reports its end.
OpenFails ==
  /\ "open" \in calls /\ calls' = calls \ {"open"}
  /\ \E end \in {<<>>, <<<<"DISCONNECT">>>>} :
       cInbox' = cInbox \o end \o <<<<"open", FALSE>>>>
  /\ UNCHANGED <<aimVars, cache, logVars, failed, serverVars, airVars>>

\* Bound: a guest comes when the server is at rest.
GuestConnects ==
  /\ requested = <<>> /\ inbox = <<>>
  /\ Connects("guest") /\ UNCHANGED clientVars

\* The calls of a connection end with it.
LinkEnds ==
  /\ link # "none" /\ link' = "none"
  /\ inbox' = Append(inbox, <<"DISCONNECT">>) /\ answers' = <<>> /\ sent' = <<>>
  /\ IF link = "client"
     THEN /\ cInbox' = Append(cInbox, <<"DISCONNECT">>)
          /\ calls' = calls \ {"discover", "search", "write_descr", "write_char"}
     ELSE UNCHANGED <<cInbox, calls>>
  /\ UNCHANGED <<tableVars, advVars, prepareLen, callVars, aimVars,
                 cache, logVars, failed, linksLeft, guestLeft>>

-----------------------------------------------------------------------------
(* Requests and answers: one request at a time awaits its answer *)

\* The descriptor is written at once; the value of the characteristic, at once
\* or, if the MTU is too small for it, by prepared writes that are executed.
ClientWrites ==
  /\ link = "client" /\ sent = <<>>
  /\ \/ /\ "write_descr" \in calls
        /\ sent' = <<"WRITE_RSP">>
        /\ inbox' = Append(inbox, <<"WRITE", "A", "descr", "notify">>)
     \/ /\ "write_char" \in calls
        /\ \/ /\ sent' = <<"WRITE_RSP">>
              /\ inbox' = Append(inbox, <<"WRITE", "A", "char", "off">>)
           \/ /\ sent' = <<"PREPARE_RSP", "PREPARE_RSP", "EXEC_RSP">>
              /\ inbox' = Append(inbox, <<"PREPARE", "A", 0>>)
  /\ UNCHANGED <<tableVars, advVars, prepareLen, callVars, answers,
                 clientVars, link, linksLeft, guestLeft>>

Answered(packet) ==
  /\ link = "client"
  /\ answers # <<>> /\ Head(answers) = packet /\ answers' = Tail(answers)
  /\ UNCHANGED <<tableVars, advVars, prepareLen, callVars, aimVars,
                 cache, logVars, link, linksLeft, guestLeft>>

NotificationArrives ==
  /\ Answered("NOTIFY")
  /\ cInbox' = Append(cInbox, <<"NOTIFY">>)
  /\ UNCHANGED <<inbox, calls, failed, sent>>

NextPacket ==
  /\ Answered("PREPARE_RSP") /\ Len(sent) > 1
  /\ sent' = Tail(sent)
  /\ inbox' = Append(inbox, IF Head(Tail(sent)) = "EXEC_RSP" THEN <<"EXEC", "A">>
                            ELSE <<"PREPARE", "A", 1>>)
  /\ UNCHANGED <<calls, cInbox, failed>>

WriteEnds ==
  /\ sent # <<>>
  /\ \E packet \in {"WRITE_RSP", "EXEC_RSP", "ERROR_RSP"},
        c \in calls \cap {"write_descr", "write_char"} :
       /\ Answered(packet)
       /\ calls' = calls \ {c}
       /\ cInbox' = Append(cInbox, <<c, packet # "ERROR_RSP">>)
       /\ failed' = (failed \/ packet = "ERROR_RSP")
  /\ sent' = <<>>
  /\ UNCHANGED inbox

GuestAsks ==
  /\ link = "guest" /\ guestLeft > 0 /\ guestLeft' = guestLeft - 1
  /\ \E e \in Accesses : inbox' = Append(inbox, e)
  /\ UNCHANGED <<tableVars, advVars, prepareLen, callVars, answers,
                 clientVars, link, sent, linksLeft>>

-----------------------------------------------------------------------------

ClientStack ==
  Registered \/ Discovered \/ Searched \/ Opens \/ ClientWrites \/ NotificationArrives
    \/ NextPacket \/ WriteEnds

Air ==
  \/ \E c \in Calls : Fails(c)
  \/ ScanReports \/ ScanEnds \/ OpenFails
  \/ GuestConnects \/ LinkEnds \/ GuestAsks

Next == ServerStep \/ StackStep \/ ClientStep \/ ClientStack \/ Air

\* The tasks of both devices run and their stacks answer.
Fairness ==
  WF_vars(ServerStep) /\ WF_vars(StackStep) /\ WF_vars(ClientStep) /\ WF_vars(ClientStack)

Spec == Init /\ [][Next]_vars
FairSpec == Spec /\ Fairness

-----------------------------------------------------------------------------
(* Properties *)

\* A client whose write to the descriptor is acknowledged has its notification:
\* the server knows the descriptor before anybody can write to it, and sends
\* the notification before it acknowledges.
Notification(i) == cInbox[i] = <<"NOTIFY">>
AcknowledgedMeansNotified ==
  \A i \in DOMAIN cInbox :
    cInbox[i] = <<"write_descr", TRUE>> =>
      \/ heard
      \/ \E j \in DOMAIN cInbox : j < i /\ Notification(j)

\* Once the server has handled what it was told it can be found, or is
\* connected to, and not both, unless a call to configure its data was refused
\* or the latest start of advertising failed, which nobody repeats.  It is
\* never seen with half of its data.
ServerFindable ==
  /\ advertising => advConfig = {}
  /\ (inbox = <<>> /\ advConfig = {} /\ requested = <<>>
        /\ "service" \in handles["A"])
     => /\ advertising => link = "none"
        /\ advertising \/ link # "none" \/ deaf

\* connect says that a connection is asked for or held, until the end of the
\* connection is handled: the client never asks for two.
ConnectFollowsLink ==
  /\ "open" \in calls \/ link = "client"
  /\ \A i \in DOMAIN cInbox : cInbox[i] # <<"DISCONNECT">>
  => connect /\ ~("open" \in calls /\ link = "client")

\* A client that stays connected, that discovered the whole service and that
\* has no failure of its own, in the end writes the characteristic.
WritesInTheEnd ==
  <>[](link = "client" /\ cache = Attributes /\ ~failed) => <>[]written
=============================================================================
