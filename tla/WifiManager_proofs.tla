------------------------ MODULE WifiManager_proofs ------------------------
(***************************************************************************)
(* What holds of WifiManager for every set of networks, every length of    *)
(* the queues, every retry budget and every choice of the surroundings.    *)
(***************************************************************************)
EXTENDS WifiManagerRetries, WellFoundedInduction, TLAPS

(* Every message the code sends is one of Messages, and no message is the  *)
(* empty one.                                                              *)
LEMMA OrdersAreMessages ==
  /\ LoadRestore \in Messages /\ StartAp \in Messages /\ StopAp \in Messages
  /\ StartScan \in Messages /\ DisconnectSta \in Messages
  /\ \A w \in Requesters : ConnectSta(w) \in Messages
  BY DEF Messages, Orders, LoadRestore, StartAp, StopAp, StartScan,
         DisconnectSta, ConnectSta

(* What the driver announces is one of DriverEvents.                       *)
LEMMA AnnouncementsAreEvents ==
  /\ ScanDone \in DriverEvents /\ GotIp \in DriverEvents
  /\ ApStart \in DriverEvents /\ ApStop \in DriverEvents
  /\ \A r \in Reasons : Disconnected(r) \in DriverEvents
  BY DEF DriverEvents, PostedEvents, ScanDone, GotIp, ApStart, ApStop, Disconnected

(* The event loop only sets and clears declared bits.                      *)
LEMMA EventBitsType ==
  ASSUME bits \subseteq Bits, NEW e \in DriverEvents
  PROVE  EventBits(e) \subseteq Bits
<1>1. e.code \in {"EVENT_SCAN_DONE", "EVENT_STA_DISCONNECTED", "AP_START",
                  "AP_STOP", "EVENT_STA_GOT_IP"}
  <2>1. CASE e \in {ScanDone, GotIp, ApStart, ApStop}
    BY <2>1 DEF ScanDone, GotIp, ApStart, ApStop, Msg
  <2>2. CASE \E r \in Reasons : e = Disconnected(r)
    <3>1. PICK r \in Reasons : e = Disconnected(r)
      BY <2>2
    <3>2. e.code = "EVENT_STA_DISCONNECTED"
      BY <3>1 DEF Disconnected, Msg
    <3> QED
      BY <3>2
  <2> QED
    BY <2>1, <2>2 DEF DriverEvents, PostedEvents
<1>2. QED
  BY <1>1 DEF EventBits, Bits

(* A bounded queue stays bounded and typed when an element is appended to  *)
(* it while it has room, or taken from it.                                 *)
LEMMA BoundedAppend ==
  ASSUME NEW S, NEW s \in Seq(S), NEW n \in Nat, Len(s) < n, NEW e \in S
  PROVE  Append(s, e) \in Seq(S) /\ Len(Append(s, e)) <= n
  OBVIOUS

LEMMA BoundedTail ==
  ASSUME NEW S, NEW s \in Seq(S), NEW n \in Nat, Len(s) <= n, s # <<>>
  PROVE  Tail(s) \in Seq(S) /\ Len(Tail(s)) <= n /\ Head(s) \in S
  OBVIOUS

(* The commands of the timer daemon are a bounded queue that drops what    *)
(* does not fit.                                                           *)
TimersOK == timerCmds \in Seq(TimerCommands) /\ Len(timerCmds) <= TimerQueueLen

LEMMA PostTimerType ==
  ASSUME TimersOK, NEW c \in TimerCommands, PostTimer(c)
  PROVE  TimersOK'
  BY ConstantsAssumption, BoundedAppend DEF TimersOK, PostTimer

EventsOK == events \in Seq(DriverEvents) /\ Len(events) <= MaxEvents

LEMMA AnnounceType ==
  ASSUME EventsOK, NEW e \in DriverEvents, Announce(e)
  PROVE  EventsOK'
  BY ConstantsAssumption, BoundedAppend DEF EventsOK, Announce

QueueOK == queue \in Seq(Messages) /\ Len(queue) <= QueueCap

LEMMA ReceiveType ==
  ASSUME QueueOK, NEW c, Receive(c)
  PROVE  QueueOK' /\ Head(queue) \in Messages
  BY ConstantsAssumption, BoundedTail DEF QueueOK, Receive

LEMMA BlocksType ==
  ASSUME pending \in [Senders -> Messages \cup {NoMsg}],
         NEW s \in Senders, NEW m \in Messages, Blocks(s, m)
  PROVE  pending' \in [Senders -> Messages \cup {NoMsg}]
  BY DEF Blocks

-----------------------------------------------------------------------------
(* Type correctness, one lemma per actor.                                  *)

LEMMA ReportsType ==
  ASSUME NEW c \in ReasonCodes, NEW n \in Configs, Reports(c, n)
  PROVE  json' \in [urc : ReasonCodes, ssid : Ssids \cup {Blank}]
  BY DEF Reports, Status, Configs

LEMMA TypeInit == Init => TypeOK
<1> SUFFICES ASSUME NEW saved \in Configs, Boot(saved)
             PROVE  TypeOK
  BY DEF Init
<1>1. pending \in [Senders -> Messages \cup {NoMsg}]
  BY OrdersAreMessages DEF Boot, Senders
<1>2. json \in [urc : ReasonCodes, ssid : Ssids \cup {Blank}]
  BY DEF Boot, Cleared, Status, ReasonCodes
<1>3. QueueOK /\ EventsOK /\ TimersOK
  BY ConstantsAssumption DEF Boot, QueueOK, EventsOK, TimersOK
<1>4. bits \subseteq Bits /\ retries \in 0..MaxRetry
  BY ConstantsAssumption DEF Boot
<1>5. /\ config \in Configs /\ nvs \in Configs /\ staCfg \in Configs
      /\ posting \in [net : Configs, at : Stages]
  BY DEF Boot, Configs, NoNet, NotPosting, Stages
<1> QED
  BY <1>1, <1>2, <1>3, <1>4, <1>5 DEF Boot, TypeOK, QueueOK, EventsOK, TimersOK

LEMMA TypeReboot == TypeOK /\ Reboot => TypeOK'
<1> SUFFICES ASSUME TypeOK, Reboot PROVE TypeOK'
  OBVIOUS
<1>1. pending' \in [Senders -> Messages \cup {NoMsg}]
  BY OrdersAreMessages DEF Reboot, Senders
<1>2. json' \in [urc : ReasonCodes, ssid : Ssids \cup {Blank}]
  BY DEF Reboot, Cleared, Status, ReasonCodes
<1>3. QueueOK' /\ EventsOK' /\ TimersOK'
  BY ConstantsAssumption DEF Reboot, QueueOK, EventsOK, TimersOK
<1>4. bits' \subseteq Bits /\ retries' \in 0..MaxRetry
  BY ConstantsAssumption DEF Reboot
<1>5. /\ config' \in Configs /\ nvs' \in Configs /\ staCfg' \in Configs
      /\ posting' \in [net : Configs, at : Stages]
  BY DEF Reboot, Configs, NoNet, NotPosting, Stages, TypeOK
<1> QED
  BY <1>1, <1>2, <1>3, <1>4, <1>5 DEF Reboot, TypeOK, QueueOK, EventsOK, TimersOK

LEMMA TypeSend == ASSUME TypeOK, NEW s \in Senders, Send(s) PROVE TypeOK'
<1>1. pending[s] \in Messages
  BY DEF TypeOK, Send
<1>2. QueueOK'
  BY <1>1, ConstantsAssumption DEF TypeOK, Send, QueueOK
<1>3. pending' \in [Senders -> Messages \cup {NoMsg}]
  BY DEF TypeOK, Send
<1> QED
  BY <1>2, <1>3 DEF TypeOK, Send, QueueOK, timerVars, cfgVars, drvVars

LEMMA TypeEventHandler == TypeOK /\ EventHandler => TypeOK'
<1> SUFFICES ASSUME TypeOK, EventHandler PROVE TypeOK'
  OBVIOUS
<1>1. EventsOK' /\ Head(events) \in DriverEvents
  BY ConstantsAssumption, BoundedTail DEF TypeOK, EventHandler, EventsOK
<1>2. bits' \subseteq Bits
  BY <1>1, EventBitsType DEF TypeOK, EventHandler
<1>3. pending' \in [Senders -> Messages \cup {NoMsg}]
  <2>1. CASE Head(events) \in Messages
    BY <2>1, BlocksType DEF TypeOK, EventHandler, Senders
  <2>2. CASE Head(events) \notin Messages
    BY <2>2 DEF TypeOK, EventHandler
  <2> QED
    BY <2>1, <2>2
<1> QED
  BY <1>1, <1>2, <1>3 DEF TypeOK, EventHandler, EventsOK, timerVars, cfgVars

LEMMA TypeTimers == TypeOK /\ TimerStep => TypeOK'
<1> SUFFICES ASSUME TypeOK, TimerStep PROVE TypeOK'
  OBVIOUS
<1> USE DEF TypeOK, timerVars, cfgVars, drvVars
<1>1. CASE TimerRetryCb
  <2>1. TimersOK'
    BY <1>1, PostTimerType DEF TimerRetryCb, TimersOK, TimerCommands
  <2>2. pending' \in [Senders -> Messages \cup {NoMsg}]
    BY <1>1, BlocksType, OrdersAreMessages DEF TimerRetryCb, Senders, Requesters
  <2> QED
    BY <1>1, <2>1, <2>2 DEF TimerRetryCb, TimersOK
<1>2. CASE TimerShutdownApCb
  <2>1. TimersOK'
    BY <1>2, PostTimerType DEF TimerShutdownApCb, TimersOK, TimerCommands
  <2>2. pending' \in [Senders -> Messages \cup {NoMsg}]
    BY <1>2, BlocksType, OrdersAreMessages DEF TimerShutdownApCb, Senders
  <2> QED
    BY <1>2, <2>1, <2>2 DEF TimerShutdownApCb, TimersOK
<1>3. CASE TimerCommand
  <2>1. TimersOK'
    BY <1>3, BoundedTail, ConstantsAssumption DEF TimerCommand, TimersOK
  <2>2. retryTimer' \in BOOLEAN /\ shutdownTimer' \in BOOLEAN
    BY <1>3 DEF TimerCommand
  <2> QED
    BY <1>3, <2>1, <2>2 DEF TimerCommand, TimersOK
<1> QED
  BY <1>1, <1>2, <1>3 DEF TimerStep

(* The handlers of the web server write the configuration and the status,  *)
(* block with a request, and leave everything else alone.                  *)
LEMMA HttpKeeps ==
  HttpStep => UNCHANGED <<queue, restart, bits, retries, timerVars, nvs, dns, drvVars>>
<1> USE DEF timerVars, cfgVars, drvVars
<1>1. CASE Request
  BY <1>1 DEF Request, PostConnect, DeleteConnect, GetApJson
<1>2. CASE PostContinues
  BY <1>2 DEF PostContinues, PostCopies, ConnectAsync
<1> QED
  BY <1>1, <1>2 DEF HttpStep

LEMMA HttpBlocks ==
  HttpStep => \/ pending' = pending
              \/ Blocks("httpd", ConnectSta("USER")) \/ Blocks("httpd", StartScan)
              \/ DeleteConnect /\ Blocks("httpd", DisconnectSta)
  BY DEF HttpStep, Request, PostConnect, DeleteConnect, GetApJson, PostContinues,
         PostCopies, ConnectAsync

\* A request begins the overwrite, each copy writes one part of it.
LEMMA PostType ==
  ASSUME TypeOK, (\E net \in Nets : PostConnect(net)) \/ PostContinues
  PROVE  config' \in Configs /\ posting' \in [net : Configs, at : Stages]
<1>1. ASSUME NEW net \in Nets, PostConnect(net)
      PROVE  config' \in Configs /\ posting' \in [net : Configs, at : Stages]
  BY <1>1 DEF PostConnect, Configs, Nets, NoNet, Stages
<1>2. ASSUME PostCopies
      PROVE  config' \in Configs /\ posting' \in [net : Configs, at : Stages]
  <2>1. posting.net \in Configs /\ config \in Configs /\ posting.at \in {"ssid", "password"}
    BY <1>2 DEF TypeOK, PostCopies
  <2>2. config' \in Configs
    BY <1>2, <2>1 DEF PostCopies, Configs
  <2>3. posting' \in [net : Configs, at : Stages]
    BY <1>2 DEF TypeOK, PostCopies, After, Stages
  <2> QED
    BY <2>2, <2>3
<1>3. ASSUME ConnectAsync
      PROVE  config' \in Configs /\ posting' \in [net : Configs, at : Stages]
  BY <1>3 DEF TypeOK, ConnectAsync, NotPosting, NoNet, Configs, Stages
<1> QED
  BY <1>1, <1>2, <1>3 DEF PostContinues

LEMMA TypeHttp == TypeOK /\ HttpStep => TypeOK'
<1> SUFFICES ASSUME TypeOK, HttpStep PROVE TypeOK'
  OBVIOUS
<1>1. pending' \in [Senders -> Messages \cup {NoMsg}]
  BY HttpBlocks, BlocksType, OrdersAreMessages DEF TypeOK, Senders, Requesters
<1>2. /\ config' \in Configs /\ posting' \in [net : Configs, at : Stages]
      /\ json' \in [urc : ReasonCodes, ssid : Ssids \cup {Blank}]
  <2>1. CASE (\E net \in Nets : PostConnect(net)) \/ PostContinues
    <3>1. json' \in {json, Cleared}
      BY <2>1 DEF PostConnect, PostContinues, PostCopies, ConnectAsync
    <3>2. Cleared \in [urc : ReasonCodes, ssid : Ssids \cup {Blank}]
      BY DEF Cleared, Status, ReasonCodes
    <3> QED
      BY <2>1, <3>1, <3>2, PostType DEF TypeOK
  <2>2. CASE DeleteConnect \/ GetApJson
    BY <2>2 DEF DeleteConnect, GetApJson, cfgVars, TypeOK
  <2> QED
    BY <2>1, <2>2 DEF HttpStep, Request
<1> QED
  BY <1>1, <1>2, HttpKeeps DEF TypeOK, timerVars, drvVars

LEMMA TypeDriver == TypeOK /\ DriverStep => TypeOK'
<1> SUFFICES ASSUME TypeOK, DriverStep PROVE TypeOK'
  OBVIOUS
<1> USE DEF TypeOK, timerVars, cfgVars, drvVars
<1>1. EventsOK'
  BY AnnounceType, AnnouncementsAreEvents
     DEF EventsOK, Reasons, DriverStep, ConnectSucceeds, ConnectFails, LinkLost,
         AddressRenewed, ScanCompletes
<1>2. scanning' \in BOOLEAN /\ sta' \in {"idle", "connecting", "connected"}
  BY DEF DriverStep, ConnectSucceeds, ConnectFails, LinkLost, AddressRenewed,
         ScanCompletes, ScanMayDie
<1> QED
  BY <1>1, <1>2 DEF EventsOK, DriverStep, ConnectSucceeds, ConnectFails, LinkLost,
         AddressRenewed, ScanCompletes

LEMMA TypeConnect == TypeOK /\ HandleConnectSta => TypeOK'
<1> SUFFICES ASSUME TypeOK, HandleConnectSta PROVE TypeOK'
  OBVIOUS
<1> USE DEF TypeOK, timerVars, cfgVars, drvVars
<1>1. QueueOK'
  BY ReceiveType DEF HandleConnectSta, QueueOK
<1>2. bits' \subseteq Bits
  BY DEF HandleConnectSta, RequestBits, Bits
<1>3. EventsOK' /\ scanning' \in BOOLEAN
  BY AnnounceType, AnnouncementsAreEvents DEF HandleConnectSta, StopScan, EventsOK
<1> QED
  BY <1>1, <1>2, <1>3 DEF HandleConnectSta, QueueOK, EventsOK

LEMMA TypeDisconnected == TypeOK /\ HandleStaDisconnected => TypeOK'
<1> SUFFICES ASSUME TypeOK, HandleStaDisconnected PROVE TypeOK'
  OBVIOUS
<1> USE DEF TypeOK, timerVars, cfgVars, drvVars
<1>1. QueueOK'
  BY ReceiveType DEF HandleStaDisconnected, QueueOK
<1>2. bits' \subseteq Bits
  BY DEF HandleStaDisconnected, AttemptFailed, UserDisconnected, ConnectionLost
<1>3. json' \in [urc : ReasonCodes, ssid : Ssids \cup {Blank}]
  BY ReportsType DEF HandleStaDisconnected, AttemptFailed, UserDisconnected,
     ConnectionLost, ReasonCodes, Configs, NoNet
<1>4. config' \in Configs /\ nvs' \in Configs
  BY DEF HandleStaDisconnected, AttemptFailed, UserDisconnected, ConnectionLost, Configs,
         NoNet
<1>5. retries' \in 0..MaxRetry
  BY ConstantsAssumption
     DEF HandleStaDisconnected, AttemptFailed, UserDisconnected, ConnectionLost, RetriesLeft
<1>6. pending' \in [Senders -> Messages \cup {NoMsg}]
  BY BlocksType, OrdersAreMessages
     DEF HandleStaDisconnected, AttemptFailed, UserDisconnected, ConnectionLost, Senders
<1>7. TimersOK'
  <2>1. CASE AttemptFailed \/ UserDisconnected
    BY <2>1, PostTimerType
       DEF AttemptFailed, UserDisconnected, StopShutdownTimer, TimersOK, TimerCommands
  <2>2. CASE StopShutdownStartRetry
    <3> DEFINE room(s) == Len(s) < TimerQueueLen
               stopped == IF shutdownTimer /\ room(timerCmds)
                          THEN Append(timerCmds, "stop_shutdown") ELSE timerCmds
    <3>1. stopped \in Seq(TimerCommands) /\ Len(stopped) <= TimerQueueLen
      BY BoundedAppend, ConstantsAssumption DEF TimerCommands
    <3>2. timerCmds' = IF room(stopped) THEN Append(stopped, "start_retry") ELSE stopped
      BY <2>2 DEF StopShutdownStartRetry
    <3> QED
      BY <3>1, <3>2, BoundedAppend, ConstantsAssumption DEF TimersOK, TimerCommands
  <2> QED
    BY <2>1, <2>2 DEF HandleStaDisconnected, ConnectionLost
<1> QED
  BY <1>1, <1>2, <1>3, <1>4, <1>5, <1>6, <1>7 DEF HandleStaDisconnected, QueueOK, TimersOK

LEMMA TypeGotIp == TypeOK /\ HandleGotIp => TypeOK'
<1> SUFFICES ASSUME TypeOK, HandleGotIp PROVE TypeOK'
  OBVIOUS
<1> USE DEF TypeOK, timerVars, cfgVars, drvVars
<1>1. QueueOK'
  BY ReceiveType DEF HandleGotIp, QueueOK
<1>2. json' \in [urc : ReasonCodes, ssid : Ssids \cup {Blank}]
  BY ReportsType DEF HandleGotIp, ReasonCodes
<1>3. pending' \in [Senders -> Messages \cup {NoMsg}]
  BY BlocksType, OrdersAreMessages DEF HandleGotIp, ScheduleApShutdown, Senders
<1>4. TimersOK'
  BY PostTimerType DEF HandleGotIp, ScheduleApShutdown, TimersOK, TimerCommands
<1>5. nvs' \in Configs
  BY DEF HandleGotIp, ConfigToSave
<1>6. bits' \subseteq Bits /\ retries' \in 0..MaxRetry
  BY ConstantsAssumption DEF HandleGotIp
<1> QED
  BY <1>1, <1>2, <1>3, <1>4, <1>5, <1>6 DEF HandleGotIp, QueueOK, TimersOK

LEMMA TypeAp ==
  TypeOK /\ (HandleStartAp \/ FinishStartAp \/ HandleStopAp \/ FinishStopAp) => TypeOK'
<1> SUFFICES ASSUME TypeOK,
                    HandleStartAp \/ FinishStartAp \/ HandleStopAp \/ FinishStopAp
             PROVE  TypeOK'
  OBVIOUS
<1> USE DEF TypeOK, timerVars, cfgVars, drvVars
<1>1. QueueOK'
  BY ReceiveType DEF HandleStartAp, FinishStartAp, HandleStopAp, FinishStopAp, QueueOK
<1>2. EventsOK'
  BY AnnounceType, AnnouncementsAreEvents
     DEF HandleStartAp, FinishStartAp, HandleStopAp, FinishStopAp, EventsOK
<1> QED
  BY <1>1, <1>2
     DEF HandleStartAp, FinishStartAp, HandleStopAp, FinishStopAp, QueueOK, EventsOK

LEMMA TypeOtherOrders ==
  TypeOK /\ (HandleScanDone \/ HandleStartScan \/ HandleLoadAndRestore
               \/ HandleDisconnectSta) => TypeOK'
<1> SUFFICES ASSUME TypeOK,
                    HandleScanDone \/ HandleStartScan \/ HandleLoadAndRestore
                      \/ HandleDisconnectSta
             PROVE  TypeOK'
  OBVIOUS
<1> USE DEF TypeOK, timerVars, cfgVars, drvVars
<1>1. QueueOK'
  BY ReceiveType
     DEF HandleScanDone, HandleStartScan, HandleLoadAndRestore, HandleDisconnectSta, QueueOK
<1>2. EventsOK' /\ scanning' \in BOOLEAN
  BY AnnounceType, AnnouncementsAreEvents
     DEF HandleScanDone, HandleStartScan, HandleLoadAndRestore, HandleDisconnectSta,
         ScanMayDie, EventsOK, Reasons
<1>3. pending' \in [Senders -> Messages \cup {NoMsg}]
  BY BlocksType, OrdersAreMessages
     DEF HandleScanDone, HandleStartScan, HandleLoadAndRestore, HandleDisconnectSta,
         Senders, Requesters
<1>4. bits' \subseteq Bits
  BY DEF HandleScanDone, HandleStartScan, HandleLoadAndRestore, HandleDisconnectSta, Bits
<1> QED
  BY <1>1, <1>2, <1>3, <1>4
     DEF HandleScanDone, HandleStartScan, HandleLoadAndRestore, HandleDisconnectSta,
         QueueOK, EventsOK

LEMMA TypeNext == TypeOK /\ [Next]_vars => TypeOK'
<1> SUFFICES ASSUME TypeOK, [Next]_vars PROVE TypeOK'
  OBVIOUS
<1>1. CASE TaskStep
  BY <1>1, TypeOtherOrders, TypeConnect, TypeDisconnected, TypeAp, TypeGotIp, TypeReboot
     DEF TaskStep, DriverRefuses
<1>2. CASE \E s \in Senders : Send(s)
  BY <1>2, TypeSend
<1>3. CASE EventHandler \/ TimerStep \/ HttpStep \/ DriverStep
  BY <1>3, TypeEventHandler, TypeTimers, TypeHttp, TypeDriver
<1>4. CASE PowerCut
  BY <1>4, TypeReboot DEF PowerCut
<1>5. CASE UNCHANGED vars
  BY <1>5 DEF TypeOK, vars
<1> QED
  BY <1>1, <1>2, <1>3, <1>4, <1>5 DEF Next

(* Every reachable state is well typed: the queues respect their bounds    *)
(* and the uint8_t retries never exceeds the budget it is compared with.   *)
THEOREM TypeCorrect == Spec => []TypeOK
  BY TypeInit, TypeNext, PTL DEF Spec

-----------------------------------------------------------------------------
(* Delayed copies.  Follows survives every operation on the event queue.   *)

(* Announcing an event that agrees with the driver makes it the last one.  *)
LEMMA FollowsNewLast ==
  ASSUME NEW S, NEW q \in Seq(S), NEW e \in S, NEW codes, NEW b, e.code \in codes
  PROVE  Follows(Append(q, e), codes, b, e.code)
<1> DEFINE r == Append(q, e)
<1>1. Len(r) = Len(q) + 1 /\ r[Len(r)] = e
  OBVIOUS
<1>2. Len(r) \in 1..Len(r) /\ r[Len(r)].code \in codes
  BY <1>1
<1>3. ASSUME NEW i \in 1..Len(r), \A j \in (i+1)..Len(r) : r[j].code \notin codes
      PROVE  i = Len(r)
  BY <1>2, <1>3
<1> HIDE DEF r
<1>4. \A i \in 1..Len(r) :
        (\A j \in (i+1)..Len(r) : r[j].code \notin codes) => r[i].code = e.code
  BY <1>1, <1>3
<1>5. ~ \A i \in 1..Len(r) : r[i].code \notin codes
  BY <1>2
<1> QED
  BY <1>4, <1>5 DEF Follows, r

(* An unrelated event changes nothing.                                     *)
LEMMA FollowsUnrelated ==
  ASSUME NEW S, NEW q \in Seq(S), NEW e \in S, NEW codes, NEW b, NEW c,
         e.code \notin codes, Follows(q, codes, b, c)
  PROVE  Follows(Append(q, e), codes, b, c)
<1> DEFINE r == Append(q, e)
<1>1. /\ Len(r) = Len(q) + 1 /\ r[Len(r)] = e
      /\ \A i \in 1..Len(q) : r[i] = q[i]
  OBVIOUS
<1>2. 1..Len(r) = 1..Len(q) \cup {Len(r)}
  BY <1>1
<1> HIDE DEF r
<1>3. (\A i \in 1..Len(r) : r[i].code \notin codes) => b = c
  BY <1>1, <1>2 DEF Follows
<1>4. ASSUME NEW i \in 1..Len(r), r[i].code \in codes,
             \A j \in (i+1)..Len(r) : r[j].code \notin codes
      PROVE  r[i].code = c
  <2>1. i \in 1..Len(q)
    BY <1>1, <1>2, <1>4
  <2>2. \A j \in (i+1)..Len(q) : q[j].code \notin codes
    BY <2>1, <1>1, <1>2, <1>4
  <2> QED
    BY <2>1, <2>2, <1>1, <1>4 DEF Follows
<1> QED
  BY <1>3, <1>4 DEF Follows, r

(* Handling the first event leaves a delayed copy, of its code when it is  *)
(* a related one.                                                          *)
LEMMA FollowsTail ==
  ASSUME NEW S, NEW q \in Seq(S), q # <<>>, NEW codes, NEW b, NEW c, NEW d,
         Follows(q, codes, b, c),
         d = IF Head(q).code \in codes THEN Head(q).code ELSE b
  PROVE  Follows(Tail(q), codes, d, c)
<1> DEFINE r == Tail(q)
<1>1. /\ Len(r) = Len(q) - 1 /\ Len(q) \in Nat \ {0} /\ Head(q) = q[1]
      /\ \A i \in 1..Len(r) : r[i] = q[i+1]
  OBVIOUS
<1> HIDE DEF r
<1>2. ASSUME \A i \in 1..Len(r) : r[i].code \notin codes
      PROVE  d = c
  <2>1. \A j \in (1+1)..Len(q) : q[j].code \notin codes
    <3> SUFFICES ASSUME NEW j \in 2..Len(q) PROVE q[j].code \notin codes
      OBVIOUS
    <3>1. j - 1 \in 1..Len(r) /\ r[j-1] = q[j]
      BY <1>1
    <3> QED
      BY <3>1, <1>2
  <2>2. CASE q[1].code \in codes
    BY <2>1, <2>2, <1>1 DEF Follows
  <2>3. CASE q[1].code \notin codes
    <3>1. \A j \in 1..Len(q) : q[j].code \notin codes
      BY <2>1, <2>3, <1>1
    <3> QED
      BY <3>1, <2>3, <1>1 DEF Follows
  <2> QED
    BY <2>2, <2>3
<1>3. ASSUME NEW i \in 1..Len(r), r[i].code \in codes,
             \A j \in (i+1)..Len(r) : r[j].code \notin codes
      PROVE  r[i].code = c
  <2>1. i + 1 \in 1..Len(q) /\ q[i+1] = r[i]
    BY <1>1
  <2>2. ASSUME NEW j \in (i+1+1)..Len(q) PROVE q[j].code \notin codes
    <3>1. j - 1 \in (i+1)..Len(r) /\ j - 1 \in 1..Len(r) /\ q[j] = r[j-1]
      BY <1>1
    <3> QED
      BY <3>1, <1>3
  <2> QED
    BY <2>1, <2>2, <1>3 DEF Follows
<1> QED
  BY <1>2, <1>3 DEF Follows, r

-----------------------------------------------------------------------------
(* The event group follows the driver.                                     *)

LEMMA EventCodes ==
  /\ ScanDone.code = "EVENT_SCAN_DONE" /\ GotIp.code = "EVENT_STA_GOT_IP"
  /\ ApStart.code = "AP_START" /\ ApStop.code = "AP_STOP"
  /\ \A r : Disconnected(r).code = "EVENT_STA_DISCONNECTED"
  BY DEF ScanDone, GotIp, ApStart, ApStop, Disconnected, Msg

LinkCopy == LinkCode("WIFI_CONNECTED" \in bits)
Link     == LinkCode(sta = "connected")
ApCopy   == ApCode("AP_STARTED" \in bits)
Ap       == ApCode(mode = "APSTA")

CopiesFollow == ConnectedBitFollowsLink /\ ApBitFollowsMode

LEMMA CopiesAre ==
  /\ ConnectedBitFollowsLink <=> Follows(events, LinkCodes, LinkCopy, Link)
  /\ ApBitFollowsMode <=> Follows(events, ApCodes, ApCopy, Ap)
  BY DEF ConnectedBitFollowsLink, ApBitFollowsMode, LinkCopy, Link, ApCopy, Ap

LEMMA CopiesAreNext ==
  CopiesFollow' <=> /\ Follows(events', LinkCodes, LinkCopy', Link')
                    /\ Follows(events', ApCodes, ApCopy', Ap')
  BY DEF CopiesFollow, ConnectedBitFollowsLink, ApBitFollowsMode, LinkCopy, Link, ApCopy, Ap

(* A step that announces nothing and keeps the copies and what they copy.  *)
LEMMA CopiesQuiet ==
  ASSUME CopiesFollow, UNCHANGED <<events, LinkCopy, Link, ApCopy, Ap>>
  PROVE  CopiesFollow'
  BY CopiesAre, CopiesAreNext DEF CopiesFollow

(* A step that announces e.                                                *)
LEMMA CopiesAnnounce ==
  ASSUME EventsOK, CopiesFollow, NEW e \in DriverEvents, Announce(e),
         UNCHANGED <<LinkCopy, ApCopy>>,
         Link' = (IF e.code \in LinkCodes THEN e.code ELSE Link),
         Ap' = (IF e.code \in ApCodes THEN e.code ELSE Ap)
  PROVE  CopiesFollow'
<1>1. events \in Seq(DriverEvents) /\ events' = Append(events, e)
  BY DEF EventsOK, Announce
<1>2. Follows(events', LinkCodes, LinkCopy', Link')
  BY <1>1, CopiesAre, FollowsNewLast, FollowsUnrelated DEF CopiesFollow
<1>3. Follows(events', ApCodes, ApCopy', Ap')
  BY <1>1, CopiesAre, FollowsNewLast, FollowsUnrelated DEF CopiesFollow
<1> QED
  BY <1>2, <1>3, CopiesAreNext

LEMMA CopiesInit == Init => CopiesFollow
<1> SUFFICES ASSUME NEW saved \in Configs, Boot(saved) PROVE CopiesFollow
  BY DEF Init
<1> QED
  BY DEF Boot, CopiesFollow, ConnectedBitFollowsLink, ApBitFollowsMode, Follows,
         LinkCode, ApCode

LEMMA CopiesReboot == Reboot => CopiesFollow'
  BY DEF Reboot, CopiesFollow, ConnectedBitFollowsLink, ApBitFollowsMode, Follows,
         LinkCode, ApCode

LEMMA CopiesEventHandler == TypeOK /\ CopiesFollow /\ EventHandler => CopiesFollow'
<1> SUFFICES ASSUME TypeOK, CopiesFollow, EventHandler PROVE CopiesFollow'
  OBVIOUS
<1> DEFINE e == Head(events)
<1>1. /\ events \in Seq(DriverEvents) /\ events # <<>> /\ events' = Tail(events)
      /\ bits' = EventBits(e) /\ UNCHANGED <<sta, mode>>
      /\ e \in DriverEvents
  BY BoundedTail DEF TypeOK, EventHandler
<1>2. e.code \in {"EVENT_SCAN_DONE", "EVENT_STA_DISCONNECTED", "AP_START",
                  "AP_STOP", "EVENT_STA_GOT_IP"}
  BY <1>1, EventCodes DEF DriverEvents, PostedEvents
<1>3. UNCHANGED <<Link, Ap>>
  BY <1>1 DEF Link, Ap
<1> HIDE DEF e
<1>4. LinkCopy' = IF e.code \in LinkCodes THEN e.code ELSE LinkCopy
  BY <1>1, <1>2 DEF EventBits, LinkCopy, LinkCode, LinkCodes
<1>5. ApCopy' = IF e.code \in ApCodes THEN e.code ELSE ApCopy
  BY <1>1, <1>2 DEF EventBits, ApCopy, ApCode, ApCodes
<1>6. Follows(events', LinkCodes, LinkCopy', Link')
  BY <1>1, <1>3, <1>4, FollowsTail, CopiesAre DEF CopiesFollow, e
<1>7. Follows(events', ApCodes, ApCopy', Ap')
  BY <1>1, <1>3, <1>5, FollowsTail, CopiesAre DEF CopiesFollow, e
<1> QED
  BY <1>6, <1>7, CopiesAreNext

(* Every step but the event loop's and a restart keeps the copies, and     *)
(* either announces nothing and keeps the driver's state, or announces the *)
(* one event that tells its new state.                                     *)
Quiet == UNCHANGED <<events, Link, Ap>>
Announces(e) == /\ Announce(e)
                /\ Link' = IF e.code \in LinkCodes THEN e.code ELSE Link
                /\ Ap' = IF e.code \in ApCodes THEN e.code ELSE Ap
KeepsCopies == /\ UNCHANGED <<LinkCopy, ApCopy>>
               /\ Quiet \/ \E e \in DriverEvents : Announces(e)

LEMMA TaskKeepsCopies == TypeOK /\ TaskStep => Reboot \/ KeepsCopies
<1> SUFFICES ASSUME TypeOK, TaskStep, ~Reboot PROVE KeepsCopies
  OBVIOUS
<1> USE DEF timerVars, cfgVars, drvVars
<1>1. CASE HandleScanDone \/ HandleStartScan \/ HandleLoadAndRestore \/ FinishStartAp
             \/ FinishStopAp
  <2>1. UNCHANGED <<events, sta, mode>>
    BY <1>1 DEF HandleScanDone, HandleStartScan, HandleLoadAndRestore, FinishStartAp,
                FinishStopAp
  <2>2. UNCHANGED <<LinkCopy, ApCopy>>
    BY <1>1 DEF HandleScanDone, HandleStartScan, HandleLoadAndRestore, FinishStartAp,
                FinishStopAp, LinkCopy, ApCopy
  <2> QED
    BY <2>1, <2>2 DEF Link, Ap, KeepsCopies, Quiet
<1>2. CASE HandleStaDisconnected
  <2>1. UNCHANGED <<events, sta, mode>>
    BY <1>2 DEF HandleStaDisconnected
  <2>2. UNCHANGED <<LinkCopy, ApCopy>>
    BY <1>2 DEF HandleStaDisconnected, AttemptFailed, UserDisconnected, ConnectionLost,
                LinkCopy, ApCopy
  <2> QED
    BY <2>1, <2>2 DEF Link, Ap, KeepsCopies, Quiet
<1>3. CASE HandleGotIp
  <2>1. UNCHANGED <<events, sta, mode>> /\ UNCHANGED <<LinkCopy, ApCopy>>
    BY <1>3 DEF HandleGotIp, LinkCopy, ApCopy
  <2> QED
    BY <2>1 DEF Link, Ap, KeepsCopies, Quiet
<1>4. CASE HandleConnectSta
  <2>1. UNCHANGED <<LinkCopy, ApCopy>>
    BY <1>4 DEF HandleConnectSta, RequestBits, LinkCopy, ApCopy
  <2>2. UNCHANGED <<Link, Ap>>
    BY <1>4 DEF HandleConnectSta, Link, Ap
  <2>3. UNCHANGED events \/ Announce(ScanDone)
    BY <1>4 DEF HandleConnectSta, StopScan
  <2> QED
    BY <2>1, <2>2, <2>3, EventCodes, AnnouncementsAreEvents
       DEF LinkCodes, ApCodes, KeepsCopies, Quiet, Announces
<1>5. CASE HandleDisconnectSta
  <2>1. UNCHANGED <<LinkCopy, ApCopy>> /\ UNCHANGED Ap
    BY <1>5 DEF HandleDisconnectSta, LinkCopy, ApCopy, Ap
  <2>2. CASE sta = "idle"
    BY <1>5, <2>1, <2>2 DEF HandleDisconnectSta, Link, KeepsCopies, Quiet
  <2>3. CASE sta # "idle"
    <3>1. Announce(Disconnected("LEAVE")) /\ Link' = "EVENT_STA_DISCONNECTED"
      BY <1>5, <2>3 DEF HandleDisconnectSta, Link, LinkCode
    <3> QED
      BY <2>1, <3>1, EventCodes, AnnouncementsAreEvents
         DEF LinkCodes, ApCodes, Reasons, KeepsCopies, Announces
  <2> QED
    BY <2>2, <2>3
<1>6. CASE HandleStartAp
  <2>1. UNCHANGED <<LinkCopy, ApCopy>> /\ UNCHANGED Link /\ Ap' = "AP_START"
    BY <1>6 DEF HandleStartAp, LinkCopy, ApCopy, Ap, ApCode, Link
  <2>2. CASE mode = "STA"
    BY <1>6, <2>1, <2>2, EventCodes, AnnouncementsAreEvents
       DEF HandleStartAp, LinkCodes, ApCodes, KeepsCopies, Announces
  <2>3. CASE mode # "STA"
    BY <1>6, <2>1, <2>3 DEF HandleStartAp, TypeOK, Ap, ApCode, KeepsCopies, Quiet
  <2> QED
    BY <2>2, <2>3
<1>7. CASE HandleStopAp
  <2>1. UNCHANGED <<LinkCopy, ApCopy>> /\ UNCHANGED Link
    BY <1>7 DEF HandleStopAp, LinkCopy, ApCopy, Link
  <2>2. CASE StillConnected /\ mode = "APSTA"
    <3>1. Announce(ApStop) /\ Ap' = "AP_STOP"
      BY <1>7, <2>2 DEF HandleStopAp, Ap, ApCode
    <3> QED
      BY <2>1, <3>1, EventCodes, AnnouncementsAreEvents
         DEF LinkCodes, ApCodes, KeepsCopies, Announces
  <2>3. CASE ~(StillConnected /\ mode = "APSTA")
    <3>1. UNCHANGED <<events, Ap>>
      BY <1>7, <2>3 DEF HandleStopAp, Ap, ApCode, TypeOK
    <3> QED
      BY <2>1, <3>1 DEF KeepsCopies, Quiet
  <2> QED
    BY <2>2, <2>3
<1> QED
  BY <1>1, <1>2, <1>3, <1>4, <1>5, <1>6, <1>7 DEF TaskStep, DriverRefuses

LEMMA DriverKeepsCopies == DriverStep => KeepsCopies
<1> SUFFICES ASSUME DriverStep PROVE KeepsCopies
  OBVIOUS
<1>1. UNCHANGED <<LinkCopy, ApCopy>> /\ UNCHANGED Ap
  BY DEF DriverStep, ConnectSucceeds, ConnectFails, LinkLost, AddressRenewed,
         ScanCompletes, LinkCopy, ApCopy, Ap
<1>2. \/ Announce(GotIp) /\ Link' = "EVENT_STA_GOT_IP"
      \/ Announce(Disconnected("FAIL")) /\ Link' = "EVENT_STA_DISCONNECTED"
      \/ Announce(Disconnected("LOST")) /\ Link' = "EVENT_STA_DISCONNECTED"
      \/ Announce(ScanDone) /\ UNCHANGED Link
  BY DEF DriverStep, ConnectSucceeds, ConnectFails, LinkLost, AddressRenewed,
         ScanCompletes, Link, LinkCode
<1> QED
  BY <1>1, <1>2, EventCodes, AnnouncementsAreEvents
     DEF LinkCodes, ApCodes, Reasons, KeepsCopies, Announces

LEMMA StepKeepsCopies ==
  TypeOK /\ [Next]_vars => Reboot \/ EventHandler \/ KeepsCopies
<1> SUFFICES ASSUME TypeOK, [Next]_vars, ~Reboot, ~EventHandler PROVE KeepsCopies
  OBVIOUS
<1>1. CASE (\E s \in Senders : Send(s)) \/ TimerStep \/ HttpStep \/ UNCHANGED vars
  <2>1. UNCHANGED <<events, bits, sta, mode>>
    BY <1>1, HttpKeeps DEF Send, TimerStep, TimerRetryCb, TimerShutdownApCb,
                           TimerCommand, vars, drvVars
  <2> QED
    BY <2>1 DEF LinkCopy, Link, ApCopy, Ap, KeepsCopies, Quiet
<1>2. CASE TaskStep \/ DriverStep
  BY <1>2, TaskKeepsCopies, DriverKeepsCopies
<1> QED
  BY <1>1, <1>2 DEF Next, PowerCut

LEMMA CopiesNext == TypeOK /\ CopiesFollow /\ [Next]_vars => CopiesFollow'
<1> SUFFICES ASSUME TypeOK, CopiesFollow, [Next]_vars PROVE CopiesFollow'
  OBVIOUS
<1>1. CASE KeepsCopies /\ Quiet
  BY <1>1, CopiesQuiet DEF KeepsCopies, Quiet
<1>2. CASE KeepsCopies /\ ~Quiet
  <2>1. PICK e \in DriverEvents : Announces(e)
    BY <1>2 DEF KeepsCopies
  <2> QED
    BY <1>2, <2>1, CopiesAnnounce DEF KeepsCopies, Announces, TypeOK, EventsOK
<1> QED
  BY <1>1, <1>2, StepKeepsCopies, CopiesReboot, CopiesEventHandler

LEMMA Copies == Spec => [](TypeOK /\ CopiesFollow)
  BY TypeInit, TypeNext, CopiesInit, CopiesNext, PTL DEF Spec

(* WIFI_CONNECTED, which decides whether a CONNECT_STA order acts and      *)
(* whether a STOP_AP order acts, is never more wrong than the events still *)
(* waiting for the event loop explain, whatever the users and the radio do.*)
THEOREM ConnectedBitIsDelayedCopy == Spec => []ConnectedBitFollowsLink
  BY Copies, PTL DEF CopiesFollow

(* The same for AP_STARTED, which decides whether retries are counted and  *)
(* whether the access point is scheduled to stop.                          *)
THEOREM ApBitIsDelayedCopy == Spec => []ApBitFollowsMode
  BY Copies, PTL DEF CopiesFollow

-----------------------------------------------------------------------------
(* The access point is taken down only online.                             *)

IsLoss(e) == e.code = "EVENT_STA_DISCONNECTED"

(* While the link is down, every claim that it is up, in the bits or still *)
(* to be handled, is followed by an announced loss.                        *)
LossExplains ==
  sta # "connected" =>
    /\ "WIFI_CONNECTED" \in bits => LossAnnounced
    /\ \A i \in 1..Len(events) :
         events[i].code = "EVENT_STA_GOT_IP"
           => \E j \in (i+1)..Len(events) : IsLoss(events[j])

LEMMA LossQuiet ==
  ASSUME LossExplains, UNCHANGED <<events, LinkCopy, Link>>
  PROVE  LossExplains'
  BY DEF LossExplains, LossAnnounced, LinkCopy, Link, LinkCode

LEMMA LossAnnounce ==
  ASSUME EventsOK, LossExplains, NEW e \in DriverEvents, Announce(e),
         UNCHANGED LinkCopy,
         \/ sta' = "connected"
         \/ IsLoss(e)
         \/ e.code # "EVENT_STA_GOT_IP" /\ UNCHANGED Link
  PROVE  LossExplains'
<1>1. /\ Len(events') = Len(events) + 1 /\ events'[Len(events')] = e
      /\ \A i \in 1..Len(events) : events'[i] = events[i]
      /\ Len(events) \in Nat
  BY DEF EventsOK, Announce
<1>2. CASE IsLoss(e)
  <2>1. Len(events') \in 1..Len(events')
    BY <1>1
  <2>2. LossAnnounced'
    BY <1>1, <1>2, <2>1 DEF IsLoss, LossAnnounced
  <2>3. ASSUME NEW i \in 1..Len(events'), events'[i].code = "EVENT_STA_GOT_IP"
        PROVE  \E j \in (i+1)..Len(events') : IsLoss(events'[j])
    <3>1. i # Len(events')
      BY <1>1, <1>2, <2>3 DEF IsLoss
    <3>2. Len(events') \in (i+1)..Len(events')
      BY <3>1, <1>1
    <3> QED
      BY <3>2, <1>1, <1>2
  <2> QED
    BY <2>2, <2>3 DEF LossExplains
<1>3. CASE e.code # "EVENT_STA_GOT_IP" /\ UNCHANGED Link
  <2> SUFFICES ASSUME sta' # "connected"
               PROVE  /\ "WIFI_CONNECTED" \in bits' => LossAnnounced'
                      /\ \A i \in 1..Len(events') :
                           events'[i].code = "EVENT_STA_GOT_IP"
                             => \E j \in (i+1)..Len(events') : IsLoss(events'[j])
    BY DEF LossExplains
  <2>1. sta # "connected"
    BY <1>3 DEF Link, LinkCode
  <2>2. "WIFI_CONNECTED" \in bits' <=> "WIFI_CONNECTED" \in bits
    BY DEF LinkCopy, LinkCode
  <2>3. LossAnnounced => LossAnnounced'
    BY <1>1 DEF LossAnnounced
  <2>4. ASSUME NEW i \in 1..Len(events'), events'[i].code = "EVENT_STA_GOT_IP"
        PROVE  \E j \in (i+1)..Len(events') : IsLoss(events'[j])
    <3>1. i \in 1..Len(events)
      BY <1>1, <1>3, <2>4
    <3>2. PICK j \in (i+1)..Len(events) : IsLoss(events[j])
      BY <2>1, <3>1, <1>1, <2>4 DEF LossExplains
    <3>3. j \in (i+1)..Len(events') /\ events'[j] = events[j]
      BY <3>1, <3>2, <1>1
    <3> QED
      BY <3>2, <3>3
  <2> QED
    BY <2>1, <2>2, <2>3, <2>4 DEF LossExplains
<1>4. CASE sta' = "connected"
  BY <1>4 DEF LossExplains
<1> QED
  BY <1>2, <1>3, <1>4

LEMMA LossEventHandler == TypeOK /\ LossExplains /\ EventHandler => LossExplains'
<1> SUFFICES ASSUME TypeOK, LossExplains, EventHandler, sta' # "connected"
             PROVE  LossExplains'
  BY DEF LossExplains
<1>1. /\ events \in Seq(DriverEvents) /\ events # <<>> /\ events' = Tail(events)
      /\ bits' = EventBits(Head(events)) /\ sta # "connected"
      /\ Head(events) = events[1] /\ events[1] \in DriverEvents
  BY BoundedTail DEF TypeOK, EventHandler
<1>2. /\ Len(events') = Len(events) - 1 /\ Len(events) \in Nat \ {0}
      /\ \A i \in 1..Len(events') : events'[i] = events[i+1]
  BY <1>1
<1>3. events[1].code \in {"EVENT_SCAN_DONE", "EVENT_STA_DISCONNECTED", "AP_START",
                          "AP_STOP", "EVENT_STA_GOT_IP"}
  BY <1>1, EventCodes DEF DriverEvents, PostedEvents
<1>4. ASSUME NEW i \in 0..Len(events'), \E j \in (i+1+1)..Len(events) : IsLoss(events[j])
      PROVE  \E j \in (i+1)..Len(events') : IsLoss(events'[j])
  <2>1. PICK j \in (i+1+1)..Len(events) : IsLoss(events[j])
    BY <1>4
  <2>2. j - 1 \in (i+1)..Len(events') /\ events'[j-1] = events[j]
    BY <1>2
  <2> QED
    BY <2>1, <2>2
<1>5. ASSUME NEW i \in 1..Len(events'), events'[i].code = "EVENT_STA_GOT_IP"
      PROVE  \E j \in (i+1)..Len(events') : IsLoss(events'[j])
  <2>1. i + 1 \in 1..Len(events) /\ events[i+1].code = "EVENT_STA_GOT_IP"
    BY <1>2, <1>5
  <2>2. \E j \in (i+1+1)..Len(events) : IsLoss(events[j])
    BY <1>1, <2>1 DEF LossExplains
  <2> QED
    BY <1>4, <2>2
<1>6. ASSUME "WIFI_CONNECTED" \in bits' PROVE LossAnnounced'
  <2>1. events[1].code # "EVENT_STA_DISCONNECTED"
    BY <1>1, <1>6 DEF EventBits
  <2>2. \E j \in (0+1+1)..Len(events) : IsLoss(events[j])
    <3>1. CASE events[1].code = "EVENT_STA_GOT_IP"
      <4>1. 1 \in 1..Len(events)
        BY <1>2
      <4> QED
        BY <4>1, <3>1, <1>1 DEF LossExplains
    <3>2. CASE events[1].code # "EVENT_STA_GOT_IP"
      <4>1. "WIFI_CONNECTED" \in bits
        BY <1>1, <1>3, <1>6, <2>1, <3>2 DEF EventBits
      <4>2. PICK j \in 1..Len(events) : events[j].code = "EVENT_STA_DISCONNECTED"
        BY <1>1, <4>1 DEF LossExplains, LossAnnounced
      <4>3. j \in 2..Len(events)
        BY <4>2, <2>1, <1>2
      <4> QED
        BY <4>2, <4>3 DEF IsLoss
    <3> QED
      BY <3>1, <3>2
  <2>3. 0 \in 0..Len(events')
    BY <1>2
  <2>4. \E j \in (0+1)..Len(events') : IsLoss(events'[j])
    BY <1>4, <2>2, <2>3
  <2> QED
    BY <2>4 DEF LossAnnounced, IsLoss
<1> QED
  BY <1>5, <1>6 DEF LossExplains

LEMMA LossNext == TypeOK /\ LossExplains /\ [Next]_vars => LossExplains'
<1> SUFFICES ASSUME TypeOK, LossExplains, [Next]_vars PROVE LossExplains'
  OBVIOUS
<1>1. CASE KeepsCopies /\ Quiet
  BY <1>1, LossQuiet DEF KeepsCopies, Quiet
<1>2. CASE KeepsCopies /\ ~Quiet
  <2>1. PICK e \in DriverEvents : Announces(e)
    BY <1>2 DEF KeepsCopies
  <2>2. \/ sta' = "connected"
        \/ IsLoss(e)
        \/ e.code # "EVENT_STA_GOT_IP" /\ UNCHANGED Link
    BY <2>1 DEF Announces, IsLoss, LinkCodes, Link, LinkCode
  <2> QED
    BY <1>2, <2>1, <2>2, LossAnnounce DEF KeepsCopies, Announces, TypeOK, EventsOK
<1>3. CASE Reboot
  BY <1>3 DEF Reboot, LossExplains
<1> QED
  BY <1>1, <1>2, <1>3, StepKeepsCopies, LossEventHandler

(* A STOP_AP order never cuts a user off from a device whose own link is   *)
(* down for good: the link is up, or its loss is announced and not handled.*)
THEOREM ApStopIsSafe == Spec => ApStopsOnline
<1>1. Init => LossExplains
  BY DEF Init, Boot, LossExplains
<1>2. ASSUME TypeOK, LossExplains, [Next]_vars,
             mode = "APSTA", mode' = "STA", pending'["task"] # LoadRestore
      PROVE  sta = "connected" \/ LossAnnounced
  <2>1. ~Reboot
    BY <1>2 DEF Reboot, Senders
  <2>2. HandleStopAp
    BY <1>2, <2>1, HttpKeeps
       DEF Next, TaskStep, HandleScanDone, HandleStartScan, HandleLoadAndRestore,
           HandleConnectSta, HandleStaDisconnected, HandleStartAp, FinishStartAp,
           FinishStopAp, HandleGotIp, HandleDisconnectSta, DriverRefuses, Send,
           EventHandler, TimerStep, TimerRetryCb, TimerShutdownApCb, TimerCommand,
           DriverStep, ConnectSucceeds, ConnectFails, LinkLost, AddressRenewed, ScanCompletes,
           PowerCut, vars, drvVars
  <2> QED
    BY <1>2, <2>2 DEF HandleStopAp, StillConnected, LossExplains
<1> QED
  BY <1>1, <1>2, TypeInit, TypeNext, LossNext, PTL DEF Spec, ApStopsOnline

-----------------------------------------------------------------------------
(* The DNS hijack.                                                         *)

HijackInv == (dns \/ restart = "start_ap") => mode = "APSTA"

(* The hijack answers only while there is an access point to send the      *)
(* browsers to: START_AP switches the mode before dns_server_start, and    *)
(* STOP_AP stops the server before leaving the mode for another order.     *)
THEOREM HijackOnlyWithAp == Spec => []DnsOnlyWithAp
<1>1. Init => HijackInv
  BY DEF Init, Boot, HijackInv
<1>2. HijackInv /\ [Next]_vars => HijackInv'
  <2> SUFFICES ASSUME HijackInv, [Next]_vars PROVE HijackInv'
    OBVIOUS
  <2>1. CASE HandleStartAp \/ FinishStartAp
    BY <2>1 DEF HandleStartAp, FinishStartAp, HijackInv, drvVars
  <2>2. CASE HandleStopAp \/ FinishStopAp
    BY <2>2 DEF HandleStopAp, FinishStopAp, Receive, HijackInv, drvVars
  <2>3. CASE HandleGotIp
    BY <2>3 DEF HandleGotIp, HijackInv, drvVars
  <2>4. CASE Reboot
    BY <2>4 DEF Reboot, HijackInv
  <2>5. CASE \/ HandleScanDone \/ HandleStartScan \/ HandleLoadAndRestore
             \/ HandleConnectSta \/ HandleStaDisconnected \/ HandleDisconnectSta
    BY <2>5 DEF HandleScanDone, HandleStartScan, HandleLoadAndRestore,
                HandleConnectSta, HandleStaDisconnected, HandleDisconnectSta,
                HijackInv, drvVars
  <2>6. CASE (\E s \in Senders : Send(s)) \/ EventHandler \/ TimerStep
    BY <2>6 DEF Send, EventHandler, TimerStep, TimerRetryCb, TimerShutdownApCb,
                TimerCommand, HijackInv, drvVars
  <2>7. CASE HttpStep \/ DriverStep
    BY <2>7, HttpKeeps
            DEF DriverStep, ConnectSucceeds, ConnectFails, LinkLost, AddressRenewed,
                ScanCompletes, HijackInv, drvVars
  <2>8. CASE UNCHANGED vars
    BY <2>8 DEF HijackInv, vars
  <2> QED
    BY <2>1, <2>2, <2>3, <2>4, <2>5, <2>6, <2>7, <2>8
       DEF Next, TaskStep, DriverRefuses, PowerCut
<1>3. HijackInv => DnsOnlyWithAp
  BY DEF HijackInv, DnsOnlyWithAp
<1> QED
  BY <1>1, <1>2, <1>3, PTL DEF Spec

(* Both bits and the hijack mirror the driver at once, for every queue     *)
(* length, retry budget and surroundings.                                  *)
THEOREM MirrorsDriver == Spec => []Mirrored
<1>1. ConnectedBitFollowsLink /\ ApBitFollowsMode /\ DnsOnlyWithAp => Mirrored
  BY DEF Mirrored
<1> QED
  BY <1>1, ConnectedBitIsDelayedCopy, ApBitIsDelayedCopy, HijackOnlyWithAp, PTL

-----------------------------------------------------------------------------
(* A user's request is one message and then one bit; every other step      *)
(* leaves both alone.                                                      *)

UserOrder == ConnectSta("USER")
Noted   == "REQUEST_STA_CONNECT" \in bits
Blocked == \E s \in Senders : pending[s] = UserOrder
Queued  == \E i \in 1..Len(queue) : queue[i] = UserOrder

LEMMA Underway == RequestUnderway <=> Noted \/ Blocked \/ Queued
  BY DEF RequestUnderway, Noted, Blocked, Queued, UserOrder

LEMMA UserOrderIsNoOther ==
  /\ UserOrder.code = "ORDER_CONNECT_STA" /\ UserOrder.arg = "USER"
  /\ UserOrder # NoMsg /\ UserOrder # StartAp /\ UserOrder # StopAp
  /\ UserOrder # LoadRestore /\ UserOrder # StartScan /\ UserOrder # DisconnectSta
  /\ \A w \in Requesters \ {"USER"} : UserOrder # ConnectSta(w)
  /\ UserOrder \notin PostedEvents
  BY DEF UserOrder, ConnectSta, Msg, NoMsg, StartAp, StopAp, LoadRestore, StartScan,
         DisconnectSta, Requesters, PostedEvents, ScanDone, GotIp, Disconnected

LEMMA QueuedReceive ==
  ASSUME TypeOK, NEW c, Receive(c)
  PROVE  Queued <=> Queued' \/ Head(queue) = UserOrder
<1>1. queue \in Seq(Messages) /\ queue # <<>> /\ queue' = Tail(queue)
  BY DEF TypeOK, Receive
<1>2. /\ Len(queue') = Len(queue) - 1 /\ Len(queue) \in Nat \ {0}
      /\ Head(queue) = queue[1]
      /\ \A i \in 1..Len(queue') : queue'[i] = queue[i+1]
  BY <1>1
<1>3. ASSUME NEW i \in 1..Len(queue), queue[i] = UserOrder
      PROVE  Queued' \/ Head(queue) = UserOrder
  <2>1. CASE i = 1
    BY <1>2, <1>3, <2>1
  <2>2. CASE i # 1
    <3>1. i - 1 \in 1..Len(queue') /\ queue'[i-1] = queue[i]
      BY <1>2, <2>2
    <3> QED
      BY <1>3, <3>1 DEF Queued, UserOrder
  <2> QED
    BY <2>1, <2>2
<1>4. ASSUME Queued' PROVE Queued
  <2>1. PICK i \in 1..Len(queue') : queue'[i] = UserOrder
    BY <1>4 DEF Queued, UserOrder
  <2>2. i + 1 \in 1..Len(queue) /\ queue[i+1] = UserOrder
    BY <1>2, <2>1
  <2> QED
    BY <2>2 DEF Queued
<1>5. ASSUME Head(queue) = UserOrder PROVE Queued
  <2>1. 1 \in 1..Len(queue)
    BY <1>2
  <2> QED
    BY <1>2, <1>5, <2>1 DEF Queued
<1> QED
  BY <1>3, <1>4, <1>5 DEF Queued

LEMMA QueuedOther ==
  ASSUME TypeOK, NEW c, Receive(c), c # "ORDER_CONNECT_STA"
  PROVE  Queued' <=> Queued
  BY QueuedReceive, UserOrderIsNoOther DEF Receive

LEMMA QueuedSend ==
  ASSUME TypeOK, NEW s \in Senders, Send(s)
  PROVE  Queued' <=> Queued \/ pending[s] = UserOrder
<1>1. queue \in Seq(Messages) /\ queue' = Append(queue, pending[s])
  BY DEF TypeOK, Send
<1>2. /\ Len(queue') = Len(queue) + 1 /\ Len(queue) \in Nat
      /\ queue'[Len(queue')] = pending[s]
      /\ \A i \in 1..Len(queue) : queue'[i] = queue[i]
  BY <1>1
<1>3. ASSUME Queued \/ pending[s] = UserOrder PROVE Queued'
  <2>1. Len(queue') \in 1..Len(queue')
    BY <1>2
  <2> QED
    BY <1>2, <1>3, <2>1 DEF Queued, UserOrder
<1>4. ASSUME NEW i \in 1..Len(queue'), queue'[i] = UserOrder
      PROVE  Queued \/ pending[s] = UserOrder
  <2>1. i \in 1..Len(queue) \/ i = Len(queue')
    BY <1>2
  <2> QED
    BY <1>2, <1>4, <2>1 DEF Queued
<1> QED
  BY <1>3, <1>4 DEF Queued, UserOrder

LEMMA BlockedOther ==
  ASSUME TypeOK, NEW s \in Senders, NEW m, m # UserOrder, pending[s] # UserOrder,
         Blocks(s, m)
  PROVE  Blocked' <=> Blocked
  BY DEF TypeOK, Blocks, Blocked, UserOrder

-----------------------------------------------------------------------------
(***************************************************************************)
(* Outcomes: what becomes of scans, of requests and of the saved network.  *)
(* A bit of the event group is backed by an event on its way from the      *)
(* driver to the task: among the events of the event loop, in its pending  *)
(* send, or in the task's queue.                                           *)
(***************************************************************************)

\* Some message of q has one of these codes.
Has(q, codes) == \E k \in 1 .. Len(q) : q[k].code \in codes

LEMMA HasAppend ==
  ASSUME NEW S, NEW q \in Seq(S), NEW e \in S, NEW codes
  PROVE  Has(Append(q, e), codes) <=> Has(q, codes) \/ e.code \in codes
<1> DEFINE r == Append(q, e)
<1>1. Len(q) \in Nat /\ Len(r) = Len(q) + 1 /\ r[Len(q) + 1] = e
  OBVIOUS
<1>2. \A k \in 1 .. Len(q) : r[k] = q[k] /\ k \in 1 .. Len(r)
  OBVIOUS
<1>3. \A k \in 1 .. Len(r) : k \in 1 .. Len(q) \/ k = Len(q) + 1
  BY <1>1
<1>4. Len(q) + 1 \in 1 .. Len(r)
  BY <1>1
<1> HIDE DEF r
<1> QED
  BY <1>1, <1>2, <1>3, <1>4 DEF Has, r

LEMMA HasTail ==
  ASSUME NEW S, NEW q \in Seq(S), q # <<>>, NEW codes
  PROVE  Has(q, codes) <=> Head(q).code \in codes \/ Has(Tail(q), codes)
<1> DEFINE r == Tail(q)
<1>1. Len(q) \in Nat /\ Len(q) > 0 /\ Len(r) = Len(q) - 1 /\ Head(q) = q[1]
  OBVIOUS
<1>2. \A k \in 1 .. Len(r) : r[k] = q[k + 1] /\ k + 1 \in 1 .. Len(q)
  BY <1>1
<1>3. \A k \in 1 .. Len(q) : k = 1 \/ (k - 1 \in 1 .. Len(r) /\ r[k - 1] = q[k])
  BY <1>1
<1>4. 1 \in 1 .. Len(q)
  BY <1>1
<1> HIDE DEF r
<1>5. Has(q, codes) => Head(q).code \in codes \/ Has(r, codes)
  <2> SUFFICES ASSUME NEW k \in 1 .. Len(q), q[k].code \in codes
               PROVE  Head(q).code \in codes \/ Has(r, codes)
    BY DEF Has
  <2> QED
    BY <1>1, <1>3 DEF Has
<1>6. Head(q).code \in codes \/ Has(r, codes) => Has(q, codes)
  BY <1>1, <1>2, <1>4 DEF Has
<1> QED
  BY <1>5, <1>6 DEF r

LEMMA HasNone == \A codes : ~Has(<<>>, codes)
  BY DEF Has

-----------------------------------------------------------------------------
(* The SCAN bit                                                            *)

ScanEnds == {"EVENT_SCAN_DONE", "EVENT_STA_DISCONNECTED"}

\* A scan runs, or the event that clears the bit is on its way.
ScanInv == "SCAN" \in bits => scanning \/ Has(events, ScanEnds)

LEMMA HasAnnounced ==
  ASSUME EventsOK, NEW e \in DriverEvents, Announce(e), NEW codes
  PROVE  Has(events', codes) <=> Has(events, codes) \/ e.code \in codes
  BY HasAppend DEF EventsOK, Announce

\* What a step other than the event loop's does to the scan
ScanStep ==
  \/ \E e \in DriverEvents : Announce(e) /\ e.code \in ScanEnds
  \/ /\ "SCAN" \in bits' => "SCAN" \in bits \/ scanning'
     /\ scanning => scanning'
     /\ UNCHANGED events \/ \E e \in DriverEvents : Announce(e)

LEMMA TaskScans == TypeOK /\ TaskStep => Reboot \/ ScanStep
<1> SUFFICES ASSUME TypeOK, TaskStep, ~Reboot PROVE ScanStep
  OBVIOUS
<1> USE DEF timerVars, cfgVars, drvVars
<1>1. CASE HandleScanDone \/ HandleLoadAndRestore \/ FinishStartAp \/ FinishStopAp
  BY <1>1 DEF HandleScanDone, HandleLoadAndRestore, FinishStartAp, FinishStopAp, ScanStep
<1>2. CASE HandleStartScan
  BY <1>2 DEF HandleStartScan, ScanStep
<1>3. CASE HandleConnectSta
  <2>1. "SCAN" \in bits' => "SCAN" \in bits
    BY <1>3 DEF HandleConnectSta, RequestBits
  <2>2. UNCHANGED <<scanning, events>> \/ Announce(ScanDone)
    BY <1>3 DEF HandleConnectSta, StopScan
  <2> QED
    BY <2>1, <2>2, EventCodes, AnnouncementsAreEvents DEF ScanStep, ScanEnds
<1>4. CASE HandleStaDisconnected
  <2>1. UNCHANGED <<scanning, events>>
    BY <1>4 DEF HandleStaDisconnected
  <2>2. "SCAN" \in bits' => "SCAN" \in bits
    BY <1>4 DEF HandleStaDisconnected, AttemptFailed, UserDisconnected, ConnectionLost
  <2> QED
    BY <2>1, <2>2 DEF ScanStep
<1>5. CASE HandleStartAp
  BY <1>5, AnnouncementsAreEvents DEF HandleStartAp, ScanStep
<1>6. CASE HandleStopAp
  BY <1>6, AnnouncementsAreEvents DEF HandleStopAp, ScanStep
<1>7. CASE HandleGotIp
  BY <1>7 DEF HandleGotIp, ScanStep
<1>8. CASE HandleDisconnectSta
  <2>1. CASE sta = "idle"
    BY <1>8, <2>1 DEF HandleDisconnectSta, ScanStep
  <2>2. CASE sta # "idle"
    BY <1>8, <2>2, EventCodes, AnnouncementsAreEvents
       DEF HandleDisconnectSta, ScanStep, ScanEnds, Reasons
  <2> QED
    BY <2>1, <2>2
<1> QED
  BY <1>1, <1>2, <1>3, <1>4, <1>5, <1>6, <1>7, <1>8 DEF TaskStep, DriverRefuses

LEMMA OthersScan ==
  TypeOK /\ [Next]_vars => TaskStep \/ EventHandler \/ Reboot \/ ScanStep
<1> SUFFICES ASSUME TypeOK, [Next]_vars, ~TaskStep, ~EventHandler, ~Reboot PROVE ScanStep
  OBVIOUS
<1> USE DEF timerVars, cfgVars, drvVars
<1>1. CASE (\E s \in Senders : Send(s)) \/ TimerStep \/ HttpStep \/ UNCHANGED vars
  BY <1>1, HttpKeeps DEF Send, TimerStep, TimerRetryCb, TimerShutdownApCb, TimerCommand,
                         vars, ScanStep
<1>2. CASE ConnectSucceeds \/ AddressRenewed
  BY <1>2, AnnouncementsAreEvents DEF ConnectSucceeds, AddressRenewed, ScanStep
<1>3. CASE ConnectFails \/ LinkLost
  BY <1>3, EventCodes, AnnouncementsAreEvents
     DEF ConnectFails, LinkLost, Reasons, ScanStep, ScanEnds
<1>4. CASE ScanCompletes
  BY <1>4, EventCodes, AnnouncementsAreEvents DEF ScanCompletes, ScanStep, ScanEnds
<1> QED
  BY <1>1, <1>2, <1>3, <1>4 DEF Next, PowerCut, DriverStep

LEMMA ScanEventHandler == TypeOK /\ ScanInv /\ EventHandler => ScanInv'
<1> SUFFICES ASSUME TypeOK, ScanInv, EventHandler, "SCAN" \in bits'
             PROVE  scanning' \/ Has(events', ScanEnds)
  BY DEF ScanInv
<1> DEFINE e == Head(events)
<1>1. /\ events \in Seq(DriverEvents) /\ events # <<>> /\ events' = Tail(events)
      /\ bits' = EventBits(e) /\ scanning' = scanning /\ e \in DriverEvents
  BY BoundedTail DEF TypeOK, EventHandler
<1>2. e.code \in {"EVENT_SCAN_DONE", "EVENT_STA_DISCONNECTED", "AP_START",
                  "AP_STOP", "EVENT_STA_GOT_IP"}
  BY <1>1, EventCodes DEF DriverEvents, PostedEvents
<1> HIDE DEF e
<1>3. e.code \notin ScanEnds /\ "SCAN" \in bits
  BY <1>1, <1>2 DEF EventBits, ScanEnds
<1>4. Has(events, ScanEnds) => Has(events', ScanEnds)
  BY <1>1, <1>3, HasTail DEF e
<1> QED
  BY <1>1, <1>3, <1>4 DEF ScanInv

LEMMA ScanNext == TypeOK /\ ScanInv /\ [Next]_vars => ScanInv'
<1> SUFFICES ASSUME TypeOK, ScanInv, [Next]_vars PROVE ScanInv'
  OBVIOUS
<1>1. CASE Reboot
  BY <1>1 DEF Reboot, ScanInv
<1>2. CASE ScanStep
  BY <1>2, HasAnnounced DEF ScanStep, ScanInv, TypeOK, EventsOK
<1> QED
  BY <1>1, <1>2, TaskScans, OthersScan, ScanEventHandler

LEMMA ScanInit == Init => ScanInv
  BY DEF Init, Boot, ScanInv

(* The SCAN bit never outlives its scan, whatever connections abort scans  *)
(* and however many requests for one come in: /ap.json never stops being   *)
(* refreshed (wifi_manager.c:659).                                         *)
THEOREM ScanBitBacked == Spec => []ScanBitIsBacked
<1>1. TypeOK /\ ScanInv => ScanBitIsBacked
  BY HasNone DEF ScanInv, ScanBitIsBacked, Quiescent
<1> QED
  BY TypeInit, TypeNext, ScanInit, ScanNext, <1>1, PTL DEF Spec

-----------------------------------------------------------------------------
(* A user's request and its verdict                                        *)

LossCode == "EVENT_STA_DISCONNECTED"
Asked    == "REQUEST_STA_CONNECT" \in bits

\* A disconnection is on its way to the task.
LossComes ==
  \/ Has(events, {LossCode})
  \/ pending["event_loop"].code = LossCode
  \/ Has(queue, {LossCode})

\* A request the driver no longer works on has a disconnection coming that
\* will turn it into a failed attempt.
VerdictInv == Asked /\ sta = "idle" => LossComes

\* What every step but the connect order's and the loss's own does to it
VerdictStep ==
  \/ ~Asked'
  \/ /\ Asked' => Asked
     /\ LossComes => LossComes'
     /\ sta' = "idle" => sta = "idle" \/ LossComes'

LEMMA LossReceived ==
  ASSUME TypeOK, NEW c, Receive(c)
  PROVE  Has(queue, {LossCode}) <=> c = LossCode \/ Has(queue', {LossCode})
<1>1. queue \in Seq(Messages) /\ queue # <<>> /\ queue' = Tail(queue)
      /\ Head(queue).code = c
  BY DEF TypeOK, Receive
<1> QED
  BY <1>1, HasTail

LEMMA LossSurvivesTask ==
  ASSUME TypeOK, NEW c, Receive(c), c # LossCode,
         pending'["event_loop"] = pending["event_loop"],
         UNCHANGED events \/ \E e \in DriverEvents : Announce(e)
  PROVE  LossComes => LossComes'
<1>1. Has(events, {LossCode}) => Has(events', {LossCode})
  BY HasAnnounced DEF TypeOK, EventsOK
<1>2. Has(queue, {LossCode}) => Has(queue', {LossCode})
  BY LossReceived
<1> QED
  BY <1>1, <1>2 DEF LossComes

LEMMA LossWhenAnnounced ==
  ASSUME TypeOK, NEW e \in DriverEvents, Announce(e), e.code = LossCode
  PROVE  LossComes'
<1>1. Has(events', {LossCode})
  BY HasAnnounced DEF TypeOK, EventsOK
<1> QED
  BY <1>1 DEF LossComes

LEMMA TaskBlocksItself ==
  ASSUME TypeOK, NEW m, Blocks("task", m)
  PROVE  pending'["event_loop"] = pending["event_loop"]
  BY DEF TypeOK, Blocks, Senders

LEMMA VerdictTask ==
  TypeOK /\ LossExplains /\ VerdictInv /\ TaskStep => VerdictInv'
<1> SUFFICES ASSUME TypeOK, LossExplains, VerdictInv, TaskStep PROVE VerdictInv'
  OBVIOUS
<1> USE DEF timerVars, cfgVars, drvVars
<1>0. ASSUME VerdictStep PROVE VerdictInv'
  BY <1>0 DEF VerdictStep, VerdictInv
<1>1. CASE HandleScanDone \/ HandleStartScan \/ HandleLoadAndRestore
  <2>1. UNCHANGED <<sta, events>> /\ (Asked' => Asked)
    BY <1>1 DEF HandleScanDone, HandleStartScan, HandleLoadAndRestore, Asked
  <2>2. pending'["event_loop"] = pending["event_loop"]
    BY <1>1, TaskBlocksItself DEF HandleScanDone, HandleStartScan, HandleLoadAndRestore
  <2>3. \E c : Receive(c) /\ c # LossCode
    BY <1>1 DEF HandleScanDone, HandleStartScan, HandleLoadAndRestore, LossCode
  <2>4. LossComes => LossComes'
    BY <2>1, <2>2, <2>3, LossSurvivesTask
  <2> QED
    BY <1>0, <2>1, <2>4 DEF VerdictStep
<1>2. CASE HandleConnectSta
  <2>1. Receive("ORDER_CONNECT_STA") /\ pending' = pending
    BY <1>2 DEF HandleConnectSta
  <2>2. UNCHANGED events \/ \E e \in DriverEvents : Announce(e)
    BY <1>2, AnnouncementsAreEvents DEF HandleConnectSta, StopScan
  <2>3. LossComes => LossComes'
    BY <2>1, <2>2, LossSurvivesTask DEF LossCode
  <2>4. CASE "WIFI_CONNECTED" \in bits
    <3>1. UNCHANGED <<sta, events>>
      BY <1>2, <2>4 DEF HandleConnectSta
    <3>2. ASSUME sta = "idle" PROVE LossComes
      <4>1. LossAnnounced
        BY <3>2, <2>4 DEF LossExplains
      <4> QED
        BY <4>1 DEF LossAnnounced, LossComes, Has, LossCode
    <3> QED
      BY <3>1, <3>2, <2>3 DEF VerdictInv
  <2>5. CASE "WIFI_CONNECTED" \notin bits
    <3>1. sta' = IF sta = "idle" THEN "connecting" ELSE sta
      BY <1>2, <2>5 DEF HandleConnectSta
    <3> QED
      BY <3>1 DEF VerdictInv
  <2> QED
    BY <2>4, <2>5
<1>3. CASE HandleStaDisconnected
  <2>1. ~Asked'
    <3>1. CASE Asked
      BY <1>3, <3>1 DEF HandleStaDisconnected, AttemptFailed, UserDisconnected,
                        ConnectionLost, Cause, Asked
    <3>2. CASE ~Asked
      BY <1>3, <3>2 DEF HandleStaDisconnected, AttemptFailed, UserDisconnected,
                        ConnectionLost, Asked
    <3> QED
      BY <3>1, <3>2
  <2> QED
    BY <1>0, <2>1 DEF VerdictStep
<1>4. CASE HandleStartAp \/ HandleStopAp
  <2>1. UNCHANGED <<sta, bits, pending>> /\ \E c : Receive(c) /\ c # LossCode
    BY <1>4 DEF HandleStartAp, HandleStopAp, LossCode
  <2>2. UNCHANGED events \/ \E e \in DriverEvents : Announce(e)
    BY <1>4, AnnouncementsAreEvents DEF HandleStartAp, HandleStopAp
  <2>3. LossComes => LossComes'
    BY <2>1, <2>2, LossSurvivesTask
  <2> QED
    BY <1>0, <2>1, <2>3 DEF VerdictStep, Asked
<1>5. CASE FinishStartAp \/ FinishStopAp
  <2>1. UNCHANGED <<sta, bits, pending, queue, events>>
    BY <1>5 DEF FinishStartAp, FinishStopAp
  <2> QED
    BY <2>1 DEF VerdictInv, LossComes, Asked
<1>6. CASE HandleGotIp
  BY <1>6, <1>0 DEF HandleGotIp, VerdictStep, Asked
<1>7. CASE HandleDisconnectSta
  <2>1. /\ Receive("ORDER_DISCONNECT_STA") /\ pending' = pending
        /\ bits' = bits \cup {"REQUEST_DISCONNECT"}
    BY <1>7 DEF HandleDisconnectSta
  <2>2. Asked' => Asked
    BY <2>1 DEF Asked
  <2>3. CASE sta = "idle"
    <3>1. UNCHANGED <<sta, events>>
      BY <1>7, <2>3 DEF HandleDisconnectSta
    <3>2. LossComes => LossComes'
      BY <2>1, <3>1, LossSurvivesTask DEF LossCode
    <3> QED
      BY <1>0, <2>2, <3>1, <3>2 DEF VerdictStep
  <2>4. CASE sta # "idle"
    <3>1. Announce(Disconnected("LEAVE"))
      BY <1>7, <2>4 DEF HandleDisconnectSta
    <3>2. Disconnected("LEAVE") \in DriverEvents
      BY AnnouncementsAreEvents DEF Reasons
    <3>3. LossComes'
      BY <3>1, <3>2, LossWhenAnnounced, EventCodes DEF LossCode
    <3> QED
      BY <3>3 DEF VerdictInv
  <2> QED
    BY <2>3, <2>4
<1>8. CASE DriverRefuses
  BY <1>8 DEF DriverRefuses, Reboot, VerdictInv, Asked
<1> QED
  BY <1>1, <1>2, <1>3, <1>4, <1>5, <1>6, <1>7, <1>8 DEF TaskStep

LEMMA VerdictSend ==
  ASSUME TypeOK, VerdictInv, NEW s \in Senders, Send(s) PROVE VerdictInv'
<1>1. pending[s] \in Messages /\ queue \in Seq(Messages)
  BY DEF TypeOK, Send
<1>2. queue' = Append(queue, pending[s])
  BY DEF Send
<1>3. Has(queue', {LossCode}) <=> Has(queue, {LossCode}) \/ pending[s].code = LossCode
  BY <1>1, <1>2, HasAppend
<1>4. s # "event_loop" => pending'["event_loop"] = pending["event_loop"]
  BY DEF TypeOK, Send, Senders
<1>5. UNCHANGED <<events, bits, sta>>
  BY DEF Send, drvVars
<1> QED
  BY <1>3, <1>4, <1>5 DEF VerdictInv, LossComes, Asked

LEMMA VerdictEventHandler ==
  ASSUME TypeOK, VerdictInv, EventHandler PROVE VerdictInv'
<1> DEFINE e == Head(events)
<1>1. /\ events \in Seq(DriverEvents) /\ events # <<>> /\ events' = Tail(events)
      /\ bits' = EventBits(e) /\ e \in DriverEvents
      /\ UNCHANGED <<queue, sta>> /\ pending["event_loop"] = NoMsg
  BY BoundedTail DEF TypeOK, EventHandler
<1>2. e.code \in {"EVENT_SCAN_DONE", "EVENT_STA_DISCONNECTED", "AP_START",
                  "AP_STOP", "EVENT_STA_GOT_IP"}
  BY <1>1, EventCodes DEF DriverEvents, PostedEvents
<1>3. e.code = LossCode => pending'["event_loop"] = e
  <2>1. e.code = LossCode => e \in Messages
    BY <1>1, EventCodes DEF DriverEvents, Messages, LossCode
  <2> QED
    BY <2>1 DEF TypeOK, EventHandler, Blocks, Senders
<1>4. Has(events, {LossCode}) <=> e.code = LossCode \/ Has(events', {LossCode})
  BY <1>1, HasTail
<1>5. pending["event_loop"].code # LossCode
  BY <1>1 DEF NoMsg, Msg, LossCode
<1> HIDE DEF e
<1>6. Asked' => Asked
  BY <1>1, <1>2 DEF Asked, EventBits
<1> QED
  BY <1>1, <1>3, <1>4, <1>5, <1>6 DEF VerdictInv, LossComes

LEMMA VerdictNext ==
  TypeOK /\ LossExplains /\ VerdictInv /\ [Next]_vars => VerdictInv'
<1> SUFFICES ASSUME TypeOK, LossExplains, VerdictInv, [Next]_vars PROVE VerdictInv'
  OBVIOUS
<1> USE DEF timerVars, cfgVars, drvVars
<1>1. CASE TimerStep \/ HttpStep
  <2>1. UNCHANGED <<sta, events, queue, bits>>
    BY <1>1, HttpKeeps DEF TimerStep, TimerRetryCb, TimerShutdownApCb, TimerCommand
  <2>2. pending'["event_loop"] = pending["event_loop"]
    BY <1>1, HttpBlocks DEF TimerStep, TimerRetryCb, TimerShutdownApCb, TimerCommand,
                            Blocks, TypeOK, Senders
  <2> QED
    BY <2>1, <2>2 DEF VerdictInv, LossComes, Asked
<1>2. CASE DriverStep
  <2>1. UNCHANGED <<bits, pending, queue>>
    BY <1>2 DEF DriverStep, ConnectSucceeds, ConnectFails, LinkLost, AddressRenewed,
                ScanCompletes
  <2>2. \E e \in DriverEvents :
          Announce(e) /\ (sta' = "idle" => sta = "idle" \/ e.code = LossCode)
    <3>1. CASE ConnectSucceeds \/ AddressRenewed
      BY <3>1, AnnouncementsAreEvents DEF ConnectSucceeds, AddressRenewed
    <3>2. CASE ConnectFails \/ LinkLost
      BY <3>2, EventCodes, AnnouncementsAreEvents DEF ConnectFails, LinkLost, Reasons, LossCode
    <3>3. CASE ScanCompletes
      BY <3>3, AnnouncementsAreEvents DEF ScanCompletes
    <3> QED
      BY <1>2, <3>1, <3>2, <3>3 DEF DriverStep
  <2>3. PICK e \in DriverEvents :
          Announce(e) /\ (sta' = "idle" => sta = "idle" \/ e.code = LossCode)
    BY <2>2
  <2>4. Has(events', {LossCode}) <=> Has(events, {LossCode}) \/ e.code = LossCode
    BY <2>3, HasAnnounced DEF TypeOK, EventsOK
  <2> QED
    BY <2>1, <2>3, <2>4 DEF VerdictInv, LossComes, Asked
<1>3. CASE PowerCut
  BY <1>3 DEF PowerCut, Reboot, VerdictInv, Asked
<1>4. CASE UNCHANGED vars
  BY <1>4 DEF vars, VerdictInv, LossComes, Asked
<1> QED
  BY <1>1, <1>2, <1>3, <1>4, VerdictTask, VerdictSend, VerdictEventHandler DEF Next

\* Of the senders only the event loop posts link events.
LoopSends == \A s \in Senders \ {"event_loop"} : pending[s].code \notin LinkCodes

Standing == json.urc \in {"CLEARED", "CONNECTION_OK"}

\* The queue is a delayed copy of WIFI_CONNECTED: b stands for the last link
\* event the task has handled, and after an address no failure is reported.
QueueCopies ==
  \E b \in LinkCodes : /\ b = "EVENT_STA_GOT_IP" => Standing
                       /\ Follows(queue, LinkCodes, b, LinkCopy)

TaskCopy ==
  IF pending["event_loop"].code \in LinkCodes
  THEN pending["event_loop"].code = LinkCopy
  ELSE QueueCopies

CopyInv == LoopSends /\ TaskCopy

\* The orders the other senders block with are no link events.
LEMMA OrdersAreNoLink ==
  /\ StartAp.code \notin LinkCodes /\ StopAp.code \notin LinkCodes
  /\ StartScan.code \notin LinkCodes /\ DisconnectSta.code \notin LinkCodes
  /\ LoadRestore.code \notin LinkCodes /\ NoMsg.code \notin LinkCodes
  /\ \A w : ConnectSta(w).code \notin LinkCodes
  BY DEF StartAp, StopAp, StartScan, DisconnectSta, LoadRestore, NoMsg, ConnectSta, Msg,
         LinkCodes

BlocksNoLink ==
  \E s \in Senders \ {"event_loop"} :
    \E m \in Messages : Blocks(s, m) /\ m.code \notin LinkCodes

LEMMA WhoBlocks ==
  ASSUME TypeOK, (TaskStep /\ ~DriverRefuses) \/ TimerStep \/ HttpStep \/ DriverStep
  PROVE  pending' = pending \/ BlocksNoLink
<1>1. /\ {"task", "timer", "httpd"} \subseteq Senders \ {"event_loop"}
      /\ {StartAp, StopAp, StartScan, DisconnectSta} \subseteq Messages
      /\ \A w \in Requesters : ConnectSta(w) \in Messages
      /\ {"RESTORE_CONNECTION", "AUTO_RECONNECT", "USER"} = Requesters
  BY DEF Senders, Messages, Orders, Requesters
<1>2. CASE TaskStep /\ ~DriverRefuses
  <2>1. CASE HandleLoadAndRestore
    <3>1. Blocks("task", ConnectSta("RESTORE_CONNECTION")) \/ Blocks("task", StartAp)
      BY <2>1 DEF HandleLoadAndRestore
    <3> QED
      BY <1>1, <3>1, OrdersAreNoLink DEF BlocksNoLink
  <2>2. CASE HandleStaDisconnected
    <3>1. pending' = pending \/ Blocks("task", StartAp)
      BY <2>2 DEF HandleStaDisconnected, AttemptFailed, UserDisconnected, ConnectionLost
    <3> QED
      BY <1>1, <3>1, OrdersAreNoLink DEF BlocksNoLink
  <2>3. CASE HandleGotIp
    <3>1. pending' = pending \/ Blocks("task", StopAp)
      BY <2>3 DEF HandleGotIp, ScheduleApShutdown
    <3> QED
      BY <1>1, <3>1, OrdersAreNoLink DEF BlocksNoLink
  <2>4. CASE \/ HandleScanDone \/ HandleStartScan \/ HandleConnectSta \/ HandleStartAp
             \/ FinishStartAp \/ HandleStopAp \/ FinishStopAp \/ HandleDisconnectSta
    BY <2>4 DEF HandleScanDone, HandleStartScan, HandleConnectSta, HandleStartAp,
                FinishStartAp, HandleStopAp, FinishStopAp, HandleDisconnectSta
  <2> QED
    BY <1>2, <2>1, <2>2, <2>3, <2>4 DEF TaskStep
<1>3. CASE TimerStep
  <2>1. \/ pending' = pending
        \/ Blocks("timer", ConnectSta("AUTO_RECONNECT")) \/ Blocks("timer", StopAp)
    BY <1>3 DEF TimerStep, TimerRetryCb, TimerShutdownApCb, TimerCommand
  <2> QED
    BY <1>1, <2>1, OrdersAreNoLink DEF BlocksNoLink
<1>4. CASE HttpStep
  <2>1. \/ pending' = pending
        \/ Blocks("httpd", ConnectSta("USER")) \/ Blocks("httpd", StartScan)
        \/ Blocks("httpd", DisconnectSta)
    BY <1>4, HttpBlocks
  <2> QED
    BY <1>1, <2>1, OrdersAreNoLink DEF BlocksNoLink
<1>5. CASE DriverStep
  BY <1>5 DEF DriverStep, ConnectSucceeds, ConnectFails, LinkLost, AddressRenewed,
              ScanCompletes
<1> QED
  BY <1>2, <1>3, <1>4, <1>5

LEMMA LoopSendsQuiet ==
  ASSUME TypeOK, LoopSends, pending' = pending \/ BlocksNoLink
  PROVE  LoopSends' /\ pending'["event_loop"] = pending["event_loop"]
  BY DEF TypeOK, LoopSends, BlocksNoLink, Blocks, Senders

\* Outside the task only the web server writes the status, and clears it.
LEMMA OthersCopy ==
  ASSUME TypeOK, CopyInv, TimerStep \/ HttpStep \/ DriverStep
  PROVE  CopyInv'
<1> USE DEF timerVars, cfgVars, drvVars
<1>1. UNCHANGED <<queue, bits>>
  <2>1. CASE TimerStep \/ HttpStep
    BY <2>1, HttpKeeps DEF TimerStep, TimerRetryCb, TimerShutdownApCb, TimerCommand
  <2>2. CASE DriverStep
    BY <2>2 DEF DriverStep, ConnectSucceeds, ConnectFails, LinkLost, AddressRenewed,
                ScanCompletes
  <2> QED
    BY <2>1, <2>2
<1>2. Standing => Standing'
  <2>1. json' = json \/ json' = Cleared
    <3>1. CASE TimerStep
      BY <3>1 DEF TimerStep, TimerRetryCb, TimerShutdownApCb, TimerCommand
    <3>2. CASE HttpStep
      BY <3>2 DEF HttpStep, Request, PostConnect, DeleteConnect, GetApJson, PostContinues,
                  PostCopies, ConnectAsync
    <3>3. CASE DriverStep
      BY <3>3 DEF DriverStep, ConnectSucceeds, ConnectFails, LinkLost, AddressRenewed,
                  ScanCompletes
    <3> QED
      BY <3>1, <3>2, <3>3
  <2> QED
    BY <2>1 DEF Standing, Cleared, Status
<1>3. LoopSends' /\ pending'["event_loop"] = pending["event_loop"]
  BY WhoBlocks, LoopSendsQuiet DEF CopyInv
<1> QED
  BY <1>1, <1>2, <1>3 DEF CopyInv, TaskCopy, QueueCopies, LinkCopy

\* What the task takes off the queue becomes the last event it has handled.
LEMMA CopyTaken ==
  ASSUME TypeOK, NEW c, Receive(c), LinkCopy' = LinkCopy, QueueCopies,
         c = "EVENT_STA_GOT_IP" => Standing',
         c \notin LinkCodes => (Standing => Standing')
  PROVE  QueueCopies'
<1>1. PICK b \in LinkCodes : /\ b = "EVENT_STA_GOT_IP" => Standing
                             /\ Follows(queue, LinkCodes, b, LinkCopy)
  BY DEF QueueCopies
<1>2. /\ queue \in Seq(Messages) /\ queue # <<>> /\ queue' = Tail(queue)
      /\ Head(queue).code = c
  BY DEF TypeOK, Receive
<1> DEFINE d == IF c \in LinkCodes THEN c ELSE b
<1>3. Follows(Tail(queue), LinkCodes, d, LinkCopy)
  BY <1>1, <1>2, FollowsTail
<1>4. d \in LinkCodes /\ (d = "EVENT_STA_GOT_IP" => Standing')
  BY <1>1 DEF LinkCodes
<1>5. Follows(queue', LinkCodes, d, LinkCopy')
  BY <1>2, <1>3
<1> QED
  BY <1>4, <1>5 DEF QueueCopies

LEMMA CopyTask ==
  ASSUME TypeOK, CopyInv, TaskStep, ~DriverRefuses PROVE CopyInv'
<1> USE DEF timerVars, cfgVars, drvVars
<1>1. LoopSends' /\ pending'["event_loop"] = pending["event_loop"]
  BY WhoBlocks, LoopSendsQuiet DEF CopyInv
<1>2. LinkCopy' = LinkCopy
  <2>1. "WIFI_CONNECTED" \in bits' <=> "WIFI_CONNECTED" \in bits
    BY DEF TaskStep, HandleScanDone, HandleStartScan, HandleLoadAndRestore,
           HandleConnectSta, RequestBits, HandleStaDisconnected, AttemptFailed,
           UserDisconnected, ConnectionLost, HandleStartAp, FinishStartAp, HandleStopAp,
           FinishStopAp, HandleGotIp, HandleDisconnectSta
  <2> QED
    BY <2>1 DEF LinkCopy, LinkCode
<1>3. ASSUME QueueCopies PROVE QueueCopies'
  <2>1. CASE FinishStartAp \/ FinishStopAp
    <3>1. UNCHANGED <<queue, json>>
      BY <2>1 DEF FinishStartAp, FinishStopAp
    <3> QED
      BY <3>1, <1>2, <1>3 DEF QueueCopies, Standing
  <2>2. CASE HandleGotIp
    <3>1. Receive("EVENT_STA_GOT_IP") /\ Standing'
      BY <2>2 DEF HandleGotIp, Reports, Status, Standing
    <3> QED
      BY <3>1, <1>2, <1>3, CopyTaken DEF LinkCodes
  <2>3. CASE HandleStaDisconnected
    <3>1. Receive("EVENT_STA_DISCONNECTED")
      BY <2>3 DEF HandleStaDisconnected
    <3> QED
      BY <3>1, <1>2, <1>3, CopyTaken DEF LinkCodes
  <2>4. CASE \/ HandleScanDone \/ HandleStartScan \/ HandleLoadAndRestore
             \/ HandleConnectSta \/ HandleStartAp \/ HandleStopAp \/ HandleDisconnectSta
    <3>1. json' = json
      BY <2>4 DEF HandleScanDone, HandleStartScan, HandleLoadAndRestore, HandleConnectSta,
                  HandleStartAp, HandleStopAp, HandleDisconnectSta
    <3>2. \E c : Receive(c) /\ c \notin LinkCodes
      BY <2>4 DEF HandleScanDone, HandleStartScan, HandleLoadAndRestore, HandleConnectSta,
                  HandleStartAp, HandleStopAp, HandleDisconnectSta, LinkCodes
    <3> QED
      BY <3>1, <3>2, <1>2, <1>3, CopyTaken DEF Standing, LinkCodes
  <2> QED
    BY <2>1, <2>2, <2>3, <2>4 DEF TaskStep
<1> QED
  BY <1>1, <1>2, <1>3 DEF CopyInv, TaskCopy

LEMMA CopySend ==
  ASSUME TypeOK, CopyInv, NEW s \in Senders, Send(s) PROVE CopyInv'
<1>1. /\ pending[s] \in Messages /\ queue \in Seq(Messages)
      /\ queue' = Append(queue, pending[s]) /\ UNCHANGED <<bits, json>>
  BY DEF TypeOK, Send, cfgVars
<1>2. /\ pending'[s] = NoMsg
      /\ \A t \in Senders \ {s} : pending'[t] = pending[t]
  BY DEF TypeOK, Send
<1>3. LinkCopy' = LinkCopy
  BY <1>1 DEF LinkCopy
<1>4. LoopSends'
  BY <1>2, OrdersAreNoLink DEF CopyInv, LoopSends
<1>5. CASE pending[s].code \in LinkCodes
  <2>1. s = "event_loop"
    BY <1>5 DEF CopyInv, LoopSends
  <2>2. pending[s].code = LinkCopy
    BY <1>5, <2>1 DEF CopyInv, TaskCopy
  <2>3. Follows(queue', LinkCodes, "EVENT_STA_DISCONNECTED", LinkCopy')
    BY <1>1, <1>3, <1>5, <2>2, FollowsNewLast
  <2>4. QueueCopies'
    BY <2>3 DEF QueueCopies, LinkCodes
  <2> QED
    BY <1>2, <1>4, <2>1, <2>4, OrdersAreNoLink DEF CopyInv, TaskCopy
<1>6. CASE pending[s].code \notin LinkCodes
  <2>1. ASSUME QueueCopies PROVE QueueCopies'
    <3>1. PICK b \in LinkCodes : /\ b = "EVENT_STA_GOT_IP" => Standing
                                 /\ Follows(queue, LinkCodes, b, LinkCopy)
      BY <2>1 DEF QueueCopies
    <3>2. Follows(queue', LinkCodes, b, LinkCopy')
      BY <1>1, <1>3, <1>6, <3>1, FollowsUnrelated
    <3> QED
      BY <1>1, <3>1, <3>2 DEF QueueCopies, Standing
  <2>2. CASE s = "event_loop"
    BY <1>2, <1>4, <1>6, <2>1, <2>2, OrdersAreNoLink DEF CopyInv, TaskCopy
  <2>3. CASE s # "event_loop"
    <3>1. pending'["event_loop"] = pending["event_loop"]
      BY <1>2, <2>3 DEF Senders
    <3> QED
      BY <1>3, <1>4, <2>1, <3>1 DEF CopyInv, TaskCopy
  <2> QED
    BY <2>2, <2>3
<1> QED
  BY <1>5, <1>6

LEMMA CopyEventHandler ==
  ASSUME TypeOK, CopyInv, EventHandler PROVE CopyInv'
<1> DEFINE e == Head(events)
<1>1. /\ bits' = EventBits(e) /\ e \in DriverEvents
      /\ UNCHANGED <<queue, json>> /\ pending["event_loop"] = NoMsg
      /\ pending' = IF e \in Messages THEN [pending EXCEPT !["event_loop"] = e]
                                      ELSE pending
  BY BoundedTail DEF TypeOK, EventHandler, Blocks, cfgVars
<1>2. e.code \in {"EVENT_SCAN_DONE", "EVENT_STA_DISCONNECTED", "AP_START",
                  "AP_STOP", "EVENT_STA_GOT_IP"}
  BY <1>1, EventCodes DEF DriverEvents, PostedEvents
<1>3. e \in Messages => pending'["event_loop"] = e
  BY <1>1 DEF TypeOK, Senders
<1>4. LoopSends'
  BY <1>1 DEF CopyInv, LoopSends, TypeOK, Senders
<1>5. e.code \in LinkCodes => e \in Messages
  BY <1>1, EventCodes DEF DriverEvents, Messages, LinkCodes
<1>6. QueueCopies
  BY <1>1, OrdersAreNoLink DEF CopyInv, TaskCopy
<1> HIDE DEF e
<1>7. CASE e.code \in LinkCodes
  <2>1. LinkCopy' = e.code
    BY <1>1, <1>7 DEF LinkCopy, LinkCode, EventBits, LinkCodes
  <2> QED
    BY <1>3, <1>4, <1>5, <1>7, <2>1 DEF CopyInv, TaskCopy
<1>8. CASE e.code \notin LinkCodes
  <2>1. "WIFI_CONNECTED" \in bits' <=> "WIFI_CONNECTED" \in bits
    BY <1>1, <1>2, <1>8 DEF EventBits, LinkCodes
  <2>2. LinkCopy' = LinkCopy
    BY <2>1 DEF LinkCopy, LinkCode
  <2>3. pending'["event_loop"].code \notin LinkCodes
    BY <1>1, <1>3, <1>8, OrdersAreNoLink
  <2>4. QueueCopies'
    BY <1>1, <1>6, <2>2 DEF QueueCopies, Standing
  <2> QED
    BY <1>4, <2>3, <2>4 DEF CopyInv, TaskCopy
<1> QED
  BY <1>7, <1>8

LEMMA CopyInit == Init => CopyInv
<1> SUFFICES ASSUME NEW saved \in Configs, Boot(saved) PROVE CopyInv
  BY DEF Init
<1>1. \A s \in Senders : pending[s].code \notin LinkCodes
  BY OrdersAreNoLink DEF Boot
<1>2. Follows(queue, LinkCodes, "EVENT_STA_DISCONNECTED", LinkCopy)
  BY DEF Boot, Follows, LinkCopy, LinkCode
<1> QED
  BY <1>1, <1>2 DEF CopyInv, LoopSends, TaskCopy, QueueCopies, LinkCodes, Senders

LEMMA CopyReboot == Reboot => CopyInv'
<1> SUFFICES ASSUME Reboot PROVE CopyInv'
  OBVIOUS
<1>1. \A s \in Senders : pending'[s].code \notin LinkCodes
  BY OrdersAreNoLink DEF Reboot
<1>2. Follows(queue', LinkCodes, "EVENT_STA_DISCONNECTED", LinkCopy')
  BY DEF Reboot, Follows, LinkCopy, LinkCode
<1> QED
  BY <1>1, <1>2 DEF CopyInv, LoopSends, TaskCopy, QueueCopies, LinkCodes, Senders

LEMMA CopyNext == TypeOK /\ CopyInv /\ [Next]_vars => CopyInv'
<1> SUFFICES ASSUME TypeOK, CopyInv, [Next]_vars PROVE CopyInv'
  OBVIOUS
<1>1. CASE UNCHANGED vars
  BY <1>1 DEF vars, CopyInv, LoopSends, TaskCopy, QueueCopies, LinkCopy, Standing
<1>2. CASE DriverRefuses \/ PowerCut
  BY <1>2, CopyReboot DEF DriverRefuses, PowerCut
<1> QED
  BY <1>1, <1>2, CopyTask, CopySend, CopyEventHandler, OthersCopy DEF Next

(* A user's request that rests without its verdict was taken while the     *)
(* station was connected, for every set of networks, length of the queues  *)
(* and choice of surroundings: any other is taken up by the driver or      *)
(* fails with a disconnection, even when it found the bit of a link already*)
(* lost (wifi_manager.c:1060).  In that case status.json holds no failure  *)
(* and no loss: the last event the task handled was the address.           *)
THEOREM RequestIsAnswered == Spec => []RequestGetsVerdict
<1>1. Init => LossExplains
  BY DEF Init, Boot, LossExplains
<1>2. Init => VerdictInv
  BY DEF Init, Boot, VerdictInv, Asked
<1>3. TypeOK /\ CopiesFollow /\ VerdictInv /\ CopyInv => RequestGetsVerdict
  <2> SUFFICES ASSUME TypeOK, CopiesFollow, VerdictInv, CopyInv, Quiescent,
                      "REQUEST_STA_CONNECT" \in bits
               PROVE  sta = "connected" /\ json.urc \in {"CLEARED", "CONNECTION_OK"}
    BY DEF RequestGetsVerdict
  <2>1. /\ queue = <<>> /\ events = <<>> /\ sta # "connecting"
        /\ pending["event_loop"].code \notin LinkCodes
        /\ pending["event_loop"].code # LossCode
    BY OrdersAreNoLink DEF Quiescent, Senders, LossCode, LinkCodes
  <2>2. sta = "connected"
    BY <2>1, HasNone DEF VerdictInv, LossComes, Asked, TypeOK
  <2>3. LinkCopy = "EVENT_STA_GOT_IP"
    BY <2>1, <2>2, CopiesAre DEF CopiesFollow, Follows, Link, LinkCode
  <2>4. PICK b \in LinkCodes : /\ b = "EVENT_STA_GOT_IP" => Standing
                               /\ Follows(queue, LinkCodes, b, LinkCopy)
    BY <2>1 DEF CopyInv, TaskCopy, QueueCopies
  <2>5. b = LinkCopy
    BY <2>1, <2>4 DEF Follows
  <2> QED
    BY <2>2, <2>3, <2>4, <2>5 DEF Standing
<1> QED
  BY TypeInit, TypeNext, CopiesInit, CopiesNext, LossNext, VerdictNext, CopyInit, CopyNext,
     <1>1, <1>2, <1>3, PTL DEF Spec

-----------------------------------------------------------------------------
(* The saved network                                                       *)

\* A message with one of these codes is announced, being sent, or queued.
Coming(codes) ==
  \/ Has(events, codes)
  \/ \E s \in Senders : pending[s].code \in codes
  \/ Has(queue, codes)

LoadCode  == "ORDER_LOAD_AND_RESTORE_STA"
EraseCode == "ORDER_DISCONNECT_STA"
GotIpCode == "EVENT_STA_GOT_IP"
KeyCodes  == {LoadCode, EraseCode, GotIpCode}

\* A step that brings in no message with one of these codes, and moves none
NoNews(codes) ==
  /\ \/ queue' = queue
     \/ queue # <<>> /\ queue' = Tail(queue)
  /\ \/ events' = events
     \/ \E e \in DriverEvents : Announce(e) /\ e.code \notin codes
  /\ \/ pending' = pending
     \/ \E s \in Senders, m \in Messages : Blocks(s, m) /\ m.code \notin codes

LEMMA NoNewsIsGoodNews ==
  ASSUME TypeOK, NEW codes, NoNews(codes), Coming(codes)'
  PROVE  Coming(codes)
<1>1. Has(events', codes) => Has(events, codes)
  BY HasAnnounced DEF NoNews, TypeOK, EventsOK
<1>2. Has(queue', codes) => Has(queue, codes)
  BY HasTail DEF NoNews, TypeOK
<1>3. (\E s \in Senders : pending'[s].code \in codes)
        => \E s \in Senders : pending[s].code \in codes
  BY DEF NoNews, TypeOK, Blocks
<1> QED
  BY <1>1, <1>2, <1>3 DEF Coming

LEMMA ComingSend ==
  ASSUME TypeOK, NEW codes \in SUBSET KeyCodes, NEW s \in Senders, Send(s), Coming(codes)'
  PROVE  Coming(codes)
<1>1. pending[s] \in Messages /\ queue \in Seq(Messages)
  BY DEF TypeOK, Send
<1>2. queue' = Append(queue, pending[s]) /\ events' = events
  BY DEF Send, drvVars
<1>3. Has(queue', codes) <=> Has(queue, codes) \/ pending[s].code \in codes
  BY <1>1, <1>2, HasAppend
<1>4. /\ pending' = [pending EXCEPT ![s] = NoMsg]
      /\ pending \in [Senders -> Messages \cup {NoMsg}]
  BY DEF Send, TypeOK
<1>5. /\ \A t \in Senders \ {s} : pending'[t] = pending[t]
      /\ pending'[s] = NoMsg
  BY <1>4
<1>6. NoMsg.code \notin codes
  BY DEF NoMsg, Msg, KeyCodes, LoadCode, EraseCode, GotIpCode
<1> QED
  BY <1>2, <1>3, <1>5, <1>6 DEF Coming

LEMMA ComingEventHandler ==
  ASSUME TypeOK, NEW codes, EventHandler, Coming(codes)'
  PROVE  Coming(codes)
<1>1. /\ events \in Seq(DriverEvents) /\ events # <<>> /\ events' = Tail(events)
      /\ queue' = queue /\ pending \in [Senders -> Messages \cup {NoMsg}]
      /\ \/ pending' = pending
         \/ pending' = [pending EXCEPT !["event_loop"] = Head(events)]
  BY DEF TypeOK, EventHandler, Blocks
<1>2. Has(events, codes) <=> Head(events).code \in codes \/ Has(events', codes)
  BY <1>1, HasTail
<1>3. (\E s \in Senders : pending'[s].code \in codes)
        => (\E s \in Senders : pending[s].code \in codes) \/ Head(events).code \in codes
  BY <1>1
<1> QED
  BY <1>1, <1>2, <1>3 DEF Coming

LEMMA OrderCodes ==
  /\ LoadRestore.code = LoadCode /\ DisconnectSta.code = EraseCode
  /\ StartAp.code \notin KeyCodes /\ StopAp.code \notin KeyCodes
  /\ StartScan.code \notin KeyCodes
  /\ \A w : ConnectSta(w).code \notin KeyCodes
  BY DEF LoadRestore, DisconnectSta, StartAp, StopAp, StartScan, ConnectSta, Msg,
         KeyCodes, LoadCode, EraseCode, GotIpCode

LEMMA EventsAreNoNews ==
  /\ ScanDone.code \notin KeyCodes /\ ApStart.code \notin KeyCodes
  /\ ApStop.code \notin KeyCodes
  /\ \A r : Disconnected(r).code \notin KeyCodes
  /\ GotIp.code = GotIpCode
  BY EventCodes DEF KeyCodes, LoadCode, EraseCode, GotIpCode

\* Only a DELETE brings in the order to erase, only the driver an address,
\* and only power-on the order to load.
LEMMA WhereNewsComesFrom ==
  ASSUME TypeOK, [Next]_vars, ~Reboot, NEW codes \in SUBSET KeyCodes,
         DeleteConnect => EraseCode \notin codes,
         ConnectSucceeds \/ AddressRenewed => GotIpCode \notin codes
  PROVE  (\E s \in Senders : Send(s)) \/ EventHandler \/ NoNews(codes)
<1> USE DEF timerVars, cfgVars, drvVars
<1>1. CASE HandleScanDone \/ HandleStartScan
  BY <1>1 DEF HandleScanDone, HandleStartScan, NoNews, Receive
<1>2. CASE HandleLoadAndRestore
  <2>1. queue # <<>> /\ queue' = Tail(queue) /\ events' = events
    BY <1>2 DEF HandleLoadAndRestore, Receive
  <2>2. Blocks("task", ConnectSta("RESTORE_CONNECTION")) \/ Blocks("task", StartAp)
    BY <1>2 DEF HandleLoadAndRestore
  <2>3. /\ ConnectSta("RESTORE_CONNECTION") \in Messages /\ StartAp \in Messages
        /\ "task" \in Senders
    BY DEF Messages, Orders, Requesters, Senders
  <2> QED
    BY <2>1, <2>2, <2>3, OrderCodes DEF NoNews
<1>3. CASE HandleConnectSta
  <2>1. queue # <<>> /\ queue' = Tail(queue) /\ pending' = pending
    BY <1>3 DEF HandleConnectSta, Receive
  <2>2. events' = events \/ Announce(ScanDone)
    BY <1>3 DEF HandleConnectSta, StopScan
  <2> QED
    BY <2>1, <2>2, AnnouncementsAreEvents, EventsAreNoNews DEF NoNews
<1>4. CASE HandleStaDisconnected
  <2>1. queue # <<>> /\ queue' = Tail(queue) /\ events' = events
    BY <1>4 DEF HandleStaDisconnected, Receive
  <2>2. pending' = pending \/ Blocks("task", StartAp)
    BY <1>4 DEF HandleStaDisconnected, AttemptFailed, UserDisconnected, ConnectionLost
  <2>3. StartAp \in Messages /\ "task" \in Senders
    BY DEF Messages, Orders, Senders
  <2> QED
    BY <2>1, <2>2, <2>3, OrderCodes DEF NoNews
<1>5. CASE HandleStartAp \/ HandleStopAp
  <2>1. queue # <<>> /\ queue' = Tail(queue) /\ pending' = pending
    BY <1>5 DEF HandleStartAp, HandleStopAp, Receive
  <2>2. events' = events \/ Announce(ApStart) \/ Announce(ApStop)
    BY <1>5 DEF HandleStartAp, HandleStopAp
  <2> QED
    BY <2>1, <2>2, AnnouncementsAreEvents, EventsAreNoNews DEF NoNews
<1>6. CASE FinishStartAp \/ FinishStopAp
  BY <1>6 DEF FinishStartAp, FinishStopAp, NoNews
<1>7. CASE HandleGotIp
  <2>1. queue # <<>> /\ queue' = Tail(queue) /\ events' = events
    BY <1>7 DEF HandleGotIp, Receive
  <2>2. pending' = pending \/ Blocks("task", StopAp)
    BY <1>7 DEF HandleGotIp, ScheduleApShutdown
  <2>3. StopAp \in Messages /\ "task" \in Senders
    BY DEF Messages, Orders, Senders
  <2> QED
    BY <2>1, <2>2, <2>3, OrderCodes DEF NoNews
<1>8. CASE HandleDisconnectSta
  <2>1. queue # <<>> /\ queue' = Tail(queue) /\ pending' = pending
    BY <1>8 DEF HandleDisconnectSta, Receive
  <2>2. events' = events \/ Announce(Disconnected("LEAVE"))
    BY <1>8 DEF HandleDisconnectSta
  <2>3. Disconnected("LEAVE") \in DriverEvents
    BY AnnouncementsAreEvents DEF Reasons
  <2> QED
    BY <2>1, <2>2, <2>3, EventsAreNoNews DEF NoNews
<1>9. CASE TimerStep
  <2>1. UNCHANGED <<queue, events>>
    BY <1>9 DEF TimerStep, TimerRetryCb, TimerShutdownApCb, TimerCommand
  <2>2. \/ pending' = pending
        \/ Blocks("timer", ConnectSta("AUTO_RECONNECT")) \/ Blocks("timer", StopAp)
    BY <1>9 DEF TimerStep, TimerRetryCb, TimerShutdownApCb, TimerCommand
  <2>3. /\ StopAp \in Messages /\ ConnectSta("AUTO_RECONNECT") \in Messages
        /\ "timer" \in Senders
    BY DEF Messages, Orders, Requesters, Senders
  <2> QED
    BY <2>1, <2>2, <2>3, OrderCodes DEF NoNews
<1>10. CASE HttpStep
  <2>1. UNCHANGED <<queue, events>>
    BY <1>10, HttpKeeps
  <2>2. \/ pending' = pending
        \/ Blocks("httpd", ConnectSta("USER")) \/ Blocks("httpd", StartScan)
        \/ DeleteConnect /\ Blocks("httpd", DisconnectSta)
    BY <1>10, HttpBlocks
  <2>3. /\ StartScan \in Messages /\ ConnectSta("USER") \in Messages
        /\ DisconnectSta \in Messages /\ "httpd" \in Senders
    BY DEF Messages, Orders, Requesters, Senders
  <2> QED
    BY <2>1, <2>2, <2>3, OrderCodes DEF NoNews
<1>11. CASE DriverStep
  <2>1. UNCHANGED <<queue, pending>>
    BY <1>11 DEF DriverStep, ConnectSucceeds, ConnectFails, LinkLost, AddressRenewed,
                 ScanCompletes
  <2>2. \/ (ConnectSucceeds \/ AddressRenewed) /\ Announce(GotIp)
        \/ \E r \in Reasons : Announce(Disconnected(r))
        \/ Announce(ScanDone)
    BY <1>11 DEF DriverStep, ConnectSucceeds, ConnectFails, LinkLost, AddressRenewed,
                 ScanCompletes, Reasons
  <2> QED
    BY <2>1, <2>2, AnnouncementsAreEvents, EventsAreNoNews DEF NoNews
<1>12. CASE UNCHANGED vars
  BY <1>12 DEF vars, NoNews
<1> QED
  BY <1>1, <1>2, <1>3, <1>4, <1>5, <1>6, <1>7, <1>8, <1>9, <1>10, <1>11, <1>12
     DEF Next, TaskStep, DriverRefuses, PowerCut

LEMMA NothingComes ==
  ASSUME TypeOK, [Next]_vars, ~Reboot, NEW codes \in SUBSET KeyCodes,
         DeleteConnect => EraseCode \notin codes,
         ConnectSucceeds \/ AddressRenewed => GotIpCode \notin codes,
         Coming(codes)'
  PROVE  Coming(codes)
  BY WhereNewsComesFrom, ComingSend, ComingEventHandler, NoNewsIsGoodNews

\* Between power-on and the order to load what was saved: nothing else runs.
BootStage ==
  /\ events = <<>> /\ timerCmds = <<>> /\ ~retryTimer /\ ~shutdownTimer
  /\ sta = "idle" /\ ~scanning /\ mode = "STA"
  /\ restart = "none" /\ bits = {}
  /\ config = NoNet /\ json = Cleared /\ ~Overwriting
  /\ \A s \in Senders \ {"task"} : pending[s] = NoMsg
  /\ \/ queue = <<>> /\ pending["task"] = LoadRestore
     \/ queue = <<LoadRestore>> /\ pending["task"] = NoMsg

Fresh == BootStage \/ ~Coming({LoadCode})

\* A POST puts a network into the memory, part by part; otherwise the memory
\* holds a network, or what the flash holds once it has been loaded.
Intact ==
  /\ posting.at = "idle" => config \in Nets \cup {nvs} \/ BootStage
  /\ posting.at = "ssid" => config = NoNet
  /\ posting.at = "password" => config = [ssid |-> posting.net.ssid, password |-> Blank]
  /\ posting.at = "clear" => config = posting.net

PostsNet == Overwriting => posting.net \in Nets

NoErase == "REQUEST_DISCONNECT" \notin bits /\ ~Coming({EraseCode})

SavedInv == Fresh /\ PostsNet /\ Intact /\ NoErase

LEMMA CodesDiffer ==
  /\ LoadCode # EraseCode /\ LoadCode # GotIpCode /\ EraseCode # GotIpCode
  /\ \A c \in KeyCodes : {c} \in SUBSET KeyCodes
  /\ LoadCode \in KeyCodes /\ EraseCode \in KeyCodes /\ GotIpCode \in KeyCodes
  /\ NoMsg.code \notin KeyCodes
  BY DEF KeyCodes, LoadCode, EraseCode, GotIpCode, NoMsg, Msg

LEMMA HeadComes ==
  ASSUME TypeOK, NEW c, Receive(c) PROVE Coming({c})
<1>1. queue \in Seq(Messages) /\ queue # <<>> /\ Head(queue).code = c
  BY DEF TypeOK, Receive
<1>2. 1 \in 1 .. Len(queue) /\ queue[1] = Head(queue)
  BY <1>1
<1> QED
  BY <1>1, <1>2 DEF Coming, Has

LEMMA NothingAtBoot ==
  ASSUME BootStage PROVE ~Coming({GotIpCode}) /\ ~Coming({EraseCode})
<1>1. \A c : Has(<<LoadRestore>>, {c}) => c = LoadCode
  BY OrderCodes DEF Has
<1>2. \A s \in Senders : pending[s].code \notin {GotIpCode, EraseCode}
  BY OrderCodes, CodesDiffer DEF BootStage
<1>3. events = <<>> /\ (queue = <<>> \/ queue = <<LoadRestore>>)
  BY DEF BootStage
<1> QED
  BY <1>1, <1>2, <1>3, HasNone, CodesDiffer DEF Coming

LEMMA RebootFresh ==
  ASSUME Reboot \/ (UNCHANGED vars /\ BootStage) PROVE BootStage'
<1>1. CASE Reboot
  BY <1>1 DEF Reboot, BootStage, Senders, Overwriting, NotPosting
<1>2. CASE UNCHANGED vars /\ BootStage
  BY <1>2 DEF vars, BootStage, Overwriting
<1> QED
  BY <1>1, <1>2

\* At that stage only the order to load can be sent and handled.
LEMMA BootNext ==
  ASSUME TypeOK, BootStage, [Next]_vars
  PROVE  BootStage' \/ HandleLoadAndRestore
<1> USE DEF timerVars, cfgVars, drvVars
<1>1. queue # <<>> => Head(queue) = LoadRestore /\ Head(queue).code = LoadCode
  BY OrderCodes DEF BootStage
<1>2. CASE TaskStep
  <2>1. queue # <<>> /\ restart = "none"
    BY <1>2 DEF TaskStep, BootStage, HandleScanDone, HandleStartScan,
                HandleLoadAndRestore, HandleConnectSta, HandleStaDisconnected,
                HandleStartAp, FinishStartAp, HandleStopAp, FinishStopAp,
                HandleGotIp, HandleDisconnectSta, DriverRefuses, Receive
  <2> QED
    BY <1>1, <1>2, <2>1
       DEF TaskStep, LoadCode, HandleScanDone, HandleStartScan, HandleConnectSta,
           HandleStaDisconnected, HandleStartAp, FinishStartAp, HandleStopAp,
           FinishStopAp, HandleGotIp, HandleDisconnectSta, DriverRefuses, Receive
<1>3. CASE \E s \in Senders : Send(s)
  <2>1. PICK s \in Senders : Send(s)
    BY <1>3
  <2>2. s = "task" /\ pending["task"] = LoadRestore /\ queue = <<>>
    BY <2>1 DEF Send, BootStage
  <2>3. queue' = <<LoadRestore>>
    BY <2>1, <2>2 DEF Send
  <2>4. pending'["task"] = NoMsg /\ \A t \in Senders \ {"task"} : pending'[t] = pending[t]
    BY <2>1, <2>2 DEF Send, TypeOK
  <2> QED
    BY <2>1, <2>3, <2>4 DEF Send, BootStage, Overwriting
<1>4. CASE PowerCut \/ UNCHANGED vars
  BY <1>4, RebootFresh DEF PowerCut
<1>5. ~EventHandler /\ ~TimerStep /\ ~HttpStep /\ ~DriverStep
  BY DEF BootStage, EventHandler, TimerStep, TimerRetryCb, TimerShutdownApCb,
         TimerCommand, HttpStep, Request, PostConnect, DeleteConnect, GetApJson,
         PostContinues, PostCopies, ConnectAsync, Overwriting, Serving, DriverStep,
         ConnectSucceeds, ConnectFails, LinkLost, AddressRenewed, ScanCompletes
<1> QED
  BY <1>2, <1>3, <1>4, <1>5 DEF Next

LEMMA FreshNext ==
  ASSUME TypeOK, Fresh, [Next]_vars, ~Reboot PROVE Fresh'
<1>1. LoadCode \notin {EraseCode, GotIpCode} /\ {LoadCode} \in SUBSET KeyCodes
  BY CodesDiffer
<1>2. CASE ~Coming({LoadCode})
  BY <1>1, <1>2, NothingComes DEF Fresh
<1>3. CASE BootStage /\ HandleLoadAndRestore
  <2>1. queue = <<LoadRestore>>
    BY <1>3 DEF BootStage, HandleLoadAndRestore, Receive
  <2>2. queue' = <<>> /\ events' = <<>>
    BY <1>3, <2>1 DEF BootStage, HandleLoadAndRestore, Receive, drvVars
  <2>3. \E m : Blocks("task", m) /\ m.code \notin KeyCodes
    BY <1>3, OrderCodes DEF HandleLoadAndRestore
  <2>4. \A s \in Senders : pending'[s].code \notin KeyCodes
    BY <1>3, <2>3, CodesDiffer DEF Blocks, BootStage, TypeOK
  <2>5. ~Coming({LoadCode})'
    BY <2>2, <2>4, HasNone, CodesDiffer DEF Coming
  <2> QED
    BY <2>5 DEF Fresh
<1> QED
  BY <1>2, <1>3, BootNext DEF Fresh

\* The handlers that touch the memory or the flash
SavedQuiet == UNCHANGED <<config, nvs, posting>>

LEMMA WhoTouchesSaved ==
  ASSUME TypeOK, [Next]_vars, ~Reboot
  PROVE  \/ SavedQuiet \/ HandleLoadAndRestore \/ HandleGotIp
         \/ (UserDisconnected /\ UNCHANGED posting)
         \/ (\E net \in Nets : PostConnect(net)) \/ PostContinues
<1> USE DEF timerVars, cfgVars, drvVars
<1>1. CASE HandleStaDisconnected
  BY <1>1 DEF HandleStaDisconnected, AttemptFailed, ConnectionLost, SavedQuiet
<1>2. CASE \/ HandleScanDone \/ HandleStartScan \/ HandleStartAp \/ FinishStartAp
           \/ HandleStopAp \/ FinishStopAp \/ HandleDisconnectSta \/ HandleConnectSta
  BY <1>2 DEF HandleScanDone, HandleStartScan, HandleStartAp, FinishStartAp, HandleStopAp,
              FinishStopAp, HandleDisconnectSta, HandleConnectSta, SavedQuiet
<1>3. CASE (\E s \in Senders : Send(s)) \/ EventHandler \/ TimerStep
  BY <1>3 DEF Send, EventHandler, TimerStep, TimerRetryCb, TimerShutdownApCb,
              TimerCommand, SavedQuiet
<1>4. CASE DeleteConnect \/ GetApJson \/ DriverStep
  BY <1>4 DEF DeleteConnect, GetApJson, DriverStep, ConnectSucceeds, ConnectFails,
              LinkLost, AddressRenewed, ScanCompletes, SavedQuiet
<1>5. CASE UNCHANGED vars
  BY <1>5 DEF vars, SavedQuiet
<1> QED
  BY <1>1, <1>2, <1>3, <1>4, <1>5
     DEF Next, TaskStep, DriverRefuses, HttpStep, Request, PowerCut

\* What a POST is copying is one of the networks a user may ask for.
LEMMA PostsNetNext ==
  ASSUME TypeOK, PostsNet, [Next]_vars PROVE PostsNet'
<1>1. CASE Reboot
  BY <1>1 DEF Reboot, PostsNet, Overwriting, NotPosting
<1>2. CASE SavedQuiet \/ HandleLoadAndRestore \/ HandleGotIp \/ UNCHANGED posting
  BY <1>2 DEF SavedQuiet, HandleLoadAndRestore, HandleGotIp, PostsNet, Overwriting
<1>3. CASE \E net \in Nets : PostConnect(net)
  BY <1>3 DEF PostConnect, PostsNet
<1>4. CASE PostCopies
  <2>1. posting'.net = posting.net /\ Overwriting
    BY <1>4 DEF PostCopies, TypeOK, Overwriting
  <2> QED
    BY <2>1 DEF PostsNet
<1>5. CASE ConnectAsync
  BY <1>5 DEF ConnectAsync, PostsNet, Overwriting, NotPosting
<1> QED
  BY <1>1, <1>2, <1>3, <1>4, <1>5, WhoTouchesSaved DEF PostContinues

LEMMA WhoAsksToErase ==
  ASSUME TypeOK, [Next]_vars, ~Reboot, "REQUEST_DISCONNECT" \in bits'
  PROVE  "REQUEST_DISCONNECT" \in bits \/ HandleDisconnectSta
<1> USE DEF timerVars, cfgVars, drvVars
<1>1. CASE HandleConnectSta
  BY <1>1 DEF HandleConnectSta, RequestBits
<1>2. CASE HandleStaDisconnected
  BY <1>2 DEF HandleStaDisconnected, AttemptFailed, UserDisconnected, ConnectionLost
<1>3. CASE HandleScanDone \/ HandleStartScan \/ HandleLoadAndRestore \/ HandleGotIp
  BY <1>3 DEF HandleScanDone, HandleStartScan, HandleLoadAndRestore, HandleGotIp
<1>4. CASE HandleStartAp \/ FinishStartAp \/ HandleStopAp \/ FinishStopAp
  BY <1>4 DEF HandleStartAp, FinishStartAp, HandleStopAp, FinishStopAp
<1>5. CASE (\E s \in Senders : Send(s)) \/ TimerStep \/ HttpStep \/ DriverStep
  BY <1>5, HttpKeeps DEF Send, TimerStep, TimerRetryCb, TimerShutdownApCb, TimerCommand,
              DriverStep, ConnectSucceeds, ConnectFails, LinkLost, AddressRenewed,
              ScanCompletes
<1>6. CASE EventHandler
  <2>1. Head(events) \in DriverEvents /\ bits' = EventBits(Head(events))
    BY <1>6, BoundedTail DEF TypeOK, EventHandler
  <2>2. Head(events).code \in {"EVENT_SCAN_DONE", "EVENT_STA_DISCONNECTED",
                               "AP_START", "AP_STOP", "EVENT_STA_GOT_IP"}
    BY <2>1, EventCodes DEF DriverEvents, PostedEvents
  <2> QED
    BY <2>1, <2>2 DEF EventBits
<1>7. CASE UNCHANGED vars
  BY <1>7 DEF vars
<1> QED
  BY <1>1, <1>2, <1>3, <1>4, <1>5, <1>6, <1>7 DEF Next, TaskStep, DriverRefuses, PowerCut

LEMMA SavedReboot ==
  ASSUME Reboot PROVE SavedInv' /\ nvs' = nvs
<1>1. \A s \in Senders : pending'[s].code # EraseCode
  BY OrderCodes, CodesDiffer DEF Reboot
<1>2. queue' = <<>> /\ events' = <<>>
  BY DEF Reboot
<1>3. ~Coming({EraseCode})'
  BY <1>1, <1>2, HasNone DEF Coming
<1>4. "REQUEST_DISCONNECT" \notin bits' /\ posting' = NotPosting /\ nvs' = nvs
  BY DEF Reboot
<1>5. BootStage'
  BY RebootFresh
<1>6. Intact' /\ PostsNet'
  BY <1>4, <1>5 DEF Intact, PostsNet, Overwriting, NotPosting
<1> QED
  BY <1>3, <1>4, <1>5, <1>6 DEF SavedInv, Fresh, NoErase

\* Each copy moves the memory one part closer to the network asked for.
LEMMA IntactCopies ==
  ASSUME TypeOK, PostsNet, Intact, PostCopies PROVE Intact'
<1>1. posting.net \in Nets /\ posting.at \in {"ssid", "password"}
  BY DEF PostCopies, PostsNet, Overwriting
<1>2. posting' = [net |-> posting.net, at |-> After(posting.at)]
  BY DEF PostCopies, TypeOK
<1>3. CASE posting.at = "ssid"
  <2>1. config' = [NoNet EXCEPT !["ssid"] = posting.net["ssid"]]
    BY <1>3 DEF PostCopies, Intact
  <2>2. config' = [ssid |-> posting.net.ssid, password |-> Blank]
    BY <2>1 DEF NoNet
  <2> QED
    BY <1>2, <1>3, <2>2 DEF Intact, After
<1>4. CASE posting.at = "password"
  <2>1. config' = [[ssid |-> posting.net.ssid, password |-> Blank]
                     EXCEPT !["password"] = posting.net["password"]]
    BY <1>4 DEF PostCopies, Intact
  <2>2. config' = [ssid |-> posting.net.ssid, password |-> posting.net.password]
    BY <2>1
  <2>3. config' = posting.net
    BY <1>1, <2>2 DEF Nets
  <2> QED
    BY <1>2, <1>4, <2>3 DEF Intact, After
<1> QED
  BY <1>1, <1>3, <1>4

LEMMA SavedNext ==
  ASSUME "delete" \notin Env, TypeOK, SavedInv, [Next]_vars
  PROVE  SavedInv' /\ (~Overwriting => nvs' \in Nets \cup {nvs})
<1> SUFFICES ASSUME ~Reboot
             PROVE  SavedInv' /\ (~Overwriting => nvs' \in Nets \cup {nvs})
  BY SavedReboot
<1>1. Fresh' /\ PostsNet'
  BY FreshNext, PostsNetNext DEF SavedInv
<1>2. NoErase'
  <2>1. ~DeleteConnect
    BY DEF DeleteConnect
  <2>2. ~Coming({EraseCode})'
    BY <2>1, NothingComes, CodesDiffer DEF SavedInv, NoErase
  <2>3. ~HandleDisconnectSta
    BY HeadComes DEF HandleDisconnectSta, SavedInv, NoErase, EraseCode
  <2> QED
    BY <2>2, <2>3, WhoAsksToErase DEF NoErase, SavedInv
<1>3. ~UserDisconnected
  BY DEF UserDisconnected, Cause, SavedInv, NoErase
<1>4. CASE SavedQuiet /\ ~HandleLoadAndRestore
  <2>1. BootStage => BootStage'
    BY <1>4, BootNext
  <2> QED
    BY <1>1, <1>2, <1>4, <2>1 DEF SavedQuiet, SavedInv, Intact
<1>5. CASE HandleLoadAndRestore
  <2>1. BootStage
    BY <1>5, HeadComes DEF HandleLoadAndRestore, SavedInv, Fresh, LoadCode
  <2>2. config' = nvs /\ UNCHANGED <<nvs, posting>> /\ posting.at = "idle"
    BY <1>5, <2>1 DEF HandleLoadAndRestore, BootStage, Overwriting
  <2> QED
    BY <1>1, <1>2, <2>2 DEF SavedInv, Intact
<1>6. CASE HandleGotIp
  <2>1. ~BootStage
    BY <1>6, HeadComes, NothingAtBoot DEF HandleGotIp, GotIpCode
  <2>2. config' = config /\ nvs' \in {nvs, config} /\ posting' = posting
    BY <1>6 DEF HandleGotIp, ConfigToSave
  <2> QED
    BY <1>1, <1>2, <2>1, <2>2 DEF SavedInv, Intact, Overwriting
<1>7. CASE \E net \in Nets : PostConnect(net)
  <2>1. config' = NoNet /\ posting'.at = "ssid" /\ nvs' = nvs
    BY <1>7 DEF PostConnect
  <2> QED
    BY <1>1, <1>2, <2>1 DEF SavedInv, Intact
<1>8. CASE PostCopies
  <2>1. nvs' = nvs
    BY <1>8 DEF PostCopies
  <2> QED
    BY <1>1, <1>2, <1>8, <2>1, IntactCopies DEF SavedInv
<1>9. CASE ConnectAsync
  <2>1. config \in Nets /\ config' = config /\ nvs' = nvs /\ posting'.at = "idle"
    BY <1>9 DEF ConnectAsync, SavedInv, Intact, PostsNet, Overwriting, NotPosting
  <2> QED
    BY <1>1, <1>2, <2>1 DEF SavedInv, Intact
<1> QED
  BY <1>3, <1>4, <1>5, <1>6, <1>7, <1>8, <1>9, WhoTouchesSaved DEF PostContinues

LEMMA SavedInit == Init => SavedInv
<1> SUFFICES ASSUME Init PROVE SavedInv
  OBVIOUS
<1>1. BootStage
  BY DEF Init, Boot, BootStage, Senders, Overwriting, NotPosting
<1>2. ~Coming({EraseCode}) /\ bits = {} /\ posting.at = "idle"
  BY <1>1, NothingAtBoot DEF BootStage, Overwriting
<1> QED
  BY <1>1, <1>2 DEF SavedInv, Fresh, Intact, PostsNet, NoErase, Overwriting

(* Without a DELETE, and while no POST is half way, a save puts a whole    *)
(* network into the flash or keeps what is there, for every set of         *)
(* networks, length of the queues and choice of the other surroundings:    *)
(* what a new address saves is the memory, and by then the memory holds a  *)
(* network again, or what was loaded (wifi_manager.c:1269-1272).           *)
THEOREM SavedNetworkSurvives == Spec => SavedSurvives
<1>1. CASE "delete" \notin Env
  <2>1. TypeOK /\ SavedInv /\ [Next]_vars => SavedInv'
    BY <1>1, SavedNext
  <2>2. TypeOK /\ SavedInv /\ [Next]_vars
          => (("delete" \notin Env /\ ~Overwriting) => nvs' \in Nets \cup {nvs})
    BY <1>1, SavedNext
  <2> QED
    BY <2>1, <2>2, TypeInit, TypeNext, SavedInit, PTL DEF Spec, SavedSurvives
<1>2. CASE "delete" \in Env
  <2>1. ("delete" \notin Env /\ ~Overwriting) => nvs' \in Nets \cup {nvs}
    BY <1>2
  <2> QED
    BY <2>1, PTL DEF SavedSurvives
<1> QED
  BY <1>1, <1>2

-----------------------------------------------------------------------------
(* One step lemma for each kind of step of ConnectionStatus.               *)

PortalVars == <<config.ssid, json, RequestUnderway, Overwriting>>
StatusStep == Portal!Next \/ UNCHANGED PortalVars

LEMMA Unseen ==
  ASSUME UNCHANGED <<config, json, posting>>, Noted' <=> Noted, Blocked' <=> Blocked,
         Queued' <=> Queued
  PROVE  StatusStep
<1>1. RequestUnderway' <=> RequestUnderway
  BY Underway DEF RequestUnderway, Noted, Blocked, Queued, UserOrder
<1> QED
  BY <1>1 DEF StatusStep, PortalVars, RequestUnderway, Overwriting

LEMMA StatusReboot == Reboot => StatusStep
<1> SUFFICES ASSUME Reboot PROVE StatusStep
  OBVIOUS
<1>1. ~Noted' /\ ~Queued'
  BY DEF Reboot, Noted, Queued
<1>2. ~Blocked'
  BY UserOrderIsNoOther DEF Reboot, Blocked, UserOrder
<1>3. RequestUnderway' = FALSE
  BY <1>1, <1>2, Underway DEF RequestUnderway, Noted, Blocked, Queued, UserOrder
<1>4. config'.ssid = Blank /\ json' = Portal!Nothing /\ Overwriting' = FALSE
  BY DEF Reboot, NoNet, Cleared, Status, Portal!Nothing, Overwriting, NotPosting
<1> QED
  BY <1>3, <1>4 DEF StatusStep, Portal!Next, Portal!Restart

LEMMA StatusPost ==
  ASSUME NEW net \in Nets, PostConnect(net) PROVE StatusStep
<1>1. RequestUnderway' = RequestUnderway
  BY DEF PostConnect, RequestUnderway, drvVars
<1>2. config'.ssid = Blank /\ json' = json /\ ~Overwriting /\ Overwriting' = TRUE
  BY DEF PostConnect, NoNet, Serving, HttpdIdle, Overwriting
<1> QED
  BY <1>1, <1>2 DEF StatusStep, Portal!Next, Portal!BeginRequest

LEMMA StatusCopies ==
  ASSUME TypeOK, PostsNet, PostCopies PROVE StatusStep
<1>1. RequestUnderway' = RequestUnderway
  BY DEF PostCopies, RequestUnderway, drvVars
<1>2. json' = json /\ Overwriting = TRUE /\ Overwriting' = TRUE
  BY DEF PostCopies, TypeOK, After, Overwriting
<1>3. config'.ssid \in Ssids \cup {config.ssid}
  <2>1. config' = [config EXCEPT ![posting.at] = posting.net[posting.at]]
        /\ config \in Configs
    BY DEF PostCopies, TypeOK
  <2>2. CASE posting.at = "ssid"
    <3>1. config'.ssid = posting.net.ssid
      BY <2>1, <2>2 DEF Configs
    <3> QED
      BY <1>2, <3>1 DEF PostsNet, Nets
  <2>3. CASE posting.at = "password"
    BY <2>1, <2>3 DEF Configs
  <2> QED
    BY <2>2, <2>3 DEF PostCopies
<1> QED
  BY <1>1, <1>2, <1>3 DEF StatusStep, Portal!Next, Portal!Write

LEMMA StatusAsk ==
  ASSUME TypeOK, ConnectAsync PROVE StatusStep
<1>1. pending'["httpd"] = UserOrder
  BY DEF TypeOK, ConnectAsync, Blocks, Senders, UserOrder
<1>2. RequestUnderway' = TRUE
  BY <1>1 DEF RequestUnderway, UserOrder, Senders
<1>3. config' = config /\ json' = Portal!Nothing
  BY DEF ConnectAsync, Cleared, Status, Portal!Nothing
<1>4. Overwriting = TRUE /\ Overwriting' = FALSE
  BY DEF ConnectAsync, Overwriting, NotPosting
<1> QED
  BY <1>2, <1>3, <1>4 DEF StatusStep, Portal!Next, Portal!Ask

LEMMA StatusSend ==
  ASSUME TypeOK, NEW s \in Senders, Send(s) PROVE StatusStep
<1>1. UNCHANGED <<config, json, posting>> /\ (Noted' <=> Noted)
  BY DEF Send, cfgVars, Noted
<1>2. Blocked <=> Blocked' \/ pending[s] = UserOrder
  BY UserOrderIsNoOther DEF TypeOK, Send, Blocked, UserOrder
<1>3. RequestUnderway' <=> RequestUnderway
  BY <1>1, <1>2, QueuedSend, Underway
     DEF RequestUnderway, Noted, Blocked, Queued, UserOrder
<1> QED
  BY <1>1, <1>3 DEF StatusStep, PortalVars, RequestUnderway, Overwriting

LEMMA StatusEventHandler == TypeOK /\ EventHandler => StatusStep
<1> SUFFICES ASSUME TypeOK, EventHandler PROVE StatusStep
  OBVIOUS
<1>1. UNCHANGED <<config, json, posting>> /\ (Queued' <=> Queued)
  BY DEF EventHandler, cfgVars, Queued
<1>2. Head(events) \in DriverEvents
  BY BoundedTail DEF TypeOK, EventHandler
<1>3. Noted' <=> Noted
  <2>1. Head(events).code \in {"EVENT_SCAN_DONE", "EVENT_STA_DISCONNECTED", "AP_START",
                               "AP_STOP", "EVENT_STA_GOT_IP"}
    BY <1>2, EventCodes DEF DriverEvents, PostedEvents
  <2> QED
    BY <2>1 DEF EventHandler, EventBits, Noted
<1>4. Blocked' <=> Blocked
  <2>1. Head(events) # UserOrder
    BY <1>2, UserOrderIsNoOther DEF DriverEvents, ApStart, ApStop, Msg
  <2>2. CASE Head(events) \in Messages
    BY <2>1, <2>2, BlockedOther, UserOrderIsNoOther DEF EventHandler, Senders
  <2>3. CASE Head(events) \notin Messages
    BY <2>3 DEF EventHandler, Blocked
  <2> QED
    BY <2>2, <2>3
<1> QED
  BY <1>1, <1>3, <1>4, Unseen

LEMMA StatusTimers == TypeOK /\ TimerStep => StatusStep
<1> SUFFICES ASSUME TypeOK, TimerStep PROVE StatusStep
  OBVIOUS
<1>1. UNCHANGED <<config, json, posting, queue, bits>>
  BY DEF TimerStep, TimerRetryCb, TimerShutdownApCb, TimerCommand, cfgVars
<1>2. Blocked' <=> Blocked
  <2>1. CASE TimerRetryCb
    <3>1. UserOrder # ConnectSta("AUTO_RECONNECT")
      BY UserOrderIsNoOther DEF Requesters
    <3> QED
      BY <2>1, <3>1, BlockedOther, UserOrderIsNoOther
         DEF TimerRetryCb, MayExpire, Senders
  <2>2. CASE TimerShutdownApCb
    BY <2>2, BlockedOther, UserOrderIsNoOther DEF TimerShutdownApCb, MayExpire, Senders
  <2>3. CASE TimerCommand
    BY <2>3 DEF TimerCommand, Blocked
  <2> QED
    BY <2>1, <2>2, <2>3 DEF TimerStep
<1> QED
  BY <1>1, <1>2, Unseen DEF Noted, Queued

LEMMA StatusPages == TypeOK /\ (DeleteConnect \/ GetApJson) => StatusStep
<1> SUFFICES ASSUME TypeOK, DeleteConnect \/ GetApJson PROVE StatusStep
  OBVIOUS
<1>1. UNCHANGED <<config, json, posting, queue, bits>>
  BY DEF DeleteConnect, GetApJson, cfgVars
<1>2. Blocked' <=> Blocked
  BY BlockedOther, UserOrderIsNoOther
     DEF DeleteConnect, GetApJson, Serving, HttpdIdle, Senders
<1> QED
  BY <1>1, <1>2, Unseen DEF Noted, Queued

LEMMA StatusDriver == DriverStep => StatusStep
<1> SUFFICES ASSUME DriverStep PROVE StatusStep
  OBVIOUS
<1>1. UNCHANGED <<config, json, posting, queue, bits, pending>>
  BY DEF DriverStep, ConnectSucceeds, ConnectFails, LinkLost, AddressRenewed,
         ScanCompletes, cfgVars
<1> QED
  BY <1>1, Unseen DEF Noted, Queued, Blocked

LEMMA StatusConnect == TypeOK /\ HandleConnectSta => StatusStep
<1> SUFFICES ASSUME TypeOK, HandleConnectSta PROVE StatusStep
  OBVIOUS
<1>1. UNCHANGED <<config, json, posting, pending>>
  BY DEF HandleConnectSta, cfgVars
<1>2. Queued <=> Queued' \/ Head(queue) = UserOrder
  BY QueuedReceive DEF HandleConnectSta
<1>3. Noted' <=> Noted \/ Head(queue) = UserOrder
  <2>1. Head(queue) \in Messages /\ Head(queue).code = "ORDER_CONNECT_STA"
    BY ReceiveType DEF HandleConnectSta, Receive, TypeOK, QueueOK
  <2>2. \E w \in Requesters : Head(queue) = ConnectSta(w)
    BY <2>1 DEF Messages, PostedEvents, Orders, ScanDone, GotIp, Disconnected,
                LoadRestore, StartAp, StopAp, StartScan, DisconnectSta, Msg
  <2>3. PICK w \in Requesters : Head(queue) = ConnectSta(w)
    BY <2>2
  <2>4. Head(queue).arg = w /\ (w = "USER" <=> Head(queue) = UserOrder)
    BY <2>3, UserOrderIsNoOther DEF ConnectSta, Msg, UserOrder
  <2>5. "REQUEST_STA_CONNECT" \in RequestBits(w) <=> w = "USER"
    BY <2>3 DEF RequestBits, Requesters
  <2> QED
    BY <2>4, <2>5 DEF HandleConnectSta, Noted
<1>4. Blocked' <=> Blocked
  BY <1>1 DEF Blocked
<1>5. RequestUnderway' <=> RequestUnderway
  BY <1>2, <1>3, <1>4, Underway DEF RequestUnderway, Noted, Blocked, Queued, UserOrder
<1> QED
  BY <1>1, <1>5 DEF StatusStep, PortalVars, RequestUnderway, Overwriting

LEMMA StatusOtherOrders ==
  TypeOK /\ (\/ HandleScanDone \/ HandleStartScan \/ HandleDisconnectSta
             \/ HandleStartAp \/ HandleStopAp \/ FinishStartAp \/ FinishStopAp)
    => StatusStep
<1> SUFFICES ASSUME TypeOK,
                    \/ HandleScanDone \/ HandleStartScan \/ HandleDisconnectSta
                    \/ HandleStartAp \/ HandleStopAp \/ FinishStartAp \/ FinishStopAp
             PROVE  StatusStep
  OBVIOUS
<1> USE DEF HandleScanDone, HandleStartScan, HandleDisconnectSta, HandleStartAp,
            HandleStopAp, FinishStartAp, FinishStopAp
<1>1. UNCHANGED <<config, json, posting, pending>> /\ (Noted' <=> Noted)
  BY DEF cfgVars, Noted
<1>2. Queued' <=> Queued
  BY QueuedOther DEF Queued
<1> QED
  BY <1>1, <1>2, Unseen DEF Blocked

\* The order to load is handled before any request, so nothing is asked then.
LEMMA StatusLoad ==
  ASSUME TypeOK, Fresh, HandleLoadAndRestore PROVE StatusStep
<1>1. BootStage
  BY HeadComes DEF HandleLoadAndRestore, Fresh, LoadCode
<1>2. /\ config.ssid = Blank /\ json = Portal!Nothing /\ Overwriting = FALSE
  BY <1>1 DEF BootStage, NoNet, Cleared, Status, Portal!Nothing, Overwriting
<1>3. /\ config' = nvs /\ nvs \in Configs /\ UNCHANGED <<json, posting>>
  BY DEF HandleLoadAndRestore, TypeOK
<1>4. nvs.ssid \in Ssids \cup {Blank}
  BY <1>3 DEF Configs
<1>5. ~Queued /\ ~Blocked /\ ~Noted
  BY <1>1, UserOrderIsNoOther DEF BootStage, Queued, Blocked, Noted, UserOrder
<1>6. (Queued' <=> Queued) /\ (Noted' <=> Noted)
  BY QueuedOther DEF HandleLoadAndRestore, Noted
<1>7. Blocked' <=> Blocked
  <2>1. UserOrder # ConnectSta("RESTORE_CONNECTION")
    BY UserOrderIsNoOther DEF Requesters
  <2> QED
    BY <2>1, BlockedOther, UserOrderIsNoOther DEF HandleLoadAndRestore, Receive, Senders
<1>8. RequestUnderway = FALSE /\ RequestUnderway' = FALSE
  BY <1>5, <1>6, <1>7, Underway DEF RequestUnderway, Noted, Blocked, Queued, UserOrder
<1>9. Overwriting' = Overwriting
  BY <1>3 DEF Overwriting
<1>10. CASE nvs.ssid \in Ssids
  BY <1>2, <1>3, <1>8, <1>9, <1>10 DEF StatusStep, Portal!Next, Portal!Load
<1>11. CASE nvs.ssid = Blank
  BY <1>2, <1>3, <1>8, <1>9, <1>11 DEF StatusStep, PortalVars
<1> QED
  BY <1>4, <1>10, <1>11

LEMMA StatusGotIp == TypeOK /\ HandleGotIp => StatusStep
<1> SUFFICES ASSUME TypeOK, HandleGotIp PROVE StatusStep
  OBVIOUS
<1>1. config' = config /\ json' = Portal!Says("CONNECTION_OK") /\ Overwriting' = Overwriting
  BY DEF HandleGotIp, Reports, Status, Portal!Says, Overwriting
<1>2. (Queued' <=> Queued) /\ ~Noted'
  BY QueuedOther DEF HandleGotIp, Noted
<1>3. Blocked' <=> Blocked
  <2>1. CASE Blocks("task", StopAp)
    BY <2>1, BlockedOther, UserOrderIsNoOther DEF HandleGotIp, Receive, Senders
  <2>2. CASE UNCHANGED pending
    BY <2>2 DEF Blocked
  <2> QED
    BY <2>1, <2>2 DEF HandleGotIp, ScheduleApShutdown
<1>4. RequestUnderway' => RequestUnderway
  BY <1>2, <1>3, Underway DEF RequestUnderway, Noted, Blocked, Queued, UserOrder
<1> QED
  BY <1>1, <1>4 DEF StatusStep, Portal!Next, Portal!Verdict, Portal!Connected

LEMMA StatusDisconnected == TypeOK /\ HandleStaDisconnected => StatusStep
<1> SUFFICES ASSUME TypeOK, HandleStaDisconnected PROVE StatusStep
  OBVIOUS
<1>1. Queued' <=> Queued
  BY QueuedOther DEF HandleStaDisconnected
<1>0. Overwriting' = Overwriting
  BY DEF HandleStaDisconnected, Overwriting
<1>2. CASE AttemptFailed
  <2>1. config' = config /\ json' = Portal!Says("FAILED_ATTEMPT")
    BY <1>2 DEF AttemptFailed, Reports, Status, Portal!Says
  <2>2. RequestUnderway
    BY <1>2 DEF AttemptFailed, Cause, RequestUnderway
  <2>3. RequestUnderway' \in BOOLEAN
    BY DEF RequestUnderway
  <2> QED
    BY <1>0, <2>1, <2>2, <2>3 DEF StatusStep, Portal!Next, Portal!Verdict, Portal!Failed
<1>3. CASE UserDisconnected
  <2>1. /\ config'.ssid = Blank
        /\ json' = [urc |-> "USER_DISCONNECT", ssid |-> Blank]
    BY <1>3 DEF UserDisconnected, Reports, Status, NoNet
  <2>2. Noted' <=> Noted
    BY <1>3 DEF UserDisconnected, Noted
  <2>3. Blocked' <=> Blocked
    BY <1>3, BlockedOther, UserOrderIsNoOther
       DEF UserDisconnected, HandleStaDisconnected, Receive, Senders
  <2>4. RequestUnderway' <=> RequestUnderway
    BY <1>1, <2>2, <2>3, Underway DEF RequestUnderway, Noted, Blocked, Queued, UserOrder
  <2>5. RequestUnderway' = RequestUnderway
    BY <2>4 DEF RequestUnderway
  <2> QED
    BY <1>0, <2>1, <2>5 DEF StatusStep, Portal!Next, Portal!Verdict, Portal!Forget
<1>4. CASE ConnectionLost
  <2>1. config' = config /\ json' = Portal!Says("LOST_CONNECTION")
    BY <1>4 DEF ConnectionLost, Reports, Status, Portal!Says
  <2>2. Noted' <=> Noted
    BY <1>4 DEF ConnectionLost, Noted
  <2>3. Blocked' <=> Blocked
    <3>1. CASE UNCHANGED pending
      BY <3>1 DEF Blocked
    <3>2. CASE Blocks("task", StartAp)
      BY <3>2, BlockedOther, UserOrderIsNoOther DEF HandleStaDisconnected, Receive, Senders
    <3> QED
      BY <1>4, <3>1, <3>2 DEF ConnectionLost
  <2>4. RequestUnderway' <=> RequestUnderway
    BY <1>1, <2>2, <2>3, Underway DEF RequestUnderway, Noted, Blocked, Queued, UserOrder
  <2>5. RequestUnderway' = RequestUnderway
    BY <2>4 DEF RequestUnderway
  <2> QED
    BY <1>0, <2>1, <2>5 DEF StatusStep, Portal!Next, Portal!Verdict, Portal!Lost
<1> QED
  BY <1>2, <1>3, <1>4 DEF HandleStaDisconnected

LEMMA StatusNext == TypeOK /\ Fresh /\ PostsNet /\ [Next]_vars => StatusStep
<1> SUFFICES ASSUME TypeOK, Fresh, PostsNet, [Next]_vars PROVE StatusStep
  OBVIOUS
<1>1. CASE TaskStep
  BY <1>1, StatusConnect, StatusOtherOrders, StatusLoad, StatusGotIp, StatusDisconnected,
     StatusReboot DEF TaskStep, DriverRefuses
<1>2. CASE \E s \in Senders : Send(s)
  BY <1>2, StatusSend
<1>3. CASE EventHandler \/ TimerStep \/ DriverStep
  BY <1>3, StatusEventHandler, StatusTimers, StatusDriver
<1>4. CASE HttpStep
  BY <1>4, StatusPost, StatusCopies, StatusAsk, StatusPages
     DEF HttpStep, Request, PostContinues
<1>5. CASE PowerCut
  BY <1>5, StatusReboot DEF PowerCut
<1>6. CASE UNCHANGED vars
  BY <1>6, Unseen DEF vars, Noted, Blocked, Queued
<1> QED
  BY <1>1, <1>2, <1>3, <1>4, <1>5, <1>6 DEF Next

(* The task, its queue, its timers and its late events implement the       *)
(* promise the page relies on, a POST being written step by step into the  *)
(* shared configuration: status.json names what the configuration held     *)
(* when it was written, a request clears it, and an attempt is reported as *)
(* failed only while a request of a user is queued or noted.               *)
THEOREM ImplementsStatus == Spec => StatusSpec
<1>1. Init => Portal!Init
  <2> SUFFICES ASSUME NEW saved \in Configs, Boot(saved) PROVE Portal!Init
    BY DEF Init
  <2>1. ~RequestUnderway
    BY UserOrderIsNoOther DEF Boot, RequestUnderway, UserOrder
  <2>2. RequestUnderway = FALSE /\ Overwriting = FALSE
    BY <2>1 DEF RequestUnderway, Boot, Overwriting, NotPosting
  <2> QED
    BY <2>2 DEF Boot, NoNet, Cleared, Status, Portal!Init, Portal!Nothing
<1>2. Init => Fresh /\ PostsNet
  BY SavedInit DEF SavedInv
<1>3. TypeOK /\ Fresh /\ PostsNet /\ [Next]_vars => Fresh' /\ PostsNet'
  BY FreshNext, RebootFresh, PostsNetNext DEF Fresh
<1>4. TypeOK /\ Fresh /\ PostsNet /\ [Next]_vars
        => [Portal!Next]_<<config.ssid, json, RequestUnderway, Overwriting>>
  BY StatusNext DEF StatusStep, PortalVars
<1> QED
  BY <1>1, <1>2, <1>3, <1>4, TypeInit, TypeNext, PTL DEF Spec, StatusSpec, Portal!Spec

-----------------------------------------------------------------------------
(***************************************************************************)
(* Rest: what the manager promises when no application code posts to its   *)
(* queue, nobody deletes the network and nobody scans.  Then every message *)
(* of a kind has one reason at a time to be on its way, so that the queues *)
(* never fill and no order of losses, retries and timers strands a user.   *)
(***************************************************************************)

(* Messages of which at most one is on its way                             *)

ConnectCode  == "ORDER_CONNECT_STA"
StartCode    == "ORDER_START_AP"
StopCode     == "ORDER_STOP_AP"
ScanDoneCode == "EVENT_SCAN_DONE"
ScanCode     == "ORDER_START_WIFI_SCAN"

MsgCodes == {LoadCode, ConnectCode, LossCode, GotIpCode, StartCode, StopCode,
             EraseCode, ScanDoneCode, ScanCode}

\* At most one message of q has one of these codes.
One(q, codes) ==
  \A i, j \in 1 .. Len(q) : q[i].code \in codes /\ q[j].code \in codes => i = j

\* At most one message with one of these codes is on its way.
AtMostOne(codes) ==
  /\ One(events, codes) /\ One(queue, codes)
  /\ Has(events, codes) => ~Has(queue, codes)
  /\ \A s \in Senders : pending[s].code \in codes =>
       /\ ~Has(events, codes) /\ ~Has(queue, codes)
       /\ \A t \in Senders \ {s} : pending[t].code \notin codes

\* What a step leaves alone
Same(codes) ==
  /\ Coming(codes)' <=> Coming(codes)
  /\ AtMostOne(codes) => AtMostOne(codes)'

SameBut(others) == \A codes \in SUBSET MsgCodes : codes \cap others = {} => Same(codes)

LEMMA OneAppend ==
  ASSUME NEW S, NEW q \in Seq(S), NEW e \in S, NEW codes, One(q, codes),
         e.code \in codes => ~Has(q, codes)
  PROVE  One(Append(q, e), codes)
<1> DEFINE r == Append(q, e)
<1>1. Len(q) \in Nat /\ Len(r) = Len(q) + 1 /\ r[Len(q) + 1] = e
  OBVIOUS
<1>2. \A k \in 1 .. Len(q) : r[k] = q[k]
  OBVIOUS
<1>3. \A k \in 1 .. Len(r) : k \in 1 .. Len(q) \/ k = Len(q) + 1
  BY <1>1
<1> HIDE DEF r
<1> SUFFICES ASSUME NEW i \in 1 .. Len(r), NEW j \in 1 .. Len(r),
                    r[i].code \in codes, r[j].code \in codes
             PROVE  i = j
  BY DEF One, r
<1> QED
  BY <1>1, <1>2, <1>3 DEF One, Has

LEMMA OneTail ==
  ASSUME NEW S, NEW q \in Seq(S), q # <<>>, NEW codes, One(q, codes)
  PROVE  One(Tail(q), codes) /\ (Head(q).code \in codes => ~Has(Tail(q), codes))
<1> DEFINE r == Tail(q)
<1>1. Len(q) \in Nat /\ Len(q) > 0 /\ Len(r) = Len(q) - 1 /\ Head(q) = q[1]
  OBVIOUS
<1>2. \A k \in 1 .. Len(r) : r[k] = q[k + 1] /\ k + 1 \in 1 .. Len(q)
  BY <1>1
<1>3. 1 \in 1 .. Len(q) /\ \A k \in 1 .. Len(r) : k + 1 # 1
  BY <1>1
<1> HIDE DEF r
<1>4. One(r, codes)
  <2> SUFFICES ASSUME NEW i \in 1 .. Len(r), NEW j \in 1 .. Len(r),
                      r[i].code \in codes, r[j].code \in codes
               PROVE  i = j
    BY DEF One
  <2>1. i + 1 = j + 1
    BY <1>2 DEF One
  <2> QED
    BY <2>1
<1>5. Head(q).code \in codes => ~Has(r, codes)
  BY <1>1, <1>2, <1>3 DEF One, Has
<1> QED
  BY <1>4, <1>5 DEF r

LEMMA CodesOfMessages ==
  /\ \A m \in Messages : m.code \in MsgCodes
  /\ NoMsg.code \notin MsgCodes
  /\ \A e \in DriverEvents : e \in Messages \/ e.code \notin MsgCodes
<1> USE DEF MsgCodes, LoadCode, ConnectCode, LossCode, GotIpCode, StartCode, StopCode,
            EraseCode, ScanDoneCode, ScanCode
<1>1. \A m \in PostedEvents : m.code \in MsgCodes
  BY EventCodes DEF PostedEvents
<1>2. \A m \in Orders : m.code \in MsgCodes
  BY DEF Orders, LoadRestore, StartAp, StopAp, StartScan, DisconnectSta, ConnectSta, Msg
<1>3. NoMsg.code \notin MsgCodes /\ ApStart.code \notin MsgCodes /\ ApStop.code \notin MsgCodes
  BY EventCodes DEF NoMsg, Msg
<1> HIDE DEF MsgCodes
<1> QED
  BY <1>1, <1>2, <1>3 DEF Messages, DriverEvents

LEMMA SameReceive ==
  ASSUME TypeOK, NEW codes \in SUBSET MsgCodes,
         queue' = queue \/ \E k : k \notin codes /\ Receive(k),
         events' = events \/ \E e \in DriverEvents : Announce(e) /\ e.code \notin codes,
         \/ pending' = pending
         \/ \E s \in Senders, m \in Messages :
              pending[s] = NoMsg /\ Blocks(s, m) /\ m.code \notin codes
  PROVE  Same(codes)
<1>1. /\ Has(queue', codes) <=> Has(queue, codes)
      /\ One(queue, codes) => One(queue', codes)
  <2>1. CASE queue' = queue
    BY <2>1
  <2>2. CASE \E k : k \notin codes /\ Receive(k)
    <3>1. /\ queue \in Seq(Messages) /\ queue # <<>> /\ queue' = Tail(queue)
          /\ Head(queue).code \notin codes
      BY <2>2 DEF TypeOK, Receive
    <3>2. Has(queue', codes) <=> Has(queue, codes)
      BY <3>1, HasTail
    <3>3. One(queue, codes) => One(queue', codes)
      BY <3>1, OneTail
    <3> QED
      BY <3>2, <3>3
  <2> QED
    BY <2>1, <2>2
<1>2. /\ Has(events', codes) <=> Has(events, codes)
      /\ One(events, codes) => One(events', codes)
  <2>1. CASE events' = events
    BY <2>1
  <2>2. CASE \E e \in DriverEvents : Announce(e) /\ e.code \notin codes
    <3>1. PICK e \in DriverEvents : Announce(e) /\ e.code \notin codes
      BY <2>2
    <3>2. events \in Seq(DriverEvents) /\ events' = Append(events, e)
      BY <3>1 DEF TypeOK, Announce
    <3>3. Has(events', codes) <=> Has(events, codes)
      BY <3>1, <3>2, HasAppend
    <3>4. One(events, codes) => One(events', codes)
      BY <3>1, <3>2, OneAppend
    <3> QED
      BY <3>3, <3>4
  <2> QED
    BY <2>1, <2>2
<1>3. \A s \in Senders : pending'[s].code \in codes <=> pending[s].code \in codes
  BY CodesOfMessages DEF TypeOK, Blocks
<1> QED
  BY <1>1, <1>2, <1>3 DEF Same, Coming, AtMostOne

LEMMA SameSend ==
  ASSUME TypeOK, NEW s \in Senders, Send(s), NEW codes \in SUBSET MsgCodes
  PROVE  Same(codes)
<1>1. pending[s] \in Messages /\ queue \in Seq(Messages)
  BY DEF TypeOK, Send
<1>2. queue' = Append(queue, pending[s]) /\ events' = events
  BY DEF Send, drvVars
<1>3. Has(queue', codes) <=> Has(queue, codes) \/ pending[s].code \in codes
  BY <1>1, <1>2, HasAppend
<1>4. One(queue, codes) /\ (pending[s].code \in codes => ~Has(queue, codes))
        => One(queue', codes)
  BY <1>1, <1>2, OneAppend
<1>5. /\ \A t \in Senders \ {s} : pending'[t] = pending[t]
      /\ pending'[s].code \notin codes
  BY CodesOfMessages DEF Send, TypeOK
<1>6. Coming(codes)' <=> Coming(codes)
  BY <1>2, <1>3, <1>5 DEF Coming
<1>7. AtMostOne(codes) => AtMostOne(codes)'
  BY <1>2, <1>3, <1>4, <1>5 DEF AtMostOne
<1> QED
  BY <1>6, <1>7 DEF Same

LEMMA SameEventHandler ==
  ASSUME TypeOK, EventHandler, NEW codes \in SUBSET MsgCodes
  PROVE  Same(codes)
<1> DEFINE e == Head(events)
<1>1. /\ events \in Seq(DriverEvents) /\ events # <<>> /\ events' = Tail(events)
      /\ queue' = queue /\ e \in DriverEvents
  BY BoundedTail DEF TypeOK, EventHandler
<1>2. /\ Has(events, codes) <=> e.code \in codes \/ Has(events', codes)
      /\ One(events, codes) => One(events', codes)
      /\ One(events, codes) /\ e.code \in codes => ~Has(events', codes)
  BY <1>1, HasTail, OneTail
<1>3. \A t \in Senders \ {"event_loop"} : pending'[t] = pending[t]
  BY DEF EventHandler, Blocks, TypeOK
<1>4. pending["event_loop"].code \notin codes
  BY CodesOfMessages DEF EventHandler
<1>5. pending'["event_loop"].code \in codes <=> e.code \in codes
  BY <1>1, <1>4, CodesOfMessages DEF EventHandler, Blocks, TypeOK, Senders
<1> HIDE DEF e
<1>6. "event_loop" \in Senders
  BY DEF Senders
<1>7. Coming(codes)' <=> Coming(codes)
  BY <1>1, <1>2, <1>3, <1>4, <1>5, <1>6 DEF Coming
<1>8. AtMostOne(codes) => AtMostOne(codes)'
  BY <1>1, <1>2, <1>3, <1>4, <1>5, <1>6 DEF AtMostOne
<1> QED
  BY <1>7, <1>8 DEF Same

\* The one message with such a code is taken out, and none is brought in.
LEMMA OneTaken ==
  ASSUME TypeOK, NEW codes \in SUBSET MsgCodes, NEW k \in codes, Receive(k),
         AtMostOne(codes), NoNews(codes)
  PROVE  ~Coming(codes)'
<1>1. queue \in Seq(Messages) /\ queue # <<>> /\ queue' = Tail(queue)
      /\ Head(queue).code = k
  BY DEF TypeOK, Receive
<1>2. Has(queue, codes) /\ ~Has(queue', codes)
  BY <1>1, HasTail, OneTail DEF AtMostOne
<1>3. ~Has(events, codes) /\ ~Has(events', codes)
  BY <1>2, HasAnnounced DEF AtMostOne, NoNews, TypeOK, EventsOK
<1>4. \A s \in Senders : pending[s].code \notin codes
  BY <1>2 DEF AtMostOne
<1>5. \A s \in Senders : pending'[s].code \notin codes
  BY <1>4 DEF NoNews, TypeOK, Blocks
<1> QED
  BY <1>2, <1>3, <1>5 DEF Coming

\* Where there was no such message, a step brings in at most one.
LEMMA OneComes ==
  ASSUME TypeOK, NEW codes \in SUBSET MsgCodes, ~Coming(codes),
         queue' = queue \/ \E k : Receive(k),
         \/ /\ pending' = pending
            /\ events' = events \/ \E e \in DriverEvents : Announce(e)
         \/ /\ events' = events
            /\ \E s \in Senders, m \in Messages : Blocks(s, m)
  PROVE  AtMostOne(codes)'
<1>1. ~Has(queue', codes)
  BY HasTail DEF TypeOK, Receive, Coming
<1>2. One(queue', codes)
  BY <1>1 DEF One, Has
<1>3. CASE /\ pending' = pending
           /\ events' = events \/ \E e \in DriverEvents : Announce(e)
  <2>1. One(events, codes) /\ ~Has(events, codes)
    BY DEF Coming, One, Has
  <2>2. One(events', codes)
    <3>1. CASE events' = events
      BY <2>1, <3>1
    <3>2. CASE \E e \in DriverEvents : Announce(e)
      <4>1. PICK e \in DriverEvents : Announce(e)
        BY <3>2
      <4>2. events \in Seq(DriverEvents) /\ events' = Append(events, e)
        BY <4>1 DEF TypeOK, Announce
      <4> QED
        BY <2>1, <4>2, OneAppend
    <3> QED
      BY <1>3, <3>1, <3>2
  <2>3. \A s \in Senders : pending'[s].code \notin codes
    BY <1>3 DEF Coming
  <2> QED
    BY <1>1, <1>2, <2>2, <2>3 DEF AtMostOne
<1>4. CASE events' = events /\ \E s \in Senders, m \in Messages : Blocks(s, m)
  <2>1. ~Has(events', codes) /\ One(events', codes)
    BY <1>4 DEF Coming, One, Has
  <2>2. PICK s \in Senders, m \in Messages : Blocks(s, m)
    BY <1>4
  <2>3. \A t \in Senders \ {s} : pending'[t].code \notin codes
    BY <2>2 DEF Coming, Blocks, TypeOK
  <2> QED
    BY <1>1, <1>2, <2>1, <2>3 DEF AtMostOne
<1> QED
  BY <1>3, <1>4

LEMMA ComingUnion ==
  \A a, b : Coming(a \cup b) <=> Coming(a) \/ Coming(b)
  BY DEF Coming, Has

-----------------------------------------------------------------------------
(* A device nobody uses                                                    *)

\* Nobody uses the pages, the timers take longer than the messages, the queue
\* has the slots the code gives it, and the timer daemon's holds four commands.
Alone ==
  /\ Env \cap {"post", "delete", "scan"} = {}
  /\ SlowTimers
  /\ QueueCap >= 3 /\ TimerQueueLen >= 4

\* The messages a link cannot do without: at most one is on its way.
TokenCodes   == {LoadCode, ConnectCode, LossCode}
RestoreCodes == {LoadCode, ConnectCode}
ForeignCodes == {ScanDoneCode, ScanCode, EraseCode}

\* No user, no scan
Quietness ==
  /\ ~Coming(ForeignCodes) /\ ~scanning
  /\ ~Queued /\ ~Blocked
  /\ bits \cap {"REQUEST_STA_CONNECT", "REQUEST_DISCONNECT", "SCAN"} = {}
  /\ pending["httpd"] = NoMsg /\ ~Overwriting
  /\ pending["timer"].code \in {"NONE", ConnectCode, StopCode}
  /\ pending["task"].code \in {"NONE", LoadCode, ConnectCode, StartCode, StopCode}
  /\ pending["event_loop"].code \in {"NONE", GotIpCode, LossCode}

\* All that a step leaves alone of the messages an invariant speaks of
KeepsAll ==
  /\ Same(TokenCodes) /\ Same(RestoreCodes) /\ Same(ForeignCodes) /\ Same({LossCode})
  /\ Same({GotIpCode}) /\ Same({StartCode}) /\ Same({StopCode})

LEMMA Codes ==
  /\ LoadRestore.code = LoadCode /\ StartAp.code = StartCode /\ StopAp.code = StopCode
  /\ StartScan.code = ScanCode /\ DisconnectSta.code = EraseCode
  /\ \A w : ConnectSta(w).code = ConnectCode
  /\ ScanDone.code = ScanDoneCode /\ GotIp.code = GotIpCode
  /\ \A r : Disconnected(r).code = LossCode
  /\ NoMsg.code = "NONE" /\ ApStart.code = "AP_START" /\ ApStop.code = "AP_STOP"
  BY EventCodes DEF LoadRestore, StartAp, StopAp, StartScan, DisconnectSta, ConnectSta,
     NoMsg, Msg, LoadCode, StartCode, StopCode, ScanCode, EraseCode, ConnectCode,
     ScanDoneCode, GotIpCode, LossCode

LEMMA CodesAreDistinct ==
  /\ MsgCodes = TokenCodes \cup ForeignCodes \cup {GotIpCode, StartCode, StopCode}
  /\ TokenCodes \cap ForeignCodes = {}
  /\ {GotIpCode, StartCode, StopCode} \cap (TokenCodes \cup ForeignCodes) = {}
  /\ GotIpCode # StartCode /\ GotIpCode # StopCode /\ StartCode # StopCode
  /\ LoadCode # ConnectCode /\ LoadCode # LossCode /\ ConnectCode # LossCode
  /\ "NONE" \notin MsgCodes
  BY DEF MsgCodes, TokenCodes, ForeignCodes, LoadCode, ConnectCode, LossCode, GotIpCode,
         StartCode, StopCode, EraseCode, ScanDoneCode, ScanCode

\* What the tracked sets have left when a step touches only some codes
LEMMA Tracked ==
  ASSUME NEW others, SameBut(others)
  PROVE  /\ TokenCodes \cap others = {} => Same(TokenCodes)
         /\ RestoreCodes \cap others = {} => Same(RestoreCodes)
         /\ ForeignCodes \cap others = {} => Same(ForeignCodes)
         /\ \A c \in MsgCodes : c \notin others => Same({c})
<1>1. /\ TokenCodes \in SUBSET MsgCodes /\ RestoreCodes \in SUBSET MsgCodes
      /\ ForeignCodes \in SUBSET MsgCodes
      /\ \A c \in MsgCodes : {c} \in SUBSET MsgCodes
  BY DEF MsgCodes, TokenCodes, RestoreCodes, ForeignCodes
<1>2. \A c \in MsgCodes : c \notin others => {c} \cap others = {}
  OBVIOUS
<1> QED
  BY <1>1, <1>2 DEF SameBut

LEMMA SameButReceive ==
  ASSUME TypeOK, NEW others,
         queue' = queue \/ \E k \in others : Receive(k),
         events' = events \/ \E e \in DriverEvents :
                               Announce(e) /\ (e.code \in others \/ e.code \notin MsgCodes),
         \/ pending' = pending
         \/ \E s \in Senders, m \in Messages :
              pending[s] = NoMsg /\ Blocks(s, m) /\ m.code \in others
  PROVE  SameBut(others)
<1> SUFFICES ASSUME NEW codes \in SUBSET MsgCodes, codes \cap others = {}
             PROVE  Same(codes)
  BY DEF SameBut
<1>1. queue' = queue \/ \E k : k \notin codes /\ Receive(k)
  OBVIOUS
<1>2. events' = events \/ \E e \in DriverEvents : Announce(e) /\ e.code \notin codes
  OBVIOUS
<1>3. \/ pending' = pending
      \/ \E s \in Senders, m \in Messages :
           pending[s] = NoMsg /\ Blocks(s, m) /\ m.code \notin codes
  OBVIOUS
<1> QED
  BY <1>1, <1>2, <1>3, SameReceive

LEMMA AllTheSame ==
  ASSUME \A codes \in SUBSET MsgCodes : Same(codes)
  PROVE  KeepsAll
  BY DEF KeepsAll, MsgCodes, TokenCodes, RestoreCodes, ForeignCodes

\* The steps that only pass messages on
Relay ==
  \/ \E s \in Senders : Send(s)
  \/ EventHandler \/ TimerCommand \/ FinishStartAp \/ FinishStopAp \/ UNCHANGED vars

LEMMA RelayKeeps == ASSUME TypeOK, Relay PROVE KeepsAll
<1>1. CASE (\E s \in Senders : Send(s)) \/ EventHandler
  BY <1>1, SameSend, SameEventHandler, AllTheSame
<1>2. CASE TimerCommand \/ FinishStartAp \/ FinishStopAp \/ UNCHANGED vars
  <2>1. UNCHANGED <<queue, events, pending>>
    BY <1>2 DEF TimerCommand, FinishStartAp, FinishStopAp, vars, drvVars
  <2> QED
    BY <2>1, AllTheSame DEF Same, Coming, AtMostOne
<1> QED
  BY <1>1, <1>2 DEF Relay

LEMMA ComingIn ==
  ASSUME NEW codes, NEW c \in codes, Coming({c}) PROVE Coming(codes)
  BY DEF Coming, Has

LEMMA NoRequests == ASSUME Alone, Quietness PROVE ~HttpStep
  BY DEF HttpStep, Request, PostConnect, DeleteConnect, GetApJson, PostContinues,
         PostCopies, ConnectAsync, Alone, Quietness, Overwriting

LEMMA OnlyTheDevice ==
  ASSUME Alone, TypeOK, Quietness, [Next]_vars, ~Reboot
  PROVE  \/ HandleLoadAndRestore \/ HandleConnectSta \/ HandleStaDisconnected
         \/ HandleStartAp \/ HandleStopAp \/ HandleGotIp
         \/ TimerRetryCb \/ TimerShutdownApCb
         \/ ConnectSucceeds \/ ConnectFails \/ LinkLost \/ AddressRenewed
         \/ Relay
<1>1. ~HandleScanDone /\ ~HandleStartScan /\ ~HandleDisconnectSta
  BY HeadComes, ComingIn
     DEF HandleScanDone, HandleStartScan, HandleDisconnectSta, Quietness, ForeignCodes,
         ScanDoneCode, ScanCode, EraseCode
<1>2. ~HttpStep
  BY NoRequests
<1>3. ~ScanCompletes
  BY DEF ScanCompletes, Quietness
<1> QED
  BY <1>1, <1>2, <1>3
     DEF Next, TaskStep, TimerStep, DriverStep, DriverRefuses, PowerCut, Relay

\* What each of them does to the messages on their way, and to what the task knows

LEMMA ConnectEffect ==
  ASSUME TypeOK, Quietness, HandleConnectSta
  PROVE  /\ Receive(ConnectCode) /\ Coming({ConnectCode}) /\ NoNews(MsgCodes)
         /\ Same(ForeignCodes) /\ Same({LossCode}) /\ Same({GotIpCode})
         /\ Same({StartCode}) /\ Same({StopCode})
         /\ UNCHANGED <<pending, restart, timerVars, cfgVars, dns, mode, events, scanning>>
         /\ "WIFI_CONNECTED" \notin bits =>
              sta' = IF sta = "idle" THEN "connecting" ELSE sta
         /\ "WIFI_CONNECTED" \in bits => sta' = sta
         /\ bits' \cap {"REQUEST_STA_CONNECT", "REQUEST_DISCONNECT", "SCAN"} = {}
<1>1. Receive(ConnectCode)
  BY DEF HandleConnectSta, ConnectCode
<1>2. Coming({ConnectCode})
  BY <1>1, HeadComes
<1>3. UNCHANGED <<pending, restart, timerVars, cfgVars, dns, mode, events, scanning>>
  BY DEF HandleConnectSta, StopScan, Quietness
<1>4. NoNews(MsgCodes)
  BY <1>1, <1>3 DEF NoNews, Receive
<1>5. SameBut({ConnectCode})
  BY <1>1, <1>3, SameButReceive
<1>6. /\ Same(ForeignCodes) /\ Same({LossCode}) /\ Same({GotIpCode})
      /\ Same({StartCode}) /\ Same({StopCode})
  BY <1>5, Tracked, CodesAreDistinct DEF TokenCodes
<1>7. Head(queue).arg # "USER"
  <2>1. queue \in Seq(Messages) /\ queue # <<>> /\ Head(queue).code = ConnectCode
    BY <1>1 DEF TypeOK, Receive
  <2>2. Head(queue) \in Messages /\ 1 \in 1 .. Len(queue) /\ Head(queue) = queue[1]
    BY <2>1
  <2>3. Head(queue) # UserOrder
    BY <2>2 DEF Quietness, Queued
  <2>4. PICK w \in Requesters : Head(queue) = ConnectSta(w)
    BY <2>1, <2>2, Codes, CodesAreDistinct
       DEF Messages, PostedEvents, Orders, TokenCodes, ForeignCodes
  <2> QED
    BY <2>3, <2>4 DEF UserOrder, ConnectSta, Msg
<1>8. bits' \cap {"REQUEST_STA_CONNECT", "REQUEST_DISCONNECT", "SCAN"} = {}
  BY <1>7 DEF HandleConnectSta, RequestBits, Quietness
<1>9. /\ "WIFI_CONNECTED" \notin bits =>
           sta' = IF sta = "idle" THEN "connecting" ELSE sta
      /\ "WIFI_CONNECTED" \in bits => sta' = sta
  BY DEF HandleConnectSta
<1> QED
  BY <1>1, <1>2, <1>3, <1>4, <1>6, <1>8, <1>9

LEMMA LossEffect ==
  ASSUME TypeOK, Quietness, HandleStaDisconnected
  PROVE  /\ Receive(LossCode) /\ Coming({LossCode}) /\ NoNews(MsgCodes \ {StartCode})
         /\ Same(ForeignCodes) /\ Same(RestoreCodes) /\ Same({GotIpCode}) /\ Same({StopCode})
         /\ ConnectionLost
         /\ (pending' = pending /\ Same({StartCode})) \/ Blocks("task", StartAp)
         /\ UNCHANGED <<restart, retryTimer, shutdownTimer, dns, drvVars>>
         /\ json'.urc # "CONNECTION_OK"
         /\ bits' = bits \ {"REQUEST_RESTORE_STA"}
<1>1. Receive(LossCode)
  BY DEF HandleStaDisconnected, LossCode
<1>2. Coming({LossCode})
  BY <1>1, HeadComes
<1>3. ConnectionLost
  BY DEF HandleStaDisconnected, AttemptFailed, UserDisconnected, Cause, Quietness
<1>4. UNCHANGED <<restart, retryTimer, shutdownTimer, dns, drvVars>>
  BY DEF HandleStaDisconnected
<1>5. pending' = pending \/ Blocks("task", StartAp)
  BY <1>3 DEF ConnectionLost
<1>6. events' = events /\ "task" \in Senders /\ StartAp \in Messages /\ pending["task"] = NoMsg
  BY <1>1, <1>4, OrdersAreMessages DEF drvVars, Receive, Senders
<1>7. NoNews(MsgCodes \ {StartCode})
  BY <1>1, <1>5, <1>6, Codes DEF NoNews, Receive
<1>8. SameBut({LossCode, StartCode})
  BY <1>1, <1>5, <1>6, Codes, SameButReceive
<1>9. Same(ForeignCodes) /\ Same(RestoreCodes) /\ Same({GotIpCode}) /\ Same({StopCode})
  BY <1>8, Tracked, CodesAreDistinct DEF TokenCodes, RestoreCodes
<1>10. pending' = pending => Same({StartCode})
  <2> SUFFICES ASSUME pending' = pending PROVE Same({StartCode})
    OBVIOUS
  <2>1. SameBut({LossCode})
    BY <1>1, <1>6, SameButReceive
  <2> QED
    BY <2>1, Tracked, CodesAreDistinct DEF TokenCodes
<1>11. json'.urc # "CONNECTION_OK" /\ bits' = bits \ {"REQUEST_RESTORE_STA"}
  BY <1>3 DEF ConnectionLost, Reports, Status
<1> QED
  BY <1>1, <1>2, <1>3, <1>4, <1>5, <1>7, <1>9, <1>10, <1>11

LEMMA StartApEffect ==
  ASSUME TypeOK, HandleStartAp
  PROVE  /\ Receive(StartCode) /\ Coming({StartCode}) /\ NoNews(MsgCodes)
         /\ Same(TokenCodes) /\ Same(ForeignCodes) /\ Same(RestoreCodes)
         /\ Same({LossCode}) /\ Same({GotIpCode}) /\ Same({StopCode})
         /\ UNCHANGED <<pending, bits, timerVars, cfgVars, dns, sta, staCfg, scanning>>
         /\ mode' = "APSTA" /\ restart' = "start_ap"
<1>1. Receive(StartCode)
  BY DEF HandleStartAp, StartCode
<1>2. Coming({StartCode})
  BY <1>1, HeadComes
<1>3. UNCHANGED <<pending, bits, timerVars, cfgVars, dns, sta, staCfg, scanning>>
  BY DEF HandleStartAp
<1>4. events' = events \/ Announce(ApStart)
  BY DEF HandleStartAp
<1>5. ApStart \in DriverEvents /\ ApStart.code \notin MsgCodes
  BY AnnouncementsAreEvents, Codes
     DEF MsgCodes, LoadCode, ConnectCode, LossCode, GotIpCode, StartCode, StopCode,
         EraseCode, ScanDoneCode, ScanCode
<1>6. NoNews(MsgCodes)
  BY <1>1, <1>3, <1>4, <1>5 DEF NoNews, Receive
<1>7. SameBut({StartCode})
  BY <1>1, <1>3, <1>4, <1>5, SameButReceive
<1>8. /\ Same(TokenCodes) /\ Same(ForeignCodes) /\ Same(RestoreCodes)
      /\ Same({LossCode}) /\ Same({GotIpCode}) /\ Same({StopCode})
  BY <1>7, Tracked, CodesAreDistinct DEF TokenCodes, RestoreCodes
<1> QED
  BY <1>1, <1>2, <1>3, <1>6, <1>8 DEF HandleStartAp

LEMMA StopApEffect ==
  ASSUME TypeOK, HandleStopAp
  PROVE  /\ Receive(StopCode) /\ Coming({StopCode}) /\ NoNews(MsgCodes)
         /\ Same(TokenCodes) /\ Same(ForeignCodes) /\ Same(RestoreCodes)
         /\ Same({LossCode}) /\ Same({GotIpCode}) /\ Same({StartCode})
         /\ UNCHANGED <<pending, bits, timerVars, cfgVars, sta, staCfg, scanning>>
         /\ mode' = mode \/ "WIFI_CONNECTED" \in bits
         /\ dns' => dns
         /\ restart' = restart \/ restart' = "stop_ap"
<1>1. Receive(StopCode)
  BY DEF HandleStopAp, StopCode
<1>2. Coming({StopCode})
  BY <1>1, HeadComes
<1>3. UNCHANGED <<pending, bits, timerVars, cfgVars, sta, staCfg, scanning>>
  BY DEF HandleStopAp
<1>4. events' = events \/ Announce(ApStop)
  BY DEF HandleStopAp
<1>5. ApStop \in DriverEvents /\ ApStop.code \notin MsgCodes
  BY AnnouncementsAreEvents, Codes
     DEF MsgCodes, LoadCode, ConnectCode, LossCode, GotIpCode, StartCode, StopCode,
         EraseCode, ScanDoneCode, ScanCode
<1>6. NoNews(MsgCodes)
  BY <1>1, <1>3, <1>4, <1>5 DEF NoNews, Receive
<1>7. SameBut({StopCode})
  BY <1>1, <1>3, <1>4, <1>5, SameButReceive
<1>8. /\ Same(TokenCodes) /\ Same(ForeignCodes) /\ Same(RestoreCodes)
      /\ Same({LossCode}) /\ Same({GotIpCode}) /\ Same({StartCode})
  BY <1>7, Tracked, CodesAreDistinct DEF TokenCodes, RestoreCodes
<1>9. /\ mode' = mode \/ "WIFI_CONNECTED" \in bits
      /\ dns' => dns
      /\ restart' = restart \/ restart' = "stop_ap"
  BY DEF HandleStopAp, StillConnected
<1> QED
  BY <1>1, <1>2, <1>3, <1>6, <1>8, <1>9

LEMMA GotIpEffect ==
  ASSUME TypeOK, HandleGotIp
  PROVE  /\ Receive(GotIpCode) /\ Coming({GotIpCode}) /\ NoNews(MsgCodes \ {StopCode})
         /\ Same(TokenCodes) /\ Same(ForeignCodes) /\ Same(RestoreCodes)
         /\ Same({LossCode}) /\ Same({StartCode})
         /\ \/ pending' = pending /\ Same({StopCode})
            \/ ImmediateStop /\ Blocks("task", StopAp)
         /\ UNCHANGED <<restart, retryTimer, shutdownTimer, drvVars>> /\ ~dns'
         /\ timerCmds' = timerCmds \/ (~ImmediateStop /\ PostTimer("start_shutdown"))
         /\ bits' = bits \ {"REQUEST_STA_CONNECT", "REQUEST_RESTORE_STA"}
<1>1. Receive(GotIpCode)
  BY DEF HandleGotIp, GotIpCode
<1>2. Coming({GotIpCode})
  BY <1>1, HeadComes
<1>3. UNCHANGED <<restart, retryTimer, shutdownTimer, drvVars>> /\ ~dns'
  BY DEF HandleGotIp
<1>4. pending' = pending \/ (ImmediateStop /\ Blocks("task", StopAp))
  BY DEF HandleGotIp, ScheduleApShutdown
<1>5. events' = events /\ "task" \in Senders /\ StopAp \in Messages /\ pending["task"] = NoMsg
  BY <1>1, <1>3, OrdersAreMessages DEF drvVars, Receive, Senders
<1>6. NoNews(MsgCodes \ {StopCode})
  BY <1>1, <1>4, <1>5, Codes DEF NoNews, Receive
<1>7. SameBut({GotIpCode, StopCode})
  BY <1>1, <1>4, <1>5, Codes, SameButReceive
<1>8. /\ Same(TokenCodes) /\ Same(ForeignCodes) /\ Same(RestoreCodes)
      /\ Same({LossCode}) /\ Same({StartCode})
  BY <1>7, Tracked, CodesAreDistinct DEF TokenCodes, RestoreCodes
<1>9. pending' = pending => Same({StopCode})
  <2> SUFFICES ASSUME pending' = pending PROVE Same({StopCode})
    OBVIOUS
  <2>1. SameBut({GotIpCode})
    BY <1>1, <1>5, SameButReceive
  <2> QED
    BY <2>1, Tracked, CodesAreDistinct
<1>10. timerCmds' = timerCmds \/ (~ImmediateStop /\ PostTimer("start_shutdown"))
  BY DEF HandleGotIp, ScheduleApShutdown
<1>11. bits' = bits \ {"REQUEST_STA_CONNECT", "REQUEST_RESTORE_STA"}
  BY DEF HandleGotIp
<1> QED
  BY <1>1, <1>2, <1>3, <1>4, <1>6, <1>8, <1>9, <1>10, <1>11

\* The events of the driver are no orders.
LEMMA EventsAreNoOrders ==
  ASSUME TypeOK, NEW codes, codes \subseteq {LoadCode, ConnectCode, StartCode, StopCode,
                                             EraseCode, ScanCode}
  PROVE  ~Has(events, codes)
<1>1. \A e \in DriverEvents : e.code \notin codes
  BY Codes DEF DriverEvents, PostedEvents, LoadCode, ConnectCode, StartCode, StopCode,
               EraseCode, ScanCode, ScanDoneCode, GotIpCode, LossCode
<1>2. \A i \in 1 .. Len(events) : events[i] \in DriverEvents
  BY DEF TypeOK
<1> QED
  BY <1>1, <1>2 DEF Has

\* Only one message has the code of an order without argument.
LEMMA OrdersByCode ==
  \A m \in Messages \cup {NoMsg} :
    /\ m.code = StartCode => m = StartAp
    /\ m.code = StopCode => m = StopAp
    /\ m.code = LoadCode => m = LoadRestore
    /\ m.code = "NONE" => m = NoMsg
<1> SUFFICES ASSUME NEW m \in Messages \cup {NoMsg}
             PROVE  /\ m.code = StartCode => m = StartAp
                    /\ m.code = StopCode => m = StopAp
                    /\ m.code = LoadCode => m = LoadRestore
                    /\ m.code = "NONE" => m = NoMsg
  OBVIOUS
<1> QED
  BY Codes
     DEF Messages, Orders, PostedEvents, StartCode, StopCode, LoadCode, ConnectCode,
         ScanCode, EraseCode, ScanDoneCode, GotIpCode, LossCode

\* A timer that may expire finds no access point being started or stopped.
LEMMA ExpiryFindsNothing ==
  ASSUME Alone, TypeOK, Quietness, MayExpire
  PROVE  /\ timerCmds = <<>> /\ restart = "none" /\ pending["timer"] = NoMsg
         /\ ~Coming({StartCode}) /\ ~Coming({StopCode})
<1>1. timerCmds = <<>> /\ ~ApChanging /\ pending["timer"] = NoMsg
  BY DEF MayExpire, Alone
<1>2. restart = "none"
  BY <1>1 DEF ApChanging
<1> SUFFICES ASSUME NEW c \in {StartCode, StopCode} PROVE ~Coming({c})
  BY <1>1, <1>2
<1>3. ~Has(events, {c})
  BY EventsAreNoOrders
<1>4. \A m \in Messages \cup {NoMsg} : m.code = c => m \in ApOrders
  BY OrdersByCode DEF ApOrders
<1>5. ~Has(queue, {c})
  <2>1. \A i \in 1 .. Len(queue) : queue[i] \in Messages
    BY DEF TypeOK
  <2> QED
    BY <1>1, <1>4, <2>1 DEF ApChanging, Has
<1>6. pending["task"].code # c
  <2>1. pending["task"] \in Messages \cup {NoMsg}
    BY DEF TypeOK, Senders
  <2> QED
    BY <1>1, <1>4, <2>1 DEF ApChanging
<1>7. pending["event_loop"].code # c
  BY DEF Quietness, StartCode, StopCode, GotIpCode, LossCode
<1>8. pending["timer"].code # c /\ pending["httpd"].code # c
  BY <1>1, Codes DEF Quietness, StartCode, StopCode
<1> QED
  BY <1>3, <1>5, <1>6, <1>7, <1>8 DEF Coming, Senders

LEMMA ComesFrom ==
  ASSUME TypeOK, NEW s \in Senders, NEW m, Blocks(s, m), NEW codes, m.code \in codes
  PROVE  Coming(codes)' /\ pending'[s] = m
  BY DEF Coming, Blocks, TypeOK

LEMMA RetryCbEffect ==
  ASSUME Alone, TypeOK, Quietness, TimerRetryCb
  PROVE  /\ Same(ForeignCodes) /\ Same({LossCode}) /\ Same({GotIpCode})
         /\ Same({StartCode}) /\ Same({StopCode}) /\ Same({LoadCode})
         /\ restart = "none" /\ ~Coming({StartCode}) /\ ~Coming({StopCode})
         /\ Coming({ConnectCode})' /\ Blocks("timer", ConnectSta("AUTO_RECONNECT"))
         /\ timerCmds = <<>> /\ timerCmds' = <<"stop_retry">>
         /\ retryTimer /\ ~retryTimer'
         /\ UNCHANGED <<queue, restart, bits, shutdownTimer, cfgVars, dns, drvVars>>
<1>1. MayExpire /\ Blocks("timer", ConnectSta("AUTO_RECONNECT"))
  BY DEF TimerRetryCb
<1>2. /\ timerCmds = <<>> /\ restart = "none" /\ pending["timer"] = NoMsg
      /\ ~Coming({StartCode}) /\ ~Coming({StopCode})
  BY <1>1, ExpiryFindsNothing
<1>3. UNCHANGED <<queue, restart, bits, shutdownTimer, cfgVars, dns, drvVars>>
  BY DEF TimerRetryCb
<1>4. "timer" \in Senders /\ ConnectSta("AUTO_RECONNECT") \in Messages
  BY OrdersAreMessages DEF Senders, Requesters
<1>5. SameBut({ConnectCode})
  BY <1>1, <1>2, <1>3, <1>4, Codes, SameButReceive DEF drvVars
<1>6. /\ Same(ForeignCodes) /\ Same({LossCode}) /\ Same({GotIpCode})
      /\ Same({StartCode}) /\ Same({StopCode}) /\ Same({LoadCode})
  BY <1>5, Tracked, CodesAreDistinct DEF TokenCodes
<1>7. Coming({ConnectCode})'
  BY <1>1, <1>4, ComesFrom, Codes
<1>8. timerCmds' = <<"stop_retry">>
  BY <1>2, ConstantsAssumption DEF TimerRetryCb, PostTimer
<1> QED
  BY <1>1, <1>2, <1>3, <1>6, <1>7, <1>8 DEF TimerRetryCb

LEMMA ShutdownCbEffect ==
  ASSUME Alone, TypeOK, Quietness, TimerShutdownApCb
  PROVE  /\ Same(TokenCodes) /\ Same(RestoreCodes) /\ Same(ForeignCodes) /\ Same({LossCode})
         /\ Same({GotIpCode}) /\ Same({StartCode})
         /\ restart = "none" /\ ~Coming({StartCode}) /\ ~Coming({StopCode})
         /\ Blocks("timer", StopAp)
         /\ timerCmds = <<>> /\ timerCmds' = <<"stop_shutdown">>
         /\ shutdownTimer /\ ~shutdownTimer'
         /\ UNCHANGED <<queue, restart, bits, retryTimer, cfgVars, dns, drvVars>>
<1>1. MayExpire /\ Blocks("timer", StopAp)
  BY DEF TimerShutdownApCb
<1>2. /\ timerCmds = <<>> /\ restart = "none" /\ pending["timer"] = NoMsg
      /\ ~Coming({StartCode}) /\ ~Coming({StopCode})
  BY <1>1, ExpiryFindsNothing
<1>3. UNCHANGED <<queue, restart, bits, retryTimer, cfgVars, dns, drvVars>>
  BY DEF TimerShutdownApCb
<1>4. "timer" \in Senders /\ StopAp \in Messages
  BY OrdersAreMessages DEF Senders
<1>5. SameBut({StopCode})
  BY <1>1, <1>2, <1>3, <1>4, Codes, SameButReceive DEF drvVars
<1>6. /\ Same(TokenCodes) /\ Same(RestoreCodes) /\ Same(ForeignCodes) /\ Same({LossCode})
      /\ Same({GotIpCode}) /\ Same({StartCode})
  BY <1>5, Tracked, CodesAreDistinct DEF TokenCodes, RestoreCodes
<1>7. timerCmds' = <<"stop_shutdown">>
  BY <1>2, ConstantsAssumption DEF TimerShutdownApCb, PostTimer
<1> QED
  BY <1>1, <1>2, <1>3, <1>6, <1>7 DEF TimerShutdownApCb

LEMMA AnnounceComes ==
  ASSUME TypeOK, NEW e \in DriverEvents, Announce(e)
  PROVE  Has(events', {e.code}) /\ Coming({e.code})'
<1>1. Has(events', {e.code})
  BY HasAnnounced DEF TypeOK, EventsOK
<1> QED
  BY <1>1 DEF Coming

\* An address is announced.
LEMMA AddressEffect ==
  ASSUME TypeOK, ConnectSucceeds \/ AddressRenewed
  PROVE  /\ Same(TokenCodes) /\ Same(RestoreCodes) /\ Same(ForeignCodes) /\ Same({LossCode})
         /\ Same({StartCode}) /\ Same({StopCode})
         /\ Coming({GotIpCode})' /\ sta' = "connected"
         /\ Announce(GotIp) /\ GotIp \in DriverEvents
         /\ UNCHANGED <<queue, pending, restart, bits, timerVars, cfgVars, dns, scanning, mode>>
<1>1. Announce(GotIp) /\ GotIp \in DriverEvents /\ GotIp.code = GotIpCode
  BY AnnouncementsAreEvents, Codes DEF ConnectSucceeds, AddressRenewed
<1>2. UNCHANGED <<queue, pending, restart, bits, timerVars, cfgVars, dns, scanning, mode>>
      /\ sta' = "connected"
  <2>1. CASE ConnectSucceeds
    BY <2>1 DEF ConnectSucceeds
  <2>2. CASE AddressRenewed
    BY <2>2 DEF AddressRenewed
  <2> QED
    BY <2>1, <2>2
<1>3. SameBut({GotIpCode})
  BY <1>1, <1>2, SameButReceive
<1>4. /\ Same(TokenCodes) /\ Same(RestoreCodes) /\ Same(ForeignCodes) /\ Same({LossCode})
      /\ Same({StartCode}) /\ Same({StopCode})
  BY <1>3, Tracked, CodesAreDistinct DEF TokenCodes, RestoreCodes
<1>5. Coming({GotIpCode})'
  BY <1>1, AnnounceComes
<1> QED
  BY <1>1, <1>2, <1>4, <1>5

\* A disconnection is announced.
LEMMA DownEffect ==
  ASSUME TypeOK, Quietness, ConnectFails \/ LinkLost
  PROVE  /\ Same(RestoreCodes) /\ Same(ForeignCodes)
         /\ Same({GotIpCode}) /\ Same({StartCode}) /\ Same({StopCode})
         /\ Has(events', {LossCode}) /\ Coming({LossCode})'
         /\ sta # "idle" /\ sta' = "idle" /\ ~scanning'
         /\ \E r \in Reasons : Announce(Disconnected(r)) /\ Disconnected(r) \in DriverEvents
         /\ UNCHANGED <<queue, pending, restart, bits, timerVars, cfgVars, dns, mode>>
<1>1. PICK r \in Reasons : Announce(Disconnected(r))
  BY DEF ConnectFails, LinkLost, Reasons
<1>2. Disconnected(r) \in DriverEvents /\ Disconnected(r).code = LossCode
  BY AnnouncementsAreEvents, Codes
<1>3. UNCHANGED <<queue, pending, restart, bits, timerVars, cfgVars, dns, mode>>
      /\ sta # "idle" /\ sta' = "idle"
  <2>1. CASE ConnectFails
    BY <2>1 DEF ConnectFails
  <2>2. CASE LinkLost
    BY <2>2 DEF LinkLost
  <2> QED
    BY <2>1, <2>2
<1>7. ~scanning'
  <2>1. scanning' \in {scanning, FALSE} /\ scanning = FALSE
    BY DEF ConnectFails, LinkLost, ScanMayDie, Quietness, TypeOK
  <2> QED
    BY <2>1
<1>4. SameBut({LossCode})
  BY <1>1, <1>2, <1>3, SameButReceive
<1>5. /\ Same(RestoreCodes) /\ Same(ForeignCodes)
      /\ Same({GotIpCode}) /\ Same({StartCode}) /\ Same({StopCode})
  BY <1>4, Tracked, CodesAreDistinct DEF TokenCodes, RestoreCodes
<1>6. Has(events', {LossCode}) /\ Coming({LossCode})'
  BY <1>1, <1>2, AnnounceComes
<1> QED
  BY <1>1, <1>2, <1>3, <1>5, <1>6, <1>7

-----------------------------------------------------------------------------
(* The invariant of a device nobody uses                                   *)

\* Without a connection every address on its way has a loss behind it.
LossBehind ==
  sta # "connected" =>
    /\ \A i \in 1 .. Len(queue) : queue[i].code = GotIpCode =>
         \/ \E j \in (i + 1) .. Len(queue) : queue[j].code = LossCode
         \/ pending["event_loop"].code = LossCode
         \/ Has(events, {LossCode})
    /\ pending["event_loop"].code = GotIpCode => Has(events, {LossCode})

Cmd(c)  == \E i \in 1 .. Len(timerCmds) : timerCmds[i] = c
RetryOn == retryTimer \/ Cmd("start_retry")

\* What drives the station on is in one place: on its way, with the driver, or
\* with the retry timer.
Token ==
  /\ AtMostOne(TokenCodes) /\ AtMostOne({GotIpCode})
  /\ sta # "idle" => ~Coming(TokenCodes)
  /\ RetryOn => sta = "idle" /\ ~Coming(TokenCodes)

\* ... and in some place, unless the access point is, or will be, on.
Driven ==
  \/ Coming(TokenCodes) \/ sta # "idle" \/ RetryOn
  \/ Coming({StartCode}) \/ mode = "APSTA"

\* A stop of the retry timer never hits a start that is newer.
RetryOrder ==
  /\ retryTimer => ~Cmd("stop_retry")
  /\ \A i, j \in 1 .. Len(timerCmds) :
       i < j => ~(timerCmds[i] = "start_retry" /\ timerCmds[j] = "stop_retry")

\* The commands of a loss find room with the timer daemon.
Flying == Coming(RestoreCodes) \/ Coming({GotIpCode}) \/ sta = "connecting"
Room == RetryOn \/ Len(timerCmds) <= (IF Flying THEN 1 ELSE 2)

\* Nothing else drives a station whose access point is being started.
ApStarting == Coming({StartCode}) \/ restart = "start_ap"
ApWaits ==
  /\ AtMostOne({StartCode})
  /\ ApStarting => sta = "idle" /\ ~Coming(TokenCodes)

HijackWaits == dns => sta # "connected" \/ Coming({GotIpCode})
StatusHolds == json.urc = "CONNECTION_OK" => sta = "connected" \/ Coming({LossCode})

\* Apart from the task, nothing has begun.
DawnStage ==
  /\ events = <<>> /\ timerCmds = <<>> /\ ~retryTimer /\ ~shutdownTimer
  /\ sta = "idle" /\ ~scanning /\ mode = "STA" /\ restart = "none" /\ ~Overwriting
  /\ \A s \in Senders \ {"task"} : pending[s] = NoMsg
Dawn == pending["task"].code = ConnectCode => DawnStage /\ queue = <<>>

\* Orders to stop the access point, by the task itself or by the timer
StopInv ==
  /\ pending["task"].code = StopCode => ImmediateStop /\ ~ApStarting
  /\ shutdownTimer \/ Cmd("start_shutdown") \/ pending["timer"].code = StopCode
       => ~ImmediateStop
  /\ ~ImmediateStop => AtMostOne({StopCode})
  /\ ImmediateStop =>
       /\ Coming(RestoreCodes) \/ sta = "connecting" => ~Coming({StopCode})
       /\ Coming({GotIpCode}) => AtMostOne({StopCode})
       /\ pending["task"].code = StopCode =>
            One(queue, {StopCode}) /\ ~(Has(queue, {StopCode}) /\ Coming({GotIpCode}))

StartRoom == pending["task"].code = StartCode => Len(queue) < QueueCap

AloneInv ==
  /\ Fresh /\ Quietness /\ LossBehind /\ Token /\ Driven /\ RetryOrder /\ Room /\ ApWaits
  /\ HijackWaits /\ StatusHolds /\ Dawn /\ StopInv /\ StartRoom

-----------------------------------------------------------------------------
(* At power-on, and once what was saved is loaded, there is one message.   *)

AtPowerOn ==
  /\ DawnStage
  /\ \/ queue = <<>> /\ pending["task"].code \in RestoreCodes \cup {StartCode}
        /\ pending["task"] # UserOrder
     \/ queue = <<LoadRestore>> /\ pending["task"] = NoMsg
  /\ pending["task"] = LoadRestore \/ queue # <<>> =>
       bits = {} /\ config = NoNet /\ json = Cleared
  /\ bits \cap {"REQUEST_STA_CONNECT", "REQUEST_DISCONNECT", "SCAN"} = {}
  /\ json.urc # "CONNECTION_OK"

LEMMA PowerOnIsFine == TypeOK /\ AtPowerOn => AloneInv
<1> SUFFICES ASSUME TypeOK, AtPowerOn PROVE AloneInv
  OBVIOUS
<1>1. /\ DawnStage /\ events = <<>> /\ \A s \in Senders \ {"task"} : pending[s] = NoMsg
      /\ timerCmds = <<>> /\ ~retryTimer /\ ~shutdownTimer /\ restart = "none"
      /\ sta = "idle" /\ ~scanning /\ mode = "STA" /\ "task" \in Senders /\ ~Overwriting
  BY DEF AtPowerOn, DawnStage, Senders
<1>2. \A c : Has(<<LoadRestore>>, {c}) <=> c = LoadCode
  BY Codes DEF Has
<1>3. \A codes : One(<<LoadRestore>>, codes) /\ One(<<>>, codes)
  BY DEF One
<1>4. NoMsg.code = "NONE" /\ "NONE" \notin MsgCodes
  BY Codes, CodesAreDistinct
<1>5. \A codes \in SUBSET MsgCodes : AtMostOne(codes)
  <2> SUFFICES ASSUME NEW codes \in SUBSET MsgCodes PROVE AtMostOne(codes)
    OBVIOUS
  <2>1. \A s \in Senders \ {"task"} : pending[s].code \notin codes
    BY <1>1, <1>4
  <2>2. queue = <<>> \/ (queue = <<LoadRestore>> /\ pending["task"].code \notin codes)
    BY <1>4 DEF AtPowerOn
  <2> QED
    BY <1>1, <1>3, <2>1, <2>2, HasNone DEF AtMostOne
<1>6. PICK k \in RestoreCodes \cup {StartCode} :
        \A codes \in SUBSET MsgCodes : Coming(codes) <=> k \in codes
  <2>1. CASE queue = <<>>
    <3>1. pending["task"].code \in RestoreCodes \cup {StartCode}
      BY <2>1 DEF AtPowerOn
    <3>2. \A codes \in SUBSET MsgCodes : Coming(codes) <=> pending["task"].code \in codes
      BY <1>1, <1>4, <2>1, HasNone DEF Coming
    <3> QED
      BY <3>1, <3>2
  <2>2. CASE queue = <<LoadRestore>> /\ pending["task"] = NoMsg
    <3>1. \A codes : Has(<<LoadRestore>>, codes) <=> LoadCode \in codes
      BY Codes DEF Has
    <3>2. \A codes \in SUBSET MsgCodes : Coming(codes) <=> LoadCode \in codes
      BY <1>1, <1>4, <2>2, <3>1, HasNone DEF Coming
    <3> QED
      BY <3>2 DEF RestoreCodes
  <2> QED
    BY <2>1, <2>2 DEF AtPowerOn
<1>7. /\ ~Coming(ForeignCodes) /\ ~Coming({GotIpCode}) /\ ~Coming({StopCode})
      /\ Coming(TokenCodes) \/ Coming({StartCode})
      /\ ~(Coming(TokenCodes) /\ Coming({StartCode}))
      /\ AtMostOne(TokenCodes) /\ AtMostOne({GotIpCode}) /\ AtMostOne({StartCode})
      /\ AtMostOne({StopCode})
  BY <1>5, <1>6, CodesAreDistinct DEF TokenCodes, RestoreCodes
<1>8. ~Cmd("start_retry") /\ ~Cmd("stop_retry") /\ ~Cmd("start_shutdown") /\ ~RetryOn
      /\ Len(timerCmds) = 0
  BY <1>1 DEF Cmd, RetryOn
<1>9. /\ pending["timer"] = NoMsg /\ pending["httpd"] = NoMsg /\ pending["event_loop"] = NoMsg
      /\ pending["task"].code \in RestoreCodes \cup {StartCode, "NONE"}
  BY <1>1, <1>4 DEF Senders, AtPowerOn
<1>10. Fresh
  <2>1. CASE queue = <<>> /\ pending["task"] # LoadRestore
    <3>1. pending["task"] \in Messages \cup {NoMsg}
      BY <1>1 DEF TypeOK
    <3>2. pending["task"].code # LoadCode
      BY <2>1, <3>1, OrdersByCode
    <3>3. LoadCode \in MsgCodes
      BY DEF MsgCodes
    <3>4. ~Coming({LoadCode})
      BY <1>1, <1>4, <2>1, <3>2, <3>3, HasNone DEF Coming
    <3> QED
      BY <3>4 DEF Fresh
  <2>2. CASE queue = <<LoadRestore>> /\ pending["task"] = NoMsg
    BY <1>1, <2>2 DEF Fresh, BootStage, AtPowerOn
  <2>3. CASE queue = <<>> /\ pending["task"] = LoadRestore
    BY <1>1, <2>3 DEF Fresh, BootStage, AtPowerOn
  <2> QED
    BY <2>1, <2>2, <2>3 DEF AtPowerOn
<1>11. Quietness
  <2>1. ~Queued
    <3>1. LoadRestore # UserOrder
      BY UserOrderIsNoOther
    <3> QED
      BY <3>1 DEF AtPowerOn, Queued
  <2>2. ~Blocked
    BY <1>1, UserOrderIsNoOther DEF Blocked, AtPowerOn
  <2> QED
    BY <1>1, <1>4, <1>7, <1>9, <2>1, <2>2 DEF Quietness, AtPowerOn, RestoreCodes
<1>12. LossBehind
  <2>1. pending["event_loop"].code # GotIpCode
    BY <1>4, <1>9, CodesAreDistinct
  <2>2. ~Has(queue, {GotIpCode})
    BY <1>7 DEF Coming
  <2> QED
    BY <2>1, <2>2 DEF LossBehind, Has
<1>13. Token /\ Driven /\ RetryOrder /\ Room
  BY <1>1, <1>7, <1>8 DEF Token, Driven, RetryOrder, Room
<1>14. ApWaits /\ HijackWaits /\ StatusHolds
  BY <1>1, <1>7 DEF ApWaits, ApStarting, HijackWaits, StatusHolds, AtPowerOn
<1>15. Dawn /\ StartRoom
  <2>1. pending["task"].code # "NONE" => queue = <<>>
    BY <1>4 DEF AtPowerOn
  <2>2. pending["task"].code = ConnectCode => queue = <<>>
    BY <2>1 DEF ConnectCode
  <2>3. pending["task"].code = StartCode => Len(queue) < QueueCap
    BY <2>1, ConstantsAssumption DEF StartCode
  <2> QED
    BY <1>1, <2>2, <2>3 DEF Dawn, StartRoom
<1>16. StopInv
  <2>1. pending["task"].code # StopCode /\ pending["timer"].code # StopCode
    BY <1>4, <1>9, CodesAreDistinct DEF RestoreCodes, TokenCodes
  <2> QED
    BY <1>1, <1>7, <1>8, <2>1 DEF StopInv
<1> QED
  BY <1>10, <1>11, <1>12, <1>13, <1>14, <1>15, <1>16 DEF AloneInv

LEMMA PowerOnIsFineNext == TypeOK' /\ AtPowerOn' => AloneInv'
  BY PowerOnIsFine, PTL

LEMMA AloneInit == Init => AloneInv
<1>1. Init => TypeOK /\ AtPowerOn
  <2> SUFFICES ASSUME Init PROVE AtPowerOn
    BY TypeInit
  <2>1. LoadRestore # UserOrder /\ LoadRestore.code = LoadCode
    BY Codes, UserOrderIsNoOther
  <2> QED
    BY <2>1 DEF Init, Boot, AtPowerOn, DawnStage, Senders, RestoreCodes, Cleared, Status,
                Overwriting, NotPosting
<1> QED
  BY <1>1, PowerOnIsFine

LEMMA AloneReboot == ASSUME TypeOK, Reboot PROVE AloneInv'
<1>1. LoadRestore # UserOrder /\ LoadRestore.code = LoadCode
  BY Codes, UserOrderIsNoOther
<1>2. AtPowerOn'
  BY <1>1 DEF Reboot, AtPowerOn, DawnStage, Senders, RestoreCodes, Cleared, Status, UserOrder,
              Overwriting, NotPosting
<1>3. TypeOK'
  BY TypeReboot
<1> QED
  BY <1>2, <1>3, PowerOnIsFineNext

LEMMA AloneLoad ==
  ASSUME TypeOK, AloneInv, HandleLoadAndRestore PROVE AloneInv'
<1> USE DEF timerVars, cfgVars, drvVars
<1>1. Receive(LoadCode)
  BY DEF HandleLoadAndRestore, LoadCode
<1>2. BootStage
  BY <1>1, HeadComes DEF AloneInv, Fresh
<1>3. queue = <<LoadRestore>>
  BY <1>1, <1>2 DEF BootStage, Receive
<1>4. json.urc # "CONNECTION_OK"
  <2>1. ~Has(queue, {LossCode}) /\ events = <<>>
    BY <1>2, <1>3, Codes, CodesAreDistinct DEF Has, BootStage
  <2>2. \A s \in Senders : pending[s].code # LossCode
    <3>1. \A s \in Senders : pending[s] = NoMsg
      BY <1>1, <1>2 DEF BootStage, Receive
    <3> QED
      BY <3>1, Codes DEF LossCode
  <2>3. ~Coming({LossCode}) /\ sta = "idle"
    BY <1>2, <2>1, <2>2, HasNone DEF Coming, BootStage
  <2> QED
    BY <2>3 DEF AloneInv, StatusHolds
<1>5. PICK m \in {ConnectSta("RESTORE_CONNECTION"), StartAp} : Blocks("task", m)
  BY DEF HandleLoadAndRestore
<1>6. m.code \in RestoreCodes \cup {StartCode} /\ m # UserOrder /\ m # LoadRestore
  <2>1. m.code \in {ConnectCode, StartCode} /\ m # UserOrder
    BY Codes, UserOrderIsNoOther DEF Requesters
  <2> QED
    BY <2>1, Codes, CodesAreDistinct DEF RestoreCodes, TokenCodes
<1>7. queue' = <<>> /\ pending'["task"] = m
  BY <1>1, <1>3, <1>5 DEF Receive, Blocks, TypeOK, Senders
<1>8. \A s \in Senders \ {"task"} : pending'[s] = NoMsg
  BY <1>2, <1>5 DEF Blocks, TypeOK, BootStage
<1>9. DawnStage'
  BY <1>2, <1>8 DEF DawnStage, BootStage, HandleLoadAndRestore, Overwriting
<1>10. AtPowerOn'
  BY <1>4, <1>6, <1>7, <1>9
     DEF AtPowerOn, HandleLoadAndRestore, AloneInv, Quietness, UserOrder
<1>11. TypeOK'
  BY TypeOtherOrders
<1> QED
  BY <1>10, <1>11, PowerOnIsFineNext

-----------------------------------------------------------------------------
(* What is on its way together                                             *)

LEMMA OnlyOne ==
  ASSUME NEW codes, AtMostOne(codes), NEW a \in SUBSET codes, NEW b \in SUBSET codes,
         a \cap b = {}, Coming(a)
  PROVE  ~Coming(b)
<1>1. \A q : One(q, codes) => ~(Has(q, a) /\ Has(q, b))
  <2> SUFFICES ASSUME NEW q, One(q, codes), Has(q, a), Has(q, b) PROVE FALSE
    OBVIOUS
  <2>1. PICK i \in 1 .. Len(q) : q[i].code \in a
    BY DEF Has
  <2>2. PICK j \in 1 .. Len(q) : q[j].code \in b
    BY DEF Has
  <2>3. i = j
    BY <2>1, <2>2 DEF One
  <2> QED
    BY <2>1, <2>2, <2>3
<1>2. \A q : (Has(q, a) => Has(q, codes)) /\ (Has(q, b) => Has(q, codes))
  BY DEF Has
<1>3. CASE Has(events, a)
  <2>1. ~Has(events, b) /\ ~Has(queue, b)
    BY <1>1, <1>2, <1>3 DEF AtMostOne
  <2>2. \A s \in Senders : pending[s].code \notin b
    BY <1>2, <1>3 DEF AtMostOne
  <2> QED
    BY <2>1, <2>2 DEF Coming
<1>4. CASE Has(queue, a)
  <2>1. ~Has(events, b) /\ ~Has(queue, b)
    BY <1>1, <1>2, <1>4 DEF AtMostOne
  <2>2. \A s \in Senders : pending[s].code \notin b
    BY <1>2, <1>4 DEF AtMostOne
  <2> QED
    BY <2>1, <2>2 DEF Coming
<1>5. CASE \E s \in Senders : pending[s].code \in a
  <2>1. PICK s \in Senders : pending[s].code \in a
    BY <1>5
  <2>2. ~Has(events, codes) /\ ~Has(queue, codes)
    BY <2>1 DEF AtMostOne
  <2>3. \A t \in Senders : pending[t].code \notin b
    BY <2>1 DEF AtMostOne
  <2> QED
    BY <1>2, <2>2, <2>3 DEF Coming
<1> QED
  BY <1>3, <1>4, <1>5 DEF Coming

LEMMA NoneIsAtMostOne ==
  ASSUME NEW codes, ~Coming(codes) PROVE AtMostOne(codes)
  BY DEF AtMostOne, Coming, One, Has

LEMMA NoneIsAtMostOneNext ==
  ASSUME NEW codes, ~Coming(codes)' PROVE AtMostOne(codes)'
  BY DEF AtMostOne, Coming, One, Has

LEMMA ComingParts ==
  /\ Coming(TokenCodes) <=> Coming(RestoreCodes) \/ Coming({LossCode})
  /\ Coming(RestoreCodes) <=> Coming({LoadCode}) \/ Coming({ConnectCode})
<1>1. TokenCodes = RestoreCodes \cup {LossCode} /\ RestoreCodes = {LoadCode} \cup {ConnectCode}
  BY DEF TokenCodes, RestoreCodes
<1> QED
  BY <1>1, ComingUnion

LEMMA ComingPartsNext ==
  /\ Coming(TokenCodes)' <=> Coming(RestoreCodes)' \/ Coming({LossCode})'
  /\ Coming(RestoreCodes)' <=> Coming({LoadCode})' \/ Coming({ConnectCode})'
  BY ComingParts, PTL

\* An address without a connection has its loss behind it, and nothing else
\* drives the station.
LEMMA AddressAlone ==
  ASSUME TypeOK, LossExplains, AloneInv, Coming({GotIpCode})
  PROVE  /\ sta = "connected" \/ Coming({LossCode})
         /\ ~Coming(RestoreCodes) /\ sta # "connecting" /\ ~ApStarting
<1>1. sta # "connected" => Coming({LossCode})
  <2> SUFFICES ASSUME sta # "connected", ~Has(events, {LossCode})
               PROVE  Coming({LossCode})
    BY DEF Coming
  <2>1. ~Has(events, {GotIpCode})
    BY DEF LossExplains, Has, GotIpCode, LossCode, IsLoss
  <2>2. \A s \in Senders : pending[s].code # GotIpCode
    <3>1. pending["event_loop"].code # GotIpCode
      BY DEF AloneInv, LossBehind
    <3>2. \A s \in {"task", "timer", "httpd"} : pending[s].code # GotIpCode
      BY Codes DEF AloneInv, Quietness, GotIpCode, LoadCode, ConnectCode, StartCode, StopCode
    <3> QED
      BY <3>1, <3>2 DEF Senders
  <2>3. PICK i \in 1 .. Len(queue) : queue[i].code = GotIpCode
    BY <2>1, <2>2 DEF Coming, Has
  <2>4. \/ \E j \in (i + 1) .. Len(queue) : queue[j].code = LossCode
        \/ pending["event_loop"].code = LossCode
    BY <2>3 DEF AloneInv, LossBehind
  <2>5. CASE \E j \in (i + 1) .. Len(queue) : queue[j].code = LossCode
    <3>1. \A j \in (i + 1) .. Len(queue) : j \in 1 .. Len(queue)
      BY DEF TypeOK
    <3> QED
      BY <2>5, <3>1 DEF Coming, Has
  <2>6. CASE pending["event_loop"].code = LossCode
    BY <2>6 DEF Coming, Senders
  <2> QED
    BY <2>4, <2>5, <2>6
<1>2. CASE sta = "connected"
  <2>1. ~Coming(TokenCodes)
    BY <1>2 DEF AloneInv, Token
  <2> QED
    BY <1>2, <2>1, ComingParts DEF AloneInv, ApWaits
<1>3. CASE Coming({LossCode})
  <2>1. Coming(TokenCodes)
    BY <1>3, ComingParts
  <2>2. sta = "idle" /\ ~ApStarting
    BY <2>1 DEF AloneInv, Token, ApWaits
  <2>3. ~Coming(RestoreCodes)
    <3>1. {LossCode} \in SUBSET TokenCodes /\ RestoreCodes \in SUBSET TokenCodes
          /\ {LossCode} \cap RestoreCodes = {} /\ AtMostOne(TokenCodes)
      BY CodesAreDistinct DEF TokenCodes, RestoreCodes, AloneInv, Token
    <3> QED
      BY <1>3, <3>1, OnlyOne
  <2> QED
    BY <1>3, <2>2, <2>3
<1> QED
  BY <1>1, <1>2, <1>3

-----------------------------------------------------------------------------
(* Each part of the invariant is kept by every step but power-on's and the *)
(* order to load, which leave one message.                                 *)

Onward == [Next]_vars /\ ~Reboot /\ ~HandleLoadAndRestore

\* Where pending messages come from and go to
PendingStep ==
  \/ pending' = pending
  \/ Blocks("task", StartAp) \/ Blocks("task", StopAp)
  \/ Blocks("timer", ConnectSta("AUTO_RECONNECT")) \/ Blocks("timer", StopAp)

LEMMA AlonePending ==
  ASSUME Alone, TypeOK, Quietness, Onward
  PROVE  (\E s \in Senders : Send(s)) \/ EventHandler \/ PendingStep
<1>1. CASE HandleConnectSta \/ HandleStaDisconnected
  BY <1>1, ConnectEffect, LossEffect DEF PendingStep
<1>2. CASE HandleStartAp \/ HandleStopAp \/ HandleGotIp
  BY <1>2, StartApEffect, StopApEffect, GotIpEffect DEF PendingStep
<1>3. CASE TimerRetryCb \/ TimerShutdownApCb
  BY <1>3, RetryCbEffect, ShutdownCbEffect DEF PendingStep
<1>4. CASE ConnectSucceeds \/ ConnectFails \/ LinkLost \/ AddressRenewed
  BY <1>4, AddressEffect, DownEffect DEF PendingStep
<1>5. CASE TimerCommand \/ FinishStartAp \/ FinishStopAp \/ UNCHANGED vars
  BY <1>5 DEF TimerCommand, FinishStartAp, FinishStopAp, vars, PendingStep
<1> QED
  BY <1>1, <1>2, <1>3, <1>4, <1>5, OnlyTheDevice DEF Onward, Relay

LEMMA UserFree ==
  ASSUME Alone, TypeOK, Quietness, Onward
  PROVE  ~Queued' /\ ~Blocked'
<1>1. CASE PendingStep
  <2>1. ~Blocked'
    BY <1>1, UserOrderIsNoOther
       DEF PendingStep, Blocks, Blocked, Quietness, TypeOK, Requesters, UserOrder
  <2>2. queue' = queue \/ \E c : Receive(c)
    <3>1. CASE \E s \in Senders : Send(s)
      <4>1. PICK s \in Senders : Send(s)
        BY <3>1
      <4>2. pending'[s] = NoMsg /\ pending[s] # NoMsg
            /\ \A t \in Senders \ {s} : pending'[t] = pending[t]
        BY <4>1 DEF Send, TypeOK
      <4>3. StartAp # NoMsg /\ StopAp # NoMsg /\ ConnectSta("AUTO_RECONNECT") # NoMsg
        BY DEF StartAp, StopAp, ConnectSta, NoMsg, Msg
      <4>4. \A t \in Senders : pending'[t] # NoMsg => t # s
        BY <4>2
      <4>5. FALSE
        BY <1>1, <4>2, <4>3 DEF PendingStep, Blocks, TypeOK, Senders
      <4> QED
        BY <4>5
    <3>2. CASE HandleConnectSta \/ HandleStaDisconnected
      BY <3>2, ConnectEffect, LossEffect
    <3>3. CASE HandleStartAp \/ HandleStopAp \/ HandleGotIp
      BY <3>3, StartApEffect, StopApEffect, GotIpEffect
    <3>4. CASE TimerRetryCb \/ TimerShutdownApCb
      BY <3>4, RetryCbEffect, ShutdownCbEffect
    <3>5. CASE ConnectSucceeds \/ ConnectFails \/ LinkLost \/ AddressRenewed
      BY <3>5, AddressEffect, DownEffect
    <3>6. CASE TimerCommand \/ FinishStartAp \/ FinishStopAp \/ UNCHANGED vars \/ EventHandler
      BY <3>6 DEF TimerCommand, FinishStartAp, FinishStopAp, vars, EventHandler
    <3> QED
      BY <3>1, <3>2, <3>3, <3>4, <3>5, <3>6, OnlyTheDevice DEF Onward, Relay
  <2>3. ~Queued'
    BY <2>2, QueuedReceive DEF Quietness, Queued, UserOrder
  <2> QED
    BY <2>1, <2>3
<1>2. CASE \E s \in Senders : Send(s)
  <2>1. PICK s \in Senders : Send(s)
    BY <1>2
  <2>2. ~Queued'
    BY <2>1, QueuedSend DEF Quietness, Blocked
  <2>3. ~Blocked'
    BY <2>1, UserOrderIsNoOther DEF Quietness, Blocked, Send, TypeOK, UserOrder
  <2> QED
    BY <2>2, <2>3
<1>3. CASE EventHandler
  <2>1. ~Queued'
    BY <1>3 DEF EventHandler, Quietness, Queued, UserOrder
  <2>2. Head(events) \in DriverEvents
    BY <1>3, BoundedTail DEF TypeOK, EventHandler
  <2>3. Head(events) # UserOrder
    BY <2>2, UserOrderIsNoOther DEF DriverEvents, ApStart, ApStop, Msg
  <2>4. ~Blocked'
    BY <1>3, <2>3 DEF EventHandler, Blocks, Blocked, Quietness, TypeOK, UserOrder
  <2> QED
    BY <2>1, <2>4
<1> QED
  BY <1>1, <1>2, <1>3, AlonePending

LEMMA QuietnessNext ==
  ASSUME Alone, TypeOK, Quietness, Onward PROVE Quietness'
<1> DEFINE userBits == {"REQUEST_STA_CONNECT", "REQUEST_DISCONNECT", "SCAN"}
<1>1. /\ ~Coming(ForeignCodes)' /\ ~scanning' /\ bits' \cap userBits = {}
  <2>0. ~Coming(ForeignCodes) /\ ~scanning /\ bits \cap userBits = {}
    BY DEF Quietness
  <2> SUFFICES Same(ForeignCodes) /\ ~scanning' /\ bits' \cap userBits = {}
    BY <2>0 DEF Same
  <2>1. CASE HandleConnectSta
    BY <2>0, <2>1, ConnectEffect
  <2>2. CASE HandleStaDisconnected
    BY <2>0, <2>2, LossEffect DEF drvVars
  <2>3. CASE HandleStartAp \/ HandleStopAp
    BY <2>0, <2>3, StartApEffect, StopApEffect
  <2>4. CASE HandleGotIp
    BY <2>0, <2>4, GotIpEffect DEF drvVars
  <2>5. CASE TimerRetryCb \/ TimerShutdownApCb
    BY <2>0, <2>5, RetryCbEffect, ShutdownCbEffect DEF drvVars
  <2>6. CASE ConnectSucceeds \/ ConnectFails \/ LinkLost \/ AddressRenewed
    BY <2>0, <2>6, AddressEffect, DownEffect
  <2>7. CASE Relay
    <3>1. Same(ForeignCodes)
      BY <2>7, RelayKeeps DEF KeepsAll
    <3>2. scanning' = scanning
      BY <2>7 DEF Relay, Send, EventHandler, TimerCommand, FinishStartAp, FinishStopAp,
                  vars, drvVars
    <3>3. bits' = bits \/ EventHandler
      BY <2>7 DEF Relay, Send, TimerCommand, FinishStartAp, FinishStopAp, vars
    <3>4. ASSUME EventHandler PROVE bits' \cap userBits = {}
      <4>1. Head(events) \in DriverEvents /\ bits' = EventBits(Head(events))
        BY <3>4, BoundedTail DEF TypeOK, EventHandler
      <4>2. Head(events).code \in {"EVENT_SCAN_DONE", "EVENT_STA_DISCONNECTED",
                                   "AP_START", "AP_STOP", "EVENT_STA_GOT_IP"}
        BY <4>1, EventCodes DEF DriverEvents, PostedEvents
      <4> QED
        BY <2>0, <4>1, <4>2 DEF EventBits
    <3> QED
      BY <2>0, <3>1, <3>2, <3>3, <3>4
  <2> QED
    BY <2>1, <2>2, <2>3, <2>4, <2>5, <2>6, <2>7, OnlyTheDevice DEF Onward
<1>2. /\ pending'["httpd"] = NoMsg
      /\ pending'["timer"].code \in {"NONE", ConnectCode, StopCode}
      /\ pending'["task"].code \in {"NONE", LoadCode, ConnectCode, StartCode, StopCode}
      /\ pending'["event_loop"].code \in {"NONE", GotIpCode, LossCode}
  <2>1. CASE PendingStep
    BY <2>1, Codes DEF PendingStep, Blocks, Quietness, TypeOK, Senders
  <2>2. CASE \E s \in Senders : Send(s)
    BY <2>2, Codes DEF Send, Quietness, TypeOK, Senders
  <2>3. CASE EventHandler
    <3>1. Head(events) \in DriverEvents /\ events \in Seq(DriverEvents) /\ events # <<>>
      BY <2>3, BoundedTail DEF TypeOK, EventHandler
    <3>2. Head(events).code # ScanDoneCode
      <4>1. Has(events, {ScanDoneCode}) <=>
              Head(events).code \in {ScanDoneCode} \/ Has(Tail(events), {ScanDoneCode})
        BY <3>1, HasTail
      <4>2. ~Coming({ScanDoneCode})
        BY ComingIn DEF Quietness, ForeignCodes
      <4> QED
        BY <4>1, <4>2 DEF Coming
    <3>3. Head(events) \in Messages => Head(events).code \in {GotIpCode, LossCode}
      <4>1. Head(events) \in Messages => Head(events) \in PostedEvents
        <5>1. ApStart \notin Messages /\ ApStop \notin Messages
          BY CodesOfMessages, Codes
             DEF MsgCodes, LoadCode, ConnectCode, LossCode, GotIpCode, StartCode, StopCode,
                 EraseCode, ScanDoneCode, ScanCode
        <5> QED
          BY <3>1, <5>1 DEF DriverEvents
      <4> QED
        BY <4>1, <3>2, Codes DEF PostedEvents
    <3> QED
      BY <2>3, <3>3 DEF EventHandler, Blocks, Quietness, TypeOK, Senders
  <2> QED
    BY <2>1, <2>2, <2>3, AlonePending
<1>3. ~Overwriting'
  <2>1. UNCHANGED posting
    BY OnlyTheDevice
       DEF Onward, Relay, HandleLoadAndRestore, HandleConnectSta, HandleStaDisconnected,
           HandleStartAp, HandleStopAp, HandleGotIp, TimerRetryCb, TimerShutdownApCb,
           ConnectSucceeds, ConnectFails, LinkLost, AddressRenewed, Send, EventHandler,
           TimerCommand, FinishStartAp, FinishStopAp, vars, cfgVars
  <2> QED
    BY <2>1 DEF Quietness, Overwriting
<1> QED
  BY <1>1, <1>2, <1>3, UserFree DEF Quietness, Queued, Blocked, UserOrder

LEMMA LossBehindReceive ==
  ASSUME TypeOK, LossBehind, NEW k, Receive(k),
         pending'["event_loop"] = pending["event_loop"],
         Has(events, {LossCode}) => Has(events', {LossCode}),
         sta' # "connected" => sta # "connected"
  PROVE  LossBehind'
<1> SUFFICES ASSUME sta' # "connected", sta # "connected" PROVE LossBehind'
  BY DEF LossBehind
<1>1. /\ Len(queue') = Len(queue) - 1 /\ Len(queue) \in Nat
      /\ \A i \in 1 .. Len(queue') : i + 1 \in 1 .. Len(queue) /\ queue'[i] = queue[i + 1]
  <2>1. queue \in Seq(Messages) /\ queue # <<>> /\ queue' = Tail(queue)
    BY DEF TypeOK, Receive
  <2> QED
    BY <2>1
<1>2. ASSUME NEW i \in 1 .. Len(queue'), queue'[i].code = GotIpCode
      PROVE  \/ \E j \in (i + 1) .. Len(queue') : queue'[j].code = LossCode
             \/ pending'["event_loop"].code = LossCode
             \/ Has(events', {LossCode})
  <2>1. \/ \E j \in (i + 2) .. Len(queue) : queue[j].code = LossCode
        \/ pending["event_loop"].code = LossCode
        \/ Has(events, {LossCode})
    <3>1. i + 1 \in 1 .. Len(queue) /\ queue[i + 1].code = GotIpCode /\ (i + 1) + 1 = i + 2
      BY <1>1, <1>2
    <3>2. \/ \E j \in ((i + 1) + 1) .. Len(queue) : queue[j].code = LossCode
          \/ pending["event_loop"].code = LossCode
          \/ Has(events, {LossCode})
      BY <3>1 DEF LossBehind
    <3> QED
      BY <3>1, <3>2
  <2>2. CASE \E j \in (i + 2) .. Len(queue) : queue[j].code = LossCode
    <3>1. PICK j \in (i + 2) .. Len(queue) : queue[j].code = LossCode
      BY <2>2
    <3>2. j - 1 \in (i + 1) .. Len(queue') /\ queue'[j - 1].code = LossCode
      <4>1. j - 1 \in (i + 1) .. Len(queue') /\ j - 1 \in 1 .. Len(queue') /\ (j - 1) + 1 = j
        BY <1>1
      <4> QED
        BY <1>1, <3>1, <4>1
    <3> QED
      BY <3>2
  <2> QED
    BY <2>1, <2>2
<1> QED
  BY <1>2 DEF LossBehind

LEMMA LossBehindQuiet ==
  ASSUME LossBehind, queue' = queue, pending'["event_loop"] = pending["event_loop"],
         Has(events, {LossCode}) => Has(events', {LossCode}),
         sta' # "connected" => sta # "connected"
  PROVE  LossBehind'
  BY DEF LossBehind

LEMMA LossBehindSend ==
  ASSUME TypeOK, Quietness, LossBehind, NEW s \in Senders, Send(s) PROVE LossBehind'
<1>1. /\ queue \in Seq(Messages) /\ queue' = Append(queue, pending[s])
      /\ UNCHANGED <<events, sta>>
  BY DEF TypeOK, Send, drvVars
<1> SUFFICES ASSUME sta # "connected" PROVE LossBehind'
  BY <1>1 DEF LossBehind
<1>2. /\ Len(queue') = Len(queue) + 1 /\ Len(queue) \in Nat
      /\ queue'[Len(queue) + 1] = pending[s]
      /\ \A i \in 1 .. Len(queue) : queue'[i] = queue[i]
  BY <1>1
<1>3. pending'["event_loop"] = IF s = "event_loop" THEN NoMsg ELSE pending["event_loop"]
  BY DEF Send, TypeOK, Senders
<1>4. pending'["event_loop"].code = GotIpCode => Has(events', {LossCode})
  BY <1>1, <1>3, Codes DEF LossBehind, GotIpCode
<1>5. ASSUME NEW i \in 1 .. Len(queue), queue[i].code = GotIpCode
      PROVE  \/ \E j \in (i + 1) .. Len(queue') : queue'[j].code = LossCode
             \/ pending'["event_loop"].code = LossCode
             \/ Has(events', {LossCode})
  <2>1. CASE \E j \in (i + 1) .. Len(queue) : queue[j].code = LossCode
    <3>1. PICK j \in (i + 1) .. Len(queue) : queue[j].code = LossCode
      BY <2>1
    <3>2. j \in 1 .. Len(queue) /\ j \in (i + 1) .. Len(queue')
      BY <1>2
    <3> QED
      BY <1>2, <3>1, <3>2
  <2>2. CASE pending["event_loop"].code = LossCode
    <3>1. CASE s = "event_loop"
      <4>1. Len(queue) + 1 \in (i + 1) .. Len(queue')
        BY <1>2
      <4> QED
        BY <1>2, <2>2, <3>1, <4>1
    <3>2. CASE s # "event_loop"
      BY <1>3, <2>2, <3>2
    <3> QED
      BY <3>1, <3>2
  <2>3. CASE Has(events, {LossCode})
    BY <1>1, <2>3
  <2> QED
    BY <1>5, <2>1, <2>2, <2>3 DEF LossBehind
<1>6. pending[s].code = GotIpCode => Has(events', {LossCode})
  <2>1. s # "event_loop" => pending[s].code # GotIpCode
    BY Codes DEF Quietness, Senders, GotIpCode, LoadCode, ConnectCode, StartCode, StopCode
  <2> QED
    BY <1>1, <2>1 DEF LossBehind
<1>7. \A i \in 1 .. Len(queue') : i \in 1 .. Len(queue) \/ i = Len(queue) + 1
  BY <1>2
<1> QED
  BY <1>2, <1>4, <1>5, <1>6, <1>7 DEF LossBehind

LEMMA LossBehindEventHandler ==
  ASSUME TypeOK, LossExplains, LossBehind, EventHandler PROVE LossBehind'
<1> DEFINE e == Head(events)
<1>1. /\ events \in Seq(DriverEvents) /\ events # <<>> /\ events' = Tail(events)
      /\ e \in DriverEvents /\ UNCHANGED <<queue, sta>> /\ pending["event_loop"] = NoMsg
  BY BoundedTail DEF TypeOK, EventHandler
<1> SUFFICES ASSUME sta # "connected" PROVE LossBehind'
  BY <1>1 DEF LossBehind
<1>2. Has(events, {LossCode}) <=> e.code = LossCode \/ Has(events', {LossCode})
  BY <1>1, HasTail
<1>3. e \in Messages => pending'["event_loop"] = e
  BY DEF EventHandler, Blocks, TypeOK, Senders
<1>4. e \notin Messages => pending'["event_loop"] = NoMsg
  BY <1>1 DEF EventHandler
<1>5. e.code = LossCode => e \in Messages
  BY <1>1, Codes DEF DriverEvents, Messages, LossCode
<1>6. e.code = GotIpCode => Has(events', {LossCode})
  <2> SUFFICES ASSUME e.code = GotIpCode PROVE Has(events', {LossCode})
    OBVIOUS
  <2>1. 1 \in 1 .. Len(events) /\ events[1] = e /\ Len(events) \in Nat
        /\ Len(events') = Len(events) - 1
        /\ \A i \in 1 .. Len(events') : events'[i] = events[i + 1]
    BY <1>1
  <2>2. PICK j \in 2 .. Len(events) : IsLoss(events[j])
    BY <2>1 DEF LossExplains, GotIpCode
  <2>3. j - 1 \in 1 .. Len(events') /\ (j - 1) + 1 = j
    BY <2>1
  <2>4. events'[j - 1] = events[j]
    BY <2>1, <2>3
  <2> QED
    BY <2>2, <2>3, <2>4 DEF Has, IsLoss, LossCode
<1>7. NoMsg.code \notin {GotIpCode, LossCode}
  BY Codes DEF GotIpCode, LossCode
<1> HIDE DEF e
<1> QED
  BY <1>1, <1>2, <1>3, <1>4, <1>5, <1>6, <1>7 DEF LossBehind

LEMMA LossBehindNext ==
  ASSUME Alone, TypeOK, LossExplains, AloneInv, Onward PROVE LossBehind'
<1>0. Quietness /\ LossBehind
  BY DEF AloneInv
<1>1. \A m : Blocks("task", m) \/ Blocks("timer", m)
               => pending'["event_loop"] = pending["event_loop"]
  BY DEF Blocks, TypeOK, Senders
<1>2. \A e \in DriverEvents : Announce(e) =>
        (Has(events, {LossCode}) => Has(events', {LossCode}))
  BY HasAnnounced DEF TypeOK, EventsOK
<1>3. CASE HandleConnectSta
  BY <1>0, <1>3, ConnectEffect, LossBehindReceive
<1>4. CASE HandleStaDisconnected
  <2>1. Receive(LossCode) /\ pending'["event_loop"] = pending["event_loop"]
    BY <1>0, <1>1, <1>4, LossEffect
  <2>2. UNCHANGED <<events, sta>>
    BY <1>0, <1>4, LossEffect DEF drvVars
  <2> QED
    BY <1>0, <2>1, <2>2, LossBehindReceive
<1>5. CASE HandleStartAp \/ HandleStopAp
  <2>1. \E k : Receive(k)
    BY <1>5, StartApEffect, StopApEffect
  <2>2. UNCHANGED <<pending, sta>>
    BY <1>5, StartApEffect, StopApEffect
  <2>3. events' = events \/ Announce(ApStart) \/ Announce(ApStop)
    BY <1>5 DEF HandleStartAp, HandleStopAp
  <2>4. Has(events, {LossCode}) => Has(events', {LossCode})
    BY <1>2, <2>3, AnnouncementsAreEvents
  <2> QED
    BY <1>0, <2>1, <2>2, <2>4, LossBehindReceive
<1>6. CASE HandleGotIp
  <2>1. Receive(GotIpCode) /\ pending'["event_loop"] = pending["event_loop"]
    BY <1>1, <1>6, GotIpEffect
  <2>2. UNCHANGED <<events, sta>>
    BY <1>6, GotIpEffect DEF drvVars
  <2> QED
    BY <1>0, <2>1, <2>2, LossBehindReceive
<1>7. CASE TimerRetryCb \/ TimerShutdownApCb
  <2>1. pending'["event_loop"] = pending["event_loop"]
    BY <1>0, <1>1, <1>7, RetryCbEffect, ShutdownCbEffect
  <2>2. UNCHANGED <<queue, events, sta>>
    BY <1>0, <1>7, RetryCbEffect, ShutdownCbEffect DEF drvVars
  <2> QED
    BY <1>0, <2>1, <2>2, LossBehindQuiet
<1>8. CASE ConnectSucceeds \/ AddressRenewed
  <2>1. sta' = "connected"
    BY <1>8, AddressEffect
  <2> QED
    BY <2>1 DEF LossBehind
<1>9. CASE ConnectFails \/ LinkLost
  <2>1. Has(events', {LossCode})
    BY <1>0, <1>9, DownEffect
  <2> QED
    BY <2>1 DEF LossBehind
<1>10. CASE \E s \in Senders : Send(s)
  BY <1>0, <1>10, LossBehindSend
<1>11. CASE EventHandler
  BY <1>0, <1>11, LossBehindEventHandler
<1>12. CASE TimerCommand \/ FinishStartAp \/ FinishStopAp \/ UNCHANGED vars
  <2>1. UNCHANGED <<queue, pending, events, sta>>
    BY <1>12 DEF TimerCommand, FinishStartAp, FinishStopAp, vars, drvVars
  <2> QED
    BY <1>0, <2>1, LossBehindQuiet
<1> QED
  BY <1>0, <1>3, <1>4, <1>5, <1>6, <1>7, <1>8, <1>9, <1>10, <1>11, <1>12, OnlyTheDevice
     DEF Onward, Relay

-----------------------------------------------------------------------------
(* The retry timer and its commands                                        *)

LEMMA CmdAppend ==
  ASSUME TypeOK, NEW c \in TimerCommands, timerCmds' = Append(timerCmds, c)
  PROVE  /\ \A d : Cmd(d)' <=> Cmd(d) \/ d = c
         /\ Len(timerCmds') = Len(timerCmds) + 1
         /\ \A i \in 1 .. Len(timerCmds') : i = Len(timerCmds) + 1 \/ i \in 1 .. Len(timerCmds)
         /\ timerCmds'[Len(timerCmds) + 1] = c
         /\ \A i \in 1 .. Len(timerCmds) : timerCmds'[i] = timerCmds[i]
<1>1. timerCmds \in Seq(TimerCommands)
  BY DEF TypeOK
<1>2. /\ Len(timerCmds') = Len(timerCmds) + 1 /\ Len(timerCmds) \in Nat
      /\ timerCmds'[Len(timerCmds) + 1] = c
      /\ \A i \in 1 .. Len(timerCmds) : timerCmds'[i] = timerCmds[i] /\ i \in 1 .. Len(timerCmds')
  BY <1>1
<1>3. Len(timerCmds) + 1 \in 1 .. Len(timerCmds')
  BY <1>2
<1>4. \A i \in 1 .. Len(timerCmds') : i = Len(timerCmds) + 1 \/ i \in 1 .. Len(timerCmds)
  BY <1>2
<1>5. \A d : Cmd(d)' <=> Cmd(d) \/ d = c
  BY <1>2, <1>3, <1>4 DEF Cmd
<1> QED
  BY <1>2, <1>4, <1>5

LEMMA CmdPost ==
  ASSUME TypeOK, NEW c \in TimerCommands, PostTimer(c)
  PROVE  /\ \A d : d # c => (Cmd(d)' <=> Cmd(d))
         /\ Len(timerCmds') \in {Len(timerCmds), Len(timerCmds) + 1}
<1>1. timerCmds' = timerCmds \/ timerCmds' = Append(timerCmds, c)
  BY DEF PostTimer
<1>2. CASE timerCmds' = timerCmds
  BY <1>2 DEF Cmd
<1>3. CASE timerCmds' = Append(timerCmds, c)
  BY <1>3, CmdAppend
<1> QED
  BY <1>1, <1>2, <1>3

LEMMA CmdHead ==
  ASSUME TypeOK, TimerCommand
  PROVE  /\ Cmd(Head(timerCmds)) /\ Head(timerCmds) \in TimerCommands
         /\ \A d : Cmd(d) <=> d = Head(timerCmds) \/ Cmd(d)'
         /\ Len(timerCmds') = Len(timerCmds) - 1 /\ Len(timerCmds) \in Nat \ {0}
         /\ timerCmds[1] = Head(timerCmds)
         /\ \A i \in 1 .. Len(timerCmds') :
              timerCmds'[i] = timerCmds[i + 1] /\ i + 1 \in 1 .. Len(timerCmds)
<1>1. timerCmds \in Seq(TimerCommands) /\ timerCmds # <<>> /\ timerCmds' = Tail(timerCmds)
  BY DEF TypeOK, TimerCommand
<1>2. /\ Len(timerCmds') = Len(timerCmds) - 1 /\ Len(timerCmds) \in Nat \ {0}
      /\ timerCmds[1] = Head(timerCmds) /\ Head(timerCmds) \in TimerCommands
      /\ \A i \in 1 .. Len(timerCmds') :
           timerCmds'[i] = timerCmds[i + 1] /\ i + 1 \in 1 .. Len(timerCmds)
  BY <1>1
<1>3. 1 \in 1 .. Len(timerCmds)
  BY <1>2
<1>4. \A j \in 1 .. Len(timerCmds) : j = 1 \/ (j - 1 \in 1 .. Len(timerCmds') /\ (j - 1) + 1 = j)
  BY <1>2
<1>5. ASSUME NEW d PROVE Cmd(d) <=> d = Head(timerCmds) \/ Cmd(d)'
  <2>1. Cmd(d) => d = Head(timerCmds) \/ Cmd(d)'
    <3> SUFFICES ASSUME NEW j \in 1 .. Len(timerCmds), timerCmds[j] = d
                 PROVE  d = Head(timerCmds) \/ Cmd(d)'
      BY DEF Cmd
    <3>1. CASE j = 1
      BY <1>2, <3>1
    <3>2. CASE j # 1
      <4>1. j - 1 \in 1 .. Len(timerCmds') /\ timerCmds'[j - 1] = d
        BY <1>2, <1>4, <3>2
      <4> QED
        BY <4>1 DEF Cmd
    <3> QED
      BY <3>1, <3>2
  <2>2. Cmd(d)' => Cmd(d)
    BY <1>2 DEF Cmd
  <2>3. d = Head(timerCmds) => Cmd(d)
    BY <1>2, <1>3 DEF Cmd
  <2> QED
    BY <2>1, <2>2, <2>3
<1> QED
  BY <1>2, <1>5

\* The daemon takes a start for the running timer and never loses it.
LEMMA DaemonKeepsRetry ==
  ASSUME TypeOK, RetryOrder, TimerCommand
  PROVE  /\ RetryOn' <=> RetryOn
         /\ RetryOrder'
<1> DEFINE h == Head(timerCmds)
<1>1. h \in {"start_retry", "stop_retry", "start_shutdown", "stop_shutdown"}
  BY CmdHead DEF TimerCommands
<1>2. retryTimer' = CASE h = "start_retry" -> TRUE
                      [] h = "stop_retry" -> FALSE
                      [] OTHER -> retryTimer
  BY DEF TimerCommand
<1>3. RetryOn' <=> RetryOn
  <2>1. CASE h = "start_retry"
    BY <1>2, <2>1, CmdHead DEF RetryOn
  <2>2. CASE h = "stop_retry"
    <3>1. ~retryTimer
      BY <2>2, CmdHead DEF RetryOrder
    <3>2. ~retryTimer' /\ (Cmd("start_retry") <=> Cmd("start_retry")')
      BY <1>2, <2>2, CmdHead
    <3> QED
      BY <3>1, <3>2 DEF RetryOn
  <2>3. CASE h \notin {"start_retry", "stop_retry"}
    <3>1. retryTimer' = retryTimer /\ (Cmd("start_retry") <=> Cmd("start_retry")')
      BY <1>2, <2>3, CmdHead
    <3> QED
      BY <3>1 DEF RetryOn
  <2> QED
    BY <2>1, <2>2, <2>3
<1>4. retryTimer' => ~Cmd("stop_retry")'
  <2>1. CASE h = "start_retry"
    <3>1. ASSUME Cmd("stop_retry")' PROVE FALSE
      <4>1. PICK i \in 1 .. Len(timerCmds') : timerCmds'[i] = "stop_retry"
        BY <3>1 DEF Cmd
      <4>2. i + 1 \in 1 .. Len(timerCmds) /\ 1 \in 1 .. Len(timerCmds) /\ 1 < i + 1
        BY CmdHead
      <4>3. timerCmds[1] = "start_retry" /\ timerCmds[i + 1] = "stop_retry"
        BY <2>1, <4>1, CmdHead
      <4> QED
        BY <4>2, <4>3 DEF RetryOrder
    <3> QED
      BY <3>1
  <2>2. CASE h # "start_retry"
    <3>1. retryTimer' => retryTimer
      BY <1>1, <1>2, <2>2
    <3>2. Cmd("stop_retry")' => Cmd("stop_retry")
      BY CmdHead
    <3> QED
      BY <3>1, <3>2 DEF RetryOrder
  <2> QED
    BY <2>1, <2>2
<1>5. ASSUME NEW i \in 1 .. Len(timerCmds'), NEW j \in 1 .. Len(timerCmds'), i < j
      PROVE  ~(timerCmds'[i] = "start_retry" /\ timerCmds'[j] = "stop_retry")
  <2>1. /\ i + 1 \in 1 .. Len(timerCmds) /\ j + 1 \in 1 .. Len(timerCmds) /\ i + 1 < j + 1
        /\ timerCmds'[i] = timerCmds[i + 1] /\ timerCmds'[j] = timerCmds[j + 1]
    BY <1>5, CmdHead
  <2> QED
    BY <2>1 DEF RetryOrder
<1> QED
  BY <1>3, <1>4, <1>5 DEF RetryOrder

\* A loss finds the retry timer idle and room for its two commands.
LEMMA LossStartsRetry ==
  ASSUME Alone, TypeOK, AloneInv, HandleStaDisconnected
  PROVE  /\ RetryOn' /\ RetryOrder'
         /\ \A d : d \notin {"start_retry", "stop_shutdown"} => (Cmd(d)' <=> Cmd(d))
<1> USE DEF AloneInv
<1>1. Coming({LossCode}) /\ StopShutdownStartRetry /\ retryTimer' = retryTimer
  BY LossEffect DEF ConnectionLost
<1>2. Coming(TokenCodes)
  BY <1>1, ComingParts
<1>3. ~RetryOn /\ Len(timerCmds) <= 2
  <2>1. ~RetryOn
    BY <1>2 DEF Token
  <2> QED
    BY <2>1 DEF Room, TypeOK
<1> DEFINE stopped == IF shutdownTimer THEN Append(timerCmds, "stop_shutdown") ELSE timerCmds
<1>4. timerCmds \in Seq(TimerCommands) /\ Len(timerCmds) \in Nat /\ TimerQueueLen \in Nat
  BY ConstantsAssumption DEF TypeOK
<1>5. /\ stopped \in Seq(TimerCommands) /\ Len(stopped) \in Nat /\ Len(stopped) <= 3
      /\ \A i \in 1 .. Len(stopped) :
           \/ i \in 1 .. Len(timerCmds) /\ stopped[i] = timerCmds[i]
           \/ stopped[i] = "stop_shutdown"
      /\ \A i \in 1 .. Len(timerCmds) : i \in 1 .. Len(stopped) /\ stopped[i] = timerCmds[i]
  <2>1. CASE shutdownTimer
    BY <1>3, <1>4, <2>1 DEF TimerCommands
  <2>2. CASE ~shutdownTimer
    BY <1>3, <1>4, <2>2
  <2> QED
    BY <2>1, <2>2
<1>6. timerCmds' = Append(stopped, "start_retry")
  <2>1. Len(timerCmds) < TimerQueueLen /\ Len(stopped) < TimerQueueLen
    BY <1>3, <1>4, <1>5 DEF Alone
  <2> QED
    BY <1>1, <2>1 DEF StopShutdownStartRetry
<1> HIDE DEF stopped
<1>7. /\ Len(timerCmds') = Len(stopped) + 1 /\ timerCmds'[Len(stopped) + 1] = "start_retry"
      /\ Len(stopped) + 1 \in 1 .. Len(timerCmds')
      /\ \A i \in 1 .. Len(stopped) : timerCmds'[i] = stopped[i] /\ i \in 1 .. Len(timerCmds')
      /\ \A i \in 1 .. Len(timerCmds') : i \in 1 .. Len(stopped) \/ i = Len(stopped) + 1
  <2>1. "start_retry" \in TimerCommands
    BY DEF TimerCommands
  <2> QED
    BY <1>5, <1>6, <2>1
<1>8. RetryOn'
  BY <1>7 DEF RetryOn, Cmd
<1>9. ASSUME NEW d, d \notin {"start_retry", "stop_shutdown"} PROVE Cmd(d)' <=> Cmd(d)
  BY <1>5, <1>7, <1>9 DEF Cmd
<1>10. ~retryTimer' /\ ~Cmd("start_retry")
  BY <1>1, <1>3 DEF RetryOn
<1>11. ASSUME NEW i \in 1 .. Len(timerCmds'), NEW j \in 1 .. Len(timerCmds'), i < j
       PROVE  ~(timerCmds'[i] = "start_retry" /\ timerCmds'[j] = "stop_retry")
  <2> SUFFICES ASSUME timerCmds'[i] = "start_retry" PROVE timerCmds'[j] # "stop_retry"
    OBVIOUS
  <2>1. i = Len(stopped) + 1
    BY <1>5, <1>7, <1>10 DEF Cmd
  <2> QED
    BY <1>5, <1>7, <1>11, <2>1
<1> QED
  BY <1>8, <1>9, <1>10, <1>11 DEF RetryOrder

LEMMA RetryKept ==
  ASSUME Alone, TypeOK, AloneInv, Onward, ~HandleStaDisconnected, ~TimerRetryCb
  PROVE  (RetryOn' <=> RetryOn) /\ RetryOrder'
<1> USE DEF AloneInv
<1>1. CASE retryTimer' = retryTimer /\ timerCmds' = timerCmds
  BY <1>1 DEF RetryOn, RetryOrder, Cmd
<1>2. CASE retryTimer' = retryTimer /\ timerCmds' = Append(timerCmds, "start_shutdown")
  <2>1. "start_shutdown" \in TimerCommands
    BY DEF TimerCommands
  <2>2. \A d : Cmd(d)' <=> Cmd(d) \/ d = "start_shutdown"
    BY <1>2, <2>1, CmdAppend
  <2>3. RetryOn' <=> RetryOn
    BY <1>2, <2>2 DEF RetryOn
  <2>4. ASSUME NEW i \in 1 .. Len(timerCmds'), NEW j \in 1 .. Len(timerCmds'), i < j
        PROVE  ~(timerCmds'[i] = "start_retry" /\ timerCmds'[j] = "stop_retry")
    <3>1. timerCmds'[i] = "start_retry" => i \in 1 .. Len(timerCmds) /\ timerCmds[i] = timerCmds'[i]
      BY <1>2, <2>1, CmdAppend
    <3>2. timerCmds'[j] = "stop_retry" => j \in 1 .. Len(timerCmds) /\ timerCmds[j] = timerCmds'[j]
      BY <1>2, <2>1, CmdAppend
    <3> QED
      BY <2>4, <3>1, <3>2 DEF RetryOrder
  <2>5. retryTimer' => ~Cmd("stop_retry")'
    BY <1>2, <2>2 DEF RetryOrder
  <2> QED
    BY <2>3, <2>4, <2>5 DEF RetryOrder
<1>3. CASE HandleConnectSta \/ HandleStartAp \/ HandleStopAp
  <2>1. UNCHANGED timerVars
    BY <1>3, ConnectEffect, StartApEffect, StopApEffect
  <2> QED
    BY <1>1, <2>1 DEF timerVars
<1>4. CASE HandleGotIp
  <2>1. retryTimer' = retryTimer /\ (timerCmds' = timerCmds \/ PostTimer("start_shutdown"))
    BY <1>4, GotIpEffect
  <2>2. timerCmds' = timerCmds \/ timerCmds' = Append(timerCmds, "start_shutdown")
    BY <2>1 DEF PostTimer
  <2> QED
    BY <1>1, <1>2, <2>1, <2>2
<1>5. CASE TimerShutdownApCb
  <2>1. retryTimer' = retryTimer /\ timerCmds = <<>> /\ timerCmds' = <<"stop_shutdown">>
    BY <1>5, ShutdownCbEffect
  <2>2. \A c : c # "stop_shutdown" => ~Cmd(c)' /\ ~Cmd(c)
    BY <2>1 DEF Cmd
  <2>3. \A i, j \in 1 .. Len(timerCmds') : ~(i < j)
    BY <2>1
  <2> QED
    BY <2>1, <2>2, <2>3 DEF RetryOn, RetryOrder
<1>6. CASE ConnectSucceeds \/ ConnectFails \/ LinkLost \/ AddressRenewed
  <2>1. UNCHANGED timerVars
    BY <1>6, AddressEffect, DownEffect
  <2> QED
    BY <1>1, <2>1 DEF timerVars
<1>7. CASE TimerCommand
  BY <1>7, DaemonKeepsRetry
<1>8. CASE \/ \E s \in Senders : Send(s)
           \/ EventHandler \/ FinishStartAp \/ FinishStopAp \/ UNCHANGED vars
  BY <1>1, <1>8 DEF Send, EventHandler, FinishStartAp, FinishStopAp, vars, timerVars
<1> QED
  BY <1>3, <1>4, <1>5, <1>6, <1>7, <1>8, OnlyTheDevice DEF Onward, Relay

LEMMA RetryExpires ==
  ASSUME Alone, TypeOK, AloneInv, TimerRetryCb
  PROVE  RetryOn /\ ~RetryOn' /\ RetryOrder' /\ Len(timerCmds') = 1
<1>1. /\ retryTimer /\ ~retryTimer' /\ timerCmds' = <<"stop_retry">>
  BY RetryCbEffect DEF AloneInv
<1>2. ~Cmd("start_retry")'
  BY <1>1 DEF Cmd
<1>3. \A i, j \in 1 .. Len(timerCmds') : ~(i < j)
  BY <1>1
<1> QED
  BY <1>1, <1>2, <1>3 DEF RetryOn, RetryOrder

-----------------------------------------------------------------------------
(* Token, Driven, Room                                                     *)

\* The steps that leave the token where it is
Carries ==
  /\ Same(TokenCodes) /\ sta' = sta /\ (RetryOn' <=> RetryOn)

LEMMA AloneCarries ==
  ASSUME Alone, TypeOK, AloneInv, Onward
  PROVE  \/ Carries
         \/ HandleConnectSta \/ HandleStaDisconnected \/ TimerRetryCb
         \/ ConnectSucceeds \/ ConnectFails \/ LinkLost
<1> USE DEF AloneInv
<1> SUFFICES ASSUME ~HandleConnectSta, ~HandleStaDisconnected, ~TimerRetryCb,
                    ~ConnectSucceeds, ~ConnectFails, ~LinkLost
             PROVE  Carries
  OBVIOUS
<1>1. RetryOn' <=> RetryOn
  BY RetryKept
<1>2. CASE HandleStartAp \/ HandleStopAp
  BY <1>1, <1>2, StartApEffect, StopApEffect DEF Carries
<1>3. CASE HandleGotIp
  BY <1>1, <1>3, GotIpEffect DEF Carries, drvVars
<1>4. CASE TimerShutdownApCb
  BY <1>1, <1>4, ShutdownCbEffect DEF Carries, drvVars
<1>5. CASE AddressRenewed
  <2>1. sta' = sta
    BY <1>5 DEF AddressRenewed
  <2> QED
    BY <1>1, <1>5, <2>1, AddressEffect DEF Carries
<1>6. CASE Relay
  <2>1. sta' = sta
    BY <1>6 DEF Relay, Send, EventHandler, TimerCommand, FinishStartAp, FinishStopAp,
                vars, drvVars
  <2> QED
    BY <1>1, <1>6, <2>1, RelayKeeps DEF Carries, KeepsAll
<1> QED
  BY <1>2, <1>3, <1>4, <1>5, <1>6, OnlyTheDevice DEF Onward

LEMMA TokenUsed ==
  ASSUME TypeOK, AloneInv, NEW k \in TokenCodes, Receive(k), NoNews(TokenCodes)
  PROVE  ~Coming(TokenCodes)' /\ AtMostOne(TokenCodes)' /\ Coming(TokenCodes)
         /\ sta = "idle" /\ ~RetryOn
<1>1. TokenCodes \in SUBSET MsgCodes
  BY DEF TokenCodes, MsgCodes
<1>2. Coming(TokenCodes)
  BY HeadComes, ComingIn
<1>3. ~Coming(TokenCodes)'
  BY <1>1, OneTaken DEF AloneInv, Token
<1> QED
  BY <1>2, <1>3, NoneIsAtMostOneNext DEF AloneInv, Token

LEMMA LessNews ==
  ASSUME NEW codes, NoNews(codes), NEW fewer \in SUBSET codes PROVE NoNews(fewer)
  BY DEF NoNews

LEMMA TokenUsedNext ==
  ASSUME TypeOK, AloneInv, HandleConnectSta \/ HandleStaDisconnected
  PROVE  ~Coming(TokenCodes)' /\ AtMostOne(TokenCodes)' /\ Coming(TokenCodes)
         /\ sta = "idle" /\ ~RetryOn
<1>1. CASE HandleConnectSta
  <2>1. Receive(ConnectCode) /\ NoNews(MsgCodes)
    BY <1>1, ConnectEffect DEF AloneInv
  <2>2. NoNews(TokenCodes)
    BY <2>1, LessNews DEF TokenCodes, MsgCodes
  <2> QED
    BY <2>1, <2>2, TokenUsed DEF TokenCodes
<1>2. CASE HandleStaDisconnected
  <2>1. Receive(LossCode) /\ NoNews(MsgCodes \ {StartCode})
    BY <1>2, LossEffect DEF AloneInv
  <2>2. TokenCodes \in SUBSET (MsgCodes \ {StartCode})
    BY CodesAreDistinct
  <2>3. NoNews(TokenCodes)
    BY <2>1, <2>2, LessNews
  <2> QED
    BY <2>1, <2>3, TokenUsed DEF TokenCodes
<1> QED
  BY <1>1, <1>2

LEMMA RenewalIsAlone ==
  ASSUME TypeOK, AloneInv, AddressRenewed
  PROVE  /\ sta = "connected" /\ sta' = "connected" /\ ~Coming({GotIpCode})
         /\ queue = <<>> /\ timerCmds = <<>> /\ events = <<>>
<1>1. /\ queue = <<>> /\ events = <<>> /\ timerCmds = <<>> /\ sta = "connected" /\ sta' = sta
      /\ pending["event_loop"] = NoMsg
  BY DEF AddressRenewed
<1>2. \A s \in Senders : pending[s].code # GotIpCode
  BY <1>1, Codes
     DEF AloneInv, Quietness, Senders, GotIpCode, LoadCode, ConnectCode, StartCode, StopCode
<1> QED
  BY <1>1, <1>2, HasNone DEF Coming

LEMMA TokenNext ==
  ASSUME Alone, TypeOK, LossExplains, AloneInv, Onward PROVE Token'
<1> USE DEF AloneInv
<1>0. TokenCodes \in SUBSET MsgCodes /\ {GotIpCode} \in SUBSET MsgCodes
  BY DEF TokenCodes, MsgCodes
<1>1. CASE HandleConnectSta
  <2>1. ~RetryOn'
    BY <1>1, TokenUsedNext, ConnectEffect DEF RetryOn, Cmd, timerVars
  <2>2. AtMostOne({GotIpCode})'
    BY <1>1, ConnectEffect DEF Token, Same
  <2> QED
    BY <1>1, <2>1, <2>2, TokenUsedNext DEF Token
<1>2. CASE HandleStaDisconnected
  <2>1. sta' = sta
    BY <1>2, LossEffect DEF drvVars
  <2>2. AtMostOne({GotIpCode})'
    BY <1>2, LossEffect DEF Token, Same
  <2> QED
    BY <1>2, <2>1, <2>2, TokenUsedNext DEF Token
<1>3. CASE TimerRetryCb
  <2>1. RetryOn /\ ~RetryOn'
    BY <1>3, RetryExpires
  <2>2. sta = "idle" /\ ~Coming(TokenCodes)
    BY <2>1 DEF Token
  <2>3. UNCHANGED <<queue, events, sta>> /\ Blocks("timer", ConnectSta("AUTO_RECONNECT"))
    BY <1>3, RetryCbEffect DEF drvVars
  <2>4. "timer" \in Senders /\ ConnectSta("AUTO_RECONNECT") \in Messages
    BY OrdersAreMessages DEF Senders, Requesters
  <2>5. AtMostOne(TokenCodes)'
    BY <1>0, <2>2, <2>3, <2>4, OneComes
  <2>6. AtMostOne({GotIpCode})'
    BY <1>3, RetryCbEffect DEF Token, Same
  <2> QED
    BY <2>1, <2>2, <2>3, <2>5, <2>6 DEF Token
<1>4. CASE ConnectSucceeds
  <2>1. sta = "connecting"
    BY <1>4 DEF ConnectSucceeds
  <2>2. ~Coming({GotIpCode}) /\ ~Coming(TokenCodes) /\ ~RetryOn
    BY <2>1, AddressAlone DEF Token
  <2>3. UNCHANGED <<queue, pending>> /\ Announce(GotIp) /\ GotIp \in DriverEvents
    BY <1>4, AddressEffect
  <2>4. AtMostOne({GotIpCode})'
    BY <1>0, <2>2, <2>3, OneComes
  <2>5. ~Coming(TokenCodes)' /\ AtMostOne(TokenCodes)'
    BY <1>4, <2>2, AddressEffect DEF Token, Same
  <2>6. ~RetryOn'
    BY <1>4, <2>2, AddressEffect DEF RetryOn, Cmd, timerVars
  <2> QED
    BY <2>4, <2>5, <2>6 DEF Token
<1>5. CASE ConnectFails \/ LinkLost
  <2>1. sta # "idle" /\ sta' = "idle"
    BY <1>5, DownEffect
  <2>2. ~Coming(TokenCodes) /\ ~RetryOn
    BY <2>1 DEF Token
  <2>3. UNCHANGED <<queue, pending>> /\ \E e \in DriverEvents : Announce(e)
    BY <1>5, DownEffect
  <2>4. AtMostOne(TokenCodes)'
    BY <1>0, <2>2, <2>3, OneComes
  <2>5. AtMostOne({GotIpCode})'
    BY <1>5, DownEffect DEF Token, Same
  <2>6. ~RetryOn'
    BY <1>5, <2>2, DownEffect DEF RetryOn, Cmd, timerVars
  <2> QED
    BY <2>1, <2>4, <2>5, <2>6 DEF Token
<1>6. CASE Carries
  <2>1. AtMostOne({GotIpCode})'
    <3>1. CASE HandleGotIp
      <4>1. Receive(GotIpCode) /\ NoNews(MsgCodes \ {StopCode})
        BY <1>6, <3>1, GotIpEffect
      <4>2. {GotIpCode} \in SUBSET (MsgCodes \ {StopCode})
        BY CodesAreDistinct
      <4>3. NoNews({GotIpCode})
        BY <4>1, <4>2, LessNews
      <4>4. ~Coming({GotIpCode})'
        BY <1>0, <4>1, <4>3, OneTaken DEF Token
      <4> QED
        BY <4>4, NoneIsAtMostOneNext
    <3>2. CASE AddressRenewed
      <4>1. ~Coming({GotIpCode})
        BY <3>2, RenewalIsAlone
      <4>2. UNCHANGED <<queue, pending>> /\ Announce(GotIp) /\ GotIp \in DriverEvents
        BY <3>2, AddressEffect
      <4> QED
        BY <1>0, <4>1, <4>2, OneComes
    <3>3. CASE HandleStartAp \/ HandleStopAp
      BY <3>3, StartApEffect, StopApEffect DEF Token, Same
    <3>4. CASE TimerShutdownApCb
      BY <3>4, ShutdownCbEffect DEF Token, Same
    <3>5. CASE Relay
      BY <3>5, RelayKeeps DEF Token, Same, KeepsAll
    <3>6. CASE \/ HandleConnectSta \/ HandleStaDisconnected \/ TimerRetryCb
               \/ ConnectSucceeds \/ ConnectFails \/ LinkLost
      BY <1>1, <1>2, <1>3, <1>4, <1>5, <3>6 DEF Token
    <3> QED
      BY <3>1, <3>2, <3>3, <3>4, <3>5, <3>6, OnlyTheDevice DEF Onward
  <2> QED
    BY <1>6, <2>1 DEF Carries, Same, Token
<1> QED
  BY <1>1, <1>2, <1>3, <1>4, <1>5, <1>6, AloneCarries

LEMMA DrivenNext ==
  ASSUME Alone, TypeOK, LossExplains, AloneInv, Onward PROVE Driven'
<1> USE DEF AloneInv
<1>1. CASE HandleConnectSta
  <2>1. sta = "idle" /\ ~Coming({LossCode})
    <3>1. {ConnectCode} \in SUBSET TokenCodes /\ {LossCode} \in SUBSET TokenCodes
          /\ {ConnectCode} \cap {LossCode} = {}
      BY CodesAreDistinct DEF TokenCodes
    <3>2. Coming({ConnectCode}) /\ AtMostOne(TokenCodes)
      BY <1>1, ConnectEffect DEF Token
    <3> QED
      BY <1>1, <3>1, <3>2, OnlyOne, TokenUsedNext
  <2>2. "WIFI_CONNECTED" \notin bits
    <3>1. ~LossAnnounced
      BY <2>1 DEF Coming, Has, LossAnnounced, LossCode
    <3> QED
      BY <2>1, <3>1 DEF LossExplains
  <2>3. sta' = "connecting"
    BY <1>1, <2>1, <2>2, ConnectEffect
  <2> QED
    BY <2>3 DEF Driven
<1>2. CASE HandleStaDisconnected
  BY <1>2, LossStartsRetry DEF Driven
<1>3. CASE TimerRetryCb
  <2>1. Coming({ConnectCode})'
    BY <1>3, RetryCbEffect
  <2> QED
    BY <2>1, ComingPartsNext DEF Driven
<1>4. CASE ConnectSucceeds
  BY <1>4, AddressEffect DEF Driven
<1>5. CASE ConnectFails \/ LinkLost
  BY <1>5, DownEffect, ComingPartsNext DEF Driven
<1>6. CASE Carries
  <2>1. SUFFICES ASSUME ~Coming(TokenCodes), sta = "idle", ~RetryOn
                 PROVE  Coming({StartCode})' \/ mode' = "APSTA"
    BY <1>6 DEF Carries, Same, Driven
  <2>2. Coming({StartCode}) \/ mode = "APSTA"
    BY <2>1 DEF Driven
  <2>3. CASE HandleStartAp
    BY <2>3, StartApEffect
  <2>4. CASE HandleStopAp
    <3>1. "WIFI_CONNECTED" \notin bits
      <4>1. ~LossAnnounced
        BY <2>1, ComingParts DEF Coming, Has, LossAnnounced, LossCode
      <4> QED
        BY <2>1, <4>1 DEF LossExplains
    <3> QED
      BY <2>2, <2>4, <3>1, StopApEffect DEF Same
  <2>5. CASE HandleGotIp
    BY <2>2, <2>5, GotIpEffect DEF Same, drvVars
  <2>6. CASE TimerShutdownApCb
    BY <2>2, <2>6, ShutdownCbEffect DEF Same, drvVars
  <2>7. CASE AddressRenewed
    BY <2>2, <2>7, AddressEffect DEF Same
  <2>8. CASE Relay
    <3>1. mode' = mode
      BY <2>8 DEF Relay, Send, EventHandler, TimerCommand, FinishStartAp, FinishStopAp,
                  vars, drvVars
    <3> QED
      BY <2>2, <2>8, <3>1, RelayKeeps DEF KeepsAll, Same
  <2>9. CASE \/ HandleConnectSta \/ HandleStaDisconnected \/ TimerRetryCb
             \/ ConnectSucceeds \/ ConnectFails \/ LinkLost
    <3>1. ~HandleConnectSta /\ ~HandleStaDisconnected
      BY <2>1, TokenUsedNext
    <3>2. ~TimerRetryCb
      BY <2>1, RetryExpires
    <3> QED
      BY <2>1, <2>9, <3>1, <3>2 DEF ConnectSucceeds, ConnectFails, LinkLost
  <2> QED
    BY <2>3, <2>4, <2>5, <2>6, <2>7, <2>8, <2>9, OnlyTheDevice DEF Onward
<1> QED
  BY <1>1, <1>2, <1>3, <1>4, <1>5, <1>6, AloneCarries

LEMMA RoomNext ==
  ASSUME Alone, TypeOK, LossExplains, AloneInv, Onward PROVE Room'
<1> USE DEF AloneInv
<1>0. Len(timerCmds) \in Nat /\ Len(timerCmds') \in Nat
  <2>1. TypeOK'
    BY TypeNext DEF Onward
  <2> QED
    BY <2>1 DEF TypeOK
<1>1. ASSUME Len(timerCmds') <= 1 PROVE Room'
  BY <1>0, <1>1 DEF Room
<1>2. ASSUME Flying, timerVars' = timerVars PROVE Room'
  <2>1. retryTimer' = retryTimer /\ timerCmds' = timerCmds
    BY <1>2 DEF timerVars
  <2>2. RetryOn \/ Len(timerCmds) <= 1
    BY <1>2 DEF Room
  <2>3. RetryOn' <=> RetryOn
    BY <2>1 DEF RetryOn, Cmd
  <2> QED
    BY <1>0, <2>1, <2>2, <2>3 DEF Room
<1>3. ASSUME Flying' => Flying, RetryOn' <=> RetryOn, Len(timerCmds') <= Len(timerCmds)
      PROVE  Room'
  BY <1>0, <1>3 DEF Room
<1>4. CASE HandleConnectSta
  <2>1. Flying
    BY <1>4, ConnectEffect, ComingParts DEF Flying
  <2> QED
    BY <1>2, <1>4, <2>1, ConnectEffect
<1>5. CASE HandleStaDisconnected
  BY <1>5, LossStartsRetry DEF Room
<1>6. CASE TimerRetryCb
  BY <1>1, <1>6, RetryExpires
<1>7. CASE TimerShutdownApCb
  <2>1. timerCmds' = <<"stop_shutdown">>
    BY <1>7, ShutdownCbEffect
  <2> QED
    BY <1>1, <2>1
<1>8. CASE ConnectSucceeds \/ ConnectFails
  <2>1. Flying
    BY <1>8 DEF Flying, ConnectSucceeds, ConnectFails
  <2> QED
    BY <1>2, <1>8, <2>1, AddressEffect, DownEffect
<1>9. CASE AddressRenewed
  <2>1. timerCmds' = <<>>
    BY <1>9, RenewalIsAlone, AddressEffect DEF timerVars
  <2> QED
    BY <1>1, <2>1
<1>10. CASE LinkLost
  <2>1. timerVars' = timerVars /\ sta' = "idle" /\ Same(RestoreCodes) /\ Same({GotIpCode})
    BY <1>10, DownEffect
  <2>2. Flying' => Flying
    BY <2>1 DEF Flying, Same
  <2>3. RetryOn' <=> RetryOn
    BY <2>1 DEF RetryOn, Cmd, timerVars
  <2> QED
    BY <1>0, <1>3, <2>1, <2>2, <2>3 DEF timerVars
<1>11. CASE HandleGotIp
  <2>1. Flying /\ Coming({GotIpCode})
    BY <1>11, GotIpEffect DEF Flying
  <2>2. (RetryOn' <=> RetryOn) /\ (RetryOn \/ Len(timerCmds) <= 1)
    <3>1. ~HandleStaDisconnected /\ ~TimerRetryCb
      <4>1. Head(queue).code = GotIpCode /\ queue' # queue
        BY <1>11, GotIpEffect DEF Receive, TypeOK
      <4> QED
        BY <4>1, CodesAreDistinct
           DEF HandleStaDisconnected, TimerRetryCb, Receive, TokenCodes, LossCode
    <3> QED
      BY <2>1, <3>1, RetryKept DEF Room
  <2>3. Len(timerCmds') <= Len(timerCmds) + 1
    <3>1. timerCmds' = timerCmds \/ PostTimer("start_shutdown")
      BY <1>11, GotIpEffect
    <3>2. "start_shutdown" \in TimerCommands
      BY DEF TimerCommands
    <3> QED
      BY <1>0, <3>1, <3>2, CmdPost
  <2>4. ~Flying'
    <3>1. ~Coming(RestoreCodes) /\ sta # "connecting"
      BY <2>1, AddressAlone
    <3>2. ~Coming(RestoreCodes)' /\ sta' # "connecting"
      BY <1>11, <3>1, GotIpEffect DEF Same, drvVars
    <3>3. ~Coming({GotIpCode})'
      <4>1. Receive(GotIpCode) /\ NoNews(MsgCodes \ {StopCode})
        BY <1>11, GotIpEffect
      <4>2. {GotIpCode} \in SUBSET (MsgCodes \ {StopCode}) /\ {GotIpCode} \in SUBSET MsgCodes
        BY CodesAreDistinct
      <4>3. NoNews({GotIpCode})
        BY <4>1, <4>2, LessNews
      <4> QED
        BY <4>1, <4>2, <4>3, OneTaken DEF Token
    <3> QED
      BY <3>2, <3>3 DEF Flying
  <2> QED
    BY <1>0, <2>2, <2>3, <2>4 DEF Room
<1>12. CASE HandleStartAp \/ HandleStopAp
  <2>1. /\ timerVars' = timerVars /\ sta' = sta /\ Same(RestoreCodes) /\ Same({GotIpCode})
    BY <1>12, StartApEffect, StopApEffect
  <2>2. Flying' => Flying
    BY <2>1 DEF Flying, Same
  <2>3. RetryOn' <=> RetryOn
    BY <2>1 DEF RetryOn, Cmd, timerVars
  <2> QED
    BY <1>0, <1>3, <2>1, <2>2, <2>3 DEF timerVars
<1>13. CASE Relay
  <2>1. sta' = sta
    BY <1>13 DEF Relay, Send, EventHandler, TimerCommand, FinishStartAp, FinishStopAp,
                 vars, drvVars
  <2>2. Flying' => Flying
    BY <1>13, <2>1, RelayKeeps DEF Flying, Same, KeepsAll
  <2>3. CASE TimerCommand
    <3>1. (RetryOn' <=> RetryOn) /\ Len(timerCmds') = Len(timerCmds) - 1
      BY <2>3, DaemonKeepsRetry, CmdHead
    <3> QED
      BY <1>0, <1>3, <2>2, <3>1
  <2>4. CASE ~TimerCommand
    <3>1. timerVars' = timerVars
      BY <1>13, <2>4 DEF Relay, Send, EventHandler, FinishStartAp, FinishStopAp, vars, timerVars
    <3>2. RetryOn' <=> RetryOn
      BY <3>1 DEF RetryOn, Cmd, timerVars
    <3> QED
      BY <1>0, <1>3, <2>2, <3>1, <3>2 DEF timerVars
  <2> QED
    BY <2>3, <2>4
<1> QED
  BY <1>4, <1>5, <1>6, <1>7, <1>8, <1>9, <1>10, <1>11, <1>12, <1>13, OnlyTheDevice DEF Onward

-----------------------------------------------------------------------------
(* The access point, the hijack and the status                             *)

LEMMA ApWaitsNext ==
  ASSUME Alone, TypeOK, LossExplains, AloneInv, Onward PROVE ApWaits'
<1> USE DEF AloneInv
<1>1. CASE HandleConnectSta \/ ConnectSucceeds \/ ConnectFails \/ LinkLost
  <2>1. Same({StartCode}) /\ restart' = restart
    BY <1>1, ConnectEffect, AddressEffect, DownEffect
  <2>2. ~ApStarting
    <3>1. sta # "idle" \/ Coming(TokenCodes)
      BY <1>1, TokenUsedNext DEF ConnectSucceeds, ConnectFails, LinkLost
    <3> QED
      BY <3>1 DEF ApWaits
  <2> QED
    BY <2>1, <2>2 DEF ApWaits, ApStarting, Same
<1>2. CASE HandleStaDisconnected
  <2>1. sta' = "idle" /\ ~Coming(TokenCodes)'
    BY <1>2, TokenUsedNext, LossEffect DEF drvVars
  <2>2. ~Coming({StartCode})
    BY <1>2, TokenUsedNext DEF ApWaits, ApStarting
  <2>3. AtMostOne({StartCode})'
    <3>1. CASE Same({StartCode})
      BY <3>1 DEF ApWaits, Same
    <3>2. CASE Blocks("task", StartAp)
      <4>1. Receive(LossCode) /\ events' = events
        BY <1>2, LossEffect DEF drvVars
      <4>2. {StartCode} \in SUBSET MsgCodes /\ "task" \in Senders /\ StartAp \in Messages
        BY OrdersAreMessages DEF MsgCodes, Senders
      <4> QED
        BY <2>2, <3>2, <4>1, <4>2, OneComes
    <3> QED
      BY <1>2, <3>1, <3>2, LossEffect
  <2> QED
    BY <2>1, <2>3 DEF ApWaits
<1>3. CASE TimerRetryCb
  BY <1>3, RetryCbEffect DEF ApWaits, ApStarting, Same
<1>4. CASE Carries
  <2>1. CASE HandleStartAp
    <3>1. Receive(StartCode) /\ NoNews(MsgCodes) /\ {StartCode} \in SUBSET MsgCodes
      BY <2>1, StartApEffect DEF MsgCodes
    <3>2. NoNews({StartCode})
      BY <3>1, LessNews
    <3>3. ~Coming({StartCode})'
      BY <3>1, <3>2, OneTaken DEF ApWaits
    <3>4. ApStarting
      BY <2>1, StartApEffect DEF ApStarting
    <3> QED
      BY <1>4, <3>3, <3>4, NoneIsAtMostOneNext DEF ApWaits, Carries, Same
  <2>2. CASE HandleStopAp
    <3>1. Same({StartCode}) /\ (restart' = restart \/ restart' = "stop_ap")
      BY <2>2, StopApEffect
    <3> QED
      BY <1>4, <3>1 DEF ApWaits, ApStarting, Carries, Same
  <2>3. CASE HandleGotIp \/ TimerShutdownApCb \/ AddressRenewed
    <3>1. Same({StartCode}) /\ restart' = restart
      BY <2>3, GotIpEffect, ShutdownCbEffect, AddressEffect
    <3> QED
      BY <1>4, <3>1 DEF ApWaits, ApStarting, Carries, Same
  <2>4. CASE Relay
    <3>1. Same({StartCode})
      BY <2>4, RelayKeeps DEF KeepsAll
    <3>2. restart' = restart \/ restart' = "none"
      BY <2>4 DEF Relay, Send, EventHandler, TimerCommand, FinishStartAp, FinishStopAp, vars
    <3> QED
      BY <1>4, <3>1, <3>2 DEF ApWaits, ApStarting, Carries, Same
  <2> QED
    BY <1>1, <1>2, <1>3, <2>1, <2>2, <2>3, <2>4, OnlyTheDevice DEF Onward
<1> QED
  BY <1>1, <1>2, <1>3, <1>4, AloneCarries

\* What most steps leave alone of what the pages and the browsers see
Unseeing ==
  /\ dns' => dns
  /\ sta' = "connected" => sta = "connected"
  /\ Same({GotIpCode})

LEMMA HijackWaitsNext ==
  ASSUME Alone, TypeOK, LossExplains, AloneInv, Onward PROVE HijackWaits'
<1> USE DEF AloneInv
<1>0. ASSUME Unseeing PROVE HijackWaits'
  BY <1>0 DEF Unseeing, HijackWaits, Same
<1>1. CASE HandleConnectSta
  <2>1. sta' = "connected" => sta = "connected"
    BY <1>1 DEF HandleConnectSta
  <2> QED
    BY <1>0, <1>1, <2>1, ConnectEffect DEF Unseeing
<1>2. CASE HandleStaDisconnected
  BY <1>0, <1>2, LossEffect DEF Unseeing, drvVars
<1>3. CASE HandleStartAp \/ HandleStopAp
  BY <1>0, <1>3, StartApEffect, StopApEffect DEF Unseeing
<1>4. CASE HandleGotIp
  BY <1>4, GotIpEffect DEF HijackWaits
<1>5. CASE TimerRetryCb \/ TimerShutdownApCb
  BY <1>0, <1>5, RetryCbEffect, ShutdownCbEffect DEF Unseeing, drvVars
<1>6. CASE ConnectSucceeds \/ AddressRenewed
  BY <1>6, AddressEffect DEF HijackWaits
<1>7. CASE ConnectFails \/ LinkLost
  BY <1>0, <1>7, DownEffect DEF Unseeing
<1>8. CASE Relay
  <2>1. Same({GotIpCode})
    BY <1>8, RelayKeeps DEF KeepsAll
  <2>2. sta' = sta
    BY <1>8 DEF Relay, Send, EventHandler, TimerCommand, FinishStartAp, FinishStopAp,
                vars, drvVars
  <2>3. CASE FinishStartAp
    <3>1. sta = "idle"
      BY <2>3 DEF FinishStartAp, ApWaits, ApStarting
    <3> QED
      BY <2>2, <3>1 DEF HijackWaits
  <2>4. CASE ~FinishStartAp
    <3>1. dns' = dns
      BY <1>8, <2>4 DEF Relay, Send, EventHandler, TimerCommand, FinishStopAp, vars
    <3> QED
      BY <1>0, <2>1, <2>2, <3>1 DEF Unseeing
  <2> QED
    BY <2>3, <2>4
<1> QED
  BY <1>1, <1>2, <1>3, <1>4, <1>5, <1>6, <1>7, <1>8, OnlyTheDevice DEF Onward

LEMMA StatusHoldsNext ==
  ASSUME Alone, TypeOK, LossExplains, AloneInv, Onward PROVE StatusHolds'
<1> USE DEF AloneInv
<1>0. ASSUME json' = json, sta = "connected" => sta' = "connected", Same({LossCode})
      PROVE  StatusHolds'
  BY <1>0 DEF StatusHolds, Same
<1>1. CASE HandleConnectSta
  <2>1. sta = "connected" => sta' = "connected"
    BY <1>1 DEF HandleConnectSta
  <2> QED
    BY <1>0, <1>1, <2>1, ConnectEffect DEF cfgVars
<1>2. CASE HandleStaDisconnected
  BY <1>2, LossEffect DEF StatusHolds
<1>3. CASE HandleStartAp \/ HandleStopAp
  BY <1>0, <1>3, StartApEffect, StopApEffect DEF cfgVars
<1>4. CASE HandleGotIp
  <2>1. sta = "connected" \/ Coming({LossCode})
    BY <1>4, GotIpEffect, AddressAlone
  <2> QED
    BY <1>4, <2>1, GotIpEffect DEF StatusHolds, Same, drvVars
<1>5. CASE TimerRetryCb \/ TimerShutdownApCb
  BY <1>0, <1>5, RetryCbEffect, ShutdownCbEffect DEF drvVars, cfgVars
<1>6. CASE ConnectSucceeds \/ AddressRenewed
  BY <1>6, AddressEffect DEF StatusHolds
<1>7. CASE ConnectFails \/ LinkLost
  BY <1>7, DownEffect DEF StatusHolds
<1>8. CASE Relay
  <2>1. Same({LossCode})
    BY <1>8, RelayKeeps DEF KeepsAll
  <2>2. sta' = sta /\ json' = json
    BY <1>8 DEF Relay, Send, EventHandler, TimerCommand, FinishStartAp, FinishStopAp,
                vars, drvVars, cfgVars
  <2> QED
    BY <1>0, <2>1, <2>2
<1> QED
  BY <1>1, <1>2, <1>3, <1>4, <1>5, <1>6, <1>7, <1>8, OnlyTheDevice DEF Onward

-----------------------------------------------------------------------------
(* What the task is about to send                                          *)

LEMMA RelayPending ==
  ASSUME TypeOK, Relay, NEW s \in {"task", "timer", "httpd"}
  PROVE  pending'[s] = pending[s] \/ pending'[s] = NoMsg
<1>1. CASE \E t \in Senders : Send(t)
  BY <1>1 DEF Send, TypeOK, Senders
<1>2. CASE EventHandler
  BY <1>2 DEF EventHandler, Blocks, TypeOK, Senders
<1>3. CASE TimerCommand \/ FinishStartAp \/ FinishStopAp \/ UNCHANGED vars
  BY <1>3 DEF TimerCommand, FinishStartAp, FinishStopAp, vars
<1> QED
  BY <1>1, <1>2, <1>3 DEF Relay

LEMMA DawnNext ==
  ASSUME Alone, TypeOK, AloneInv, Onward PROVE Dawn'
<1> USE DEF AloneInv
<1> SUFFICES ASSUME pending'["task"].code = ConnectCode PROVE DawnStage' /\ queue' = <<>>
  BY DEF Dawn
<1>0. "task" \in Senders /\ NoMsg.code # ConnectCode
  BY Codes DEF Senders, ConnectCode
<1>1. pending["task"].code = ConnectCode
  <2>1. StartAp.code # ConnectCode /\ StopAp.code # ConnectCode
    BY Codes DEF StartCode, StopCode, ConnectCode
  <2>2. CASE PendingStep
    BY <2>1, <2>2 DEF PendingStep, Blocks, TypeOK, Senders
  <2>3. CASE (\E s \in Senders : Send(s)) \/ EventHandler
    BY <1>0, <2>3, RelayPending DEF Relay
  <2> QED
    BY <2>2, <2>3, AlonePending
<1>2. DawnStage /\ queue = <<>>
  BY <1>1 DEF Dawn
<1>3. ~(\E s \in Senders : Send(s))
  <2> SUFFICES ASSUME NEW s \in Senders, Send(s) PROVE FALSE
    OBVIOUS
  <2>1. s = "task"
    BY <1>2 DEF Send, DawnStage
  <2>2. pending'["task"] = NoMsg
    BY <2>1 DEF Send, TypeOK, Senders
  <2> QED
    BY <1>0, <2>2
<1>4. ~TaskStep
  BY <1>2 DEF DawnStage, TaskStep, HandleScanDone, HandleStartScan, HandleLoadAndRestore,
              HandleConnectSta, HandleStaDisconnected, HandleStartAp, FinishStartAp,
              HandleStopAp, FinishStopAp, HandleGotIp, HandleDisconnectSta, DriverRefuses,
              Receive
<1>5. ~EventHandler /\ ~TimerStep /\ ~DriverStep
  BY <1>2
     DEF DawnStage, EventHandler, TimerStep, TimerRetryCb, TimerShutdownApCb, TimerCommand,
         DriverStep, ConnectSucceeds, ConnectFails, LinkLost, AddressRenewed, ScanCompletes
<1>6. ~HttpStep
  BY NoRequests
<1>7. UNCHANGED vars
  BY <1>3, <1>4, <1>5, <1>6 DEF Onward, Next, PowerCut
<1> QED
  BY <1>2, <1>7 DEF vars, DawnStage, Overwriting

LEMMA StopTaken ==
  ASSUME TypeOK, HandleStopAp, AtMostOne({StopCode}) PROVE ~Coming({StopCode})'
<1>1. Receive(StopCode) /\ NoNews(MsgCodes) /\ {StopCode} \in SUBSET MsgCodes
  BY StopApEffect DEF MsgCodes
<1> QED
  BY <1>1, LessNews, OneTaken

LEMMA StopInvReceive ==
  ASSUME Alone, TypeOK, AloneInv, HandleConnectSta \/ HandleStaDisconnected \/ HandleStartAp
  PROVE  StopInv'
<1> USE DEF AloneInv
<1>0. NoMsg.code # StopCode /\ StartAp.code # StopCode
  BY Codes DEF StopCode, StartCode
<1>1. pending'["task"].code # StopCode /\ pending'["timer"] = pending["timer"]
  <2>1. pending["task"] = NoMsg
    BY DEF HandleConnectSta, HandleStaDisconnected, HandleStartAp, Receive
  <2>2. pending' = pending \/ Blocks("task", StartAp)
    BY ConnectEffect, LossEffect, StartApEffect
  <2> QED
    BY <1>0, <2>1, <2>2 DEF Blocks, TypeOK, Senders
<1>2. shutdownTimer' = shutdownTimer /\ (Cmd("start_shutdown")' <=> Cmd("start_shutdown"))
  <2>1. CASE HandleConnectSta \/ HandleStartAp
    BY <2>1, ConnectEffect, StartApEffect DEF timerVars, Cmd
  <2>2. CASE HandleStaDisconnected
    BY <2>2, LossEffect, LossStartsRetry
  <2> QED
    BY <2>1, <2>2
<1>3. Same({StopCode})
  BY ConnectEffect, LossEffect, StartApEffect
<1>4. ImmediateStop /\ (Coming(RestoreCodes)' \/ sta' = "connecting") => ~Coming({StopCode})'
  <2>1. CASE HandleConnectSta
    <3>1. Coming(RestoreCodes)
      BY <2>1, ConnectEffect, ComingParts
    <3> QED
      BY <1>3, <3>1 DEF StopInv, Same
  <2>2. CASE HandleStaDisconnected \/ HandleStartAp
    <3>1. sta' = sta /\ Same(RestoreCodes)
      BY <2>2, LossEffect, StartApEffect DEF drvVars
    <3> QED
      BY <1>3, <3>1 DEF StopInv, Same
  <2> QED
    BY <2>1, <2>2
<1>5. Same({GotIpCode})
  BY ConnectEffect, LossEffect, StartApEffect
<1> QED
  BY <1>1, <1>2, <1>3, <1>4, <1>5 DEF StopInv, Same

LEMMA StopInvStop ==
  ASSUME TypeOK, AloneInv, HandleStopAp PROVE StopInv'
<1> USE DEF AloneInv
<1>1. /\ pending["task"] = NoMsg /\ pending' = pending /\ sta' = sta
      /\ shutdownTimer' = shutdownTimer /\ timerCmds' = timerCmds
      /\ Same(RestoreCodes) /\ Same({GotIpCode})
  BY StopApEffect DEF Receive, timerVars
<1>2. NoMsg.code # StopCode
  BY Codes DEF StopCode
<1>3. AtMostOne({StopCode}) => AtMostOne({StopCode})'
  BY StopTaken, NoneIsAtMostOneNext
<1>4. Coming({StopCode})' => Coming({StopCode})
  BY StopApEffect
<1> QED
  BY <1>1, <1>2, <1>3, <1>4 DEF StopInv, Same, Cmd

LEMMA StopInvGotIp ==
  ASSUME TypeOK, LossExplains, AloneInv, HandleGotIp PROVE StopInv'
<1> USE DEF AloneInv
<1>1. /\ pending["task"] = NoMsg /\ NoMsg.code # StopCode /\ StopAp.code = StopCode
      /\ shutdownTimer' = shutdownTimer /\ sta' = sta /\ restart' = restart
      /\ Same(RestoreCodes) /\ Same({StartCode}) /\ Coming({GotIpCode})
  BY GotIpEffect, Codes DEF Receive, drvVars, StopCode
<1>2. ~Coming(RestoreCodes) /\ sta # "connecting" /\ ~ApStarting
  BY <1>1, AddressAlone
<1>3. ~Coming(RestoreCodes)' /\ sta' # "connecting" /\ ~ApStarting'
  BY <1>1, <1>2 DEF Same, ApStarting
<1>4. CASE ~ImmediateStop
  <2>1. pending' = pending /\ Same({StopCode})
    BY <1>4, GotIpEffect
  <2> QED
    BY <1>1, <1>4, <2>1 DEF StopInv, Same
<1>5. CASE ImmediateStop
  <2>1. timerCmds' = timerCmds /\ pending'["timer"] = pending["timer"]
    BY <1>5, GotIpEffect DEF Blocks, TypeOK, Senders
  <2>2. ~Coming({GotIpCode})'
    <3>1. Receive(GotIpCode) /\ NoNews(MsgCodes \ {StopCode})
      BY GotIpEffect
    <3>2. {GotIpCode} \in SUBSET (MsgCodes \ {StopCode}) /\ {GotIpCode} \in SUBSET MsgCodes
      BY CodesAreDistinct
    <3> QED
      BY <3>1, <3>2, LessNews, OneTaken DEF Token
  <2>3. One(queue', {StopCode})
    <3>1. One(queue, {StopCode})
      BY <1>1, <1>5 DEF StopInv, AtMostOne
    <3>2. queue \in Seq(Messages) /\ queue # <<>> /\ queue' = Tail(queue)
      BY GotIpEffect DEF TypeOK, Receive
    <3> QED
      BY <3>1, <3>2, OneTail
  <2> QED
    BY <1>1, <1>3, <1>5, <2>1, <2>2, <2>3 DEF StopInv, Cmd
<1> QED
  BY <1>4, <1>5

LEMMA StopInvTimers ==
  ASSUME Alone, TypeOK, AloneInv, TimerRetryCb \/ TimerShutdownApCb PROVE StopInv'
<1> USE DEF AloneInv
<1>0. "task" \in Senders /\ "timer" \in Senders
  BY DEF Senders
<1>1. /\ ~Coming({StopCode}) /\ pending'["task"] = pending["task"]
      /\ pending["task"].code # StopCode
  <2>1. ~Coming({StopCode}) /\ \E m : Blocks("timer", m)
    BY RetryCbEffect, ShutdownCbEffect
  <2> QED
    BY <1>0, <2>1 DEF Coming, Blocks, TypeOK
<1>2. CASE TimerRetryCb
  <2>1. /\ Same({StopCode}) /\ Same({GotIpCode}) /\ shutdownTimer' = shutdownTimer
        /\ timerCmds' = <<"stop_retry">> /\ sta' = sta
    BY <1>2, RetryCbEffect DEF drvVars
  <2>4. ~Cmd("start_shutdown")'
    BY <2>1 DEF Cmd
  <2>2. pending'["timer"].code # StopCode
    BY <1>0, <1>2, RetryCbEffect, Codes DEF Blocks, TypeOK, ConnectCode, StopCode
  <2>3. ~Coming({StopCode})' /\ AtMostOne({StopCode})'
    BY <1>1, <2>1, NoneIsAtMostOneNext DEF Same
  <2> QED
    BY <1>1, <2>1, <2>2, <2>3, <2>4 DEF StopInv
<1>3. CASE TimerShutdownApCb
  <2>1. ~ImmediateStop
    BY <1>3, ShutdownCbEffect DEF StopInv
  <2>2. /\ Blocks("timer", StopAp) /\ StopAp \in Messages /\ {StopCode} \in SUBSET MsgCodes
        /\ queue' = queue /\ events' = events
    BY <1>3, ShutdownCbEffect, OrdersAreMessages DEF MsgCodes, drvVars
  <2>3. AtMostOne({StopCode})'
    BY <1>0, <1>1, <2>2, OneComes
  <2> QED
    BY <1>1, <2>1, <2>3 DEF StopInv
<1> QED
  BY <1>2, <1>3

LEMMA StopInvDriver ==
  ASSUME TypeOK, AloneInv, ConnectSucceeds \/ ConnectFails \/ LinkLost \/ AddressRenewed
  PROVE  StopInv'
<1> USE DEF AloneInv
<1>1. /\ UNCHANGED <<queue, pending, restart>> /\ Same(RestoreCodes)
      /\ Same({StartCode}) /\ Same({StopCode})
      /\ shutdownTimer' = shutdownTimer /\ (Cmd("start_shutdown")' <=> Cmd("start_shutdown"))
  BY AddressEffect, DownEffect DEF timerVars, Cmd
<1>2. ApStarting' <=> ApStarting
  BY <1>1 DEF ApStarting, Same
<1>3. "task" \in Senders
  BY DEF Senders
<1>4. CASE ConnectFails \/ LinkLost
  <2>1. sta' = "idle" /\ Same({GotIpCode})
    BY <1>4, DownEffect
  <2> QED
    BY <1>1, <1>2, <2>1 DEF StopInv, Same
<1>5. CASE ConnectSucceeds
  <2>1. ImmediateStop => ~Coming({StopCode})
    BY <1>5 DEF ConnectSucceeds, StopInv
  <2>2. ImmediateStop => ~Coming({StopCode})' /\ AtMostOne({StopCode})'
    BY <1>1, <2>1, NoneIsAtMostOneNext DEF Same
  <2>3. ImmediateStop => pending["task"].code # StopCode
    BY <1>3, <2>1 DEF Coming
  <2> QED
    BY <1>1, <1>2, <2>2, <2>3 DEF StopInv, Same
<1>6. CASE AddressRenewed
  <2>1. sta' = "connected" /\ queue = <<>> /\ events = <<>> /\ sta = "connected"
    BY <1>6, RenewalIsAlone
  <2>2. ~Coming(RestoreCodes)'
    BY <1>1, <2>1, ComingParts DEF Token, Same
  <2>3. ImmediateStop => AtMostOne({StopCode})
    <3>1. ImmediateStop => \A s \in Senders \ {"task"} : pending[s].code # StopCode
      BY Codes DEF StopInv, Quietness, Senders, StopCode, GotIpCode, LossCode
    <3>2. \A s \in Senders : s = "task" \/ s \in Senders \ {"task"}
      OBVIOUS
    <3>3. ~Has(queue, {StopCode}) /\ ~Has(events, {StopCode})
          /\ One(queue, {StopCode}) /\ One(events, {StopCode})
      BY <2>1 DEF Has, One
    <3> QED
      BY <3>1, <3>2, <3>3 DEF AtMostOne
  <2>4. One(queue', {StopCode}) /\ ~Has(queue', {StopCode})
    BY <1>1, <2>1 DEF Has, One
  <2> QED
    BY <1>1, <1>2, <2>1, <2>2, <2>3, <2>4 DEF StopInv, Same
<1> QED
  BY <1>4, <1>5, <1>6

LEMMA StopInvRelay ==
  ASSUME TypeOK, AloneInv, Relay PROVE StopInv'
<1> USE DEF AloneInv
<1>0. NoMsg.code # StopCode
  BY Codes DEF StopCode
<1>1. /\ Same(RestoreCodes) /\ Same({StartCode}) /\ Same({StopCode}) /\ Same({GotIpCode})
  BY RelayKeeps DEF KeepsAll
<1>2. sta' = sta /\ (restart' = restart \/ restart' = "none")
  BY DEF Relay, Send, EventHandler, TimerCommand, FinishStartAp, FinishStopAp, vars, drvVars
<1>3. ApStarting' => ApStarting
  BY <1>1, <1>2 DEF ApStarting, Same
<1>4. /\ pending'["task"].code = StopCode => pending["task"].code = StopCode
      /\ pending'["timer"].code = StopCode => pending["timer"].code = StopCode
  BY <1>0, RelayPending
<1>5. shutdownTimer' \/ Cmd("start_shutdown")' => shutdownTimer \/ Cmd("start_shutdown")
  <2>1. CASE TimerCommand
    <3>1. shutdownTimer' => shutdownTimer \/ Head(timerCmds) = "start_shutdown"
      BY <2>1 DEF TimerCommand
    <3> QED
      BY <2>1, <3>1, CmdHead
  <2>2. CASE ~TimerCommand
    BY <2>2 DEF Relay, Send, EventHandler, FinishStartAp, FinishStopAp, vars, timerVars, Cmd
  <2> QED
    BY <2>1, <2>2
<1>6. ASSUME ImmediateStop, pending'["task"].code = StopCode
      PROVE  One(queue', {StopCode}) /\ (Has(queue', {StopCode}) => Has(queue, {StopCode}))
  <2>1. pending["task"].code = StopCode /\ One(queue, {StopCode})
    BY <1>4, <1>6 DEF StopInv
  <2>2. CASE \E s \in Senders : Send(s)
    <3>1. PICK s \in Senders : Send(s)
      BY <2>2
    <3>2. /\ pending[s] \in Messages /\ queue \in Seq(Messages)
          /\ queue' = Append(queue, pending[s])
      BY <3>1 DEF TypeOK, Send
    <3>3. s # "task"
      BY <1>0, <1>6, <3>1 DEF Send, TypeOK
    <3>4. pending[s].code # StopCode
      BY <1>0, <1>6, <3>3
         DEF StopInv, Quietness, Senders, StopCode, GotIpCode, LossCode
    <3> QED
      BY <2>1, <3>2, <3>4, OneAppend, HasAppend
  <2>3. CASE ~(\E s \in Senders : Send(s))
    <3>1. queue' = queue
      BY <2>3 DEF Relay, EventHandler, TimerCommand, FinishStartAp, FinishStopAp, vars
    <3> QED
      BY <2>1, <3>1
  <2> QED
    BY <2>2, <2>3
<1> QED
  BY <1>1, <1>2, <1>3, <1>4, <1>5, <1>6 DEF StopInv, Same

LEMMA StopInvNext ==
  ASSUME Alone, TypeOK, LossExplains, AloneInv, Onward PROVE StopInv'
  BY StopInvReceive, StopInvStop, StopInvGotIp, StopInvTimers, StopInvDriver, StopInvRelay,
     OnlyTheDevice DEF AloneInv, Onward

LEMMA StartRoomSend ==
  ASSUME Alone, TypeOK, LossExplains, AloneInv, NEW s \in Senders \ {"task"}, Send(s),
         pending["task"].code = StartCode
  PROVE  Len(queue') < QueueCap
<1> USE DEF AloneInv
<1>0. "task" \in Senders
  BY DEF Senders
<1>1. Coming({StartCode})
  BY <1>0 DEF Coming
<1>2. ~Coming(TokenCodes) /\ ~Coming({GotIpCode}) /\ ~Coming(ForeignCodes)
  BY <1>1, AddressAlone DEF ApWaits, ApStarting, Quietness
<1>3. pending[s].code \notin TokenCodes \cup {GotIpCode}
  BY <1>2 DEF Coming
<1>4. s = "timer" /\ pending[s].code = StopCode
  <2>1. pending[s] # NoMsg /\ pending[s] \in Messages \cup {NoMsg}
    BY DEF Send, TypeOK
  <2>2. pending[s].code # "NONE"
    BY <2>1, OrdersByCode
  <2>3. s \in {"event_loop", "timer", "httpd"}
    BY DEF Senders
  <2> QED
    BY <1>3, <2>1, <2>2, <2>3 DEF Quietness, TokenCodes
<1>5. ~Has(queue, {StopCode})
  BY <1>4 DEF StopInv, AtMostOne
<1>6. ~Has(queue, {StartCode})
  BY <1>0 DEF ApWaits, AtMostOne
<1>7. queue = <<>>
  <2>1. \A i \in 1 .. Len(queue) : queue[i].code \notin MsgCodes
    BY <1>2, <1>5, <1>6, CodesAreDistinct DEF Coming, Has
  <2>2. \A i \in 1 .. Len(queue) : queue[i].code \in MsgCodes
    BY CodesOfMessages DEF TypeOK
  <2> QED
    BY <2>1, <2>2 DEF TypeOK
<1>8. Len(queue') = 1
  BY <1>7 DEF Send
<1> QED
  BY <1>8, ConstantsAssumption DEF Alone

LEMMA StartRoomNext ==
  ASSUME Alone, TypeOK, LossExplains, AloneInv, Onward PROVE StartRoom'
<1> USE DEF AloneInv
<1> SUFFICES ASSUME pending'["task"].code = StartCode PROVE Len(queue') < QueueCap
  BY DEF StartRoom
<1>0. NoMsg.code # StartCode /\ StopAp.code # StartCode
  BY Codes, CodesAreDistinct DEF StartCode
<1>1. CASE HandleStaDisconnected
  <2>1. queue \in Seq(Messages) /\ queue # <<>> /\ queue' = Tail(queue) /\ Len(queue) <= QueueCap
    BY <1>1, LossEffect DEF TypeOK, Receive
  <2> QED
    BY <2>1, ConstantsAssumption
<1>2. CASE HandleConnectSta \/ HandleStartAp \/ HandleStopAp \/ HandleGotIp
  <2>1. pending["task"] = NoMsg
    BY <1>2 DEF HandleConnectSta, HandleStartAp, HandleStopAp, HandleGotIp, Receive
  <2>2. pending' = pending \/ Blocks("task", StopAp)
    BY <1>2, ConnectEffect, StartApEffect, StopApEffect, GotIpEffect
  <2> QED
    BY <1>0, <2>1, <2>2 DEF Blocks, TypeOK, Senders
<1>3. CASE \/ TimerRetryCb \/ TimerShutdownApCb
           \/ ConnectSucceeds \/ ConnectFails \/ LinkLost \/ AddressRenewed
  <2>1. queue' = queue
    BY <1>3, RetryCbEffect, ShutdownCbEffect, AddressEffect, DownEffect
  <2>2. pending' = pending \/ \E m : Blocks("timer", m)
    BY <1>3, RetryCbEffect, ShutdownCbEffect, AddressEffect, DownEffect
  <2>3. pending'["task"] = pending["task"]
    BY <2>2 DEF Blocks, TypeOK, Senders
  <2> QED
    BY <2>1, <2>3 DEF StartRoom
<1>4. CASE Relay
  <2>1. pending["task"].code = StartCode
    BY <1>0, <1>4, RelayPending
  <2>2. CASE \E s \in Senders : Send(s)
    <3>1. PICK s \in Senders : Send(s)
      BY <2>2
    <3>2. s # "task"
      BY <1>0, <3>1 DEF Send, TypeOK
    <3> QED
      BY <2>1, <3>1, <3>2, StartRoomSend
  <2>3. CASE ~(\E s \in Senders : Send(s))
    <3>1. queue' = queue
      BY <1>4, <2>3 DEF Relay, EventHandler, TimerCommand, FinishStartAp, FinishStopAp, vars
    <3> QED
      BY <2>1, <3>1 DEF StartRoom
  <2> QED
    BY <2>2, <2>3
<1> QED
  BY <1>1, <1>2, <1>3, <1>4, OnlyTheDevice DEF Onward

LEMMA AloneNext ==
  ASSUME Alone, TypeOK, LossExplains, AloneInv, [Next]_vars PROVE AloneInv'
<1>1. CASE Reboot
  BY <1>1, AloneReboot
<1>2. CASE HandleLoadAndRestore
  BY <1>2, AloneLoad
<1>3. CASE Onward
  <2>1. Fresh' /\ Quietness'
    BY <1>3, FreshNext, QuietnessNext DEF AloneInv, Onward
  <2>2. LossBehind' /\ Token' /\ Driven' /\ Room'
    BY <1>3, LossBehindNext, TokenNext, DrivenNext, RoomNext
  <2>3. RetryOrder'
    BY <1>3, RetryKept, LossStartsRetry, RetryExpires
  <2>4. ApWaits' /\ HijackWaits' /\ StatusHolds'
    BY <1>3, ApWaitsNext, HijackWaitsNext, StatusHoldsNext
  <2>5. Dawn' /\ StopInv' /\ StartRoom'
    BY <1>3, DawnNext, StopInvNext, StartRoomNext
  <2> QED
    BY <2>1, <2>2, <2>3, <2>4, <2>5 DEF AloneInv
<1> QED
  BY <1>1, <1>2, <1>3 DEF Onward

LEMMA AloneAlways == Alone => (Spec => [](TypeOK /\ LossExplains /\ AloneInv))
<1> SUFFICES ASSUME Alone PROVE Spec => [](TypeOK /\ LossExplains /\ AloneInv)
  OBVIOUS
<1>1. Init => LossExplains
  BY DEF Init, Boot, LossExplains
<1>2. TypeOK /\ LossExplains /\ AloneInv /\ [Next]_vars => AloneInv'
  BY AloneNext
<1> QED
  BY <1>1, <1>2, TypeInit, TypeNext, LossNext, AloneInit, PTL DEF Spec

-----------------------------------------------------------------------------
(* What follows                                                            *)

LEMMA NothingAtRest ==
  ASSUME Quiescent, NEW codes \in SUBSET MsgCodes PROVE ~Coming(codes)
<1>1. "NONE" \notin MsgCodes /\ NoMsg.code = "NONE"
  BY Codes, CodesAreDistinct
<1> QED
  BY <1>1, HasNone DEF Quiescent, Coming

LEMMA AloneIsSound == ASSUME TypeOK, AloneInv PROVE SoundAtRest
<1> SUFFICES ASSUME Quiescent PROVE SoundAtRest
  BY DEF SoundAtRest, NeverInLimbo, StatusNotStale, HijackEndsOnline
<1>1. /\ ~Coming(TokenCodes) /\ ~Coming({StartCode}) /\ ~Coming({GotIpCode})
      /\ ~Coming({LossCode})
  BY NothingAtRest DEF MsgCodes, TokenCodes
<1>2. ~Cmd("start_retry")
  BY DEF Quiescent, Cmd
<1>3. NeverInLimbo
  BY <1>1, <1>2 DEF AloneInv, Driven, RetryOn, NeverInLimbo
<1>4. StatusNotStale /\ HijackEndsOnline
  BY <1>1 DEF AloneInv, StatusHolds, HijackWaits, StatusNotStale, HijackEndsOnline
<1> QED
  BY <1>3, <1>4 DEF SoundAtRest

\* Three messages of which at most one is a token, one an address and one an
\* order to stop: one is an address and one such an order.
LEMMA ThreeKinds ==
  ASSUME TypeOK, Len(queue) >= 3,
         \A i \in 1 .. Len(queue) : queue[i].code \in TokenCodes \cup {GotIpCode, StopCode},
         One(queue, TokenCodes), One(queue, {GotIpCode}), One(queue, {StopCode})
  PROVE  Has(queue, {StopCode}) /\ Has(queue, {GotIpCode})
<1>1. {1, 2, 3} \subseteq 1 .. Len(queue)
  BY DEF TypeOK
<1> DEFINE a == queue[1].code
           b == queue[2].code
           c == queue[3].code
<1>2. a \in TokenCodes \cup {GotIpCode, StopCode} /\ b \in TokenCodes \cup {GotIpCode, StopCode}
      /\ c \in TokenCodes \cup {GotIpCode, StopCode}
  BY <1>1
<1>3. \A k \in {TokenCodes, {GotIpCode}, {StopCode}} :
        ~(a \in k /\ b \in k) /\ ~(a \in k /\ c \in k) /\ ~(b \in k /\ c \in k)
  BY <1>1 DEF One
<1> HIDE DEF a, b, c
<1>4. (a = StopCode \/ b = StopCode \/ c = StopCode)
      /\ (a = GotIpCode \/ b = GotIpCode \/ c = GotIpCode)
  BY <1>2, <1>3
<1> QED
  BY <1>1, <1>4 DEF Has, a, b, c

LEMMA AloneHasRoom ==
  ASSUME Alone, TypeOK, AloneInv PROVE NeverBlockedOnItself
<1> USE DEF AloneInv
<1> SUFFICES ASSUME pending["task"] # NoMsg PROVE Len(queue) < QueueCap
  BY ConstantsAssumption DEF NeverBlockedOnItself, TypeOK
<1>0. "task" \in Senders /\ Len(<<>>) < QueueCap /\ Len(queue) \in Nat /\ QueueCap \in Nat
  BY ConstantsAssumption DEF Senders, TypeOK
<1>1. pending["task"].code \in {LoadCode, ConnectCode, StartCode, StopCode}
  <2>1. pending["task"].code # "NONE"
    BY <1>0, OrdersByCode DEF TypeOK
  <2> QED
    BY <2>1 DEF Quietness
<1>2. CASE pending["task"].code = LoadCode
  <2>1. Coming({LoadCode})
    BY <1>0, <1>2 DEF Coming
  <2>2. queue = <<>>
    BY <2>1 DEF Fresh, BootStage
  <2> QED
    BY <1>0, <2>2
<1>3. CASE pending["task"].code = ConnectCode
  BY <1>0, <1>3 DEF Dawn
<1>4. CASE pending["task"].code = StartCode
  BY <1>4 DEF StartRoom
<1>5. CASE pending["task"].code = StopCode
  <2>1. /\ ~Coming({StartCode}) /\ ~Coming(ForeignCodes) /\ One(queue, {StopCode})
        /\ ~(Has(queue, {StopCode}) /\ Coming({GotIpCode}))
    BY <1>5 DEF StopInv, ApStarting, Quietness
  <2>2. \A i \in 1 .. Len(queue) : queue[i].code \in TokenCodes \cup {GotIpCode, StopCode}
    <3>1. \A i \in 1 .. Len(queue) : queue[i].code \in MsgCodes
      BY CodesOfMessages DEF TypeOK
    <3>2. \A i \in 1 .. Len(queue) : queue[i].code \notin {StartCode} \cup ForeignCodes
      BY <2>1 DEF Coming, Has
    <3> QED
      BY <3>1, <3>2, CodesAreDistinct
  <2>3. One(queue, TokenCodes) /\ One(queue, {GotIpCode})
    BY DEF Token, AtMostOne
  <2>4. ~(Len(queue) >= 3)
    BY <2>1, <2>2, <2>3, ThreeKinds DEF Coming
  <2> QED
    BY <1>0, <2>4 DEF Alone
<1> QED
  BY <1>1, <1>2, <1>3, <1>4, <1>5

(* A device nobody uses, with timers longer than the messages and room for *)
(* four commands at the timer daemon, is sound whenever nothing is left to *)
(* handle, for every number of retries, both kinds of shutdown timer and   *)
(* whatever links, leases and power do: without a link it retries or its   *)
(* access point is on, with one it answers names truthfully, and           *)
(* status.json is right (wifi_manager.c:1031-1149, 1182-1296).             *)
THEOREM AloneRestsSound == Alone => (Spec => []SoundAtRest)
<1>1. TypeOK /\ AloneInv => SoundAtRest
  BY AloneIsSound
<1> QED
  BY <1>1, AloneAlways, PTL

(* Such a device never waits for room in the queue only its task empties:  *)
(* at each of the task's own posts (wifi_manager.c:904, 1009, 1122, 1291)  *)
(* the queue has a slot left.                                              *)
THEOREM AloneNeverBlocked == Alone => (Spec => []NeverBlockedOnItself)
<1>1. CASE Alone
  <2>1. TypeOK /\ AloneInv => NeverBlockedOnItself
    BY <1>1, AloneHasRoom
  <2> QED
    BY <1>1, <2>1, AloneAlways, PTL
<1>2. CASE ~Alone
  BY <1>2
<1> QED
  BY <1>1, <1>2

-----------------------------------------------------------------------------
(* The retry budget                                                        *)

\* While the access point comes or goes, nothing is tried.
ApTurns ==
  /\ Has(events, {"AP_START"}) => sta = "idle" /\ ~Coming(TokenCodes)
  /\ Has(events, {"AP_STOP"}) =>
       sta # "connecting" /\ ~Coming(RestoreCodes) /\ attempts = 0

\* What both counters are after a success, at power-on and with the access point
Refreshed ==
  /\ sta = "connected" => attempts = 0 /\ (retries = 0 \/ Coming({GotIpCode}))
  /\ Coming({GotIpCode}) => attempts = 0
  /\ Coming({LoadCode}) \/ mode = "APSTA" => attempts = 0 /\ retries = 0

\* retries counts the losses handled, attempts what was tried: the first loss
\* is that of a connection, or else the first attempt was at power-on.
Counted ==
  mode = "STA" /\ ~Coming({StartCode}) =>
    /\ sta = "connecting" \/ (Coming({LossCode}) /\ ~Coming({GotIpCode}))
         => attempts \in {retries, retries + 1}
    /\ sta = "idle" /\ ~Coming({LossCode}) => retries \in {attempts, attempts + 1}

\* The access point is ordered when the budget is used up.
Exhausted ==
  Coming({StartCode}) =>
    /\ retries = 0 /\ attempts <= MaxRetry + 1
    /\ mode = "STA" => attempts >= MaxRetry \/ ~Named(nvs)

BudgetInv == attempts \in Nat /\ ApTurns /\ Refreshed /\ Counted /\ Exhausted

\* A set of numbers that is not empty has a smallest.
LEMMA SmallestIn ==
  ASSUME NEW S \in SUBSET Nat, S # {}
  PROVE  \E m \in S : \A k \in S : m <= k
<1> DEFINE R == OpToRel(<, Nat)
<1>1. IsWellFoundedOn(R, Nat)
  BY NatLessThanWellFounded
<1>2. \A x, y \in Nat : <<x, y>> \in R <=> x < y
  BY DEF OpToRel
<1> HIDE DEF R
<1>3. PICK m \in S : \A k \in S : <<k, m>> \notin R
  BY <1>1, WFMin
<1>4. \A k \in S : <<k, m>> \in R <=> k < m
  BY <1>2
<1>5. \A k \in S : ~(k < m)
  BY <1>3, <1>4
<1> QED
  BY <1>5

\* The last element of q with one of these codes
LEMMA LastExists ==
  ASSUME NEW q, Len(q) \in Nat, NEW codes, Has(q, codes)
  PROVE  \E i \in 1 .. Len(q) :
           q[i].code \in codes /\ \A j \in (i + 1) .. Len(q) : q[j].code \notin codes
<1> DEFINE n == Len(q)
           S == {k \in 0 .. n : n - k \in 1 .. n /\ q[n - k].code \in codes}
<1>1. PICK i \in 1 .. n : q[i].code \in codes
  BY DEF Has
<1>2. n - i \in S
  <2>1. n - i \in 0 .. n /\ n - (n - i) = i
    OBVIOUS
  <2> QED
    BY <1>1, <2>1
<1>3. S \in SUBSET Nat
  OBVIOUS
<1>4. PICK m \in S : \A k \in S : m <= k
  <2> HIDE DEF S
  <2> QED
    BY <1>2, <1>3, SmallestIn
<1>5. ASSUME NEW j \in (n - m + 1) .. n, q[j].code \in codes PROVE FALSE
  <2>1. n - j \in 0 .. n /\ n - (n - j) = j /\ j \in 1 .. n /\ ~(m <= n - j)
    BY <1>4
  <2> QED
    BY <1>4, <1>5, <2>1
<1> QED
  BY <1>4, <1>5

\* AP_STARTED tells the mode, unless the news is still to be handled.
LEMMA ApBitKnown ==
  ASSUME TypeOK, CopiesFollow
  PROVE  /\ mode = "APSTA" => "AP_STARTED" \in bits \/ Has(events, {"AP_START"})
         /\ mode = "STA" => "AP_STARTED" \notin bits \/ Has(events, {"AP_STOP"})
<1> DEFINE b == ApCode("AP_STARTED" \in bits)
           c == ApCode(mode = "APSTA")
<1>1. Follows(events, ApCodes, b, c)
  BY DEF CopiesFollow, ApBitFollowsMode
<1>2. b # c => Has(events, {c})
  <2> HIDE DEF b, c
  <2> SUFFICES ASSUME b # c PROVE Has(events, {c})
    OBVIOUS
  <2>1. Has(events, ApCodes)
    BY <1>1 DEF Follows, Has
  <2>2. Len(events) \in Nat
    BY DEF TypeOK
  <2>3. PICK i \in 1 .. Len(events) :
          events[i].code \in ApCodes
          /\ \A j \in (i + 1) .. Len(events) : events[j].code \notin ApCodes
    BY <2>1, <2>2, LastExists
  <2>4. events[i].code = c
    BY <1>1, <2>3 DEF Follows
  <2> QED
    BY <2>4 DEF Has
<1> QED
  BY <1>2 DEF ApCode


-----------------------------------------------------------------------------
(* What a step does to both counters                                       *)

LEMMA WhoMoves ==
  ASSUME Alone, TypeOK, Quietness, Onward
  PROVE  /\ ~HandleStaDisconnected /\ ~HandleGotIp => retries' = retries
         /\ ~HandleConnectSta /\ ~ConnectSucceeds /\ ~ConnectFails /\ ~LinkLost => sta' = sta
         /\ ~HandleStartAp /\ ~HandleStopAp => mode' = mode
         /\ ~HandleGotIp /\ ~HandleStaDisconnected => nvs' = nvs
<1> USE DEF cfgVars, drvVars, timerVars
<1>1. CASE HandleConnectSta
  BY <1>1 DEF HandleConnectSta
<1>2. CASE HandleStaDisconnected
  BY <1>2 DEF HandleStaDisconnected
<1>3. CASE HandleStartAp \/ HandleStopAp \/ FinishStartAp \/ FinishStopAp
  BY <1>3 DEF HandleStartAp, HandleStopAp, FinishStartAp, FinishStopAp
<1>4. CASE HandleGotIp
  BY <1>4 DEF HandleGotIp
<1>5. CASE TimerRetryCb \/ TimerShutdownApCb \/ TimerCommand
  BY <1>5 DEF TimerRetryCb, TimerShutdownApCb, TimerCommand
<1>6. CASE ConnectSucceeds \/ ConnectFails \/ LinkLost \/ AddressRenewed
  BY <1>6 DEF ConnectSucceeds, ConnectFails, LinkLost, AddressRenewed
<1>7. CASE (\E s \in Senders : Send(s)) \/ EventHandler \/ UNCHANGED vars
  BY <1>7 DEF Send, EventHandler, vars
<1> QED
  BY <1>1, <1>2, <1>3, <1>4, <1>5, <1>6, <1>7, OnlyTheDevice DEF Onward, Relay

LEMMA LossKeepsSaved ==
  ASSUME TypeOK, Quietness, HandleStaDisconnected PROVE nvs' = nvs
  BY LossEffect DEF ConnectionLost

\* An attempt is one more, or none, or the count stays.
Tried == /\ HandleConnectSta /\ "WIFI_CONNECTED" \notin bits
         /\ sta = "idle" /\ sta' = "connecting" /\ attempts' = attempts + 1

LEMMA CountStep ==
  ASSUME Alone, TypeOK, Quietness, Onward, Count
  PROVE  /\ sta' = "connected" \/ mode' = "APSTA" => attempts' = 0
         /\ \/ attempts' = attempts
            \/ attempts' = 0 /\ (sta' = "connected" \/ mode' = "APSTA" \/ Coming({LoadCode})')
            \/ Tried
<1>1. sta = "idle" /\ sta' = "connecting" => HandleConnectSta /\ "WIFI_CONNECTED" \notin bits
  <2>1. sta = "idle" /\ sta' = "connecting" => HandleConnectSta
    BY WhoMoves DEF ConnectSucceeds, ConnectFails, LinkLost
  <2> QED
    BY <2>1, ConnectEffect
<1>2. Restarted => Coming({LoadCode})'
  BY Codes DEF Restarted, Coming, Senders
<1> QED
  BY <1>1, <1>2 DEF Count, Tried

\* A message of the kinds that start something comes from one step only.
LEMMA WhatComes ==
  ASSUME Alone, TypeOK, AloneInv, Onward
  PROVE  /\ Coming({LoadCode})' => Coming({LoadCode})
         /\ Coming(RestoreCodes)' => Coming(RestoreCodes) \/ TimerRetryCb
         /\ Coming({StartCode})' /\ ~HandleStaDisconnected => Coming({StartCode})
         /\ Coming({GotIpCode})' => Coming({GotIpCode}) \/ ConnectSucceeds \/ AddressRenewed
         /\ Coming({LossCode})' => Coming({LossCode}) \/ ConnectFails \/ LinkLost
<1> USE DEF AloneInv, Onward
<1>1. Coming({LoadCode})' => Coming({LoadCode})
  <2>1. {LoadCode} \in SUBSET KeyCodes /\ EraseCode \notin {LoadCode} /\ GotIpCode \notin {LoadCode}
    BY CodesDiffer
  <2> QED
    BY <2>1, NothingComes
<1>2. CASE HandleConnectSta
  <2>1. NoNews(MsgCodes)
    BY <1>2, ConnectEffect
  <2>2. NoNews(RestoreCodes)
    BY <2>1, LessNews DEF RestoreCodes, MsgCodes
  <2> QED
    BY <1>1, <1>2, <2>2, ConnectEffect, NoNewsIsGoodNews DEF Same
<1>3. CASE HandleStaDisconnected
  <2>1. NoNews(MsgCodes \ {StartCode})
    BY <1>3, LossEffect
  <2>2. {LossCode} \in SUBSET (MsgCodes \ {StartCode})
    BY CodesAreDistinct DEF TokenCodes
  <2>3. NoNews({LossCode})
    BY <2>1, <2>2, LessNews
  <2> QED
    BY <1>1, <1>3, <2>3, LossEffect, NoNewsIsGoodNews DEF Same
<1>4. CASE HandleStartAp
  <2>1. NoNews(MsgCodes)
    BY <1>4, StartApEffect
  <2>2. NoNews({StartCode})
    BY <2>1, LessNews DEF MsgCodes
  <2> QED
    BY <1>1, <1>4, <2>2, StartApEffect, NoNewsIsGoodNews DEF Same
<1>5. CASE HandleStopAp
  BY <1>1, <1>5, StopApEffect DEF Same
<1>6. CASE HandleGotIp
  <2>1. NoNews(MsgCodes \ {StopCode})
    BY <1>6, GotIpEffect
  <2>2. {GotIpCode} \in SUBSET (MsgCodes \ {StopCode})
    BY CodesAreDistinct
  <2>3. NoNews({GotIpCode})
    BY <2>1, <2>2, LessNews
  <2> QED
    BY <1>1, <1>6, <2>3, GotIpEffect, NoNewsIsGoodNews DEF Same
<1>7. CASE TimerRetryCb \/ TimerShutdownApCb
  BY <1>1, <1>7, RetryCbEffect, ShutdownCbEffect DEF Same
<1>8. CASE ConnectSucceeds \/ AddressRenewed
  BY <1>1, <1>8, AddressEffect DEF Same
<1>9. CASE ConnectFails \/ LinkLost
  BY <1>1, <1>9, DownEffect DEF Same
<1>10. CASE Relay
  BY <1>1, <1>10, RelayKeeps DEF KeepsAll, Same
<1> QED
  BY <1>2, <1>3, <1>4, <1>5, <1>6, <1>7, <1>8, <1>9, <1>10, OnlyTheDevice

\* ... and it goes with the step that handles it.
LEMMA WhatStays ==
  ASSUME Alone, TypeOK, AloneInv, Onward
  PROVE  /\ Coming({StartCode}) => Coming({StartCode})' \/ HandleStartAp \/ HandleStaDisconnected
         /\ Coming({GotIpCode}) => Coming({GotIpCode})' \/ HandleGotIp
         /\ Coming({LossCode}) =>
              Coming({LossCode})' \/ HandleStaDisconnected \/ ConnectFails \/ LinkLost
<1> USE DEF AloneInv, Onward
<1>1. CASE HandleConnectSta
  BY <1>1, ConnectEffect DEF Same
<1>2. CASE HandleStaDisconnected
  BY <1>2, LossEffect DEF Same
<1>3. CASE HandleStartAp \/ HandleStopAp
  BY <1>3, StartApEffect, StopApEffect DEF Same
<1>4. CASE HandleGotIp
  BY <1>4, GotIpEffect DEF Same
<1>5. CASE TimerRetryCb \/ TimerShutdownApCb
  BY <1>5, RetryCbEffect, ShutdownCbEffect DEF Same
<1>6. CASE ConnectSucceeds \/ AddressRenewed \/ ConnectFails \/ LinkLost
  BY <1>6, AddressEffect, DownEffect DEF Same
<1>7. CASE Relay
  BY <1>7, RelayKeeps DEF KeepsAll, Same
<1> QED
  BY <1>1, <1>2, <1>3, <1>4, <1>5, <1>6, <1>7, OnlyTheDevice


Linked == sta = "connected" \/ Coming({LossCode})

LEMMA AddressHasLink ==
  TypeOK /\ LossExplains /\ AloneInv /\ Coming({GotIpCode}) => Linked
  BY AddressAlone DEF Linked

LEMMA AddressHasLinkNext ==
  TypeOK' /\ LossExplains' /\ AloneInv' /\ Coming({GotIpCode})' => Linked'
  BY AddressHasLink, PTL

\* An order or a loss that is handled was the only one.
LEMMA HandledAlone ==
  ASSUME Alone, TypeOK, LossExplains, AloneInv, Onward,
         HandleConnectSta \/ HandleStaDisconnected
  PROVE  /\ sta = "idle" /\ ~Coming({LoadCode}) /\ ~Coming({GotIpCode})
         /\ ~Coming({LossCode})' /\ ~Coming({LoadCode})' /\ ~ApStarting
         /\ HandleConnectSta => Coming(RestoreCodes) /\ ~Coming({LossCode})
         /\ HandleStaDisconnected => Coming({LossCode}) /\ ~Coming(RestoreCodes)
<1>1. /\ ~Coming(TokenCodes)' /\ Coming(TokenCodes) /\ sta = "idle" /\ AtMostOne(TokenCodes)
  BY TokenUsedNext DEF AloneInv, Token
<1>2. ~Coming({LossCode})' /\ ~Coming({LoadCode})' /\ ~ApStarting
  BY <1>1, ComingPartsNext DEF AloneInv, ApWaits
<1>3. /\ {LossCode} \in SUBSET TokenCodes /\ RestoreCodes \in SUBSET TokenCodes
      /\ {LoadCode} \in SUBSET TokenCodes /\ {ConnectCode} \in SUBSET TokenCodes
      /\ {LossCode} \cap RestoreCodes = {} /\ {ConnectCode} \cap {LoadCode} = {}
      /\ {LossCode} \cap {LoadCode} = {} /\ RestoreCodes \cap {LossCode} = {}
  BY CodesAreDistinct DEF TokenCodes, RestoreCodes
<1>4. HandleConnectSta => Coming({ConnectCode}) /\ Coming(RestoreCodes)
  BY ConnectEffect, ComingParts DEF AloneInv
<1>5. HandleStaDisconnected => Coming({LossCode})
  BY LossEffect DEF AloneInv
<1>6. HandleConnectSta => ~Coming({LossCode}) /\ ~Coming({LoadCode})
  BY <1>1, <1>3, <1>4, OnlyOne
<1>7. HandleStaDisconnected => ~Coming(RestoreCodes) /\ ~Coming({LoadCode})
  BY <1>1, <1>3, <1>5, OnlyOne
<1>8. ~Coming({GotIpCode})
  <2>1. CASE HandleConnectSta
    BY <1>4, <2>1, AddressAlone
  <2>2. CASE HandleStaDisconnected
    <3>1. TypeOK' /\ LossExplains' /\ AloneInv'
      BY TypeNext, LossNext, AloneNext DEF Onward
    <3>2. Coming({GotIpCode})' => sta' = "connected" \/ Coming({LossCode})'
      BY <3>1, AddressHasLinkNext DEF Linked
    <3>3. sta' = "idle"
      BY <1>1, <2>2 DEF HandleStaDisconnected, drvVars
    <3>4. Coming({GotIpCode})' <=> Coming({GotIpCode})
      BY <2>2, LossEffect DEF AloneInv, Same
    <3> QED
      BY <1>2, <3>2, <3>3, <3>4
  <2> QED
    BY <2>1, <2>2
<1> QED
  BY <1>1, <1>2, <1>4, <1>5, <1>6, <1>7, <1>8

\* An access point goes down only with a connection, or right after it.
LEMMA StopFindsLink ==
  ASSUME Alone, TypeOK, LossExplains, AloneInv, HandleStopAp, "WIFI_CONNECTED" \in bits
  PROVE  sta # "connecting" /\ ~Coming(RestoreCodes) /\ ~Coming({StartCode})
<1>1. sta = "connected" \/ Coming({LossCode})
  BY DEF LossExplains, LossAnnounced, Coming, Has, LossCode
<1>2. CASE sta = "connected"
  BY <1>2, ComingParts DEF AloneInv, Token, ApWaits, ApStarting
<1>3. CASE Coming({LossCode})
  <2>1. {LossCode} \in SUBSET TokenCodes /\ RestoreCodes \in SUBSET TokenCodes
        /\ {LossCode} \cap RestoreCodes = {}
    BY CodesAreDistinct DEF TokenCodes, RestoreCodes
  <2>2. ~Coming(RestoreCodes)
    BY <1>3, <2>1, OnlyOne DEF AloneInv, Token
  <2> QED
    BY <1>3, <2>2, ComingParts DEF AloneInv, Token, ApWaits, ApStarting
<1> QED
  BY <1>1, <1>2, <1>3

\* Where the events of the access point come from
ApEvents == {"AP_START", "AP_STOP"}

LEMMA ApNews ==
  ASSUME Alone, TypeOK, AloneInv, Onward
  PROVE  /\ Has(events', {"AP_START"}) => Has(events, {"AP_START"}) \/ HandleStartAp
         /\ Has(events', {"AP_STOP"}) =>
              \/ Has(events, {"AP_STOP"})
              \/ HandleStopAp /\ mode = "APSTA" /\ "WIFI_CONNECTED" \in bits
<1> USE DEF drvVars, AloneInv
<1>0. EventsOK /\ \A e \in DriverEvents : Announce(e) =>
        \A c : Has(events', {c}) => Has(events, {c}) \/ e.code = c
  BY HasAnnounced DEF TypeOK, EventsOK
<1>1. /\ GotIp.code \notin ApEvents /\ \A r : Disconnected(r).code \notin ApEvents
      /\ ApStart.code = "AP_START" /\ ApStop.code = "AP_STOP"
      /\ {GotIp, ApStart, ApStop} \subseteq DriverEvents
  BY Codes, AnnouncementsAreEvents DEF ApEvents, GotIpCode, LossCode
<1>2. CASE HandleConnectSta
  BY <1>2, ConnectEffect
<1>3. CASE HandleStaDisconnected \/ HandleGotIp
  BY <1>3 DEF HandleStaDisconnected, HandleGotIp
<1>4. CASE HandleStartAp
  <2>1. events' = events \/ Announce(ApStart)
    BY <1>4 DEF HandleStartAp
  <2> QED
    BY <1>0, <1>1, <1>4, <2>1
<1>5. CASE HandleStopAp
  <2>1. \/ events' = events
        \/ Announce(ApStop) /\ mode = "APSTA" /\ "WIFI_CONNECTED" \in bits
    BY <1>5 DEF HandleStopAp, StillConnected
  <2> QED
    BY <1>0, <1>1, <1>5, <2>1
<1>6. CASE TimerRetryCb \/ TimerShutdownApCb
  BY <1>6 DEF TimerRetryCb, TimerShutdownApCb
<1>7. CASE ConnectSucceeds \/ AddressRenewed
  <2>1. Announce(GotIp)
    BY <1>7, AddressEffect
  <2> QED
    BY <1>0, <1>1, <2>1 DEF ApEvents
<1>8. CASE ConnectFails \/ LinkLost
  <2>1. \E r \in Reasons : Announce(Disconnected(r)) /\ Disconnected(r) \in DriverEvents
    BY <1>8, DownEffect
  <2> QED
    BY <1>0, <1>1, <2>1 DEF ApEvents
<1>9. CASE EventHandler
  <2>1. \A c : Has(Tail(events), {c}) => Has(events, {c})
    BY <1>9, HasTail DEF EventHandler, TypeOK
  <2> QED
    BY <1>9, <2>1 DEF EventHandler
<1>10. CASE (\E s \in Senders : Send(s)) \/ TimerCommand \/ FinishStartAp \/ FinishStopAp
              \/ UNCHANGED vars
  BY <1>10 DEF Send, TimerCommand, FinishStartAp, FinishStopAp, vars
<1> QED
  BY <1>2, <1>3, <1>4, <1>5, <1>6, <1>7, <1>8, <1>9, <1>10, OnlyTheDevice DEF Onward, Relay

LEMMA ApTurnsNext ==
  ASSUME Alone, TypeOK, LossExplains, AloneInv, BudgetInv, Onward, Count PROVE ApTurns'
<1> USE DEF AloneInv, BudgetInv
<1>0. TokenCodes \in SUBSET MsgCodes
  BY DEF TokenCodes, MsgCodes
<1>1. ~Coming(TokenCodes) /\ Has(events, {"AP_START"}) /\ sta = "idle" =>
        /\ ~HandleConnectSta /\ ~HandleStaDisconnected /\ ~ConnectSucceeds
        /\ ~ConnectFails /\ ~LinkLost
  BY TokenUsedNext DEF ConnectSucceeds, ConnectFails, LinkLost
<1>2. TimerRetryCb => ~Has(events, {"AP_START"}) /\ ~Has(events, {"AP_STOP"})
  <2> SUFFICES ASSUME TimerRetryCb
               PROVE  ~Has(events, {"AP_START"}) /\ ~Has(events, {"AP_STOP"})
    OBVIOUS
  <2>1. \A i \in 1 .. Len(events) : events[i] \notin {ApStart, ApStop}
    BY DEF TimerRetryCb, MayExpire, ApChanging, Alone
  <2>2. \A e \in DriverEvents : e.code \in ApEvents => e \in {ApStart, ApStop}
    BY Codes DEF DriverEvents, PostedEvents, ApEvents, ScanDoneCode, GotIpCode, LossCode
  <2>3. \A i \in 1 .. Len(events) : events[i] \in DriverEvents
    BY DEF TypeOK
  <2> QED
    BY <2>1, <2>2, <2>3 DEF Has, ApEvents
<1>3. Has(events', {"AP_START"}) => sta' = "idle" /\ ~Coming(TokenCodes)'
  <2> SUFFICES ASSUME Has(events', {"AP_START"})
               PROVE  sta' = "idle" /\ ~Coming(TokenCodes)'
    OBVIOUS
  <2>1. CASE HandleStartAp
    <3>1. sta = "idle" /\ ~Coming(TokenCodes)
      BY <2>1, StartApEffect DEF ApWaits, ApStarting
    <3> QED
      BY <2>1, <3>1, StartApEffect DEF Same
  <2>2. CASE ~HandleStartAp
    <3>1. Has(events, {"AP_START"}) /\ sta = "idle" /\ ~Coming(TokenCodes)
      BY <2>2, ApNews DEF ApTurns
    <3>2. Carries
      BY <1>1, <1>2, <3>1, AloneCarries
    <3> QED
      BY <3>1, <3>2 DEF Carries, Same
  <2> QED
    BY <2>1, <2>2
<1>4. Has(events', {"AP_STOP"}) =>
        sta' # "connecting" /\ ~Coming(RestoreCodes)' /\ attempts' = 0
  <2> SUFFICES ASSUME Has(events', {"AP_STOP"})
               PROVE  sta' # "connecting" /\ ~Coming(RestoreCodes)' /\ attempts' = 0
    OBVIOUS
  <2>1. sta # "connecting" /\ ~Coming(RestoreCodes) /\ attempts = 0
    <3>1. CASE Has(events, {"AP_STOP"})
      BY <3>1 DEF ApTurns
    <3>2. CASE ~Has(events, {"AP_STOP"})
      <4>1. HandleStopAp /\ mode = "APSTA" /\ "WIFI_CONNECTED" \in bits
        BY <3>2, ApNews
      <4> QED
        BY <4>1, StopFindsLink DEF Refreshed
    <3> QED
      BY <3>1, <3>2
  <2>2. ~HandleConnectSta
    BY <2>1, HandledAlone
  <2>3. ~TimerRetryCb
    BY <1>2, ApNews DEF TimerRetryCb, HandleStopAp, drvVars
  <2>4. sta' # "connecting"
    BY <2>1, <2>2, WhoMoves DEF ConnectSucceeds, ConnectFails, LinkLost
  <2>5. ~Coming(RestoreCodes)'
    BY <2>1, <2>3, WhatComes
  <2>6. attempts' = 0
    BY <2>1, <2>2, CountStep DEF Tried
  <2> QED
    BY <2>4, <2>5, <2>6
<1> QED
  BY <1>3, <1>4 DEF ApTurns


\* What a loss does to the budget
LEMMA LossSpends ==
  ASSUME Alone, TypeOK, CopiesFollow, LossExplains, AloneInv, BudgetInv, Onward, Count,
         HandleStaDisconnected
  PROVE  /\ mode' = mode /\ sta' = "idle" /\ nvs' = nvs /\ ~Coming({StartCode})
         /\ ~Coming({LossCode})' /\ ~Coming({GotIpCode})'
         /\ mode = "APSTA" => attempts' = 0 /\ retries' = 0 /\ ~Coming({StartCode})'
         /\ mode = "STA" =>
              /\ attempts \in {retries, retries + 1} /\ attempts' = attempts
              /\ \/ retries' = 0 /\ attempts' = 0 /\ ~Coming({StartCode})'
                 \/ retries' = retries + 1 /\ ~Coming({StartCode})'
                 \/ retries = MaxRetry /\ retries' = 0 /\ Coming({StartCode})'
<1> USE DEF AloneInv, BudgetInv
<1>1. /\ sta = "idle" /\ ~Coming({GotIpCode}) /\ ~Coming({LossCode})' /\ ~Coming({LoadCode})'
      /\ Coming({LossCode}) /\ ~Coming(RestoreCodes) /\ ~ApStarting
  BY HandledAlone
<1>2. ConnectionLost /\ ((pending' = pending /\ Same({StartCode})) \/ Blocks("task", StartAp))
      /\ Same({GotIpCode})
  BY LossEffect
<1>3. mode' = mode /\ sta' = sta
  BY DEF HandleStaDisconnected, drvVars
<1>4. ~Coming({StartCode}) /\ ~Coming({GotIpCode})'
  BY <1>1, <1>2 DEF ApStarting, Same
<1>5. nvs' = nvs
  BY LossKeepsSaved
<1>6. attempts' = attempts \/ (attempts' = 0 /\ mode' = "APSTA")
  <2>1. ~HandleConnectSta
    BY <1>1, HandledAlone
  <2> QED
    BY <1>1, <1>3, <2>1, CountStep DEF Tried
<1>7. ~Has(events, {"AP_START"})
  BY <1>1, ComingParts DEF ApTurns
<1>8. pending' = pending => ~Coming({StartCode})'
  <2> SUFFICES ASSUME pending' = pending PROVE ~Coming({StartCode})'
    OBVIOUS
  <2>1. NoNews({StartCode})
    BY DEF HandleStaDisconnected, Receive, NoNews, drvVars
  <2> QED
    BY <1>4, <2>1, NoNewsIsGoodNews
<1>9. \/ "AP_STARTED" \in bits /\ retries' = retries /\ pending' = pending
      \/ "AP_STARTED" \notin bits /\ retries' = retries + 1 /\ pending' = pending
      \/ /\ "AP_STARTED" \notin bits /\ ~(retries < MaxRetry)
         /\ retries' = 0 /\ Blocks("task", StartAp)
  BY <1>2 DEF ConnectionLost, RetriesLeft
<1>10. ASSUME mode = "APSTA" PROVE attempts' = 0 /\ retries' = 0 /\ ~Coming({StartCode})'
  <2>1. "AP_STARTED" \in bits
    BY <1>7, <1>10, ApBitKnown
  <2>2. attempts = 0 /\ retries = 0
    BY <1>10 DEF Refreshed
  <2> QED
    BY <1>6, <1>8, <1>9, <2>1, <2>2
<1>11. ASSUME mode = "STA"
       PROVE  /\ attempts \in {retries, retries + 1} /\ attempts' = attempts
              /\ \/ retries' = 0 /\ attempts' = 0 /\ ~Coming({StartCode})'
                 \/ retries' = retries + 1 /\ ~Coming({StartCode})'
                 \/ retries = MaxRetry /\ retries' = 0 /\ Coming({StartCode})'
  <2>1. attempts \in {retries, retries + 1}
    BY <1>1, <1>4, <1>11 DEF Counted
  <2>2. attempts' = attempts
    BY <1>3, <1>6, <1>11
  <2>3. CASE "AP_STARTED" \in bits
    <3>1. Has(events, {"AP_STOP"})
      BY <1>11, <2>3, ApBitKnown
    <3>2. attempts = 0
      BY <3>1 DEF ApTurns
    <3>3. retries \in Nat
      BY DEF TypeOK
    <3>4. retries = 0
      BY <2>1, <3>2, <3>3
    <3> QED
      BY <1>8, <1>9, <2>1, <2>2, <2>3, <3>2, <3>4
  <2>4. CASE "AP_STARTED" \notin bits
    <3>1. \/ retries' = retries + 1 /\ pending' = pending
          \/ ~(retries < MaxRetry) /\ retries' = 0 /\ Blocks("task", StartAp)
      BY <1>9, <2>4
    <3>2. retries \in 0 .. MaxRetry
      BY DEF TypeOK
    <3>3. ~(retries < MaxRetry) => retries = MaxRetry
      BY <3>2, ConstantsAssumption
    <3>4. Blocks("task", StartAp) => Coming({StartCode})'
      BY ComesFrom, Codes DEF Senders
    <3> QED
      BY <1>8, <2>1, <2>2, <3>1, <3>3, <3>4
  <2> QED
    BY <2>3, <2>4
<1> QED
  BY <1>1, <1>3, <1>4, <1>5, <1>10, <1>11

LEMMA RefreshedNext ==
  ASSUME Alone, TypeOK, CopiesFollow, LossExplains, AloneInv, BudgetInv, Onward, Count
  PROVE  Refreshed'
<1> USE DEF AloneInv, BudgetInv
<1>1. HandleGotIp => retries' = 0
  BY DEF HandleGotIp
<1>2. sta' = "connected" => retries' = 0 \/ Coming({GotIpCode})'
  <2> SUFFICES ASSUME sta' = "connected", ~HandleGotIp, ~ConnectSucceeds
               PROVE  retries' = 0 \/ Coming({GotIpCode})'
    BY <1>1, AddressEffect
  <2>1. ~HandleStaDisconnected
    BY LossSpends
  <2>2. sta = "connected"
    BY WhoMoves, ConnectEffect DEF ConnectFails, LinkLost
  <2> QED
    BY <2>1, <2>2, WhoMoves, WhatStays DEF Refreshed
<1>3. Coming({GotIpCode})' => attempts' = 0
  <2> SUFFICES ASSUME Coming({GotIpCode})' PROVE attempts' = 0
    OBVIOUS
  <2>1. CASE ConnectSucceeds \/ AddressRenewed
    BY <2>1, AddressEffect, CountStep
  <2>2. CASE ~ConnectSucceeds /\ ~AddressRenewed
    <3>1. Coming({GotIpCode}) /\ attempts = 0
      BY <2>2, WhatComes DEF Refreshed
    <3>2. ~HandleConnectSta
      BY <3>1, HandledAlone
    <3> QED
      BY <3>1, <3>2, CountStep DEF Tried
  <2> QED
    BY <2>1, <2>2
<1>4. Coming({LoadCode})' => attempts' = 0 /\ retries' = 0
  <2> SUFFICES ASSUME Coming({LoadCode})' PROVE attempts' = 0 /\ retries' = 0
    OBVIOUS
  <2>1. Coming({LoadCode}) /\ attempts = 0 /\ retries = 0
    BY WhatComes DEF Refreshed
  <2>2. ~HandleConnectSta /\ ~HandleStaDisconnected
    BY <2>1, HandledAlone
  <2> QED
    BY <1>1, <2>1, <2>2, WhoMoves, CountStep DEF Tried
<1>5. mode' = "APSTA" => attempts' = 0 /\ retries' = 0
  <2> SUFFICES ASSUME mode' = "APSTA" PROVE retries' = 0
    BY CountStep
  <2>1. CASE HandleStartAp
    <3>1. Coming({StartCode}) /\ retries = 0
      BY <2>1, StartApEffect DEF Exhausted
    <3>2. retries' = retries
      BY <2>1 DEF HandleStartAp
    <3> QED
      BY <3>1, <3>2
  <2>2. CASE ~HandleStartAp
    <3>1. mode = "APSTA"
      BY <2>2, WhoMoves DEF HandleStopAp
    <3>2. retries = 0
      BY <3>1 DEF Refreshed
    <3> QED
      BY <1>1, <3>1, <3>2, WhoMoves, LossSpends
  <2> QED
    BY <2>1, <2>2
<1> QED
  BY <1>2, <1>3, <1>4, <1>5, CountStep DEF Refreshed

LEMMA ExhaustedNext ==
  ASSUME Alone, TypeOK, CopiesFollow, LossExplains, AloneInv, BudgetInv, Onward, Count
  PROVE  Exhausted'
<1> USE DEF AloneInv, BudgetInv
<1> SUFFICES ASSUME Coming({StartCode})'
             PROVE  /\ retries' = 0 /\ attempts' <= MaxRetry + 1
                    /\ mode' = "STA" => attempts' >= MaxRetry \/ ~Named(nvs)'
  BY DEF Exhausted
<1>0. MaxRetry \in Nat /\ attempts \in Nat
  BY ConstantsAssumption
<1>1. CASE HandleStaDisconnected
  <2>1. mode = "APSTA" \/ mode = "STA"
    BY DEF TypeOK
  <2>2. mode = "STA" /\ retries = MaxRetry /\ retries' = 0
        /\ attempts \in {retries, retries + 1} /\ attempts' = attempts
    <3>1. mode = "STA"
      BY <1>1, <2>1, LossSpends
    <3> QED
      BY <1>1, <3>1, LossSpends
  <2>3. attempts' \in {MaxRetry, MaxRetry + 1}
    BY <2>2
  <2> QED
    BY <1>0, <2>2, <2>3
<1>2. CASE ~HandleStaDisconnected
  <2>1. Coming({StartCode}) /\ ApStarting
    BY <1>2, WhatComes DEF ApStarting
  <2>2. /\ retries = 0 /\ attempts <= MaxRetry + 1
        /\ mode = "STA" => attempts >= MaxRetry \/ ~Named(nvs)
    BY <2>1 DEF Exhausted
  <2>3. ~HandleConnectSta /\ ~HandleGotIp
    BY <2>1, HandledAlone, AddressAlone, GotIpEffect
  <2>4. retries' = 0 /\ nvs' = nvs
    BY <1>2, <2>2, <2>3, WhoMoves
  <2>5. sta = "idle" /\ sta' # "connected"
    BY <2>1, <2>3, WhoMoves DEF ApWaits, ConnectSucceeds, ConnectFails, LinkLost
  <2>6. ~Coming({LoadCode})'
    BY <2>1, WhatComes, ComingParts DEF ApWaits
  <2>7. attempts' = attempts \/ (attempts' = 0 /\ mode' = "APSTA")
    BY <2>3, <2>5, <2>6, CountStep DEF Tried
  <2>8. mode' = "STA" => mode = "STA"
    <3>1. ~(HandleStopAp /\ "WIFI_CONNECTED" \in bits)
      BY <2>1, StopFindsLink
    <3>2. HandleStopAp => mode' = mode
      BY <3>1 DEF HandleStopAp, StillConnected
    <3> QED
      BY <3>2, WhoMoves, StartApEffect
  <2>9. CASE attempts' = attempts
    BY <2>2, <2>4, <2>8, <2>9
  <2>10. CASE attempts' = 0 /\ mode' = "APSTA"
    BY <1>0, <2>4, <2>10
  <2> QED
    BY <2>7, <2>9, <2>10
<1> QED
  BY <1>1, <1>2


LEMMA CountedNext ==
  ASSUME Alone, TypeOK, CopiesFollow, LossExplains, AloneInv, BudgetInv, Onward, Count
  PROVE  Counted'
<1> USE DEF AloneInv, BudgetInv
<1> SUFFICES ASSUME mode' = "STA", ~Coming({StartCode})'
             PROVE  /\ sta' = "connecting" \/ (Coming({LossCode})' /\ ~Coming({GotIpCode})')
                         => attempts' \in {retries', retries' + 1}
                    /\ sta' = "idle" /\ ~Coming({LossCode})'
                         => retries' \in {attempts', attempts' + 1}
  BY DEF Counted
<1>0. /\ attempts \in Nat /\ retries \in Nat /\ retries' \in Nat
      /\ mode \in {"STA", "APSTA"} /\ sta \in {"idle", "connecting", "connected"}
  BY TypeNext DEF TypeOK, Onward
<1>1. ASSUME attempts' = 0, retries' = 0
      PROVE  attempts' \in {retries', retries' + 1} /\ retries' \in {attempts', attempts' + 1}
  BY <1>1
<1>2. CASE HandleStaDisconnected
  <2>1. mode = "STA" /\ sta' = "idle" /\ ~Coming({LossCode})'
        /\ attempts \in {retries, retries + 1} /\ attempts' = attempts
    BY <1>2, LossSpends
  <2>2. (retries' = 0 /\ attempts' = 0) \/ retries' = retries + 1
    BY <1>2, <2>1, LossSpends
  <2> QED
    BY <1>0, <1>1, <2>1, <2>2
<1>3. CASE mode = "APSTA" /\ ~HandleStaDisconnected
  <2>1. HandleStopAp /\ "WIFI_CONNECTED" \in bits
    BY <1>3, WhoMoves, StartApEffect, StopApEffect
  <2>2. attempts = 0 /\ retries = 0
    BY <1>3 DEF Refreshed
  <2>3. ~HandleConnectSta /\ retries' = retries
    BY <2>1 DEF HandleStopAp, HandleConnectSta, Receive
  <2>4. attempts' = 0
    BY <2>2, <2>3, CountStep DEF Tried
  <2> QED
    BY <1>1, <2>2, <2>3, <2>4
<1>4. CASE mode = "STA" /\ ~HandleStaDisconnected
  <2>0. ~HandleStartAp
    BY StartApEffect
  <2>1. ~Coming({StartCode})
    BY <1>4, <2>0, WhatStays
  <2>2. /\ sta = "connecting" \/ (Coming({LossCode}) /\ ~Coming({GotIpCode}))
             => attempts \in {retries, retries + 1}
        /\ sta = "idle" /\ ~Coming({LossCode}) => retries \in {attempts, attempts + 1}
    BY <1>4, <2>1 DEF Counted
  <2>3. CASE HandleConnectSta
    <3>1. sta = "idle" /\ ~Coming({LossCode}) /\ ~Coming({LossCode})' /\ ~Coming({LoadCode})'
      BY <2>3, HandledAlone
    <3>2. retries \in {attempts, attempts + 1} /\ retries' = retries
      BY <2>2, <2>3, <3>1 DEF HandleConnectSta
    <3>3. sta' = "connecting" => attempts' = attempts + 1
      <4>1. ~Restarted
        BY <3>1, Codes DEF Restarted, Coming, Senders
      <4> QED
        BY <3>1, <4>1 DEF Count
    <3>4. sta' = "idle" => attempts' = attempts
      BY <3>1, CountStep DEF Tried
    <3> QED
      BY <1>0, <3>1, <3>2, <3>3, <3>4
  <2>4. CASE HandleGotIp
    <3>1. Coming({GotIpCode}) /\ retries' = 0
      BY <2>4, GotIpEffect DEF HandleGotIp
    <3>2. attempts = 0 /\ ~HandleConnectSta
      BY <3>1, HandledAlone DEF Refreshed
    <3>3. attempts' = 0
      BY <3>2, CountStep DEF Tried
    <3> QED
      BY <1>1, <3>1, <3>3
  <2>5. CASE ConnectSucceeds \/ AddressRenewed
    BY <2>5, AddressEffect
  <2>6. CASE ~HandleConnectSta /\ ~HandleGotIp /\ ~ConnectSucceeds /\ ~AddressRenewed
    <3>1. retries' = retries
      BY <1>4, <2>6, WhoMoves
    <3>2. attempts' = attempts \/ (attempts' = 0 /\ (sta' = "connected" \/ Coming({LoadCode})'))
      BY <2>6, CountStep DEF Tried
    <3>3. Coming({LoadCode})' => attempts' = 0 /\ retries' = 0
      BY RefreshedNext DEF Refreshed
    <3>4. ~Coming({GotIpCode})' => ~Coming({GotIpCode})
      BY <2>6, WhatStays
    <3>5. CASE ConnectFails \/ LinkLost
      <4>1. sta' = "idle" /\ Coming({LossCode})'
        BY <3>5, DownEffect
      <4>2. ConnectFails => sta = "connecting"
        BY DEF ConnectFails
      <4>3. LinkLost => sta = "connected"
        BY DEF LinkLost
      <4>4. LinkLost /\ ~Coming({GotIpCode}) => attempts = 0 /\ retries = 0
        BY <4>3 DEF Refreshed
      <4>5. ~Coming({GotIpCode})' => attempts \in {retries, retries + 1}
        BY <1>0, <2>2, <3>4, <3>5, <4>2, <4>4
      <4>6. attempts' = attempts \/ (attempts' = 0 /\ retries' = 0)
        BY <3>2, <3>3, <4>1
      <4> QED
        BY <1>1, <3>1, <4>1, <4>5, <4>6
    <3>6. CASE ~ConnectFails /\ ~LinkLost
      <4>1. sta' = sta
        BY <2>6, <3>6, WhoMoves
      <4>2. Coming({LossCode})' <=> Coming({LossCode})
        BY <1>4, <3>6, WhatComes, WhatStays
      <4>3. CASE sta' = "connected"
        <5>1. ~Coming(TokenCodes)
          BY <4>1, <4>3 DEF Token
        <5>2. ~Coming({LossCode})'
          BY <4>2, <5>1, ComingParts
        <5> QED
          BY <4>3, <5>2
      <4>4. CASE attempts' = 0 /\ retries' = 0
        BY <1>1, <4>4
      <4>5. CASE sta' # "connected" /\ attempts' = attempts
        BY <2>2, <3>1, <3>4, <4>1, <4>2, <4>5
      <4> QED
        BY <3>2, <3>3, <4>3, <4>4, <4>5
    <3> QED
      BY <3>5, <3>6
  <2> QED
    BY <2>3, <2>4, <2>5, <2>6
<1> QED
  BY <1>0, <1>2, <1>3, <1>4


\* Nothing tried, nothing lost, nothing announced
Untried ==
  /\ attempts = 0 /\ retries = 0 /\ events = <<>> /\ sta = "idle" /\ mode = "STA"
  /\ ~Coming({GotIpCode}) /\ (Coming({StartCode}) => ~Named(nvs))

LEMMA UntriedIsFine == Untried => BudgetInv
<1> SUFFICES ASSUME Untried PROVE BudgetInv
  OBVIOUS
<1>1. \A codes : ~Has(events, codes)
  BY HasNone DEF Untried
<1>2. ApTurns
  BY <1>1 DEF ApTurns
<1>3. MaxRetry \in Nat
  BY ConstantsAssumption
<1> QED
  BY <1>2, <1>3 DEF Untried, BudgetInv, Refreshed, Counted, Exhausted

LEMMA UntriedIsFineNext == Untried' => BudgetInv'
  BY UntriedIsFine, PTL

LEMMA UntriedInit == RetryInit => BudgetInv
<1> SUFFICES ASSUME RetryInit PROVE Untried
  BY UntriedIsFine
<1>1. /\ attempts = 0 /\ retries = 0 /\ events = <<>> /\ sta = "idle" /\ mode = "STA"
      /\ queue = <<>> /\ pending = [s \in Senders |-> IF s = "task" THEN LoadRestore ELSE NoMsg]
  BY DEF RetryInit, Init, Boot
<1>2. \A s \in Senders : pending[s].code \notin {GotIpCode, StartCode}
  BY <1>1, Codes, CodesAreDistinct DEF TokenCodes
<1> QED
  BY <1>1, <1>2, HasNone DEF Untried, Coming

LEMMA BudgetReboot ==
  ASSUME Reboot, Count PROVE BudgetInv'
<1>1. /\ retries' = 0 /\ events' = <<>> /\ sta' = "idle" /\ mode' = "STA" /\ queue' = <<>>
      /\ pending' = [s \in Senders |-> IF s = "task" THEN LoadRestore ELSE NoMsg]
  BY DEF Reboot
<1>2. attempts' = 0
  BY <1>1 DEF Count, Restarted, Senders
<1>3. \A s \in Senders : pending'[s].code \notin {GotIpCode, StartCode}
  BY <1>1, Codes, CodesAreDistinct DEF TokenCodes
<1>4. Untried'
  BY <1>1, <1>2, <1>3, HasNone DEF Untried, Coming
<1> QED
  BY <1>4, UntriedIsFineNext

LEMMA BudgetLoad ==
  ASSUME Alone, TypeOK, AloneInv, BudgetInv, HandleLoadAndRestore, Count PROVE BudgetInv'
<1>1. Receive(LoadCode)
  BY DEF HandleLoadAndRestore, LoadCode
<1>2. BootStage /\ attempts = 0 /\ retries = 0
  BY <1>1, HeadComes DEF AloneInv, Fresh, BudgetInv, Refreshed
<1>3. queue' = <<>> /\ events' = <<>> /\ sta' = "idle" /\ mode' = "STA" /\ retries' = 0
      /\ nvs' = nvs
  <2>1. queue = <<LoadRestore>> /\ queue' = Tail(queue)
    BY <1>1, <1>2 DEF BootStage, Receive
  <2>2. queue' = <<>>
    BY <2>1
  <2> QED
    BY <1>2, <2>2 DEF HandleLoadAndRestore, BootStage, drvVars
<1>4. PICK m \in {ConnectSta("RESTORE_CONNECTION"), StartAp} :
        Blocks("task", m) /\ (m = StartAp => ~Named(nvs))
  <2>1. ConnectSta("RESTORE_CONNECTION") # StartAp
    BY Codes, CodesAreDistinct DEF TokenCodes
  <2> QED
    BY <2>1 DEF HandleLoadAndRestore
<1>5. m.code \in {ConnectCode, StartCode} /\ m # LoadRestore /\ (m.code = StartCode => ~Named(nvs))
  BY <1>4, Codes, CodesAreDistinct DEF TokenCodes
<1>6. pending'["task"] = m /\ \A s \in Senders \ {"task"} : pending'[s] = NoMsg
  BY <1>2, <1>4 DEF Blocks, TypeOK, BootStage, Senders
<1>7. attempts' = 0
  BY <1>2, <1>3, <1>5, <1>6 DEF Count, Restarted
<1>8. ~Coming({GotIpCode})' /\ (Coming({StartCode})' => ~Named(nvs)')
  <2>1. \A s \in Senders : pending'[s].code # GotIpCode
    BY <1>5, <1>6, Codes, CodesAreDistinct DEF TokenCodes
  <2>2. (\E s \in Senders : pending'[s].code = StartCode) => ~Named(nvs)'
    BY <1>3, <1>5, <1>6, Codes, CodesAreDistinct
  <2> QED
    BY <1>3, <2>1, <2>2, HasNone DEF Coming
<1> QED
  BY <1>3, <1>7, <1>8, UntriedIsFineNext DEF Untried

LEMMA BudgetNext ==
  ASSUME Alone, TypeOK, CopiesFollow, LossExplains, AloneInv, BudgetInv,
         [Next /\ Count]_<<vars, attempts>>
  PROVE  BudgetInv'
<1>1. CASE UNCHANGED <<vars, attempts>>
  <2>1. \A codes : Coming(codes)' <=> Coming(codes)
    BY <1>1 DEF Coming, vars
  <2> QED
    BY <1>1, <2>1 DEF BudgetInv, ApTurns, Refreshed, Counted, Exhausted, vars
<1>2. CASE Next /\ Count /\ Reboot
  BY <1>2, BudgetReboot
<1>3. CASE Next /\ Count /\ HandleLoadAndRestore
  BY <1>3, BudgetLoad
<1>4. CASE Next /\ Count /\ Onward
  <2>1. attempts' \in Nat
    BY <1>4, CountStep DEF BudgetInv, AloneInv, Tried
  <2> QED
    BY <1>4, <2>1, ApTurnsNext, RefreshedNext, CountedNext, ExhaustedNext DEF BudgetInv
<1> QED
  BY <1>1, <1>2, <1>3, <1>4 DEF Onward

\* More than the header's promise: the bound holds in every state.
LEMMA BudgetBounds == ASSUME TypeOK, BudgetInv PROVE attempts <= MaxRetry + 1
<1>1. /\ MaxRetry \in Nat /\ attempts \in Nat /\ retries \in 0 .. MaxRetry
      /\ mode \in {"STA", "APSTA"} /\ sta \in {"idle", "connecting", "connected"}
  BY ConstantsAssumption DEF TypeOK, BudgetInv
<1>2. CASE mode = "APSTA" \/ sta = "connected" \/ Coming({GotIpCode})
  BY <1>1, <1>2 DEF BudgetInv, Refreshed
<1>3. CASE Coming({StartCode})
  BY <1>3 DEF BudgetInv, Exhausted
<1>4. CASE mode = "STA" /\ sta # "connected" /\ ~Coming({GotIpCode}) /\ ~Coming({StartCode})
  <2>1. attempts \in {retries, retries + 1} \/ retries \in {attempts, attempts + 1}
    BY <1>1, <1>4 DEF BudgetInv, Counted
  <2> QED
    BY <1>1, <2>1
<1> QED
  BY <1>1, <1>2, <1>3, <1>4

LEMMA BudgetBoundsNext == TypeOK' /\ BudgetInv' => (attempts <= MaxRetry + 1)'
<1>1. TypeOK /\ BudgetInv => attempts <= MaxRetry + 1
  BY BudgetBounds
<1> QED
  BY <1>1, PTL

LEMMA WhoStartsAp ==
  ASSUME Alone, TypeOK, AloneInv, [Next]_vars, mode = "STA", mode' = "APSTA"
  PROVE  Coming({StartCode})
<1>1. ~Reboot /\ ~HandleLoadAndRestore
  BY DEF Reboot, HandleLoadAndRestore, drvVars
<1>2. HandleStartAp
  BY <1>1, WhoMoves, StopApEffect DEF Onward, AloneInv, HandleStopAp
<1> QED
  BY <1>2, StartApEffect

\* A maximum of MaxRetry retries means MaxRetry + 1 attempts in total
\* (wifi_manager.h:67), and the access point is not started before MaxRetry of
\* them have failed, as long as nobody interferes.
THEOREM BudgetIsKept == Alone => (RetrySpec => RetryBudget)
<1> SUFFICES ASSUME Alone PROVE RetrySpec => RetryBudget
  OBVIOUS
<1>1. RetryInit => Init /\ BudgetInv
  BY UntriedInit DEF RetryInit
<1>2. [Next /\ Count]_<<vars, attempts>> => [Next]_vars
  BY DEF vars
<1>3. TypeOK /\ CopiesFollow /\ LossExplains /\ AloneInv /\ BudgetInv
        /\ [Next /\ Count]_<<vars, attempts>> => BudgetInv'
  BY BudgetNext
<1>4. TypeOK /\ TypeOK' /\ AloneInv /\ BudgetInv /\ BudgetInv'
        /\ [Next /\ Count]_<<vars, attempts>>
        => [/\ (mode' = "STA" /\ ~ApOrdered') => attempts' <= MaxRetry + 1
            /\ (mode = "STA" /\ mode' = "APSTA" /\ Named(nvs)) => attempts >= MaxRetry
           ]_<<vars, attempts>>
  <2> SUFFICES ASSUME TypeOK, TypeOK', AloneInv, BudgetInv, BudgetInv',
                      [Next /\ Count]_<<vars, attempts>>
               PROVE  /\ attempts' <= MaxRetry + 1
                      /\ mode = "STA" /\ mode' = "APSTA" /\ Named(nvs)
                           => attempts >= MaxRetry
    OBVIOUS
  <2>1. attempts' <= MaxRetry + 1
    BY BudgetBoundsNext
  <2>2. mode = "STA" /\ mode' = "APSTA" => Coming({StartCode})
    BY <1>2, WhoStartsAp
  <2> QED
    BY <2>1, <2>2 DEF BudgetInv, Exhausted
<1>5. Spec => [](TypeOK /\ CopiesFollow) /\ [](TypeOK /\ LossExplains /\ AloneInv)
  BY Copies, AloneAlways
<1>6. RetrySpec => Spec
  BY <1>1, <1>2, PTL DEF RetrySpec, Spec
<1> QED
  BY <1>1, <1>3, <1>4, <1>5, <1>6, PTL DEF RetrySpec, RetryBudget

=============================================================================
