---------------------------- MODULE Blufi_proofs ----------------------------
(***************************************************************************)
(* What holds of Blufi for every retry limit, either host, every number of *)
(* waiting events and of requests, and whatever the timing.                *)
(***************************************************************************)
EXTENDS Blufi, SequenceTheorems, TLAPS

-----------------------------------------------------------------------------
(* The phone's connection and the heap.                                    *)

Phases ==
  {<<"wifi", "controller", "host", "callbacks", "profile">>,
   <<"controller", "host", "callbacks", "profile">>,
   <<"host", "callbacks", "profile">>, <<"callbacks", "profile">>,
   <<"wifi", "controller", "callbacks", "host", "profile">>,
   <<"controller", "callbacks", "host", "profile">>,
   <<"callbacks", "host", "profile">>, <<"host", "profile">>,
   <<"profile">>, <<"failed">>, <<>>}

(* app_main registers the callbacks before it starts the profile.          *)
BootInv ==
  /\ todo \in Phases /\ registered \in BOOLEAN
  /\ todo \in {<<"host", "profile">>, <<"profile">>, <<>>} => registered

Meets(waiting, told_, held, visible) ==
  calls = waiting /\ ble = told_ /\ bleLink = held /\ advertising = visible

(* What waits to be called back is what ble_is_connected does not show yet,*)
(* and a connected device does not advertise.                              *)
MeetInv ==
  \/ todo # <<>> /\ Meets(<<>>, FALSE, FALSE, FALSE)
  \/ /\ todo = <<>>
     /\ \/ Meets(<<"INIT_FINISH">>, FALSE, FALSE, FALSE)
        \/ Meets(<<>>, FALSE, FALSE, TRUE)
        \/ Meets(<<"BLE_CONNECT">>, FALSE, TRUE, FALSE)
        \/ Meets(<<"BLE_CONNECT", "BLE_DISCONNECT">>, FALSE, FALSE, FALSE)
        \/ Meets(<<>>, TRUE, TRUE, FALSE)
        \/ Meets(<<"BLE_DISCONNECT">>, TRUE, FALSE, FALSE)

(* The context lives only while a phone is connected, so that a new one    *)
(* never replaces another.                                                 *)
OwnInv ==
  /\ context \in BOOLEAN /\ dhParam \in BOOLEAN /\ keySet \in BOOLEAN
  /\ error \in Errors
  /\ context = TRUE => ble = TRUE
  /\ HeapIsOwned

PhoneInv == BootInv /\ MeetInv /\ OwnInv
phoneVars == <<bootVars, ble, bleVars, securityVars>>

LEMMA PhoneInit == Init => PhoneInv
<1> SUFFICES ASSUME Init PROVE PhoneInv
  OBVIOUS
<1>1. todo \in Phases /\ Len(todo) = 5
  BY DEF Init, BluedroidStart, NimbleStart, Phases
<1>2. todo \notin {<<"host", "profile">>, <<"profile">>, <<>>}
  <2>1. /\ Len(<<"host", "profile">>) = 2 /\ Len(<<"profile">>) = 1
        /\ Len(<<>>) = 0
    OBVIOUS
  <2>2. /\ Len(todo) # Len(<<"host", "profile">>)
        /\ Len(todo) # Len(<<"profile">>) /\ Len(todo) # Len(<<>>)
    BY <1>1, <2>1
  <2> QED
    BY <2>2
<1>3. BootInv
  BY <1>1, <1>2 DEF Init, BootInv
<1>4. MeetInv
  BY <1>2 DEF Init, MeetInv, Meets
<1>5. /\ context = FALSE /\ dhParam = FALSE /\ keySet = FALSE
      /\ heap = 0 /\ error \in Errors
  BY DEF Init, SecurityStart, Errors
<1>6. HeapIsOwned
  <2>1. Blocks(context) = 0 /\ Blocks(dhParam) = 0
    BY <1>5 DEF Blocks
  <2> QED
    BY <1>5, <2>1 DEF HeapIsOwned
<1>7. OwnInv
  BY <1>5, <1>6 DEF OwnInv
<1> QED
  BY <1>3, <1>4, <1>7 DEF PhoneInv

LEMMA PhaseTails ==
  ASSUME NEW p \in Phases, p # <<>>, Head(p) # "failed"
  PROVE  /\ Tail(p) \in Phases
         /\ Tail(p) \in {<<"host", "profile">>, <<"profile">>, <<>>} =>
              \/ p \in {<<"host", "profile">>, <<"profile">>}
              \/ Head(p) = "callbacks"
         /\ Tail(p) = <<>> <=> Head(p) = "profile"
<1>1. CASE p = <<"wifi", "controller", "host", "callbacks", "profile">>
  <2>1. Head(p) = "wifi" /\ Tail(p) = <<"controller", "host", "callbacks", "profile">> /\ Len(Tail(p)) = 4
    BY <1>1
  <2> QED
    BY <2>1, <1>1 DEF Phases
<1>2. CASE p = <<"controller", "host", "callbacks", "profile">>
  <2>1. Head(p) = "controller" /\ Tail(p) = <<"host", "callbacks", "profile">> /\ Len(Tail(p)) = 3
    BY <1>2
  <2> QED
    BY <2>1, <1>2 DEF Phases
<1>3. CASE p = <<"host", "callbacks", "profile">>
  <2>1. Head(p) = "host" /\ Tail(p) = <<"callbacks", "profile">> /\ Len(Tail(p)) = 2
    BY <1>3
  <2> QED
    BY <2>1, <1>3 DEF Phases
<1>4. CASE p = <<"callbacks", "profile">>
  <2>1. Head(p) = "callbacks" /\ Tail(p) = <<"profile">> /\ Len(Tail(p)) = 1
    BY <1>4
  <2> QED
    BY <2>1, <1>4 DEF Phases
<1>5. CASE p = <<"wifi", "controller", "callbacks", "host", "profile">>
  <2>1. Head(p) = "wifi" /\ Tail(p) = <<"controller", "callbacks", "host", "profile">> /\ Len(Tail(p)) = 4
    BY <1>5
  <2> QED
    BY <2>1, <1>5 DEF Phases
<1>6. CASE p = <<"controller", "callbacks", "host", "profile">>
  <2>1. Head(p) = "controller" /\ Tail(p) = <<"callbacks", "host", "profile">> /\ Len(Tail(p)) = 3
    BY <1>6
  <2> QED
    BY <2>1, <1>6 DEF Phases
<1>7. CASE p = <<"callbacks", "host", "profile">>
  <2>1. Head(p) = "callbacks" /\ Tail(p) = <<"host", "profile">> /\ Len(Tail(p)) = 2
    BY <1>7
  <2> QED
    BY <2>1, <1>7 DEF Phases
<1>8. CASE p = <<"host", "profile">>
  <2>1. Head(p) = "host" /\ Tail(p) = <<"profile">> /\ Len(Tail(p)) = 1
    BY <1>8
  <2> QED
    BY <2>1, <1>8 DEF Phases
<1>9. CASE p = <<"profile">>
  <2>1. Head(p) = "profile" /\ Tail(p) = <<>> /\ Len(Tail(p)) = 0
    BY <1>9
  <2> QED
    BY <2>1, <1>9 DEF Phases
<1>10. p # <<"failed">>
  <2>1. Head(<<"failed">>) = "failed"
    OBVIOUS
  <2> QED
    BY <2>1
<1> QED
  BY <1>1, <1>2, <1>3, <1>4, <1>5, <1>6, <1>7, <1>8, <1>9, <1>10 DEF Phases

LEMMA PhoneBoots == PhoneInv /\ BootStep => PhoneInv'
<1> SUFFICES ASSUME PhoneInv, BootStep PROVE PhoneInv'
  OBVIOUS
<1>1. PICK step \in BootSteps : Boots(step) /\ step # "failed"
  BY DEF BootStep, InitialiseWifi, ControllerStarts, HostStarts, RegisterCallbacks,
         ProfileStarts, BootSteps
<1>2. /\ todo # <<>> /\ Head(todo) = step /\ todo' = Tail(todo)
      /\ UNCHANGED <<ble, bleLink, advertising, securityVars>>
  BY <1>1 DEF Boots
<1>3. Meets(<<>>, FALSE, FALSE, FALSE)
  BY <1>2 DEF PhoneInv, MeetInv
<1>4. /\ todo' \in Phases
      /\ todo' \in {<<"host", "profile">>, <<"profile">>, <<>>} =>
           \/ todo \in {<<"host", "profile">>, <<"profile">>}
           \/ step = "callbacks"
      /\ todo' = <<>> <=> step = "profile"
  BY <1>1, <1>2, PhaseTails DEF PhoneInv, BootInv
<1>5. BootInv'
  <2>1. CASE RegisterCallbacks
    BY <2>1, <1>4 DEF BootInv, RegisterCallbacks
  <2>2. CASE ~RegisterCallbacks
    <3>1. registered' = registered /\ step # "callbacks"
      BY <1>2, <2>2 DEF BootStep, InitialiseWifi, ControllerStarts, HostStarts, RegisterCallbacks,
                   ProfileStarts, Boots
    <3> QED
      BY <3>1, <1>4 DEF PhoneInv, BootInv
  <2> QED
    BY <2>1, <2>2
<1>6. MeetInv'
  <2>1. CASE ProfileStarts
    <3>1. registered /\ todo' = <<>>
      <4>1. step = "profile"
        BY <2>1, <1>2 DEF ProfileStarts, Boots
      <4>2. todo = <<"profile">>
        BY <4>1, <1>2, <1>4 DEF PhoneInv, BootInv, Phases
      <4> QED
        BY <4>1, <4>2, <1>4 DEF PhoneInv, BootInv
    <3>2. calls' = <<"INIT_FINISH">>
      BY <2>1, <3>1, <1>3 DEF ProfileStarts, Meets
    <3> QED
      BY <3>1, <3>2, <1>2, <1>3 DEF MeetInv, Meets
  <2>2. CASE ~ProfileStarts
    <3>1. calls' = calls /\ step # "profile"
      BY <1>2, <2>2 DEF BootStep, InitialiseWifi, ControllerStarts, HostStarts, RegisterCallbacks,
                   ProfileStarts, Boots
    <3> QED
      BY <3>1, <1>2, <1>3, <1>4 DEF MeetInv, Meets
  <2> QED
    BY <2>1, <2>2
<1>7. OwnInv'
  BY <1>2 DEF PhoneInv, OwnInv, HeapIsOwned, securityVars, Blocks
<1> QED
  BY <1>5, <1>6, <1>7 DEF PhoneInv

LEMMA PhoneBootFails == PhoneInv /\ BootFails => PhoneInv'
<1> SUFFICES ASSUME PhoneInv, BootFails PROVE PhoneInv'
  OBVIOUS
<1> USE DEF BootFails
<1>1. todo # <<>> /\ todo' = <<"failed">> /\ todo' # <<>>
  OBVIOUS
<1>2. BootInv'
  BY <1>1 DEF PhoneInv, BootInv, Phases
<1>3. MeetInv'
  BY <1>1 DEF PhoneInv, MeetInv, Meets, bleVars
<1>4. OwnInv'
  BY DEF PhoneInv, OwnInv, HeapIsOwned, securityVars, Blocks
<1> QED
  BY <1>2, <1>3, <1>4 DEF PhoneInv

LEMMA AppendOne ==
  ASSUME NEW a, NEW b
  PROVE  Append(<<a>>, b) = <<a, b>> /\ Append(<<>>, b) = <<b>>
<1>1. <<a>> \in Seq({a, b}) /\ <<a, b>> \in Seq({a, b}) /\ b \in {a, b}
  OBVIOUS
<1>2. Append(<<a>>, b) \in Seq({a, b}) /\ Len(Append(<<a>>, b)) = 2
  BY <1>1, AppendProperties
<1>3. Append(<<a>>, b)[1] = a /\ Append(<<a>>, b)[2] = b
  BY <1>1, AppendProperties
<1>4. Append(<<a>>, b) = <<a, b>>
  <2>1. Len(Append(<<a>>, b)) = Len(<<a, b>>) /\ Len(Append(<<a>>, b)) = 2
    BY <1>2
  <2>2. \A i \in 1 .. Len(Append(<<a>>, b)) : Append(<<a>>, b)[i] = <<a, b>>[i]
    <3>1. <<a, b>>[1] = a /\ <<a, b>>[2] = b
      OBVIOUS
    <3> QED
      BY <1>3, <2>1, <3>1
  <2> QED
    BY <1>1, <1>2, <2>1, <2>2, SeqEqual
<1> QED
  BY <1>4

LEMMA PhoneMoves == PhoneInv /\ (PhoneConnects \/ PhoneLeaves \/ SlaveDisconnect) => PhoneInv'
<1> SUFFICES ASSUME PhoneInv, PhoneConnects \/ PhoneLeaves \/ SlaveDisconnect
             PROVE  PhoneInv'
  OBVIOUS
<1>1. UNCHANGED <<bootVars, ble, securityVars>>
  BY DEF PhoneConnects, PhoneLeaves, SlaveDisconnect, Request, Serves
<1>2. BootInv' /\ OwnInv'
  BY <1>1 DEF PhoneInv, BootInv, OwnInv, HeapIsOwned, Blocks, bootVars, securityVars
<1>3. MeetInv'
  <2>1. CASE PhoneConnects
    <3>1. Meets(<<>>, FALSE, FALSE, TRUE) /\ todo = <<>>
      BY <2>1 DEF PhoneInv, MeetInv, Meets, PhoneConnects
    <3>2. Meets(<<"BLE_CONNECT">>, FALSE, TRUE, FALSE)'
      BY <2>1, <3>1, <1>1 DEF Meets, PhoneConnects
    <3> QED
      BY <3>1, <3>2, <1>1 DEF MeetInv, bootVars
  <2>2. CASE PhoneLeaves
    <3>1. /\ bleLink' = FALSE /\ calls' = Append(calls, "BLE_DISCONNECT")
          /\ UNCHANGED <<advertising, ble, todo>>
      BY <2>2, <1>1 DEF PhoneLeaves, bootVars
    <3>2. \/ Meets(<<"BLE_CONNECT">>, FALSE, TRUE, FALSE)
          \/ Meets(<<>>, TRUE, TRUE, FALSE)
      BY <2>2 DEF PhoneInv, MeetInv, Meets, PhoneLeaves
    <3>3. todo = <<>>
      BY <2>2 DEF PhoneInv, MeetInv, Meets, PhoneLeaves
    <3>4. /\ Append(<<"BLE_CONNECT">>, "BLE_DISCONNECT") = <<"BLE_CONNECT", "BLE_DISCONNECT">>
          /\ Append(<<>>, "BLE_DISCONNECT") = <<"BLE_DISCONNECT">>
      BY AppendOne
    <3>5. CASE Meets(<<"BLE_CONNECT">>, FALSE, TRUE, FALSE)
      <4>1. Meets(<<"BLE_CONNECT", "BLE_DISCONNECT">>, FALSE, FALSE, FALSE)'
        BY <3>1, <3>4, <3>5 DEF Meets
      <4> QED
        BY <3>1, <3>3, <4>1 DEF MeetInv
    <3>6. CASE Meets(<<>>, TRUE, TRUE, FALSE)
      <4>1. Meets(<<"BLE_DISCONNECT">>, TRUE, FALSE, FALSE)'
        BY <3>1, <3>4, <3>6 DEF Meets
      <4> QED
        BY <3>1, <3>3, <4>1 DEF MeetInv
    <3> QED
      BY <3>2, <3>5, <3>6
  <2>3. CASE SlaveDisconnect
    <3>1. Meets(<<>>, TRUE, TRUE, FALSE) /\ todo = <<>>
      BY <2>3 DEF PhoneInv, MeetInv, Meets, SlaveDisconnect, Request, Serves
    <3>2. Meets(<<"BLE_DISCONNECT">>, TRUE, FALSE, FALSE)'
      BY <2>3, <3>1 DEF Meets, SlaveDisconnect, Request, Serves
    <3> QED
      BY <3>1, <3>2, <1>1 DEF MeetInv, bootVars
  <2> QED
    BY <2>1, <2>2, <2>3
<1> QED
  BY <1>2, <1>3 DEF PhoneInv

LEMMA PhoneCalledBack == PhoneInv /\ (InitFinish \/ BleConnect \/ BleDisconnect) => PhoneInv'
<1> SUFFICES ASSUME PhoneInv, InitFinish \/ BleConnect \/ BleDisconnect
             PROVE  PhoneInv'
  OBVIOUS
<1>1. UNCHANGED bootVars /\ UNCHANGED bleLink /\ calls # <<>> /\ calls' = Tail(calls)
  BY DEF InitFinish, BleConnect, BleDisconnect, CallsBack
<1>2. BootInv' /\ todo = <<>> /\ todo' = <<>>
  BY <1>1 DEF PhoneInv, BootInv, MeetInv, Meets, bootVars
<1>3. /\ Tail(<<"INIT_FINISH">>) = <<>> /\ Head(<<"INIT_FINISH">>) = "INIT_FINISH"
      /\ Tail(<<"BLE_CONNECT">>) = <<>> /\ Head(<<"BLE_CONNECT">>) = "BLE_CONNECT"
      /\ Tail(<<"BLE_DISCONNECT">>) = <<>> /\ Head(<<"BLE_DISCONNECT">>) = "BLE_DISCONNECT"
      /\ Tail(<<"BLE_CONNECT", "BLE_DISCONNECT">>) = <<"BLE_DISCONNECT">>
      /\ Head(<<"BLE_CONNECT", "BLE_DISCONNECT">>) = "BLE_CONNECT"
  OBVIOUS
<1>4. CASE InitFinish
  <2>1. Meets(<<"INIT_FINISH">>, FALSE, FALSE, FALSE)
    BY <1>2, <1>3, <1>4 DEF PhoneInv, MeetInv, Meets, InitFinish, CallsBack
  <2>2. Meets(<<>>, FALSE, FALSE, TRUE)'
    BY <2>1, <1>1, <1>3, <1>4 DEF Meets, InitFinish
  <2>3. OwnInv'
    BY <1>4 DEF PhoneInv, OwnInv, HeapIsOwned, InitFinish, securityVars, Blocks
  <2> QED
    BY <1>2, <2>2, <2>3 DEF PhoneInv, MeetInv
<1>5. CASE BleConnect
  <2>1. \/ Meets(<<"BLE_CONNECT">>, FALSE, TRUE, FALSE)
        \/ Meets(<<"BLE_CONNECT", "BLE_DISCONNECT">>, FALSE, FALSE, FALSE)
    BY <1>2, <1>3, <1>5 DEF PhoneInv, MeetInv, Meets, BleConnect, CallsBack
  <2>2. ble' = TRUE /\ advertising' = FALSE
    BY <1>5 DEF BleConnect
  <2>3. MeetInv'
    BY <2>1, <2>2, <1>1, <1>2, <1>3 DEF MeetInv, Meets
  <2>4. context = FALSE /\ dhParam = FALSE /\ heap = 0
    <3>1. context = FALSE
      BY <2>1 DEF Meets, PhoneInv, OwnInv
    <3>2. dhParam = FALSE
      BY <3>1 DEF PhoneInv, OwnInv, HeapIsOwned
    <3>3. Blocks(context) = 0 /\ Blocks(dhParam) = 0
      BY <3>1, <3>2 DEF Blocks
    <3> QED
      BY <3>1, <3>2, <3>3 DEF PhoneInv, OwnInv, HeapIsOwned
  <2>5. dhParam' = FALSE /\ keySet' = FALSE /\ error' \in Errors
    BY <1>5 DEF BleConnect, SecurityInit, Errors
  <2>6. (context' = TRUE /\ heap' = 1) \/ (context' = FALSE /\ heap' = 0)
    BY <1>5, <2>4 DEF BleConnect, SecurityInit
  <2>7. HeapIsOwned'
    <3>1. Blocks(dhParam') = 0
      BY <2>5 DEF Blocks
    <3>2. (context' = TRUE => Blocks(context') = 1) /\ (context' = FALSE => Blocks(context') = 0)
      BY DEF Blocks
    <3>3. heap' = Blocks(context') + Blocks(dhParam')
      BY <2>6, <3>1, <3>2
    <3> QED
      BY <2>5, <3>3 DEF HeapIsOwned
  <2>8. OwnInv'
    BY <2>2, <2>5, <2>6, <2>7 DEF OwnInv
  <2> QED
    BY <1>2, <2>3, <2>8 DEF PhoneInv
<1>6. CASE BleDisconnect
  <2>1. Meets(<<"BLE_DISCONNECT">>, TRUE, FALSE, FALSE)
    BY <1>2, <1>3, <1>6 DEF PhoneInv, MeetInv, Meets, BleDisconnect, CallsBack
  <2>2. ble' = FALSE /\ advertising' = TRUE
    BY <1>6 DEF BleDisconnect
  <2>3. MeetInv'
    BY <2>1, <2>2, <1>1, <1>2, <1>3 DEF MeetInv, Meets
  <2>4. context' = FALSE /\ dhParam' = FALSE /\ keySet' = FALSE /\ error' = error
    BY <1>6 DEF BleDisconnect, SecurityDeinit
  <2>5. heap' = heap - Blocks(context) - Blocks(context /\ dhParam)
    BY <1>6 DEF BleDisconnect, SecurityDeinit
  <2>6. Blocks(context /\ dhParam) = Blocks(dhParam)
    BY DEF PhoneInv, OwnInv, HeapIsOwned, Blocks
  <2>7. Blocks(context) \in Nat /\ Blocks(dhParam) \in Nat
    BY DEF Blocks
  <2>8. heap' = 0
    BY <2>5, <2>6, <2>7 DEF PhoneInv, OwnInv, HeapIsOwned
  <2>9. HeapIsOwned'
    <3>1. Blocks(context') = 0 /\ Blocks(dhParam') = 0
      BY <2>4 DEF Blocks
    <3> QED
      BY <2>4, <2>8, <3>1 DEF HeapIsOwned
  <2>10. OwnInv'
    BY <2>4, <2>9 DEF PhoneInv, OwnInv
  <2> QED
    BY <1>2, <2>3, <2>10 DEF PhoneInv
<1> QED
  BY <1>4, <1>5, <1>6

LEMMA PhoneNegotiates == PhoneInv /\ ReceiveNegotiation => PhoneInv'
<1> SUFFICES ASSUME PhoneInv, ReceiveNegotiation PROVE PhoneInv'
  OBVIOUS
<1>1. UNCHANGED <<bootVars, ble, bleVars>> /\ ble = TRUE /\ Negotiate
  BY DEF ReceiveNegotiation, Request, Serves, bleVars, PhoneInv, MeetInv, Meets
<1>2. BootInv' /\ MeetInv'
  BY <1>1 DEF PhoneInv, BootInv, MeetInv, Meets, bootVars, bleVars
<1>3. context' = context
  BY <1>1 DEF Negotiate, NegotiateLen, NegotiateData, NegotiateUninitialised
<1>4. /\ dhParam' \in BOOLEAN /\ keySet' \in BOOLEAN /\ error' \in Errors
  BY <1>1 DEF Negotiate, NegotiateLen, NegotiateData, NegotiateUninitialised, PhoneInv, OwnInv,
         Errors
<1>5. heap \in Nat
  BY DEF PhoneInv, OwnInv, HeapIsOwned, Blocks
<1>6. heap' = Blocks(context) + Blocks(dhParam')
  <2>1. CASE NegotiateLen
    <3>1. (dhParam' = TRUE /\ heap' = heap - Blocks(dhParam) + 1)
          \/ (dhParam' = FALSE /\ heap' = heap - Blocks(dhParam))
      BY <2>1 DEF NegotiateLen
    <3>2. Blocks(context) \in Nat /\ Blocks(dhParam) \in Nat
      BY DEF Blocks
    <3>3. /\ dhParam' = TRUE => Blocks(dhParam') = 1
          /\ dhParam' = FALSE => Blocks(dhParam') = 0
      BY DEF Blocks
    <3>4. heap = Blocks(context) + Blocks(dhParam)
      BY DEF PhoneInv, OwnInv, HeapIsOwned
    <3> QED
      BY <3>1, <3>2, <3>3, <3>4
  <2>2. CASE NegotiateData
    <3>1. \/ dhParam' = dhParam /\ heap' = heap
          \/ dhParam = TRUE /\ dhParam' = FALSE /\ heap' = heap - 1
      BY <2>2 DEF NegotiateData, PhoneInv, OwnInv
    <3>2. Blocks(context) \in Nat
      BY DEF Blocks
    <3>3. /\ dhParam = TRUE => Blocks(dhParam) = 1
          /\ dhParam' = FALSE => Blocks(dhParam') = 0
          /\ dhParam' = dhParam => Blocks(dhParam') = Blocks(dhParam)
      BY DEF Blocks
    <3>4. heap = Blocks(context) + Blocks(dhParam)
      BY DEF PhoneInv, OwnInv, HeapIsOwned
    <3> QED
      BY <3>1, <3>2, <3>3, <3>4
  <2>3. CASE NegotiateUninitialised
    BY <2>3 DEF NegotiateUninitialised, PhoneInv, OwnInv, HeapIsOwned
  <2> QED
    BY <1>1, <2>1, <2>2, <2>3 DEF Negotiate
<1>7. dhParam' \/ keySet' => context'
  BY <1>1, <1>3 DEF Negotiate, NegotiateLen, NegotiateData, NegotiateUninitialised, PhoneInv,
         OwnInv, HeapIsOwned
<1>8. OwnInv'
  BY <1>1, <1>3, <1>4, <1>6, <1>7 DEF PhoneInv, OwnInv, HeapIsOwned
<1> QED
  BY <1>2, <1>8 DEF PhoneInv

(* Every other step leaves the phone's connection and the heap alone.      *)
Elsewhere ==
  \/ EventLoop \/ Driver \/ ReqConnectCalls \/ ReqConnectAssigns
  \/ GetWifiStatus \/ ReqConnect \/ ReqDisconnect \/ RecvStaConfig \/ GetWifiList
  \/ \E m \in Modes : SetWifiOpmode(m)

LEMMA PhoneElsewhere == Elsewhere => UNCHANGED phoneVars
<1>1. EventLoop => UNCHANGED phoneVars
  BY DEF EventLoop, HandleStaStart, StaStartAssigns, HandleStaConnected, HandleLinkLost,
         HandleAttemptFailed, ReconnectAssigns, HandleGotIp, HandleApStart, HandleScanDone,
         Starts, Handles, phoneVars
<1>2. Driver => UNCHANGED phoneVars
  BY DEF Driver, Associates, Breaks, LeaseArrives, ScanCompletes, phoneVars
<1>3. ReqConnectCalls \/ ReqConnectAssigns => UNCHANGED phoneVars
  BY DEF ReqConnectCalls, ReqConnectAssigns, phoneVars
<1>4. GetWifiStatus \/ ReqConnect \/ ReqDisconnect => UNCHANGED phoneVars
  BY DEF GetWifiStatus, ReqConnect, ReqDisconnect, Request, Serves, phoneVars, bleVars
<1>5. RecvStaConfig \/ GetWifiList => UNCHANGED phoneVars
  BY DEF RecvStaConfig, GetWifiList, Request, Serves, phoneVars, bleVars
<1>6. ASSUME NEW m \in Modes PROVE SetWifiOpmode(m) => UNCHANGED phoneVars
  BY DEF SetWifiOpmode, Request, Serves, phoneVars, bleVars
<1> QED
  BY <1>1, <1>2, <1>3, <1>4, <1>5, <1>6 DEF Elsewhere

LEMMA NextCases ==
  Next <=> \/ BootStep \/ BootFails \/ PhoneConnects \/ PhoneLeaves \/ SlaveDisconnect
           \/ InitFinish \/ BleConnect \/ BleDisconnect \/ ReceiveNegotiation \/ Elsewhere
  BY DEF Next, Bluetooth, Phone, Elsewhere

LEMMA PhoneStep == PhoneInv /\ [Next]_vars => PhoneInv'
<1>1. PhoneInv /\ UNCHANGED phoneVars => PhoneInv'
  BY DEF PhoneInv, BootInv, MeetInv, Meets, OwnInv, HeapIsOwned, Blocks, phoneVars, bootVars,
         bleVars, securityVars
<1>2. UNCHANGED vars => UNCHANGED phoneVars
  BY DEF vars, phoneVars
<1> QED
  BY <1>1, <1>2, NextCases, PhoneBoots, PhoneBootFails, PhoneMoves, PhoneCalledBack,
     PhoneNegotiates, PhoneElsewhere

LEMMA PhoneAlways == Spec => []PhoneInv
  BY PhoneInit, PhoneStep, PTL DEF Spec

(* blufi_security: over connections, failed and repeated negotiations, the *)
(* blocks on the heap are those the program still points to.               *)
THEOREM HeapOwned == Spec => []HeapIsOwned
<1>1. PhoneInv => HeapIsOwned
  BY DEF PhoneInv, OwnInv
<1> QED
  BY <1>1, PhoneAlways, PTL

(* Once blufi is up, a phone finds the device or is connected to it, and   *)
(* the key negotiated with one phone is gone before the next is met.       *)
THEOREM PhoneReturns == Spec => []PhoneCanReturn
<1>1. PhoneInv => PhoneCanReturn
  <2> SUFFICES ASSUME PhoneInv, todo = <<>>, calls = <<>> PROVE PhoneCanReturn
    BY DEF PhoneCanReturn
  <2>1. Meets(<<>>, FALSE, FALSE, TRUE) \/ Meets(<<>>, TRUE, TRUE, FALSE)
    BY DEF PhoneInv, MeetInv, Meets
  <2>2. context => ble
    BY DEF PhoneInv, OwnInv
  <2> QED
    BY <2>1, <2>2 DEF PhoneCanReturn, Meets
<1> QED
  BY <1>1, PhoneAlways, PTL

-----------------------------------------------------------------------------
(* The types.                                                              *)

WifiT == /\ connected \in BOOLEAN /\ connecting \in BOOLEAN /\ gotIp \in BOOLEAN
         /\ connInfo \in {"retrying", "ended"}
         /\ told \in {"nothing", "success", "no_ip", "connecting", "fail"}
DriverT == /\ mode \in Modes /\ config \in BOOLEAN
           /\ link \in {"idle", "connecting", "up"}
           /\ dhcp \in {"off", "started", "bound"}
AtT == at \in [Tasks -> {"ready", "connect", "accepted", "refused", "scan"}]
CountsT == retry \in 0 .. 255 /\ left \in 0 .. Requests
EventsT == events \in Seq(DriverEvents)
Types == WifiT /\ DriverT /\ AtT /\ CountsT /\ EventsT

LEMMA TypesInit == Init => Types
<1> SUFFICES ASSUME Init PROVE Types
  OBVIOUS
<1>1. WifiT /\ DriverT
  BY DEF Init, WifiT, DriverT, Modes
<1>2. AtT /\ EventsT
  BY DEF Init, AtT, EventsT
<1>3. CountsT
  BY BlufiAssumption DEF Init, CountsT
<1> QED
  BY <1>1, <1>2, <1>3 DEF Types

(* Every step disturbs the flags, the driver and the tasks within types.   *)
LEMMA TypesMoves ==
  ASSUME Types, NEW task \in Tasks, Attempt(task) \/ Assign(task)
  PROVE  AtT'
  BY DEF Types, AtT, Attempt, Assign, Tasks

LEMMA ConnectType ==
  ASSUME DriverT, NEW accepted \in BOOLEAN, EspWifiConnect(accepted)
  PROVE  link' \in {"idle", "connecting", "up"}
  BY DEF DriverT, EspWifiConnect

LEMMA AttemptType ==
  ASSUME DriverT, NEW task \in Tasks, Attempt(task)
  PROVE  link' \in {"idle", "connecting", "up"}
  BY ConnectType DEF Attempt

LEMMA EventsType ==
  /\ Types /\ events # <<>> /\ events' = Tail(events) => EventsT'
  /\ Types /\ (\E e \in DriverEvents : events' = events \o <<e>>) => EventsT'
  /\ Types /\ events' = events => EventsT'
<1>1. ASSUME Types, NEW e \in DriverEvents, events' = events \o <<e>> PROVE EventsT'
  BY <1>1, ConcatProperties DEF Types, EventsT
<1> QED
  BY <1>1, HeadTailProperties DEF Types, EventsT

LEMMA OneEvent ==
  /\ <<>> \in Seq(DriverEvents)
  /\ \A e \in DriverEvents : <<e>> \in Seq(DriverEvents)
  OBVIOUS

LEMMA DroppedType == Dropped \in Seq(DriverEvents)
<1>1. "STA_DISCONNECTED" \in DriverEvents
  BY DEF DriverEvents
<1> QED
  BY <1>1, OneEvent DEF Dropped

LEMMA TypesEventLoop == Types /\ EventLoop => Types'
<1> SUFFICES ASSUME Types, EventLoop PROVE Types'
  OBVIOUS
<1>1. UNCHANGED <<mode, config, left>>
  BY DEF EventLoop, HandleStaStart, StaStartAssigns, HandleStaConnected, HandleLinkLost,
         HandleAttemptFailed, ReconnectAssigns, HandleGotIp, HandleApStart, HandleScanDone,
         Starts, Handles
<1>2. EventsT'
  <2>1. events # <<>> /\ (events' = Tail(events) \/ events' = events)
    BY DEF EventLoop, HandleStaStart, StaStartAssigns, HandleStaConnected, HandleLinkLost,
           HandleAttemptFailed, ReconnectAssigns, HandleGotIp, HandleApStart, HandleScanDone,
           Starts, Handles, Done, LinkGone, GiveUp
  <2> QED
    BY <2>1, EventsType
<1>3. retry' \in 0 .. 255
  <2>1. retry' \in {0, retry, (retry + 1) % 256}
    BY DEF EventLoop, HandleStaStart, StaStartAssigns, HandleStaConnected, HandleLinkLost,
           HandleAttemptFailed, ReconnectAssigns, HandleGotIp, HandleApStart, HandleScanDone,
           progVars
  <2> QED
    BY <2>1 DEF Types, CountsT
<1>4. \/ Attempt("event_loop") \/ Assign("event_loop") \/ UNCHANGED at
  BY DEF EventLoop, HandleStaStart, StaStartAssigns, HandleStaConnected, HandleLinkLost,
         HandleAttemptFailed, ReconnectAssigns, HandleGotIp, HandleApStart, HandleScanDone,
         GiveUp
<1>5. AtT'
  BY <1>4, TypesMoves DEF Types, AtT, Tasks
<1>6. link' \in {"idle", "connecting", "up"} /\ dhcp' \in {"off", "started", "bound"}
  <2>1. Attempt("event_loop") \/ link' = link
    BY DEF EventLoop, HandleStaStart, StaStartAssigns, HandleStaConnected, HandleLinkLost,
           HandleAttemptFailed, ReconnectAssigns, HandleGotIp, HandleApStart, HandleScanDone,
           GiveUp
  <2>2. dhcp' \in {dhcp, "started", "off"}
    BY DEF EventLoop, HandleStaStart, StaStartAssigns, HandleStaConnected, HandleLinkLost,
           HandleAttemptFailed, ReconnectAssigns, HandleGotIp, HandleApStart, HandleScanDone,
           GiveUp, LinkGone
  <2> QED
    BY <2>1, <2>2, AttemptType DEF Types, DriverT, Tasks
<1>7. WifiT'
  <2>1. connected' \in {connected, TRUE, FALSE} /\ gotIp' \in {gotIp, TRUE, FALSE}
    BY DEF EventLoop, HandleStaStart, StaStartAssigns, HandleStaConnected, HandleLinkLost,
           HandleAttemptFailed, ReconnectAssigns, HandleGotIp, HandleApStart, HandleScanDone,
           GiveUp, LinkGone, Assign, progVars
  <2>2. connecting' \in {connecting, TRUE, FALSE}
    BY DEF EventLoop, HandleStaStart, StaStartAssigns, HandleStaConnected, HandleLinkLost,
           HandleAttemptFailed, ReconnectAssigns, HandleGotIp, HandleApStart, HandleScanDone,
           GiveUp, LinkGone, Assign, progVars
  <2>3. connInfo' \in {connInfo, "retrying", "ended"}
    BY DEF EventLoop, HandleStaStart, StaStartAssigns, HandleStaConnected, HandleLinkLost,
           HandleAttemptFailed, ReconnectAssigns, HandleGotIp, HandleApStart, HandleScanDone,
           GiveUp, LinkGone, Assign, progVars
  <2>4. told' \in {told, "success", Report}
    BY DEF EventLoop, HandleStaStart, StaStartAssigns, HandleStaConnected, HandleLinkLost,
           HandleAttemptFailed, ReconnectAssigns, HandleGotIp, HandleApStart, HandleScanDone,
           GiveUp, LinkGone, Assign, progVars
  <2>5. Report \in {"success", "no_ip", "connecting", "fail"}
    BY DEF Report
  <2> QED
    BY <2>1, <2>2, <2>3, <2>4, <2>5 DEF Types, WifiT
<1> QED
  BY <1>1, <1>2, <1>3, <1>5, <1>6, <1>7 DEF Types, DriverT, CountsT

LEMMA TypesDriver == Types /\ Driver => Types'
<1> SUFFICES ASSUME Types, Driver PROVE Types'
  OBVIOUS
<1> USE DEF Driver, Associates, Breaks, LeaseArrives, ScanCompletes
<1>1. \E e \in DriverEvents : events' = events \o <<e>>
  BY DEF Post, DriverEvents
<1>2. EventsT'
  BY <1>1, EventsType
<1>3. AtT'
  BY DEF Types, AtT, Tasks
<1>4. DriverT' /\ WifiT' /\ CountsT'
  BY DEF Types, DriverT, WifiT, CountsT, progVars, driverVars
<1> QED
  BY <1>2, <1>3, <1>4 DEF Types

LEMMA TypesBluetooth ==
  Types /\ (\/ InitFinish \/ BleConnect \/ BleDisconnect
           \/ ReqConnectCalls \/ ReqConnectAssigns) => Types'
<1> SUFFICES ASSUME Types, \/ InitFinish \/ BleConnect \/ BleDisconnect
                           \/ ReqConnectCalls \/ ReqConnectAssigns
             PROVE  Types'
  OBVIOUS
<1> USE DEF InitFinish, BleConnect, BleDisconnect, ReqConnectCalls, ReqConnectAssigns,
            CallsBack
<1>1. EventsT' /\ left' = left /\ mode' = mode /\ config' = config /\ dhcp' = dhcp
  BY EventsType DEF driverVars
<1>2. AtT'
  BY TypesMoves DEF Types, AtT, Tasks
<1>3. link' \in {"idle", "connecting", "up"}
  BY AttemptType DEF Types, DriverT, Tasks, driverVars
<1>4. retry' \in 0 .. 255
  <2>1. retry' \in {0, retry}
    OBVIOUS
  <2> QED
    BY <2>1 DEF Types, CountsT
<1>5. WifiT'
  BY DEF Types, WifiT, Assign
<1> QED
  BY <1>1, <1>2, <1>3, <1>4, <1>5 DEF Types, DriverT, CountsT

LEMMA TypesPhone == Types /\ Phone => Types'
<1> SUFFICES ASSUME Types, Phone PROVE Types'
  OBVIOUS
<1>1. /\ left' \in 0 .. Requests
      /\ retry' = retry
  BY BlufiAssumption DEF Types, CountsT, Phone, PhoneConnects, PhoneLeaves, GetWifiStatus,
     ReqConnect, ReqDisconnect, SlaveDisconnect, SetWifiOpmode, RecvStaConfig, GetWifiList,
     ReceiveNegotiation, Request, Serves, progVars
<1>2. AtT'
  BY DEF Types, AtT, Tasks, Phone, PhoneConnects, PhoneLeaves, GetWifiStatus,
     ReqConnect, ReqDisconnect, SlaveDisconnect, SetWifiOpmode, RecvStaConfig, GetWifiList,
     ReceiveNegotiation
<1>3. DriverT'
  BY DEF Types, DriverT, Phone, PhoneConnects, PhoneLeaves, GetWifiStatus,
     ReqConnect, ReqDisconnect, SlaveDisconnect, SetWifiOpmode, RecvStaConfig, GetWifiList,
     ReceiveNegotiation, Request, Serves, driverVars
<1>4. WifiT'
  BY DEF Types, WifiT, Phone, PhoneConnects, PhoneLeaves, GetWifiStatus,
     ReqConnect, ReqDisconnect, SlaveDisconnect, SetWifiOpmode, RecvStaConfig, GetWifiList,
     ReceiveNegotiation, Request, Serves, progVars, Report
<1>5. EventsT'
  <2>1. CASE \E m \in Modes : SetWifiOpmode(m)
    <3>1. PICK m \in Modes : SetWifiOpmode(m)
      BY <2>1
    <3> DEFINE ends   == IF m = "AP" THEN Dropped ELSE <<>>
               starts == IF mode = "AP" THEN <<"STA_START">> ELSE <<>>
               aps    == IF mode = "STA" THEN <<"AP_START">> ELSE <<>>
    <3>2. ends \in Seq(DriverEvents) /\ starts \in Seq(DriverEvents)
          /\ aps \in Seq(DriverEvents)
      <4>1. "STA_START" \in DriverEvents /\ "AP_START" \in DriverEvents
        BY DEF DriverEvents
      <4> QED
        BY <4>1, OneEvent, DroppedType
    <3>3. events' = events \o (ends \o starts \o aps)
      BY <3>1 DEF SetWifiOpmode, Post
    <3> HIDE DEF ends, starts, aps
    <3>4. (ends \o starts) \o aps \in Seq(DriverEvents)
      BY <3>2, ConcatProperties
    <3> QED
      BY <3>3, <3>4, ConcatProperties DEF Types, EventsT
  <2>2. CASE ReqConnect \/ ReqDisconnect
    BY <2>2, DroppedType, ConcatProperties DEF ReqConnect, ReqDisconnect, Post, Types, EventsT
  <2>3. CASE ~ReqConnect /\ ~ReqDisconnect /\ ~(\E m \in Modes : SetWifiOpmode(m))
    <3>1. events' = events
      BY <2>3 DEF Phone, PhoneConnects, PhoneLeaves, GetWifiStatus,
         SlaveDisconnect, RecvStaConfig, GetWifiList, ReceiveNegotiation
    <3> QED
      BY <3>1, EventsType
  <2> QED
    BY <2>1, <2>2, <2>3
<1> QED
  BY <1>1, <1>2, <1>3, <1>4, <1>5 DEF Types, CountsT

LEMMA TypesBoot == Types /\ (BootStep \/ BootFails) => Types'
<1> SUFFICES ASSUME Types, BootStep \/ BootFails PROVE Types'
  OBVIOUS
<1> USE DEF BootStep, BootFails, InitialiseWifi, ControllerStarts, HostStarts, RegisterCallbacks,
            ProfileStarts, Boots
<1>1. EventsT'
  <2>1. (\E e \in DriverEvents : events' = events \o <<e>>) \/ events' = events
    BY DEF Post, DriverEvents
  <2> QED
    BY <2>1, EventsType
<1>2. UNCHANGED <<at, progVars, driverVars, left>>
  OBVIOUS
<1> QED
  BY <1>1, <1>2 DEF Types, WifiT, DriverT, AtT, CountsT, progVars, driverVars

LEMMA TypesStep == Types /\ [Next]_vars => Types'
<1>1. Types /\ UNCHANGED vars => Types'
  BY DEF Types, WifiT, DriverT, AtT, CountsT, EventsT, vars, progVars, driverVars
<1> QED
  BY <1>1, TypesEventLoop, TypesDriver, TypesBluetooth, TypesPhone, TypesBoot
     DEF Next, Bluetooth

LEMMA TypesAlways == Spec => []Types
  BY TypesInit, TypesStep, PTL DEF Spec

(* Every variable stays within its type; the retry counter is a uint8_t.   *)
THEOREM TypeCorrect == Spec => []TypeOK
<1>1. Types /\ PhoneInv => TypeOK
  <2> SUFFICES ASSUME Types, PhoneInv PROVE TypeOK
    OBVIOUS
  <2>1. todo \in Seq(BootSteps)
    <3>1. /\ "wifi" \in BootSteps /\ "controller" \in BootSteps /\ "host" \in BootSteps
          /\ "callbacks" \in BootSteps /\ "profile" \in BootSteps /\ "failed" \in BootSteps
      BY DEF BootSteps
    <3>2. todo \in Phases
      BY DEF PhoneInv, BootInv
    <3>3. <<"wifi", "controller", "host", "callbacks", "profile">> \in Seq(BootSteps)
      BY <3>1
    <3>4. <<"wifi", "controller", "callbacks", "host", "profile">> \in Seq(BootSteps)
      BY <3>1
    <3>5. <<"controller", "host", "callbacks", "profile">> \in Seq(BootSteps)
      BY <3>1
    <3>6. <<"controller", "callbacks", "host", "profile">> \in Seq(BootSteps)
      BY <3>1
    <3>7. /\ <<"host", "callbacks", "profile">> \in Seq(BootSteps)
          /\ <<"callbacks", "host", "profile">> \in Seq(BootSteps)
      BY <3>1
    <3>8. /\ <<"callbacks", "profile">> \in Seq(BootSteps)
          /\ <<"host", "profile">> \in Seq(BootSteps)
      BY <3>1
    <3>9. /\ <<"profile">> \in Seq(BootSteps) /\ <<"failed">> \in Seq(BootSteps)
          /\ <<>> \in Seq(BootSteps)
      BY <3>1
    <3> QED
      BY <3>2, <3>3, <3>4, <3>5, <3>6, <3>7, <3>8, <3>9 DEF Phases
  <2>2. calls \in Seq(Calls)
    <3>1. \A a, b \in Calls :
            <<a, b>> \in Seq(Calls) /\ <<a>> \in Seq(Calls) /\ <<>> \in Seq(Calls)
      OBVIOUS
    <3>2. /\ "INIT_FINISH" \in Calls /\ "BLE_CONNECT" \in Calls /\ "BLE_DISCONNECT" \in Calls
      BY DEF Calls
    <3>3. calls \in {<<>>, <<"INIT_FINISH">>, <<"BLE_CONNECT">>, <<"BLE_DISCONNECT">>,
                     <<"BLE_CONNECT", "BLE_DISCONNECT">>}
      BY DEF PhoneInv, MeetInv, Meets
    <3> QED
      BY <3>1, <3>2, <3>3
  <2>3. ble \in BOOLEAN /\ bleLink \in BOOLEAN /\ advertising \in BOOLEAN
    BY DEF PhoneInv, MeetInv, Meets
  <2>4. SecurityTypeOK
    BY DEF PhoneInv, OwnInv, HeapIsOwned, SecurityTypeOK, Blocks
  <2>5. registered \in BOOLEAN
    BY DEF PhoneInv, BootInv
  <2> QED
    BY <2>1, <2>2, <2>3, <2>4, <2>5
       DEF TypeOK, Types, WifiT, DriverT, AtT, CountsT, EventsT
<1> QED
  BY <1>1, TypesAlways, PhoneAlways, PTL

-----------------------------------------------------------------------------
(* gl_sta_connected and the link.                                          *)

NoLinkEvent(ev) == \A i \in 1 .. Len(ev) : ev[i] \notin LinkEvents

LastLinkEvent(ev, i) ==
  ev[i] \in LinkEvents /\ \A j \in 1 .. Len(ev) : j > i => ev[j] \notin LinkEvents

(* ConnectedFollowsLink, of any queue.                                     *)
Follows(ev, up, flag) ==
  /\ \A i \in 1 .. Len(ev) : LastLinkEvent(ev, i) => (up <=> ev[i] = "STA_CONNECTED")
  /\ NoLinkEvent(ev) => (up <=> flag)

LEMMA FollowsMeans ==
  EventsT => (ConnectedFollowsLink <=> Follows(events, link = "up", connected))
<1> SUFFICES ASSUME EventsT
             PROVE  ConnectedFollowsLink <=> Follows(events, link = "up", connected)
  OBVIOUS
<1>1. DOMAIN events = 1 .. Len(events)
  BY DEF EventsT
<1> QED
  BY <1>1 DEF ConnectedFollowsLink, Follows, NoLinkEvent, LastLinkEvent

(* An event of the link itself is posted.                                  *)
LEMMA FollowsLinkEvent ==
  ASSUME NEW ev \in Seq(DriverEvents), NEW e \in LinkEvents, NEW flag, NEW up,
         up <=> e = "STA_CONNECTED"
  PROVE  Follows(ev \o <<e>>, up, flag)
<1>1. e \in DriverEvents
  BY DEF LinkEvents, DriverEvents
<1> DEFINE all == Append(ev, e)
<1>2. /\ all = ev \o <<e>> /\ Len(all) = Len(ev) + 1 /\ all[Len(ev) + 1] = e
      /\ Len(ev) \in Nat
  BY <1>1, AppendProperties, AppendIsConcat
<1> HIDE DEF all
<1>3. \A i \in 1 .. Len(all) : LastLinkEvent(all, i) => i = Len(ev) + 1
  BY <1>2 DEF LastLinkEvent
<1>4. ~NoLinkEvent(all)
  BY <1>2 DEF NoLinkEvent
<1>5. Follows(all, up, flag)
  BY <1>2, <1>3, <1>4 DEF Follows, LastLinkEvent
<1> QED
  BY <1>2, <1>5

(* Others are posted, or the end of what the caller takes away.            *)
LEMMA FollowsPost ==
  ASSUME NEW ev \in Seq(DriverEvents), NEW e \in Seq(DriverEvents), NEW flag, NEW up, NEW up2,
         Follows(ev, up, flag),
         \A i \in 1 .. Len(e) : e[i] \in LinkEvents => e[i] = "STA_DISCONNECTED" /\ ~up2,
         NoLinkEvent(e) => (up2 <=> up)
  PROVE  Follows(ev \o e, up2, flag)
<1> DEFINE all == ev \o e
<1>1. /\ Len(all) = Len(ev) + Len(e) /\ Len(ev) \in Nat /\ Len(e) \in Nat
      /\ \A i \in 1 .. Len(ev) : all[i] = ev[i]
      /\ \A i \in 1 .. Len(e) : all[Len(ev) + i] = e[i]
  BY ConcatProperties
<1> HIDE DEF all
<1>2. \A i \in 1 .. Len(all) : i > Len(ev) => all[i] = e[i - Len(ev)] /\ i - Len(ev) \in 1 .. Len(e)
  <2> SUFFICES ASSUME NEW i \in 1 .. Len(all), i > Len(ev)
               PROVE  all[i] = e[i - Len(ev)] /\ i - Len(ev) \in 1 .. Len(e)
    OBVIOUS
  <2>1. i - Len(ev) \in 1 .. Len(e) /\ Len(ev) + (i - Len(ev)) = i
    BY <1>1
  <2>2. all[Len(ev) + (i - Len(ev))] = e[i - Len(ev)]
    BY <1>1, <2>1
  <2> QED
    BY <2>1, <2>2
<1>3. CASE NoLinkEvent(e)
  <2>1. \A i \in 1 .. Len(all) : all[i] \in LinkEvents => i \in 1 .. Len(ev)
    BY <1>1, <1>2, <1>3 DEF NoLinkEvent
  <2>2. NoLinkEvent(all) <=> NoLinkEvent(ev)
    <3>1. ASSUME NoLinkEvent(all), NEW i \in 1 .. Len(ev) PROVE ev[i] \notin LinkEvents
      <4>1. i \in 1 .. Len(all) /\ all[i] = ev[i]
        BY <1>1
      <4> QED
        BY <3>1, <4>1 DEF NoLinkEvent
    <3>2. ASSUME NoLinkEvent(ev), NEW i \in 1 .. Len(all) PROVE all[i] \notin LinkEvents
      BY <1>1, <2>1, <3>2 DEF NoLinkEvent
    <3> QED
      BY <3>1, <3>2 DEF NoLinkEvent
  <2>3. \A i \in 1 .. Len(all) :
          LastLinkEvent(all, i) => i \in 1 .. Len(ev) /\ LastLinkEvent(ev, i) /\ all[i] = ev[i]
    BY <1>1, <2>1 DEF LastLinkEvent
  <2> QED
    BY <1>3, <2>2, <2>3 DEF Follows, all
<1>4. CASE ~NoLinkEvent(e)
  <2>1. PICK k \in 1 .. Len(e) : e[k] \in LinkEvents
    BY <1>4 DEF NoLinkEvent
  <2>2. ~up2
    BY <2>1
  <2>3. all[Len(ev) + k] \in LinkEvents /\ Len(ev) + k \in 1 .. Len(all) /\ Len(ev) + k > Len(ev)
    BY <1>1, <2>1
  <2>4. ~NoLinkEvent(all)
    BY <2>3 DEF NoLinkEvent
  <2>5. \A i \in 1 .. Len(all) : LastLinkEvent(all, i) => i > Len(ev)
    BY <1>1, <2>3 DEF LastLinkEvent
  <2>6. \A i \in 1 .. Len(all) : LastLinkEvent(all, i) => all[i] = "STA_DISCONNECTED"
    BY <1>2, <2>5 DEF LastLinkEvent
  <2> QED
    BY <2>2, <2>4, <2>6 DEF Follows, all
<1> QED
  BY <1>3, <1>4

(* The event loop is done with an event: with one of the link, the flag is *)
(* what the event said; with another, it is what it was.                   *)
LEMMA FollowsDone ==
  ASSUME NEW ev \in Seq(DriverEvents), ev # <<>>, NEW flag, NEW up, NEW flag2,
         Follows(ev, up, flag),
         IF Head(ev) \in LinkEvents THEN flag2 <=> Head(ev) = "STA_CONNECTED"
         ELSE flag2 <=> flag
  PROVE  Follows(Tail(ev), up, flag2)
<1> DEFINE rest == Tail(ev)
<1>1. /\ Len(ev) \in Nat /\ Len(ev) >= 1 /\ Len(rest) = Len(ev) - 1 /\ Head(ev) = ev[1]
      /\ \A i \in 1 .. Len(rest) : rest[i] = ev[i + 1]
  BY HeadTailProperties, EmptySeq
<1> HIDE DEF rest
<1>2. \A i \in 1 .. Len(ev) : i = 1 \/ (i - 1 \in 1 .. Len(rest) /\ rest[i - 1] = ev[i])
  <2> SUFFICES ASSUME NEW i \in 1 .. Len(ev), i # 1
               PROVE  i - 1 \in 1 .. Len(rest) /\ rest[i - 1] = ev[i]
    OBVIOUS
  <2>1. i - 1 \in 1 .. Len(rest) /\ (i - 1) + 1 = i
    BY <1>1
  <2>2. rest[i - 1] = ev[(i - 1) + 1]
    BY <1>1, <2>1
  <2> QED
    BY <2>1, <2>2
<1>3. ASSUME NEW i \in 1 .. Len(rest), LastLinkEvent(rest, i)
      PROVE  up <=> rest[i] = "STA_CONNECTED"
  <2>1. i + 1 \in 1 .. Len(ev) /\ ev[i + 1] = rest[i]
    BY <1>1
  <2>2. ASSUME NEW j \in 1 .. Len(ev), j > i + 1 PROVE ev[j] \notin LinkEvents
    <3>1. j - 1 \in 1 .. Len(rest) /\ rest[j - 1] = ev[j] /\ j - 1 > i
      BY <1>1, <1>2, <2>2
    <3> QED
      BY <1>3, <3>1 DEF LastLinkEvent
  <2>3. LastLinkEvent(ev, i + 1)
    BY <1>3, <2>1, <2>2 DEF LastLinkEvent
  <2> QED
    BY <2>1, <2>3 DEF Follows
<1>4. ASSUME NoLinkEvent(rest) PROVE up <=> flag2
  <2>1. \A j \in 1 .. Len(ev) : j # 1 => ev[j] \notin LinkEvents
    BY <1>2, <1>4 DEF NoLinkEvent
  <2>2. CASE Head(ev) \in LinkEvents
    <3>1. LastLinkEvent(ev, 1) /\ 1 \in 1 .. Len(ev)
      BY <1>1, <2>1, <2>2 DEF LastLinkEvent
    <3> QED
      BY <1>1, <2>2, <3>1 DEF Follows
  <2>3. CASE Head(ev) \notin LinkEvents
    <3>1. NoLinkEvent(ev)
      BY <1>1, <2>1, <2>3 DEF NoLinkEvent
    <3> QED
      BY <2>3, <3>1 DEF Follows
  <2> QED
    BY <2>2, <2>3
<1>5. Follows(rest, up, flag2)
  BY <1>3, <1>4 DEF Follows
<1> QED
  BY <1>5 DEF rest

FollowInv == Follows(events, link = "up", connected)

LEMMA AttemptKeepsUp ==
  ASSUME NEW task, Attempt(task)
  PROVE  link' = "up" <=> link = "up"
  BY DEF Attempt, EspWifiConnect

LEMMA FollowsSame ==
  FollowInv /\ UNCHANGED <<events, connected>> /\ (link' = "up" <=> link = "up") => FollowInv'
  BY DEF FollowInv, Follows, NoLinkEvent, LastLinkEvent

LEMMA FollowInit == Init => FollowInv
<1> SUFFICES ASSUME Init PROVE FollowInv
  OBVIOUS
<1>1. Len(events) = 0 /\ link = "idle" /\ connected = FALSE
  BY DEF Init
<1> QED
  BY <1>1 DEF FollowInv, Follows, NoLinkEvent

LEMMA FollowEventLoop == Types /\ FollowInv /\ EventLoop => FollowInv'
<1> SUFFICES ASSUME Types, FollowInv, EventLoop PROVE FollowInv'
  OBVIOUS
<1>1. CASE Attempt("event_loop") /\ UNCHANGED <<events, connected>>
  BY <1>1, AttemptKeepsUp, FollowsSame
<1>2. ASSUME events # <<>>, events' = Tail(events), link' = link,
             IF Head(events) \in LinkEvents THEN connected' <=> Head(events) = "STA_CONNECTED"
             ELSE connected' <=> connected
      PROVE  FollowInv'
  <2>1. events \in Seq(DriverEvents) /\ Follows(events, link = "up", connected)
    BY DEF Types, EventsT, FollowInv
  <2>2. Follows(Tail(events), link = "up", connected')
    BY <1>2, <2>1, FollowsDone
  <2> QED
    BY <1>2, <2>2 DEF FollowInv
<1> USE DEF Starts, Handles
<1>3. CASE HandleStaStart
  BY <1>1, <1>3 DEF HandleStaStart
<1>4. CASE StaStartAssigns
  BY <1>2, <1>4 DEF StaStartAssigns, Done, LinkEvents
<1>5. CASE HandleStaConnected
  BY <1>2, <1>5 DEF HandleStaConnected, Done, LinkEvents
<1>6. CASE HandleLinkLost
  BY <1>2, <1>6 DEF HandleLinkLost, LinkGone, Done, LinkEvents
<1>7. CASE HandleAttemptFailed
  <2>1. CASE Attempt("event_loop") /\ UNCHANGED <<events, connected>>
    BY <1>1, <2>1
  <2>2. CASE GiveUp
    BY <1>2, <1>7, <2>2 DEF HandleAttemptFailed, GiveUp, LinkGone, Done, LinkEvents
  <2> QED
    BY <1>7, <2>1, <2>2 DEF HandleAttemptFailed
<1>8. CASE ReconnectAssigns
  BY <1>2, <1>8 DEF ReconnectAssigns, LinkGone, Done, LinkEvents
<1>9. CASE HandleGotIp \/ HandleApStart \/ HandleScanDone
  BY <1>2, <1>9 DEF HandleGotIp, HandleApStart, HandleScanDone, Done, LinkEvents, progVars
<1> QED
  BY <1>3, <1>4, <1>5, <1>6, <1>7, <1>8, <1>9 DEF EventLoop

(* The queue and the link, when a step posts events of the driver.         *)
LEMMA FollowPosts ==
  ASSUME Types, FollowInv, NEW e \in Seq(DriverEvents), events' = events \o e,
         connected' = connected,
         \A i \in 1 .. Len(e) :
           e[i] \in LinkEvents => e[i] = "STA_DISCONNECTED" /\ link' # "up",
         NoLinkEvent(e) => (link' = "up" <=> link = "up")
  PROVE  FollowInv'
<1>1. events \in Seq(DriverEvents) /\ Follows(events, link = "up", connected)
  BY DEF Types, EventsT, FollowInv
<1>2. Follows(events \o e, link' = "up", connected)
  BY <1>1, FollowsPost
<1> QED
  BY <1>2 DEF FollowInv

(* One event, and not of the link                                          *)
LEMMA FollowPostsOther ==
  ASSUME Types, FollowInv, NEW e \in DriverEvents \ LinkEvents, events' = events \o <<e>>,
         connected' = connected, link' = link
  PROVE  FollowInv'
<1>1. /\ <<e>> \in Seq(DriverEvents) /\ Len(<<e>>) = 1 /\ <<e>>[1] = e
  OBVIOUS
<1>2. \A i \in 1 .. Len(<<e>>) : <<e>>[i] \notin LinkEvents
  BY <1>1
<1> QED
  BY <1>1, <1>2, FollowPosts

LEMMA FollowDriver == Types /\ FollowInv /\ Driver => FollowInv'
<1> SUFFICES ASSUME Types, FollowInv, Driver PROVE FollowInv'
  OBVIOUS
<1>1. ASSUME NEW e \in LinkEvents, events' = events \o <<e>>,
             link' = "up" <=> e = "STA_CONNECTED"
      PROVE  FollowInv'
  <2>1. events \in Seq(DriverEvents)
    BY DEF Types, EventsT
  <2>2. Follows(events \o <<e>>, link' = "up", connected')
    BY <1>1, <2>1, FollowsLinkEvent
  <2> QED
    BY <1>1, <2>2 DEF FollowInv
<1>2. CASE Associates
  BY <1>1, <1>2 DEF Associates, Post, LinkEvents
<1>3. CASE Breaks
  BY <1>1, <1>3 DEF Breaks, Post, LinkEvents
<1>4. CASE LeaseArrives
  BY <1>4, FollowPostsOther DEF LeaseArrives, Post, LinkEvents, DriverEvents, progVars
<1>5. CASE ScanCompletes
  BY <1>5, FollowPostsOther DEF ScanCompletes, Post, LinkEvents, DriverEvents, progVars, driverVars
<1> QED
  BY <1>2, <1>3, <1>4, <1>5 DEF Driver

LEMMA FollowBluetooth == Types /\ FollowInv /\ Bluetooth => FollowInv'
<1> SUFFICES ASSUME Types, FollowInv, Bluetooth PROVE FollowInv'
  OBVIOUS
<1>1. UNCHANGED <<events, connected>>
  BY DEF Bluetooth, InitFinish, BleConnect, BleDisconnect, ReqConnectCalls, ReqConnectAssigns,
         CallsBack
<1>2. link' = "up" <=> link = "up"
  BY AttemptKeepsUp DEF Bluetooth, InitFinish, BleConnect, BleDisconnect, ReqConnectCalls,
     ReqConnectAssigns, CallsBack, driverVars
<1> QED
  BY <1>1, <1>2, FollowsSame

(* Dropping the link announces its end, if there was one to end.           *)
LEMMA DroppedAnnounces ==
  /\ \A i \in 1 .. Len(Dropped) : Dropped[i] = "STA_DISCONNECTED"
  /\ NoLinkEvent(Dropped) => link = "idle"
<1>1. CASE link = "idle"
  <2>1. Len(Dropped) = 0
    BY <1>1 DEF Dropped
  <2> QED
    BY <1>1, <2>1
<1>2. CASE link # "idle"
  <2>1. Len(Dropped) = 1 /\ Dropped[1] = "STA_DISCONNECTED"
    BY <1>2 DEF Dropped
  <2> QED
    BY <2>1 DEF NoLinkEvent, LinkEvents
<1> QED
  BY <1>1, <1>2

LEMMA FollowDrops ==
  Types /\ FollowInv /\ (ReqConnect \/ ReqDisconnect) => FollowInv'
<1> SUFFICES ASSUME Types, FollowInv, ReqConnect \/ ReqDisconnect PROVE FollowInv'
  OBVIOUS
<1>1. link' = "idle" /\ events' = events \o Dropped /\ connected' = connected
  BY DEF ReqConnect, ReqDisconnect, Request, Serves, Post
<1> QED
  BY <1>1, DroppedType, DroppedAnnounces, FollowPosts

LEMMA FollowOpmode ==
  ASSUME Types, FollowInv, NEW m \in Modes, SetWifiOpmode(m)
  PROVE  FollowInv'
<1> DEFINE ends   == IF m = "AP" THEN Dropped ELSE <<>>
           starts == IF mode = "AP" THEN <<"STA_START">> ELSE <<>>
           aps    == IF mode = "STA" THEN <<"AP_START">> ELSE <<>>
<1>1. /\ events' = events \o (ends \o starts \o aps) /\ connected' = connected
      /\ IF m = "AP" THEN link' = "idle" ELSE link' = link
  BY DEF SetWifiOpmode, Post, Request, Serves
<1>2. ends \in Seq(DriverEvents) /\ starts \in Seq(DriverEvents) /\ aps \in Seq(DriverEvents)
  <2>1. "STA_START" \in DriverEvents /\ "AP_START" \in DriverEvents
    BY DEF DriverEvents
  <2> QED
    BY <2>1, OneEvent, DroppedType
<1>3. /\ \A i \in 1 .. Len(ends) : ends[i] = "STA_DISCONNECTED" /\ m = "AP"
      /\ NoLinkEvent(ends) => (m = "AP" => link = "idle")
  <2>1. CASE m = "AP"
    BY <2>1, DroppedAnnounces
  <2>2. CASE m # "AP"
    <3>1. Len(ends) = 0
      BY <2>2
    <3> QED
      BY <2>2, <3>1
  <2> QED
    BY <2>1, <2>2
<1>4. \A i \in 1 .. Len(starts) : starts[i] \notin LinkEvents
  <2>1. CASE mode = "AP"
    <3>1. Len(starts) = 1 /\ starts[1] = "STA_START"
      BY <2>1
    <3> QED
      BY <3>1 DEF LinkEvents
  <2>2. CASE mode # "AP"
    <3>1. Len(starts) = 0
      BY <2>2
    <3> QED
      BY <3>1
  <2> QED
    BY <2>1, <2>2
<1>5. \A i \in 1 .. Len(aps) : aps[i] \notin LinkEvents
  <2>1. CASE mode = "STA"
    <3>1. Len(aps) = 1 /\ aps[1] = "AP_START"
      BY <2>1
    <3> QED
      BY <3>1 DEF LinkEvents
  <2>2. CASE mode # "STA"
    <3>1. Len(aps) = 0
      BY <2>2
    <3> QED
      BY <3>1
  <2> QED
    BY <2>1, <2>2
<1> HIDE DEF ends, starts, aps
<1>6. ASSUME NEW s \in Seq(DriverEvents), NEW t \in Seq(DriverEvents),
             \A i \in 1 .. Len(t) : t[i] \notin LinkEvents
      PROVE  /\ s \o t \in Seq(DriverEvents)
             /\ \A i \in 1 .. Len(s \o t) :
                  (s \o t)[i] \in LinkEvents => i \in 1 .. Len(s) /\ (s \o t)[i] = s[i]
             /\ NoLinkEvent(s \o t) => NoLinkEvent(s)
  <2> DEFINE all == s \o t
  <2>1. /\ all \in Seq(DriverEvents) /\ Len(all) = Len(s) + Len(t)
        /\ Len(s) \in Nat /\ Len(t) \in Nat
        /\ \A i \in 1 .. Len(s) : all[i] = s[i]
        /\ \A i \in 1 .. Len(t) : all[Len(s) + i] = t[i]
    BY ConcatProperties
  <2> HIDE DEF all
  <2>2. ASSUME NEW i \in 1 .. Len(all), i > Len(s) PROVE all[i] \notin LinkEvents
    <3>1. i - Len(s) \in 1 .. Len(t) /\ Len(s) + (i - Len(s)) = i
      BY <2>1, <2>2
    <3>2. all[Len(s) + (i - Len(s))] = t[i - Len(s)]
      BY <2>1, <3>1
    <3> QED
      BY <1>6, <3>1, <3>2
  <2>3. \A i \in 1 .. Len(all) : all[i] \in LinkEvents => i \in 1 .. Len(s) /\ all[i] = s[i]
    BY <2>1, <2>2
  <2>4. ASSUME NoLinkEvent(all), NEW i \in 1 .. Len(s) PROVE s[i] \notin LinkEvents
    <3>1. i \in 1 .. Len(all) /\ all[i] = s[i]
      BY <2>1
    <3> QED
      BY <2>4, <3>1 DEF NoLinkEvent
  <2> QED
    BY <2>1, <2>3, <2>4 DEF NoLinkEvent, all
<1> DEFINE posted == ends \o starts \o aps
<1>7. /\ posted \in Seq(DriverEvents)
      /\ \A i \in 1 .. Len(posted) :
           posted[i] \in LinkEvents => posted[i] = "STA_DISCONNECTED" /\ m = "AP"
      /\ NoLinkEvent(posted) => NoLinkEvent(ends)
  <2>1. /\ ends \o starts \in Seq(DriverEvents)
        /\ \A i \in 1 .. Len(ends \o starts) :
             (ends \o starts)[i] \in LinkEvents
               => i \in 1 .. Len(ends) /\ (ends \o starts)[i] = ends[i]
        /\ NoLinkEvent(ends \o starts) => NoLinkEvent(ends)
    BY <1>2, <1>4, <1>6
  <2> DEFINE two == ends \o starts
  <2>2. posted = two \o aps
    OBVIOUS
  <2> HIDE DEF two
  <2>3. /\ two \o aps \in Seq(DriverEvents)
        /\ \A i \in 1 .. Len(two \o aps) :
             (two \o aps)[i] \in LinkEvents
               => i \in 1 .. Len(two) /\ (two \o aps)[i] = two[i]
        /\ NoLinkEvent(two \o aps) => NoLinkEvent(two)
    BY <1>2, <1>5, <1>6, <2>1 DEF two
  <2>4. \A i \in 1 .. Len(two) : two[i] \in LinkEvents => i \in 1 .. Len(ends) /\ two[i] = ends[i]
    BY <2>1 DEF two
  <2>5. NoLinkEvent(two) => NoLinkEvent(ends)
    BY <2>1 DEF two
  <2> HIDE DEF posted
  <2> QED
    BY <1>3, <2>2, <2>3, <2>4, <2>5
<1>8. /\ events' = events \o posted
      /\ m = "AP" => link' = "idle"
      /\ NoLinkEvent(posted) => (link' = "up" <=> link = "up")
  <2>1. NoLinkEvent(posted) => link' = link
    BY <1>1, <1>3, <1>7
  <2> QED
    BY <1>1, <2>1
<1> HIDE DEF posted
<1> QED
  BY <1>1, <1>7, <1>8, FollowPosts

LEMMA FollowPhone == Types /\ FollowInv /\ Phone => FollowInv'
<1> SUFFICES ASSUME Types, FollowInv, Phone PROVE FollowInv'
  OBVIOUS
<1>1. CASE ReqConnect \/ ReqDisconnect
  BY <1>1, FollowDrops
<1>2. CASE \E m \in Modes : SetWifiOpmode(m)
  BY <1>2, FollowOpmode
<1>3. CASE \/ PhoneConnects \/ PhoneLeaves \/ GetWifiStatus \/ SlaveDisconnect
           \/ RecvStaConfig \/ GetWifiList \/ ReceiveNegotiation
  <2>1. UNCHANGED <<events, connected, link>>
    BY <1>3 DEF PhoneConnects, PhoneLeaves, GetWifiStatus, SlaveDisconnect, RecvStaConfig,
       GetWifiList, ReceiveNegotiation, Request, Serves, progVars, driverVars
  <2> QED
    BY <2>1, FollowsSame
<1> QED
  BY <1>1, <1>2, <1>3 DEF Phone

LEMMA FollowBoot == Types /\ FollowInv /\ (BootStep \/ BootFails) => FollowInv'
<1> SUFFICES ASSUME Types, FollowInv, BootStep \/ BootFails PROVE FollowInv'
  OBVIOUS
<1>1. UNCHANGED <<connected, link>>
  BY DEF BootStep, BootFails, InitialiseWifi, ControllerStarts, HostStarts, RegisterCallbacks,
         ProfileStarts, Boots, progVars, driverVars
<1>2. events' = events \o <<"STA_START">> \/ events' = events
  BY DEF BootStep, BootFails, InitialiseWifi, ControllerStarts, HostStarts, RegisterCallbacks,
         ProfileStarts, Boots, Post
<1>3. "STA_START" \in DriverEvents \ LinkEvents
  BY DEF DriverEvents, LinkEvents
<1> QED
  BY <1>1, <1>2, <1>3, FollowPostsOther, FollowsSame

(* gl_sta_connected is a delayed copy of the link: the handlers of the     *)
(* event loop and the calls of the Bluetooth task never leave it wrong,    *)
(* whatever the timing and however many events wait.                       *)
THEOREM ConnectedFollows == Spec => []ConnectedFollowsLink
<1>1. Types /\ FollowInv /\ [Next]_vars => FollowInv'
  <2>1. UNCHANGED vars => UNCHANGED <<events, connected, link>>
    BY DEF vars, progVars, driverVars
  <2> QED
    BY <2>1, FollowsSame, FollowEventLoop, FollowDriver, FollowBluetooth, FollowPhone, FollowBoot
       DEF Next
<1>2. Types /\ FollowInv => ConnectedFollowsLink
  BY FollowsMeans DEF Types, FollowInv
<1> QED
  BY <1>1, <1>2, FollowInit, TypesAlways, PTL DEF Spec

=============================================================================
