--------------------------- MODULE GattTable_proofs ---------------------------
(***************************************************************************)
(* What holds of GattTable for every set of texts, and every number of     *)
(* troubles, of retries, of refusals and of failed accesses to flash.      *)
(* The argument is about the requests that wait in the Bluetooth task's    *)
(* queue: each fits the stage of a text that those before it lead to       *)
(* (Leads, RequestsFit), and the stage reached is what the buffer holds.   *)
(***************************************************************************)
EXTENDS GattTable, SequenceTheorems, TLAPS

-----------------------------------------------------------------------------
(* The store.                                                              *)

(* A call saves the value or nothing; without failures it saves it.        *)
LEMMA TableStore ==
  ASSUME StoreTypeOK, NEW k \in Keys, NEW v \in Values, NEW ok \in BOOLEAN,
         NVS_store_key(k, v, ok)
  PROVE  /\ StoreTypeOK'
         /\ Failures' = {} => Failures = {} /\ ok /\ flash' = [flash EXCEPT ![k] = v]
<1>1. ASSUME NEW a \in Accesses, AccessFails(a)
      PROVE  flashErrors' \in [Accesses -> Nat] /\ Failures' # {}
  <2>1. flashErrors \in [Accesses -> Nat] /\ flashErrors' = [flashErrors EXCEPT ![a] = @ + 1]
    BY <1>1 DEF AccessFails, StoreTypeOK
  <2>2. flashErrors' \in [Accesses -> Nat] /\ flashErrors'[a] > 0
    BY <2>1
  <2> QED
    BY <2>2 DEF Failures
<1>2. /\ "set" \in Accesses /\ "open" \in Accesses /\ "size" \in Accesses
      /\ "commit" \in Accesses
  BY DEF Accesses
<1>3. CASE UNCHANGED flashErrors
  <2>1. /\ flashErrors \in [Accesses -> Nat]
        /\ \A a \in Accesses : flashErrors[a] + 1 # flashErrors[a]
    BY DEF StoreTypeOK
  <2>2. \A a \in Accesses : ~AccessFails(a)
    BY <1>3, <2>1 DEF AccessFails
  <2>3. ok /\ flash' = [flash EXCEPT ![k] = v]
    BY <1>2, <2>2 DEF NVS_store_key
  <2> QED
    BY <1>3, <2>3 DEF StoreTypeOK, Failures
<1>4. CASE ~UNCHANGED flashErrors
  <2>1. /\ \E a \in Accesses : AccessFails(a)
        /\ flash' = flash \/ flash' = [flash EXCEPT ![k] = v]
    BY <1>2, <1>4 DEF NVS_store_key
  <2> QED
    BY <1>1, <2>1 DEF StoreTypeOK
<1> QED
  BY <1>3, <1>4

(* A read changes nothing but the count of failures.                       *)
LEMMA TableRead ==
  ASSUME StoreTypeOK, NEW k \in Keys, NEW got, NVS_read_key(k, got), UNCHANGED flash
  PROVE  StoreTypeOK' /\ (Failures' = {} => Failures = {})
<1>1. ASSUME NEW a \in Accesses, AccessFails(a)
      PROVE  flashErrors' \in [Accesses -> Nat] /\ Failures' # {}
  <2>1. flashErrors \in [Accesses -> Nat] /\ flashErrors' = [flashErrors EXCEPT ![a] = @ + 1]
    BY <1>1 DEF AccessFails, StoreTypeOK
  <2>2. flashErrors' \in [Accesses -> Nat] /\ flashErrors'[a] > 0
    BY <2>1
  <2> QED
    BY <2>2 DEF Failures
<1>2. "open" \in Accesses /\ "size" \in Accesses /\ "read" \in Accesses
  BY DEF Accesses
<1>3. CASE UNCHANGED flashErrors
  BY <1>3 DEF StoreTypeOK, Failures
<1>4. CASE \E a \in Accesses : AccessFails(a)
  BY <1>1, <1>4 DEF StoreTypeOK
<1> QED
  BY <1>2, <1>3, <1>4 DEF NVS_read_key

-----------------------------------------------------------------------------
(* The types.                                                              *)

StackCalls == {"register", "config", "table"} \X {"app", "adv", "scan_rsp"}
BtEvents == ({"register", "config", "table"} \X {"app", "adv", "scan_rsp"} \X BOOLEAN)
              \cup ({"PREPARE"} \X Texts \X (1 .. Pieces))
              \cup ({"EXEC"} \X {"exec", "cancel"})
              \cup {<<"CONNECT">>, <<"DISCONNECT">>, <<"WRITE">>}
Stages == {Nothing} \cup (Texts \X (1 .. Pieces))

QueueT  == requested \in Seq(StackCalls) /\ inbox \in Seq(BtEvents)
BufferT == /\ buffer \in Seq(Texts \cup {Garbage}) /\ Len(buffer) <= Pieces
           /\ prepareLen \in Nat /\ (prepareLen = 0 <=> buffer = <<>>)
ParsedT == /\ doing \in {"idle", "ssid", "pass", "init", "wait"}
           /\ parsed \in Texts \X Texts
           /\ doing \in {"ssid", "pass"} => Credentials(parsed)
AdvT    == /\ advConfig \in SUBSET DataSets /\ advertising \in BOOLEAN
           /\ table \in {"none", "made", "started"}
PhoneT  == link \in BOOLEAN /\ whole \in SUBSET Texts /\ sending \in Stages
FaultT  == troublesLeft \in 0 .. Troubles /\ troubles \in SUBSET Kinds
TableTypes == /\ StoreTypeOK /\ StationTypeOK /\ AdvT /\ QueueT /\ BufferT
              /\ ParsedT /\ PhoneT /\ FaultT

LEMMA TypesSuffice == TableTypes => TypeOK
  BY DEF TableTypes, TypeOK, AdvT, BufferT, ParsedT, PhoneT, FaultT

(* What is put at the end of a queue, and what is taken from its front.    *)
LEMMA Enqueued ==
  ASSUME NEW S, NEW q \in Seq(S), NEW e \in S
  PROVE  /\ Append(q, e) \in Seq(S) /\ Len(q) \in Nat /\ Len(Append(q, e)) = Len(q) + 1
         /\ \A i \in 1 .. Len(q) : Append(q, e)[i] = q[i]
         /\ Append(q, e)[Len(q) + 1] = e
  BY AppendProperties

LEMMA Dequeued ==
  ASSUME NEW S, NEW q \in Seq(S), q # <<>>
  PROVE  /\ Head(q) = q[1] /\ Head(q) \in S /\ Tail(q) \in Seq(S) /\ Len(q) \in Nat \ {0}
         /\ Len(Tail(q)) = Len(q) - 1
         /\ \A i \in 1 .. Len(q) - 1 : Tail(q)[i] = q[i + 1]
<1>1. Len(q) \in Nat \ {0}
  BY EmptySeq, LenProperties
<1>2. Head(q) = q[1]
  OBVIOUS
<1> QED
  BY <1>1, <1>2, HeadTailProperties

LEMMA StationTypes ==
  ASSUME StationTypeOK,
         \/ StationHandles \/ DriverAnswers \/ LosesAp \/ StationReset
         \/ (\E named \in BOOLEAN : StartStation(named)) \/ UNCHANGED stationVars
  PROVE  StationTypeOK'
<1>1. ASSUME NEW e \in WifiEvents PROVE Append(wifiEvents, e) \in Seq(WifiEvents)
  BY <1>1, Enqueued DEF StationTypeOK
<1>2. wifiEvents # <<>> => Tail(wifiEvents) \in Seq(WifiEvents)
  BY Dequeued DEF StationTypeOK
<1>3. <<"STA_START">> \in Seq(WifiEvents) /\ <<>> \in Seq(WifiEvents)
  BY DEF WifiEvents
<1>4. refusalsLeft' = refusalsLeft \/ Refuses => refusalsLeft' \in 0 .. Refusals
  BY StationAssumption DEF StationTypeOK, Refuses
<1>5. CASE StationHandles
  <2>1. wifiEvents' \in Seq(WifiEvents) /\ UNCHANGED <<hasSsid, refusalsLeft>>
    BY <1>2, <1>5
       DEF StationHandles, HandleStaStart, HandleStaDisconnected, HandleGotIp, ReceiveWifi
  <2>2. s_retry_num' \in 0 .. MaximumRetry
    BY <1>5, StationAssumption
       DEF StationTypeOK, StationHandles, HandleStaStart, HandleStaDisconnected, HandleGotIp
  <2>3. sta' \in {sta, "joining"} /\ bits' \in SUBSET Bits
    BY <1>5 DEF StationTypeOK, StationHandles, HandleStaStart, HandleStaDisconnected,
                HandleGotIp, esp_wifi_connect, Bits
  <2> QED
    BY <2>1, <2>2, <2>3 DEF StationTypeOK
<1>6. CASE DriverAnswers \/ LosesAp
  <2>1. wifiEvents' \in Seq(WifiEvents) /\ (refusalsLeft' = refusalsLeft \/ Refuses)
    BY <1>1, <1>6 DEF DriverAnswers, JoinFails, JoinSucceeds, LosesAp, WifiEvents
  <2> QED
    BY <1>4, <1>6, <2>1 DEF StationTypeOK, DriverAnswers, JoinFails, JoinSucceeds, LosesAp
<1>7. CASE StationReset
  <2>1. 0 \in 0 .. MaximumRetry
    BY StationAssumption
  <2> QED
    BY <1>3, <1>7, <2>1 DEF StationReset, StationTypeOK
<1>8. CASE \E named \in BOOLEAN : StartStation(named)
  BY <1>3, <1>8 DEF StartStation, StationTypeOK
<1>9. CASE UNCHANGED stationVars
  BY <1>9 DEF stationVars, driverVars, StationTypeOK
<1> QED
  BY <1>5, <1>6, <1>7, <1>8, <1>9

-----------------------------------------------------------------------------
(* The steps, by what they do to the requests of the phone.                *)

Asked(e) == e[1] \in {"PREPARE", "EXEC"}

Heeds ==
  \/ \E d \in DataSets : HandleDataSet(d)
  \/ HandleRegFailed \/ HandleReg \/ HandleTable
  \/ HandleConnect \/ HandleDisconnect \/ HandleWrite
SaveStep  == SaveSsid \/ SavePass \/ InitSta
Reboots   == PowerCut \/ Aborts
Elsewhere == EventLoop \/ Driver \/ ApLost \/ UNCHANGED vars
PhoneActs == Connects \/ LosesLink \/ PhoneSends \/ PhoneDallies

LEMMA TableCases ==
  [Next]_vars =>
    \/ Heeds \/ HandlePrepare \/ HandleExec \/ SaveStep \/ Joined
    \/ Completes \/ Reboots \/ Elsewhere \/ PhoneActs
  BY DEF Next, Callback, Heeds, SaveStep, Reboots, Elsewhere, PhoneActs

\* The faults of a step.
Faulty == UNCHANGED faultVars \/ \E kind \in Kinds : Trouble(kind)

LEMMA Starting ==
  ASSUME StartAdvertising
  PROVE  Faulty /\ (advertising \in BOOLEAN => advertising' \in BOOLEAN)
<1>1. PICK ok \in BOOLEAN : Outcome(ok, "stack") /\ advertising' = (advertising \/ ok)
  BY DEF StartAdvertising
<1>2. Faulty
  BY <1>1 DEF Outcome, Faulty, Kinds
<1> QED
  BY <1>1, <1>2

LEMMA FaultTypes ==
  ASSUME FaultT, Faulty PROVE FaultT' /\ troubles \subseteq troubles'
<1>1. CASE UNCHANGED faultVars
  BY <1>1 DEF faultVars, FaultT
<1>2. CASE \E kind \in Kinds : Trouble(kind)
  <2>1. troublesLeft' \in 0 .. Troubles
    BY <1>2, TableAssumption DEF Trouble, FaultT
  <2>2. troubles' \in SUBSET Kinds /\ troubles \subseteq troubles'
    BY <1>2 DEF Trouble, FaultT
  <2> QED
    BY <2>1, <2>2 DEF FaultT
<1> QED
  BY <1>1, <1>2 DEF Faulty

LEMMA Received ==
  ASSUME QueueT, NEW e, Receive(e)
  PROVE  /\ doing = "idle" /\ inbox # <<>> /\ e = inbox[1] /\ e \in BtEvents
         /\ inbox' = Tail(inbox) /\ inbox' \in Seq(BtEvents)
  BY Dequeued DEF QueueT, Receive

\* The event is no request, and nothing that a request touches changes.
LEMMA HeedsKeeps ==
  ASSUME QueueT, Heeds
  PROVE  /\ doing = "idle" /\ inbox # <<>> /\ ~Asked(inbox[1]) /\ inbox' = Tail(inbox)
         /\ inbox' \in Seq(BtEvents)
         /\ UNCHANGED <<buffer, prepareLen, doing, parsed, phoneVars,
                        storeVars, stationVars>>
         /\ Faulty
<1> DEFINE Kept == /\ \E e : Receive(e) /\ ~Asked(e)
                   /\ UNCHANGED <<buffer, prepareLen, doing, parsed, phoneVars,
                                  storeVars, stationVars>>
                   /\ Faulty
<1> SUFFICES Kept
  BY Received
<1>1. ASSUME NEW d \in DataSets, HandleDataSet(d) PROVE Kept
  <2>1. \A ok \in BOOLEAN : ~Asked(<<"config", d, ok>>)
    BY DEF Asked
  <2>2. Faulty
    BY <1>1, Starting DEF HandleDataSet, Faulty
  <2> QED
    BY <1>1, <2>1, <2>2 DEF HandleDataSet
<1>2. CASE HandleTable
  <2>1. \A ok \in BOOLEAN : ~Asked(<<"table", "app", ok>>)
    BY DEF Asked
  <2> QED
    BY <1>2, <2>1 DEF HandleTable, Faulty
<1>3. CASE HandleRegFailed \/ HandleReg
  <2>1. \A ok \in BOOLEAN : ~Asked(<<"register", "app", ok>>)
    BY DEF Asked
  <2>2. "stack" \in Kinds
    BY DEF Kinds
  <2> QED
    BY <1>3, <2>1, <2>2 DEF HandleRegFailed, HandleReg, Faulty
<1>4. CASE HandleConnect \/ HandleDisconnect \/ HandleWrite
  <2>1. ~Asked(<<"CONNECT">>) /\ ~Asked(<<"DISCONNECT">>) /\ ~Asked(<<"WRITE">>)
    BY DEF Asked
  <2>2. Faulty
    BY <1>4, Starting DEF HandleConnect, HandleDisconnect, HandleWrite, Faulty
  <2> QED
    BY <1>4, <2>1, <2>2 DEF HandleConnect, HandleDisconnect, HandleWrite
<1> HIDE DEF Kept
<1> QED
  BY <1>1, <1>2, <1>3, <1>4 DEF Heeds

LEMMA HeedsTypes ==
  ASSUME AdvT, QueueT, Heeds
  PROVE  AdvT' /\ requested' \in Seq(StackCalls)
<1>1. CASE HandleReg
  <2>1. PICK accepted \in {<<>>, <<"adv">>, <<"scan_rsp">>, <<"adv", "scan_rsp">>} :
          requested' = requested \o [i \in 1 .. Len(accepted) |-> <<"config", accepted[i]>>]
                                 \o <<<<"table", "app">>>>
    BY <1>1 DEF HandleReg
  <2>2. [i \in 1 .. Len(accepted) |-> <<"config", accepted[i]>>] \in Seq(StackCalls)
    <3>1. CASE accepted = <<>>
      BY <3>1
    <3>2. CASE accepted \in {<<"adv">>, <<"scan_rsp">>}
      BY <3>2 DEF StackCalls
    <3>3. CASE accepted = <<"adv", "scan_rsp">>
      BY <3>3 DEF StackCalls
    <3> QED
      BY <2>1, <3>1, <3>2, <3>3
  <2>3. <<<<"table", "app">>>> \in Seq(StackCalls)
    BY DEF StackCalls
  <2>4. requested' \in Seq(StackCalls)
    BY <2>1, <2>2, <2>3, ConcatProperties DEF QueueT
  <2> QED
    BY <1>1, <2>4 DEF HandleReg, AdvT
<1>2. CASE ~HandleReg
  <2>1. requested' = requested
    BY <1>2 DEF Heeds, HandleDataSet, HandleRegFailed, HandleTable,
                HandleConnect, HandleDisconnect, HandleWrite, advVars
  <2>2. AdvT'
    BY <1>2, Starting DEF Heeds, HandleDataSet, HandleRegFailed, HandleTable,
                HandleConnect, HandleDisconnect, HandleWrite, advVars, AdvT
  <2> QED
    BY <2>1, <2>2 DEF QueueT
<1> QED
  BY <1>1, <1>2

\* A piece is put in its place; what lies before it and was never written is
\* whatever malloc left there.
LEMMA WrittenPieces ==
  ASSUME BufferT, NEW t \in Texts, NEW i \in 1 .. Pieces
  PROVE  /\ Written(i, t) \in Seq(Texts \cup {Garbage})
         /\ Len(Written(i, t)) \in 1 .. Pieces
         /\ i = 1 => /\ Len(Written(i, t)) = IF buffer = <<>> THEN 1 ELSE Len(buffer)
                     /\ Written(i, t)[1] = t
         /\ i = 2 => /\ Len(Written(i, t)) = 2 /\ Written(i, t)[2] = t
                     /\ Written(i, t)[1] = IF buffer = <<>> THEN Garbage ELSE buffer[1]
<1>1. Len(buffer) \in {0, 1, 2} /\ (buffer = <<>> <=> Len(buffer) = 0)
  <2>1. Len(buffer) \in Nat /\ Len(buffer) <= 2
    BY LenProperties DEF BufferT, Pieces
  <2>4. Len(buffer) \in {0, 1, 2}
    <3>1. \A n \in Nat : n <= 2 => n \in {0, 1, 2}
      OBVIOUS
    <3> QED
      BY <2>1, <3>1
  <2>2. buffer # <<>> => Len(buffer) # 0
    BY EmptySeq DEF BufferT
  <2>3. buffer = <<>> => Len(buffer) = 0
    OBVIOUS
  <2> QED
    BY <2>2, <2>3, <2>4
<1>2. CASE i <= Len(buffer)
  <2>1. Written(i, t) = [buffer EXCEPT ![i] = t]
    BY <1>2 DEF Written
  <2>2. /\ Written(i, t) \in Seq(Texts \cup {Garbage}) /\ Len(Written(i, t)) = Len(buffer)
        /\ \A j \in 1 .. Len(buffer) : Written(i, t)[j] = IF j = i THEN t ELSE buffer[j]
    BY <1>1, <1>2, <2>1, ExceptSeq DEF BufferT, Pieces
  <2> QED
    BY <1>1, <1>2, <2>2 DEF Pieces
<1>3. CASE ~(i <= Len(buffer))
  <2> DEFINE W == [j \in 1 .. i |-> IF j <= Len(buffer) THEN buffer[j]
                                    ELSE IF j = i THEN t ELSE Garbage]
  <2>1. Written(i, t) = W
    BY <1>3 DEF Written
  <2>2. \A j \in 1 .. Len(buffer) : buffer[j] \in Texts \cup {Garbage}
    BY DEF BufferT
  <2>3. W \in [1 .. i -> Texts \cup {Garbage}]
    BY <1>1, <2>2
  <2>4. W \in Seq(Texts \cup {Garbage}) /\ Len(W) = i
    BY <2>3, i \in Nat DEF Pieces
  <2>5. i = 1 => Len(buffer) = 0 /\ W[1] = t
    BY <1>1, <1>3
  <2>6. i = 2 => W[2] = t /\ W[1] = IF buffer = <<>> THEN Garbage ELSE buffer[1]
    BY <1>1, <1>3
  <2> QED
    BY <1>1, <2>1, <2>4, <2>5, <2>6 DEF Pieces
<1> QED
  BY <1>2, <1>3

LEMMA PrepareKeeps ==
  ASSUME QueueT, BufferT, HandlePrepare
  PROVE  /\ BufferT' /\ Faulty
         /\ UNCHANGED <<advVars, doing, parsed, phoneVars, storeVars, stationVars>>
<1>1. PICK t \in Texts, i \in 1 .. Pieces :
        /\ \/ buffer' = Written(i, t) /\ prepareLen' = prepareLen + 1 /\ UNCHANGED faultVars
           \/ buffer = <<>> /\ Trouble("memory") /\ UNCHANGED <<buffer, prepareLen>>
        /\ UNCHANGED <<advVars, doing, parsed, phoneVars, storeVars, stationVars>>
  BY DEF HandlePrepare
<1>2. BufferT'
  <2>1. CASE buffer' = Written(i, t) /\ prepareLen' = prepareLen + 1
    <3>1. /\ buffer' \in Seq(Texts \cup {Garbage}) /\ Len(buffer') \in 1 .. Pieces
          /\ prepareLen' \in Nat /\ prepareLen' # 0
      BY <2>1, WrittenPieces DEF BufferT
    <3>2. Len(buffer') # 0 /\ Len(buffer') <= Pieces
      <4>1. \A n \in 1 .. Pieces : n # 0 /\ n <= Pieces
        BY DEF Pieces
      <4> QED
        BY <3>1, <4>1
    <3>3. buffer' # <<>>
      BY <3>2
    <3> QED
      BY <3>1, <3>2, <3>3 DEF BufferT
  <2>2. CASE UNCHANGED <<buffer, prepareLen>>
    BY <2>2 DEF BufferT
  <2> QED
    BY <1>1, <2>1, <2>2
<1>3. Faulty
  BY <1>1 DEF Faulty, Kinds
<1> QED
  BY <1>1, <1>2, <1>3

LEMMA FreedTypes == Freed => BufferT'
  BY DEF Freed, BufferT, Pieces

\* What is handled as a text is: what malloc left is not.
LEMMA PieceTypes ==
  ASSUME BufferT, MayParse
  PROVE  Piece(1) \in Texts /\ Piece(Pieces) \in Texts
<1>1. \A i \in {1, 2} : Piece(i) \in Texts \cup {Garbage}
  BY LenProperties DEF BufferT, Piece
<1> QED
  BY <1>1 DEF MayParse, Pieces

LEMMA ExecKeeps ==
  ASSUME QueueT, BufferT, ParsedT, HandleExec
  PROVE  /\ BufferT' /\ ParsedT'
         /\ UNCHANGED <<advVars, phoneVars, faultVars, storeVars, stationVars>>
         /\ \E flag \in {"exec", "cancel"} : Receive(<<"EXEC", flag>>)
<1>1. /\ UNCHANGED <<advVars, phoneVars, faultVars, storeVars, stationVars>>
      /\ \E flag \in {"exec", "cancel"} : Receive(<<"EXEC", flag>>)
  BY DEF HandleExec
<1>2. CASE /\ MayParse
           /\ parsed' = <<Piece(1), Piece(Pieces)>>
           /\ doing' = IF Credentials(parsed') THEN "ssid" ELSE "init"
           /\ UNCHANGED <<buffer, prepareLen>>
  BY <1>1, <1>2, PieceTypes DEF BufferT, ParsedT, Credentials
<1>3. CASE Freed /\ UNCHANGED <<doing, parsed>>
  BY <1>1, <1>3, FreedTypes DEF ParsedT, Credentials
<1> QED
  BY <1>1, <1>2, <1>3 DEF HandleExec

LEMMA SaveTypes ==
  ASSUME StoreTypeOK, StationTypeOK, ParsedT, SaveStep
  PROVE  StoreTypeOK' /\ StationTypeOK' /\ ParsedT' /\ Faulty
<1>0. "flash" \in Kinds
  BY DEF Kinds
<1>1. CASE SaveSsid
  <2>1. parsed[1] \in Values /\ "ssid" \in Keys
    BY <1>1, TableAssumption DEF ParsedT, Credentials, SaveSsid
  <2>2. StoreTypeOK'
    BY <1>1, <2>1, TableStore DEF SaveSsid
  <2>3. StationTypeOK'
    BY <1>1, StationTypes DEF SaveSsid
  <2>4. ParsedT'
    BY <1>1 DEF SaveSsid, ParsedT, Credentials
  <2> QED
    BY <1>0, <1>1, <2>2, <2>3, <2>4 DEF SaveSsid, FlashOutcome, Outcome, Faulty
<1>2. CASE SavePass
  <2>1. parsed[2] \in Values /\ "pass" \in Keys
    BY <1>2, TableAssumption DEF ParsedT, Credentials, SavePass
  <2>2. StoreTypeOK'
    BY <1>2, <2>1, TableStore DEF SavePass
  <2>3. StationTypeOK'
    BY <1>2, StationTypes DEF SavePass
  <2>4. ParsedT'
    BY <1>2 DEF SavePass, ParsedT, Credentials
  <2> QED
    BY <1>0, <1>2, <2>2, <2>3, <2>4 DEF SavePass, FlashOutcome, Outcome, Faulty
<1>3. CASE InitSta
  <2>1. PICK got \in Values \cup {Unset} : NVS_read_key("ssid", got) /\ StartStation(got # Unset)
    BY <1>3 DEF InitSta
  <2>2. "ssid" \in Keys
    BY TableAssumption
  <2>3. StoreTypeOK'
    BY <1>3, <2>1, <2>2, TableRead DEF InitSta
  <2>4. StationTypeOK'
    BY <2>1, (got # Unset) \in BOOLEAN, StationTypes
  <2>5. ParsedT'
    BY <1>3 DEF InitSta, ParsedT, Credentials
  <2> QED
    BY <1>0, <1>3, <2>3, <2>4, <2>5 DEF InitSta, FlashOutcome, Outcome, Faulty
<1> QED
  BY <1>1, <1>2, <1>3 DEF SaveStep

LEMMA RebootTypes ==
  ASSUME StoreTypeOK, StationTypeOK, PhoneT, Reboots
  PROVE  /\ Faulty /\ Reboot
         /\ StoreTypeOK' /\ StationTypeOK' /\ AdvT' /\ QueueT' /\ BufferT' /\ ParsedT' /\ PhoneT'
<1>1. Reboot /\ Faulty
  BY DEF Reboots, PowerCut, Aborts, Faulty, Kinds
<1>2. StoreTypeOK' /\ StationTypeOK'
  BY <1>1, StationTypes DEF Reboot, storeVars, StoreTypeOK
<1>3. QueueT'
  BY <1>1 DEF Reboot, QueueT, StackCalls
<1>4. AdvT' /\ BufferT'
  BY <1>1, FreedTypes DEF Reboot, AdvT, Freed
<1>5. ParsedT' /\ PhoneT'
  BY <1>1, TableAssumption DEF Reboot, ParsedT, NoText, PhoneT, Stages
<1> QED
  BY <1>1, <1>2, <1>3, <1>4, <1>5

\* A phone goes on with its text, ends it, or does something else.
PhoneMoves(e) ==
  \/ ~Asked(e) /\ UNCHANGED <<sending, whole>>
  \/ ~Asked(e) /\ sending' = Nothing /\ "break" \in troubles' /\ UNCHANGED whole
  \/ \E t \in Texts : /\ e = <<"PREPARE", t, 1>> /\ sending = Nothing
                      /\ sending' = <<t, 1>> /\ UNCHANGED whole
  \/ \E t \in Texts : /\ e = <<"PREPARE", t, 2>> /\ sending = <<t, 1>>
                      /\ sending' = <<t, 2>> /\ whole' = whole \cup {t}
  \/ /\ e \in {"EXEC"} \X {"exec", "cancel"} /\ sending' = Nothing /\ UNCHANGED whole
     /\ \/ sending # Nothing /\ sending[2] = Pieces
        \/ "cancel" \in troubles' \/ "empty" \in troubles'

LEMMA PhoneKeeps ==
  ASSUME PhoneT, AdvT, PhoneActs
  PROVE  /\ UNCHANGED <<advConfig, table, requested, buffer, prepareLen, doing, parsed,
                        storeVars, stationVars>>
         /\ Faulty /\ link' \in BOOLEAN /\ advertising' \in BOOLEAN
         /\ \E e \in BtEvents : inbox' = Append(inbox, e) /\ PhoneMoves(e)
<1> DEFINE Kept == /\ UNCHANGED <<advConfig, table, requested, buffer, prepareLen, doing, parsed,
                                  storeVars, stationVars>>
                   /\ Faulty /\ link' \in BOOLEAN /\ advertising' \in BOOLEAN
           Adds(e) == inbox' = Append(inbox, e) /\ PhoneMoves(e)
<1>0. /\ <<"CONNECT">> \in BtEvents /\ <<"DISCONNECT">> \in BtEvents /\ <<"WRITE">> \in BtEvents
      /\ \A t \in Texts : /\ <<"PREPARE", t, 1>> \in BtEvents
                         /\ <<"PREPARE", t, 2>> \in BtEvents
      /\ \A flag \in {"exec", "cancel"} : <<"EXEC", flag>> \in BtEvents
      /\ ~Asked(<<"CONNECT">>) /\ ~Asked(<<"DISCONNECT">>) /\ ~Asked(<<"WRITE">>)
  BY DEF BtEvents, Asked, Pieces
<1> SUFFICES Kept /\ \E e \in BtEvents : Adds(e)
  OBVIOUS
<1>1. CASE Connects
  <2>1. Kept
    BY <1>1 DEF Connects, Phone, Faulty
  <2>2. Adds(<<"CONNECT">>)
    BY <1>0, <1>1 DEF Connects, Phone, PhoneMoves
  <2> QED
    BY <1>0, <2>1, <2>2
<1>2. CASE LosesLink
  <2>1. Kept
    BY <1>2 DEF LosesLink, Phone, Faulty, Kinds, AdvT
  <2>2. Adds(<<"DISCONNECT">>)
    <3>1. inbox' = Append(inbox, <<"DISCONNECT">>) /\ sending' = Nothing /\ whole' = whole
      BY <1>2 DEF LosesLink, Phone
    <3>2. sending # Nothing => "break" \in troubles'
      BY <1>2 DEF LosesLink, Trouble
    <3> QED
      BY <1>0, <3>1, <3>2 DEF PhoneMoves
  <2> QED
    BY <1>0, <2>1, <2>2
<1>3. ASSUME NEW t \in Texts, StartsText(t), Faulty
      PROVE  Kept /\ Adds(<<"PREPARE", t, 1>>)
  <2>1. Kept
    BY <1>3 DEF StartsText, SendsPiece, Sends, Phone, PhoneT, AdvT
  <2>2. /\ inbox' = Append(inbox, <<"PREPARE", t, 1>>) /\ sending = Nothing
        /\ sending' = <<t, 1>> /\ whole' = whole
    BY <1>3 DEF StartsText, SendsPiece, Sends, Phone, Pieces
  <2> QED
    BY <2>1, <2>2 DEF PhoneMoves
<1>4. CASE GoesOn /\ UNCHANGED faultVars
  <2>1. Kept
    BY <1>4 DEF GoesOn, SendsPiece, Sends, Phone, PhoneT, AdvT, Faulty
  <2>2. PICK t \in Texts : sending = <<t, 1>>
    <3>1. sending \in Texts \X {1, 2} /\ sending[2] < 2
      BY <1>4 DEF GoesOn, PhoneT, Stages, Pieces
    <3>2. PICK t \in Texts, i \in {1, 2} : sending = <<t, i>>
      BY <3>1
    <3> QED
      BY <3>1, <3>2
  <2>3. SendsPiece(t, 2)
    BY <1>4, <2>2 DEF GoesOn
  <2>4. /\ inbox' = Append(inbox, <<"PREPARE", t, 2>>)
        /\ sending' = <<t, 2>> /\ whole' = whole \cup {t}
    BY <2>3 DEF SendsPiece, Sends, Phone, Pieces
  <2>5. Adds(<<"PREPARE", t, 2>>)
    BY <2>2, <2>4 DEF PhoneMoves
  <2> QED
    BY <1>0, <2>1, <2>5
<1>5. ASSUME NEW flag \in {"exec", "cancel"}, Executes(flag), Faulty,
             \/ sending # Nothing /\ sending[2] = Pieces
             \/ "cancel" \in troubles' \/ "empty" \in troubles'
      PROVE  Kept /\ Adds(<<"EXEC", flag>>)
  <2>1. Kept
    BY <1>5 DEF Executes, Sends, Phone, PhoneT, AdvT
  <2>2. inbox' = Append(inbox, <<"EXEC", flag>>) /\ sending' = Nothing /\ whole' = whole
    BY <1>5 DEF Executes, Sends, Phone
  <2> QED
    BY <1>5, <2>1, <2>2 DEF PhoneMoves
<1>6. CASE Trouble("write") /\ Sends(<<"WRITE">>) /\ UNCHANGED <<sending, whole>>
  <2>1. Kept
    BY <1>6 DEF Sends, Phone, Faulty, Kinds, PhoneT, AdvT
  <2>2. Adds(<<"WRITE">>)
    BY <1>0, <1>6 DEF Sends, Phone, PhoneMoves
  <2> QED
    BY <1>0, <2>1, <2>2
<1>7. \/ \E t \in Texts : StartsText(t) /\ Faulty
      \/ GoesOn /\ UNCHANGED faultVars
      \/ \E flag \in {"exec", "cancel"} :
           /\ Executes(flag) /\ Faulty
           /\ \/ sending # Nothing /\ sending[2] = Pieces
              \/ "cancel" \in troubles' \/ "empty" \in troubles'
      \/ Trouble("write") /\ Sends(<<"WRITE">>) /\ UNCHANGED <<sending, whole>>
      \/ Connects \/ LosesLink
  <2>1. CASE PhoneSends
    <3>1. Faulty /\ UNCHANGED faultVars
      BY <2>1 DEF PhoneSends, Faulty
    <3>2. \/ \E t \in Texts : StartsText(t)
          \/ GoesOn
          \/ sending # Nothing /\ sending[2] = Pieces /\ Executes("exec")
      BY <2>1, TableAssumption DEF PhoneSends
    <3> QED
      BY <3>1, <3>2
  <2>2. CASE PhoneDallies
    <3>1. \A kind \in Kinds : Trouble(kind) => Faulty /\ kind \in troubles'
      BY DEF Trouble, Faulty
    <3>2. {"early", "cancel", "empty", "write"} \subseteq Kinds
      BY DEF Kinds
    <3> QED
      BY <2>2, <3>1, <3>2 DEF PhoneDallies
  <2> QED
    BY <2>1, <2>2 DEF PhoneActs
<1> HIDE DEF Kept, Adds
<1> QED
  BY <1>0, <1>1, <1>2, <1>3, <1>4, <1>5, <1>6, <1>7

LEMMA CompletesKeeps ==
  ASSUME QueueT, Completes
  PROVE  /\ QueueT' /\ Faulty
         /\ \E e \in BtEvents : inbox' = Append(inbox, e) /\ ~Asked(e)
         /\ UNCHANGED <<advConfig, advertising, table, buffer, prepareLen, doing, parsed,
                        phoneVars, storeVars, stationVars>>
<1>1. PICK ok \in BOOLEAN :
        /\ requested # <<>> /\ requested' = Tail(requested) /\ Outcome(ok, "stack")
        /\ inbox' = Append(inbox, <<Head(requested)[1], Head(requested)[2], ok>>)
        /\ UNCHANGED <<advConfig, advertising, table, buffer, prepareLen, doing, parsed,
                       phoneVars, storeVars, stationVars>>
  BY DEF Completes
<1>2. Head(requested) \in StackCalls /\ requested' \in Seq(StackCalls)
  BY <1>1, Dequeued DEF QueueT
<1>3. PICK kind \in {"register", "config", "table"}, what \in {"app", "adv", "scan_rsp"} :
        Head(requested) = <<kind, what>>
  BY <1>2 DEF StackCalls
<1>4. /\ <<kind, what, ok>> \in BtEvents /\ ~Asked(<<kind, what, ok>>)
      /\ inbox' = Append(inbox, <<kind, what, ok>>)
  BY <1>1, <1>3 DEF BtEvents, Asked
<1>5. Faulty
  BY <1>1 DEF Outcome, Faulty, Kinds
<1> QED
  BY <1>1, <1>2, <1>4, <1>5, Enqueued DEF QueueT

LEMMA ElsewhereKeeps ==
  ASSUME StoreTypeOK, StationTypeOK, Elsewhere
  PROVE  /\ UNCHANGED <<storeVars, advVars, taskVars, phoneVars, faultVars>>
         /\ StoreTypeOK' /\ StationTypeOK'
<1>1. UNCHANGED <<storeVars, advVars, taskVars, phoneVars, faultVars>>
  BY DEF Elsewhere, EventLoop, Driver, ApLost, Others, vars
<1>2. StationTypeOK'
  BY StationTypes DEF Elsewhere, EventLoop, Driver, ApLost, vars
<1> QED
  BY <1>1, <1>2 DEF storeVars, StoreTypeOK

LEMMA TableTypesInit == Init => TableTypes
<1> SUFFICES ASSUME Init PROVE TableTypes
  OBVIOUS
<1>1. StoreTypeOK
  BY DEF Init, StoreInit, StoreTypeOK
<1>2. StationTypeOK
  <2>1. 0 \in 0 .. MaximumRetry /\ Refusals \in 0 .. Refusals
    BY StationAssumption
  <2>2. <<>> \in Seq(WifiEvents)
    OBVIOUS
  <2>3. wifiEvents = <<>> /\ s_retry_num = 0 /\ refusalsLeft = Refusals
    BY DEF Init, StationOff
  <2>4. wifiEvents \in Seq(WifiEvents) /\ s_retry_num \in 0 .. MaximumRetry
        /\ refusalsLeft \in 0 .. Refusals
    BY <2>1, <2>2, <2>3
  <2> QED
    BY <2>4 DEF Init, StationOff, StationTypeOK
<1>3. QueueT /\ AdvT /\ ParsedT
  <2>1. AdvT /\ ParsedT
    BY TableAssumption DEF Init, Booted, AdvT, ParsedT, NoText
  <2>2. <<<<"register", "app">>>> \in Seq(StackCalls) /\ <<>> \in Seq(BtEvents)
    BY DEF StackCalls
  <2> QED
    BY <2>1, <2>2 DEF Init, Booted, QueueT
<1>4. BufferT
  BY DEF Init, Booted, BufferT, Pieces
<1>5. PhoneT
  BY DEF Init, Booted, PhoneT, Stages
<1>6. FaultT
  BY TableAssumption DEF Init, FaultT
<1> QED
  BY <1>1, <1>2, <1>3, <1>4, <1>5, <1>6 DEF TableTypes

LEMMA TableTypesNext == TableTypes /\ [Next]_vars => TableTypes'
<1> SUFFICES ASSUME TableTypes, [Next]_vars PROVE TableTypes'
  OBVIOUS
<1> USE DEF TableTypes
<1>0. /\ UNCHANGED storeVars => StoreTypeOK'
      /\ UNCHANGED stationVars => StationTypeOK'
  BY StationTypes DEF storeVars, StoreTypeOK
<1>1. Faulty => FaultT'
  BY FaultTypes
<1>2. UNCHANGED phoneVars => PhoneT'
  BY DEF phoneVars, PhoneT
<1>3. UNCHANGED advVars => AdvT' /\ requested' \in Seq(StackCalls)
  BY DEF advVars, AdvT, QueueT
<1>4. CASE Heeds
  <2>1. ParsedT' /\ BufferT'
    BY <1>4, HeedsKeeps DEF ParsedT, BufferT, Credentials
  <2> QED
    BY <1>0, <1>1, <1>2, <1>4, <2>1, HeedsKeeps, HeedsTypes DEF QueueT
<1>5. CASE HandlePrepare
  <2>1. ParsedT'
    BY <1>5, PrepareKeeps DEF ParsedT, Credentials
  <2>2. inbox' \in Seq(BtEvents)
    BY <1>5, Received DEF HandlePrepare
  <2> QED
    BY <1>0, <1>1, <1>2, <1>3, <1>5, <2>1, <2>2, PrepareKeeps DEF QueueT
<1>6. CASE HandleExec
  <2>1. inbox' \in Seq(BtEvents)
    BY <1>6, ExecKeeps, Received
  <2> QED
    BY <1>0, <1>1, <1>2, <1>3, <1>6, <2>1, ExecKeeps DEF QueueT, Faulty
<1>7. CASE SaveStep
  <2>1. UNCHANGED <<advVars, inbox, buffer, prepareLen, phoneVars>>
    BY <1>7 DEF SaveStep, SaveSsid, SavePass, InitSta
  <2> QED
    BY <1>1, <1>2, <1>3, <1>7, <2>1, SaveTypes DEF QueueT, BufferT
<1>8. CASE Joined
  <2>1. UNCHANGED <<advVars, inbox, storeVars, stationVars, phoneVars, faultVars>>
    BY <1>8 DEF Joined, WaitEnds
  <2>2. BufferT' /\ ParsedT'
    BY <1>8, FreedTypes DEF Joined, ParsedT, Credentials
  <2> QED
    BY <1>0, <1>1, <1>2, <1>3, <2>1, <2>2 DEF QueueT, Faulty
<1>9. CASE Completes
  <2>1. AdvT' /\ BufferT' /\ ParsedT'
    BY <1>9, CompletesKeeps DEF AdvT, BufferT, ParsedT, Credentials
  <2> QED
    BY <1>0, <1>1, <1>2, <1>9, <2>1, CompletesKeeps
<1>10. CASE Reboots
  BY <1>1, <1>10, RebootTypes
<1>11. CASE Elsewhere
  <2>1. BufferT' /\ ParsedT' /\ QueueT'
    BY <1>11, ElsewhereKeeps DEF BufferT, ParsedT, QueueT, Credentials, taskVars, advVars
  <2> QED
    BY <1>1, <1>2, <1>3, <1>11, <2>1, ElsewhereKeeps DEF Faulty
<1>12. CASE PhoneActs
  <2>1. BufferT' /\ ParsedT' /\ AdvT'
    BY <1>12, PhoneKeeps DEF BufferT, ParsedT, AdvT, Credentials
  <2>2. QueueT'
    BY <1>12, PhoneKeeps, Enqueued DEF QueueT
  <2>3. PhoneT'
    <3>1. sending' \in Stages /\ whole' \in SUBSET Texts
      BY <1>12, PhoneKeeps DEF PhoneMoves, PhoneT, Stages, Pieces
    <3> QED
      BY <1>12, <3>1, PhoneKeeps DEF PhoneT
  <2> QED
    BY <1>0, <1>1, <1>12, <2>1, <2>2, <2>3, PhoneKeeps
<1> QED
  BY <1>4, <1>5, <1>6, <1>7, <1>8, <1>9, <1>10, <1>11, <1>12, TableCases

-----------------------------------------------------------------------------
(* The requests that wait, and how far those handled have led.             *)

StageOf(e) == IF e[1] = "PREPARE" THEN <<e[2], e[3]>> ELSE Nothing

Broken == "break" \in troubles
Early  == "cancel" \in troubles \/ "empty" \in troubles

\* The stage of a text that the requests handled so far have led to.
Reached(s) ==
  \/ s[2] = 0 /\ (doing # "idle" \/ buffer = <<>>)
  \/ s[2] = 1 /\ doing = "idle"
     /\ (buffer = <<>> \/ (buffer[1] = s[1] /\ (Broken \/ Len(buffer) = 1)))
  \/ s[2] = 2 /\ doing = "idle"
     /\ (buffer = <<>> \/ (Len(buffer) = 2 /\ buffer[2] = s[1] /\ buffer[1] \in {s[1], Garbage}))

\* The stage that the first n of those that wait will lead to.
Leads(n, s) ==
  \/ \E j \in 1 .. n : /\ Asked(inbox[j]) /\ StageOf(inbox[j]) = s
                       /\ \A k \in j + 1 .. n : ~Asked(inbox[k])
  \/ Reached(s) /\ \A k \in 1 .. n : ~Asked(inbox[k])

SentWhole(s) == s[2] = Pieces => s[1] \in whole

\* A piece follows the one before it, a first piece the end of a text unless
\* a link has broken, and the end of a text its last piece unless a phone has
\* ended one early.
Fits(n, e) ==
  /\ \A t \in Texts :
       /\ e = <<"PREPARE", t, 1>> => Broken \/ Leads(n, Nothing)
       /\ e = <<"PREPARE", t, 2>> => Leads(n, <<t, 1>>) /\ t \in whole
  /\ e[1] = "EXEC" =>
       \E s \in Stages : SentWhole(s) /\ Leads(n, s) /\ (Early \/ s[2] = Pieces)

RequestsFit ==
  /\ \A n \in Nat, e \in BtEvents : n < Len(inbox) /\ e = inbox[n + 1] => Fits(n, e)
  /\ \A n \in Nat, s \in Stages :
       n = Len(inbox) /\ s = sending =>
         SentWhole(s) /\ (Leads(n, s) \/ (Broken /\ s = Nothing))

LEMMA StagesCases ==
  /\ \A s \in Stages : s = Nothing \/ \E t \in Texts, i \in {1, 2} : s = <<t, i>>
  /\ Nothing \in Stages /\ Nothing[2] = 0
  /\ \A t \in Texts : <<t, 1>> \in Stages /\ <<t, 2>> \in Stages
  BY DEF Stages, Nothing, Pieces

\* A stage stays reached while the buffer is left alone ...
LEMMA ReachedKept ==
  ASSUME troubles \subseteq troubles', UNCHANGED <<buffer, doing>>, NEW s
  PROVE  Reached(s) => Reached(s)'
  BY DEF Reached, Broken

\* ... and the end of one while the text is handled.
LEMMA ReachedEnd ==
  ASSUME doing' # "idle" \/ buffer' = <<>>
  PROVE  Reached(Nothing)' /\ (doing # "idle" => \A s \in Stages : Reached(s) => Reached(s)')
<1>1. \A s \in Stages : doing # "idle" /\ Reached(s) => s[2] = 0
  BY DEF Reached
<1>2. \A s \in Stages : s[2] = 0 => Reached(s)'
  BY DEF Reached
<1> QED
  BY <1>1, <1>2, StagesCases

LEMMA LeadsKept ==
  ASSUME NEW n \in Nat, NEW s, \A k \in 1 .. n : inbox'[k] = inbox[k],
         Reached(s) => Reached(s)', Leads(n, s)
  PROVE  Leads(n, s)'
<1>1. CASE Reached(s) /\ \A k \in 1 .. n : ~Asked(inbox[k])
  <2>1. \A k \in 1 .. n : ~Asked(inbox'[k])
    BY <1>1
  <2> QED
    BY <1>1, <2>1 DEF Leads, Asked
<1>2. CASE \E j \in 1 .. n : /\ Asked(inbox[j]) /\ StageOf(inbox[j]) = s
                             /\ \A k \in j + 1 .. n : ~Asked(inbox[k])
  <2>1. PICK j \in 1 .. n : /\ Asked(inbox[j]) /\ StageOf(inbox[j]) = s
                            /\ \A k \in j + 1 .. n : ~Asked(inbox[k])
    BY <1>2
  <2>2. \A k \in j + 1 .. n : k \in 1 .. n
    OBVIOUS
  <2>3. /\ Asked(inbox'[j]) /\ StageOf(inbox'[j]) = s
        /\ \A k \in j + 1 .. n : ~Asked(inbox'[k])
    BY <2>1, <2>2
  <2> QED
    BY <2>3 DEF Leads, Asked, StageOf
<1> QED
  BY <1>1, <1>2 DEF Leads

\* An event arrives: if it is a request, it leads to its stage.
LEMMA LeadsArrives ==
  ASSUME QueueT, NEW e \in BtEvents, inbox' = Append(inbox, e),
         NEW m \in Nat, m = Len(inbox), NEW s,
         Asked(e) => s = StageOf(e),
         ~Asked(e) => Leads(m, s) /\ (Reached(s) => Reached(s)')
  PROVE  Leads(m + 1, s)'
<1>1. inbox'[m + 1] = e /\ \A k \in 1 .. m : inbox'[k] = inbox[k]
  BY Enqueued DEF QueueT
<1>2. CASE Asked(e)
  <2>1. Asked(inbox'[m + 1]) /\ StageOf(inbox'[m + 1]) = s
    BY <1>1, <1>2
  <2>2. m + 1 \in 1 .. m + 1 /\ \A k \in (m + 1) + 1 .. m + 1 : ~Asked(inbox'[k])
    OBVIOUS
  <2> QED
    BY <2>1, <2>2 DEF Leads, Asked, StageOf
<1>3. CASE ~Asked(e)
  <2>1. Leads(m, s)'
    BY <1>1, <1>3, LeadsKept
  <2>2. \A k \in Nat : k \in 1 .. m + 1 => k \in 1 .. m \/ k = m + 1
    OBVIOUS
  <2>3. CASE Reached(s)' /\ \A k \in 1 .. m : ~Asked(inbox'[k])
    <3>1. \A k \in 1 .. m + 1 : ~Asked(inbox'[k])
      BY <1>1, <1>3, <2>2, <2>3
    <3> QED
      BY <2>3, <3>1 DEF Leads, Asked
  <2>4. CASE \E j \in 1 .. m : /\ Asked(inbox'[j]) /\ StageOf(inbox'[j]) = s
                               /\ \A k \in j + 1 .. m : ~Asked(inbox'[k])
    <3>1. PICK j \in 1 .. m : /\ Asked(inbox'[j]) /\ StageOf(inbox'[j]) = s
                              /\ \A k \in j + 1 .. m : ~Asked(inbox'[k])
      BY <2>4
    <3>2. j \in 1 .. m + 1 /\ \A k \in j + 1 .. m + 1 : k \in j + 1 .. m \/ k = m + 1
      OBVIOUS
    <3>3. \A k \in j + 1 .. m + 1 : ~Asked(inbox'[k])
      BY <1>1, <1>3, <3>1, <3>2
    <3> QED
      BY <3>1, <3>2, <3>3 DEF Leads, Asked, StageOf
  <2> QED
    BY <2>1, <2>3, <2>4 DEF Leads, Asked, StageOf
<1> QED
  BY <1>2, <1>3

\* The first event is handled: if it was a request, its stage is reached.
LEMMA LeadsLeaves ==
  ASSUME QueueT, inbox # <<>>, inbox' = Tail(inbox), NEW n \in Nat, n < Len(inbox), NEW s,
         Asked(inbox[1]) /\ s = StageOf(inbox[1]) => Reached(s)',
         ~Asked(inbox[1]) /\ Reached(s) => Reached(s)',
         Leads(n + 1, s)
  PROVE  Leads(n, s)'
<1>0. Len(inbox) \in Nat \ {0} /\ \A i \in 1 .. Len(inbox) - 1 : inbox'[i] = inbox[i + 1]
  BY Dequeued DEF QueueT
<1>1. \A k \in 1 .. n : inbox'[k] = inbox[k + 1] /\ k + 1 \in 1 .. n + 1
  BY <1>0
<1>2. CASE Reached(s) /\ \A k \in 1 .. n + 1 : ~Asked(inbox[k])
  <2>1. ~Asked(inbox[1]) /\ \A k \in 1 .. n : ~Asked(inbox'[k])
    BY <1>1, <1>2
  <2> QED
    BY <1>2, <2>1 DEF Leads, Asked
<1>3. CASE \E j \in 1 .. n + 1 : /\ Asked(inbox[j]) /\ StageOf(inbox[j]) = s
                                 /\ \A k \in j + 1 .. n + 1 : ~Asked(inbox[k])
  <2>1. PICK j \in 1 .. n + 1 : /\ Asked(inbox[j]) /\ StageOf(inbox[j]) = s
                                /\ \A k \in j + 1 .. n + 1 : ~Asked(inbox[k])
    BY <1>3
  <2>2. CASE j = 1
    <3>1. Reached(s)'
      BY <2>1, <2>2
    <3>2. \A k \in 1 .. n : k + 1 \in j + 1 .. n + 1
      BY <2>2
    <3>3. \A k \in 1 .. n : ~Asked(inbox'[k])
      BY <1>1, <2>1, <3>2
    <3> QED
      BY <3>1, <3>3 DEF Leads, Asked
  <2>3. CASE j # 1
    <3>1. PICK i \in 1 .. n : i + 1 = j
      <4>1. j - 1 \in 1 .. n /\ (j - 1) + 1 = j
        BY <2>3
      <4> QED
        BY <4>1
    <3>2. Asked(inbox'[i]) /\ StageOf(inbox'[i]) = s
      BY <1>1, <2>1, <3>1
    <3>3. \A k \in i + 1 .. n : k \in 1 .. n /\ k + 1 \in j + 1 .. n + 1
      BY <3>1
    <3>4. \A k \in i + 1 .. n : ~Asked(inbox'[k])
      BY <1>1, <2>1, <3>3
    <3> QED
      BY <3>2, <3>4 DEF Leads, Asked, StageOf
  <2> QED
    BY <2>2, <2>3
<1> QED
  BY <1>2, <1>3, <1>1 DEF Leads

\* What a request followed stays, if the stage it needs is still led to.
LEMMA FitsKept ==
  ASSUME NEW n \in Nat, NEW m \in Nat, NEW e \in BtEvents, Fits(n, e),
         troubles \subseteq troubles', whole \subseteq whole',
         \A s \in Stages : Leads(n, s) => Leads(m, s)'
  PROVE  Fits(m, e)'
<1>1. /\ \A s \in Stages : SentWhole(s) => SentWhole(s)'
      /\ Broken => Broken'
      /\ Early => Early'
  BY DEF SentWhole, Broken, Early
<1>2. ASSUME NEW t \in Texts, e = <<"PREPARE", t, 1>> PROVE Broken' \/ Leads(m, Nothing)'
  BY <1>1, <1>2, StagesCases DEF Fits
<1>3. ASSUME NEW t \in Texts, e = <<"PREPARE", t, 2>> PROVE Leads(m, <<t, 1>>)' /\ t \in whole'
  BY <1>3, StagesCases DEF Fits
<1>4. ASSUME e[1] = "EXEC"
      PROVE  \E s \in Stages : SentWhole(s)' /\ Leads(m, s)' /\ (Early' \/ s[2] = Pieces)
  <2>1. PICK s \in Stages : SentWhole(s) /\ Leads(n, s) /\ (Early \/ s[2] = Pieces)
    BY <1>4 DEF Fits
  <2>2. SentWhole(s)' /\ Leads(m, s)' /\ (Early' \/ s[2] = Pieces)
    BY <1>1, <2>1
  <2> QED
    BY <2>2
<1> QED
  BY <1>2, <1>3, <1>4 DEF Fits, Broken, Early, SentWhole

\* Nothing arrives, nothing leaves.
LEMMA FitStays ==
  ASSUME QueueT, PhoneT, RequestsFit, UNCHANGED <<inbox, sending, whole>>,
         troubles \subseteq troubles', \A s \in Stages : Reached(s) => Reached(s)'
  PROVE  RequestsFit'
<1>1. ASSUME NEW n \in Nat, NEW s \in Stages, Leads(n, s) PROVE Leads(n, s)'
  BY <1>1, LeadsKept
<1>2. ASSUME NEW n \in Nat, NEW e \in BtEvents, n < Len(inbox), e = inbox[n + 1]
      PROVE  Fits(n, e)'
  <2>1. Fits(n, e)
    BY <1>2 DEF RequestsFit
  <2> QED
    BY <1>1, <2>1, FitsKept
<1>3. ASSUME NEW n \in Nat, NEW s \in Stages, n = Len(inbox), s = sending
      PROVE  SentWhole(s)' /\ (Leads(n, s)' \/ (Broken' /\ s = Nothing))
  BY <1>1, <1>3 DEF RequestsFit, SentWhole, Broken
<1> QED
  BY <1>2, <1>3 DEF RequestsFit

LEMMA FitLeaves ==
  ASSUME QueueT, PhoneT, RequestsFit, UNCHANGED <<sending, whole>>,
         inbox # <<>>, inbox' = Tail(inbox), troubles \subseteq troubles',
         \A s \in Stages : IF Asked(inbox[1]) THEN s = StageOf(inbox[1]) => Reached(s)'
                           ELSE Reached(s) => Reached(s)'
  PROVE  RequestsFit'
<1>0. /\ Len(inbox) \in Nat \ {0} /\ Len(inbox') \in Nat /\ Len(inbox) = Len(inbox') + 1
      /\ \A i \in 1 .. Len(inbox) - 1 : inbox'[i] = inbox[i + 1]
  BY Dequeued DEF QueueT
<1>1. ASSUME NEW n \in Nat, n < Len(inbox), NEW s \in Stages, Leads(n + 1, s)
      PROVE  Leads(n, s)'
  BY <1>1, LeadsLeaves
<1>2. ASSUME NEW n \in Nat, NEW e \in BtEvents, n < Len(inbox'), e = inbox'[n + 1]
      PROVE  Fits(n, e)'
  <2>0. n + 1 \in Nat /\ n + 1 \in 1 .. Len(inbox) - 1 /\ n + 1 < Len(inbox) /\ n < Len(inbox)
        /\ (n + 1) + 1 \in 1 .. Len(inbox)
    BY <1>0, <1>2
  <2>1. e = inbox[(n + 1) + 1]
    BY <1>0, <1>2, <2>0
  <2>2. Fits(n + 1, e)
    BY <2>0, <2>1 DEF RequestsFit
  <2> QED
    BY <1>1, <2>0, <2>2, FitsKept
<1>3. ASSUME NEW n \in Nat, NEW s \in Stages, n = Len(inbox'), s = sending
      PROVE  SentWhole(s)' /\ (Leads(n, s)' \/ (Broken' /\ s = Nothing))
  <2>1. n + 1 \in Nat /\ n + 1 = Len(inbox) /\ n < Len(inbox)
    BY <1>0, <1>3
  <2>2. SentWhole(s) /\ (Leads(n + 1, s) \/ (Broken /\ s = Nothing))
    BY <1>3, <2>1 DEF RequestsFit
  <2> QED
    BY <1>1, <2>1, <2>2 DEF SentWhole, Broken
<1> QED
  BY <1>2, <1>3 DEF RequestsFit

LEMMA FitArrives ==
  ASSUME QueueT, PhoneT, RequestsFit, NEW e \in BtEvents, inbox' = Append(inbox, e),
         troubles \subseteq troubles', \A s \in Stages : Reached(s) => Reached(s)',
         PhoneMoves(e), ~(Broken' /\ Early')
  PROVE  RequestsFit'
<1>0. /\ Len(inbox) \in Nat /\ Len(inbox') = Len(inbox) + 1
      /\ \A i \in 1 .. Len(inbox) : inbox'[i] = inbox[i]
      /\ inbox'[Len(inbox) + 1] = e
  BY Enqueued DEF QueueT
<1>1. ASSUME NEW n \in Nat, n <= Len(inbox), NEW s \in Stages, Leads(n, s) PROVE Leads(n, s)'
  BY <1>0, <1>1, LeadsKept
<1>2. whole \subseteq whole'
  BY DEF PhoneMoves
<1>3. PICK m \in Nat, u \in Stages : m = Len(inbox) /\ u = sending
  BY <1>0 DEF PhoneT
<1>4. SentWhole(u) /\ (Leads(m, u) \/ (Broken /\ u = Nothing))
  BY <1>3 DEF RequestsFit
<1>5. SentWhole(u)' /\ (Broken => Broken')
  BY <1>2, <1>4 DEF SentWhole, Broken
<1>6. \A s \in Stages : /\ Asked(e) /\ s = StageOf(e) => Leads(m + 1, s)'
                        /\ ~Asked(e) /\ Leads(m, s) => Leads(m + 1, s)'
  BY <1>3, LeadsArrives
<1>7. Fits(m, e)'
  <2>1. CASE ~Asked(e)
    BY <2>1 DEF Fits, Asked
  <2>2. ASSUME NEW t \in Texts, e = <<"PREPARE", t, 1>>, sending = Nothing PROVE Fits(m, e)'
    <3>1. Leads(m, Nothing)' \/ Broken'
      BY <1>1, <1>3, <1>4, <1>5, <2>2
    <3> QED
      BY <2>2, <3>1 DEF Fits, Broken
  <2>3. ASSUME NEW t \in Texts, e = <<"PREPARE", t, 2>>, sending = <<t, 1>>,
               whole' = whole \cup {t}
        PROVE  Fits(m, e)'
    <3>1. Leads(m, <<t, 1>>)' /\ t \in whole'
      BY <1>1, <1>3, <1>4, <2>3 DEF Nothing
    <3> QED
      BY <2>3, <3>1 DEF Fits
  <2>4. ASSUME e[1] = "EXEC", (sending # Nothing /\ sending[2] = Pieces) \/ Early'
        PROVE  Fits(m, e)'
    <3>1. CASE Leads(m, u)
      <4>1. Leads(m, u)' /\ SentWhole(u)' /\ (Early' \/ u[2] = Pieces)
        BY <1>1, <1>3, <1>5, <2>4, <3>1
      <4> QED
        BY <2>4, <4>1 DEF Fits, Early, SentWhole
    <3>2. CASE ~Leads(m, u)
      <4>1. Broken' /\ Early'
        BY <1>3, <1>4, <1>5, <2>4, <3>2
      <4> QED
        BY <4>1
    <3> QED
      BY <3>1, <3>2
  <2> QED
    BY <2>1, <2>2, <2>3, <2>4 DEF PhoneMoves, Early
<1>8. ASSUME NEW n \in Nat, NEW f \in BtEvents, n < Len(inbox'), f = inbox'[n + 1]
      PROVE  Fits(n, f)'
  <2>1. CASE n = m
    BY <1>0, <1>3, <1>7, <1>8, <2>1
  <2>2. CASE n # m
    <3>1. n < Len(inbox) /\ n <= Len(inbox) /\ n + 1 \in 1 .. Len(inbox)
      BY <1>0, <1>3, <1>8, <2>2
    <3>2. Fits(n, f)
      BY <1>0, <1>8, <3>1 DEF RequestsFit
    <3> QED
      BY <1>1, <1>2, <3>1, <3>2, FitsKept
  <2> QED
    BY <2>1, <2>2
<1>9. ASSUME NEW n \in Nat, NEW s \in Stages, n = Len(inbox'), s = sending'
      PROVE  SentWhole(s)' /\ (Leads(n, s)' \/ (Broken' /\ s = Nothing))
  <2>0. n = m + 1
    BY <1>0, <1>3, <1>9
  <2>1. CASE ~Asked(e) /\ UNCHANGED <<sending, whole>>
    BY <1>3, <1>4, <1>5, <1>6, <1>9, <2>0, <2>1
  <2>2. CASE ~Asked(e) /\ sending' = Nothing /\ "break" \in troubles'
    BY <1>9, <2>2 DEF SentWhole, Broken, Nothing, Pieces
  <2>3. ASSUME NEW t \in Texts, NEW i \in {1, 2}, e = <<"PREPARE", t, i>>, sending' = <<t, i>>,
               i = 2 => t \in whole'
        PROVE  SentWhole(s)' /\ Leads(n, s)'
    <3>1. Asked(e) /\ s = StageOf(e)
      BY <1>9, <2>3 DEF Asked, StageOf
    <3>2. SentWhole(s)'
      BY <1>9, <2>3 DEF SentWhole, Pieces
    <3> QED
      BY <1>6, <2>0, <3>1, <3>2
  <2>4. CASE e \in {"EXEC"} \X {"exec", "cancel"} /\ sending' = Nothing
    <3>1. Asked(e) /\ s = StageOf(e)
      BY <1>9, <2>4 DEF Asked, StageOf
    <3>2. SentWhole(s)'
      BY <1>9, <2>4 DEF SentWhole, Nothing, Pieces
    <3> QED
      BY <1>6, <2>0, <3>1, <3>2
  <2> QED
    BY <2>1, <2>2, <2>3, <2>4 DEF PhoneMoves
<1> QED
  BY <1>8, <1>9 DEF RequestsFit

-----------------------------------------------------------------------------
(* What is saved.                                                          *)

ParsedWhole == doing \in {"ssid", "pass"} => parsed[1] = parsed[2] /\ parsed[1] \in whole

FlashWhole == \E t \in Texts : \/ t \in whole /\ flash = [k \in Keys |-> t]
                               \/ flash = [k \in Keys |-> Unset]

FlashFits ==
  \/ Failures # {} \/ "power" \in troubles
  \/ IF doing = "pass" THEN flash["ssid"] = parsed[1] ELSE FlashWhole

\* Once a link has broken and a phone has ended a text early, texts may mix.
TextsInv == (Broken /\ Early) \/ (RequestsFit /\ ParsedWhole /\ FlashFits)

\* A text is parsed only if its pieces are one that was sent whole.
LEMMA ParsesWhole ==
  ASSUME TableTypes, NEW e \in BtEvents, e[1] = "EXEC", e = inbox[1], inbox # <<>>,
         RequestsFit, ~(Broken /\ Early), doing = "idle", MayParse
  PROVE  Piece(1) = Piece(Pieces) /\ Piece(1) \in whole
<1>1. Fits(0, e)
  <2>1. Len(inbox) \in Nat \ {0}
    BY Dequeued DEF TableTypes, QueueT
  <2> QED
    BY <2>1 DEF RequestsFit
<1>2. PICK s \in Stages : SentWhole(s) /\ Leads(0, s) /\ (Early \/ s[2] = Pieces)
  BY <1>1 DEF Fits
<1>3. Reached(s)
  BY <1>2 DEF Leads
<1>4. Piece(1) # Garbage /\ Piece(2) # Garbage
  BY DEF MayParse, Pieces
<1>5. buffer # <<>> /\ 1 <= Len(buffer) /\ 2 <= Len(buffer)
  <2>1. Len(<<>>) = 0
    OBVIOUS
  <2> QED
    BY <1>4, <2>1 DEF Piece
<1>6. Piece(1) = buffer[1] /\ Piece(2) = buffer[2]
  BY <1>4 DEF Piece
<1>7. PICK t \in Texts : s = <<t, 2>>
  <2>1. s # Nothing
    BY <1>3, <1>5 DEF Reached, Nothing
  <2>2. PICK t \in Texts, i \in {1, 2} : s = <<t, i>>
    BY <2>1, StagesCases
  <2>3. i # 1
    <3>1. ASSUME i = 1 PROVE Early /\ (Broken \/ Len(buffer) = 1)
      BY <1>2, <1>3, <1>5, <2>2, <3>1 DEF Reached, Pieces
    <3> QED
      BY <1>5, <3>1
  <2> QED
    BY <2>2, <2>3
<1>8. buffer[2] = t /\ buffer[1] \in {t, Garbage} /\ t \in whole
  BY <1>2, <1>3, <1>5, <1>7 DEF Reached, SentWhole, Pieces
<1> QED
  BY <1>4, <1>6, <1>8 DEF Pieces

\* A step that leaves flash and what is being saved alone.
LEMMA SavedKept ==
  ASSUME ParsedWhole, FlashFits, UNCHANGED <<flash, flashErrors, parsed>>,
         whole \subseteq whole', troubles \subseteq troubles',
         doing' = doing \/ doing' \notin {"ssid", "pass"},
         doing = "pass" => doing' = "pass" \/ "power" \in troubles'
  PROVE  ParsedWhole' /\ FlashFits'
<1>1. FlashWhole => FlashWhole'
  BY DEF FlashWhole
<1>2. Failures' = Failures
  BY DEF Failures
<1>3. ParsedWhole'
  BY DEF ParsedWhole
<1> QED
  BY <1>1, <1>2, <1>3 DEF FlashFits

LEMMA SavedBySaving ==
  ASSUME TableTypes, ParsedWhole, FlashFits, SaveStep
  PROVE  ParsedWhole' /\ FlashFits'
<1> USE DEF TableTypes
<1>0. troubles \subseteq troubles' /\ whole' = whole /\ parsed' = parsed
  BY SaveTypes, FaultTypes DEF SaveStep, SaveSsid, SavePass, InitSta, phoneVars
<1>1. CASE SaveSsid
  <2>1. PICK ok \in BOOLEAN : /\ NVS_store_key("ssid", parsed[1], ok)
                              /\ doing' = IF ok THEN "pass" ELSE "init"
    BY <1>1 DEF SaveSsid
  <2>2. doing = "ssid" /\ parsed[1] \in Values /\ "ssid" \in Keys
    BY <1>1, TableAssumption DEF SaveSsid, ParsedT, Credentials
  <2>3. Failures' = {} => ok /\ flash' = [flash EXCEPT !["ssid"] = parsed[1]]
    BY <2>1, <2>2, TableStore
  <2>4. ParsedWhole'
    BY <1>0, <2>2 DEF ParsedWhole
  <2>5. Failures' = {} => doing' = "pass" /\ flash'["ssid"] = parsed'[1]
    BY <1>0, <2>1, <2>2, <2>3 DEF StoreTypeOK
  <2> QED
    BY <2>4, <2>5 DEF FlashFits
<1>2. CASE SavePass
  <2>1. PICK ok \in BOOLEAN : NVS_store_key("pass", parsed[2], ok)
    BY <1>2 DEF SavePass
  <2>2. doing = "pass" /\ doing' = "init" /\ parsed[2] \in Values /\ "pass" \in Keys
    BY <1>2, TableAssumption DEF SavePass, ParsedT, Credentials
  <2>3. Failures' = {} => Failures = {} /\ flash' = [flash EXCEPT !["pass"] = parsed[2]]
    BY <2>1, <2>2, TableStore
  <2>4. ParsedWhole'
    BY <2>2 DEF ParsedWhole
  <2>5. ASSUME Failures' = {}, "power" \notin troubles' PROVE FlashWhole'
    <3>1. flash["ssid"] = parsed[1]
      BY <1>0, <2>2, <2>3, <2>5 DEF FlashFits
    <3>2. PICK t \in Texts : t = parsed[1] /\ t = parsed[2] /\ t \in whole
      BY <2>2 DEF ParsedWhole, ParsedT
    <3>3. flash \in [{"ssid", "pass"} -> Values \cup {Unset}] /\ Keys = {"ssid", "pass"}
      BY TableAssumption DEF StoreTypeOK
    <3>4. flash' = [k \in Keys |-> t]
      BY <2>3, <2>5, <3>1, <3>2, <3>3
    <3> QED
      BY <1>0, <3>2, <3>4 DEF FlashWhole
  <2> QED
    BY <2>2, <2>4, <2>5 DEF FlashFits
<1>3. CASE InitSta
  <2>1. PICK got : NVS_read_key("ssid", got)
    BY <1>3 DEF InitSta
  <2>2. doing = "init" /\ doing' = "wait" /\ flash' = flash /\ "ssid" \in Keys
    BY <1>3, TableAssumption DEF InitSta
  <2>3. Failures' = {} => Failures = {}
    BY <2>1, <2>2, TableRead
  <2>4. FlashWhole => FlashWhole'
    BY <1>0, <2>2 DEF FlashWhole
  <2>5. ParsedWhole'
    BY <2>2 DEF ParsedWhole
  <2> QED
    BY <1>0, <2>2, <2>3, <2>4, <2>5 DEF FlashFits
<1> QED
  BY <1>1, <1>2, <1>3 DEF SaveStep

LEMMA TextsInit == Init => TextsInv
<1> SUFFICES ASSUME Init PROVE TextsInv
  OBVIOUS
<1>1. doing = "idle" /\ buffer = <<>> /\ inbox = <<>> /\ sending = Nothing
  BY DEF Init, Booted
<1>2. Len(inbox) = 0
  BY <1>1
<1>3. Reached(Nothing) /\ SentWhole(Nothing)
  BY <1>1 DEF Reached, SentWhole, Nothing, Pieces
<1>4. Leads(0, Nothing)
  BY <1>3 DEF Leads
<1>5. RequestsFit
  BY <1>1, <1>2, <1>3, <1>4 DEF RequestsFit
<1>6. ParsedWhole
  BY <1>1 DEF ParsedWhole
<1>7. FlashWhole
  BY TableAssumption DEF Init, StoreInit, FlashWhole
<1> QED
  BY <1>1, <1>5, <1>6, <1>7 DEF TextsInv, FlashFits

\* The ways a step may treat the requests that wait.
LEMMA RequestsNext ==
  ASSUME TableTypes, TableTypes', RequestsFit, [Next]_vars,
         troubles \subseteq troubles', ~(Broken' /\ Early')
  PROVE  RequestsFit'
<1> USE DEF TableTypes
<1>1. CASE Heeds
  BY <1>1, HeedsKeeps, ReachedKept, FitLeaves DEF phoneVars
<1>2. CASE HandlePrepare
  <2>1. PICK t \in Texts, i \in 1 .. Pieces :
          /\ Receive(<<"PREPARE", t, i>>)
          /\ \/ buffer' = Written(i, t)
             \/ buffer = <<>> /\ UNCHANGED buffer
          /\ doing' = doing /\ UNCHANGED phoneVars
    BY <1>2 DEF HandlePrepare
  <2>2. /\ doing = "idle" /\ inbox # <<>> /\ inbox[1] = <<"PREPARE", t, i>>
        /\ inbox' = Tail(inbox)
    BY <2>1, Received
  <2>3. Fits(0, <<"PREPARE", t, i>>) /\ i \in {1, 2}
    <3>1. Len(inbox) \in Nat \ {0}
      BY <2>2, Dequeued DEF QueueT
    <3>2. inbox[1] \in BtEvents
      BY <2>1, Received
    <3> QED
      BY <2>1, <2>2, <3>1, <3>2 DEF RequestsFit, Pieces
  <2>4. Asked(inbox[1]) /\ StageOf(inbox[1]) = <<t, i>>
    BY <2>2 DEF Asked, StageOf
  <2>5. Reached(<<t, i>>)'
    <3>1. CASE buffer' = <<>>
      BY <2>1, <2>2, <2>3, <3>1 DEF Reached
    <3>2. CASE i = 1 /\ buffer' = Written(1, t)
      <4>1. Broken \/ Reached(Nothing)
        BY <2>3, <3>2 DEF Fits, Leads
      <4>2. Broken' \/ buffer = <<>>
        BY <2>2, <4>1 DEF Broken, Reached, Nothing
      <4>3. buffer'[1] = t /\ (buffer = <<>> => Len(buffer') = 1)
        BY <2>3, <3>2, WrittenPieces DEF Pieces
      <4> QED
        BY <2>1, <2>2, <3>2, <4>2, <4>3 DEF Reached, Broken
    <3>3. CASE i = 2 /\ buffer' = Written(2, t)
      <4>1. Reached(<<t, 1>>)
        BY <2>3, <3>3 DEF Fits, Leads
      <4>2. buffer = <<>> \/ buffer[1] = t
        BY <4>1 DEF Reached
      <4>3. Len(buffer') = 2 /\ buffer'[2] = t
            /\ buffer'[1] = IF buffer = <<>> THEN Garbage ELSE buffer[1]
        BY <2>3, <3>3, WrittenPieces DEF Pieces
      <4> QED
        BY <2>1, <2>2, <3>3, <4>2, <4>3 DEF Reached
    <3> QED
      BY <2>1, <2>3, <3>1, <3>2, <3>3
  <2> QED
    BY <2>1, <2>2, <2>4, <2>5, FitLeaves DEF phoneVars
<1>3. CASE HandleExec
  <2>1. PICK flag \in {"exec", "cancel"} : Receive(<<"EXEC", flag>>)
    BY <1>3 DEF HandleExec
  <2>2. inbox # <<>> /\ inbox' = Tail(inbox) /\ Asked(inbox[1]) /\ StageOf(inbox[1]) = Nothing
    BY <2>1, Received DEF Asked, StageOf
  <2>3. doing' # "idle" \/ buffer' = <<>>
    BY <1>3 DEF HandleExec, Freed
  <2> QED
    BY <1>3, <2>2, <2>3, ExecKeeps, ReachedEnd, FitLeaves DEF phoneVars
<1>4. CASE SaveStep \/ Joined
  <2>1. doing # "idle" /\ (doing' # "idle" \/ buffer' = <<>>)
    BY <1>4 DEF SaveStep, SaveSsid, SavePass, InitSta, Joined, Freed
  <2>2. UNCHANGED <<inbox, sending, whole>>
    BY <1>4 DEF SaveStep, SaveSsid, SavePass, InitSta, Joined, phoneVars
  <2> QED
    BY <2>1, <2>2, ReachedEnd, FitStays
<1>5. CASE Completes
  <2>1. PICK e \in BtEvents : inbox' = Append(inbox, e) /\ ~Asked(e)
    BY <1>5, CompletesKeeps
  <2>2. PhoneMoves(e)
    BY <1>5, <2>1, CompletesKeeps DEF PhoneMoves, phoneVars
  <2> QED
    BY <1>5, <2>1, <2>2, CompletesKeeps, ReachedKept, FitArrives
<1>6. CASE Reboots
  <2>1. doing' = "idle" /\ buffer' = <<>> /\ inbox' = <<>> /\ sending' = Nothing
    BY <1>6, RebootTypes DEF Reboot
  <2>2. Len(inbox') = 0
    BY <2>1
  <2>3. Reached(Nothing)' /\ SentWhole(Nothing)'
    BY <2>1, ReachedEnd DEF SentWhole, Nothing, Pieces
  <2>4. Leads(0, Nothing)'
    BY <2>3 DEF Leads
  <2> QED
    BY <2>1, <2>2, <2>3, <2>4 DEF RequestsFit
<1>7. CASE Elsewhere
  BY <1>7, ElsewhereKeeps, ReachedKept, FitStays DEF taskVars, phoneVars
<1>8. CASE PhoneActs
  BY <1>8, PhoneKeeps, ReachedKept, FitArrives
<1> QED
  BY <1>1, <1>2, <1>3, <1>4, <1>5, <1>6, <1>7, <1>8, TableCases

LEMMA SavedNext ==
  ASSUME TableTypes, RequestsFit, ParsedWhole, FlashFits, [Next]_vars,
         troubles \subseteq troubles', ~(Broken /\ Early)
  PROVE  ParsedWhole' /\ FlashFits'
<1> USE DEF TableTypes
<1>1. CASE Heeds
  BY <1>1, HeedsKeeps, SavedKept DEF phoneVars, storeVars
<1>2. CASE HandlePrepare
  BY <1>2, PrepareKeeps, SavedKept DEF phoneVars, storeVars
<1>3. CASE HandleExec
  <2>1. PICK flag \in {"exec", "cancel"} : Receive(<<"EXEC", flag>>)
    BY <1>3 DEF HandleExec
  <2>2. /\ doing = "idle" /\ inbox # <<>> /\ inbox[1] = <<"EXEC", flag>>
        /\ inbox[1] \in BtEvents
    BY <2>1, Received
  <2>3. UNCHANGED <<flash, flashErrors, whole>>
    BY <1>3, ExecKeeps DEF phoneVars, storeVars
  <2>4. CASE MayParse /\ parsed' = <<Piece(1), Piece(Pieces)>> /\ doing' \in {"ssid", "init"}
    <3>1. Piece(1) = Piece(Pieces) /\ Piece(1) \in whole
      BY <2>2, <2>4, ParsesWhole
    <3>2. ParsedWhole'
      BY <2>3, <2>4, <3>1 DEF ParsedWhole
    <3>3. (FlashWhole => FlashWhole') /\ Failures' = Failures
      BY <2>3 DEF FlashWhole, Failures
    <3> QED
      BY <2>2, <2>4, <3>2, <3>3 DEF FlashFits
  <2>5. CASE UNCHANGED <<doing, parsed>>
    BY <2>3, <2>5, SavedKept
  <2> QED
    BY <1>3, <2>4, <2>5 DEF HandleExec
<1>4. CASE SaveStep
  BY <1>4, SavedBySaving
<1>5. CASE Joined
  BY <1>5, SavedKept DEF Joined, phoneVars, storeVars
<1>6. CASE Completes
  BY <1>6, CompletesKeeps, SavedKept DEF phoneVars, storeVars
<1>7. CASE Reboots
  <2>1. UNCHANGED <<storeVars, whole>> /\ doing' = "idle"
    BY <1>7, RebootTypes DEF Reboot
  <2>2. doing = "pass" => "power" \in troubles'
    BY <1>7 DEF Reboots, PowerCut, Aborts, Trouble
  <2>3. (FlashWhole => FlashWhole') /\ Failures' = Failures
    BY <2>1 DEF FlashWhole, Failures, storeVars
  <2> QED
    BY <2>1, <2>2, <2>3 DEF FlashFits, ParsedWhole
<1>8. CASE Elsewhere
  BY <1>8, ElsewhereKeeps, SavedKept DEF taskVars, phoneVars, storeVars
<1>9. CASE PhoneActs
  <2>1. whole \subseteq whole'
    BY <1>9, PhoneKeeps DEF PhoneMoves
  <2> QED
    BY <1>9, <2>1, PhoneKeeps, SavedKept DEF storeVars
<1> QED
  BY <1>1, <1>2, <1>3, <1>4, <1>5, <1>6, <1>7, <1>8, <1>9, TableCases

LEMMA FaultsGrow ==
  ASSUME TableTypes, [Next]_vars PROVE troubles \subseteq troubles'
<1>1. Faulty
  BY TableCases, HeedsKeeps, PrepareKeeps, ExecKeeps, SaveTypes, CompletesKeeps,
     RebootTypes, ElsewhereKeeps, PhoneKeeps DEF TableTypes, Faulty, Joined
<1> QED
  BY <1>1, FaultTypes DEF TableTypes

LEMMA TextsNext == TableTypes /\ TextsInv /\ [Next]_vars => TextsInv'
<1> SUFFICES ASSUME TableTypes, TextsInv, [Next]_vars PROVE TextsInv'
  OBVIOUS
<1>1. troubles \subseteq troubles' /\ TableTypes'
  BY FaultsGrow, TableTypesNext
<1>2. CASE Broken' /\ Early'
  BY <1>2 DEF TextsInv
<1>3. CASE ~(Broken' /\ Early')
  <2>1. ~(Broken /\ Early)
    BY <1>1, <1>3 DEF Broken, Early
  <2>2. RequestsFit /\ ParsedWhole /\ FlashFits
    BY <2>1 DEF TextsInv
  <2> QED
    BY <1>1, <1>3, <2>1, <2>2, RequestsNext, SavedNext DEF TextsInv
<1> QED
  BY <1>2, <1>3

(* Every reachable state of the table, of its callbacks and of the phone is *)
(* well typed, whatever fails.                                             *)
THEOREM TypeCorrect == Spec => []TypeOK
<1>1. Init => TableTypes
  BY TableTypesInit
<1>2. TableTypes /\ [Next]_vars => TableTypes'
  BY TableTypesNext
<1> QED
  BY <1>1, <1>2, TypesSuffice, PTL DEF Spec

(* gatts_profile_event_handler: the pieces of several long writes end up   *)
(* in one buffer, which outlives the link, and are parsed whatever ends    *)
(* the write; nevertheless what flash holds is one text that a phone has   *)
(* sent without a break, for every set of texts and whatever fails, unless *)
(* flash or power does between two keys, or a link breaks and a phone ends *)
(* a later text early.                                                     *)
THEOREM TextsAreWhole == Spec => []SavedWasSent
<1>1. Init => TableTypes /\ TextsInv
  BY TableTypesInit, TextsInit
<1>2. TableTypes /\ TextsInv /\ [Next]_vars => (TableTypes /\ TextsInv)'
  BY TableTypesNext, TextsNext
<1>3. TextsInv => SavedWasSent
  BY DEF TextsInv, Broken, Early, FlashFits, FlashWhole, SavedWasSent
<1> QED
  BY <1>1, <1>2, <1>3, PTL DEF Spec

=============================================================================
