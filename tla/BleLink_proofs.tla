---------------------------- MODULE BleLink_proofs ----------------------------
(***************************************************************************)
(* What holds of BleLink for every size of the buffer for prepared writes  *)
(* and for any number of faults, connections, requests of guests and scan  *)
(* reports.                                                                *)
(***************************************************************************)
EXTENDS BleLink, TLAPS

-----------------------------------------------------------------------------
(* Sequences                                                               *)

\* Some element of q is in E; at most one is.
Holds(q, E) == \E k \in 1 .. Len(q) : q[k] \in E
Once(q, E)  == \A i, j \in 1 .. Len(q) : q[i] \in E /\ q[j] \in E => i = j

LEMMA AppendFacts ==
  ASSUME NEW S, NEW q \in Seq(S), NEW e \in S, NEW E
  PROVE  /\ Holds(Append(q, e), E) <=> Holds(q, E) \/ e \in E
         /\ Once(q, E) /\ (e \in E => ~Holds(q, E)) => Once(Append(q, e), E)
<1> DEFINE r == Append(q, e)
<1>1. Len(q) \in Nat /\ Len(r) = Len(q) + 1 /\ r[Len(q) + 1] = e
  OBVIOUS
<1>2. \A k \in 1 .. Len(q) : r[k] = q[k] /\ k \in 1 .. Len(r)
  OBVIOUS
<1>3. \A k \in 1 .. Len(r) : k \in 1 .. Len(q) \/ k = Len(q) + 1
  BY <1>1
<1>4. Len(q) + 1 \in 1 .. Len(r)
  BY <1>1
<1> HIDE DEF r
<1>5. Holds(r, E) <=> Holds(q, E) \/ e \in E
  BY <1>1, <1>2, <1>3, <1>4 DEF Holds
<1>6. ASSUME Once(q, E), e \in E => ~Holds(q, E)
      PROVE  Once(r, E)
  <2> SUFFICES ASSUME NEW i \in 1 .. Len(r), NEW j \in 1 .. Len(r), r[i] \in E, r[j] \in E
               PROVE  i = j
    BY DEF Once
  <2>1. CASE i \in 1 .. Len(q) /\ j \in 1 .. Len(q)
    BY <1>2, <1>6, <2>1 DEF Once
  <2>2. CASE i \in 1 .. Len(q) /\ j = Len(q) + 1
    BY <1>1, <1>2, <1>6, <2>2 DEF Holds
  <2>3. CASE j \in 1 .. Len(q) /\ i = Len(q) + 1
    BY <1>1, <1>2, <1>6, <2>3 DEF Holds
  <2> QED
    BY <1>3, <2>1, <2>2, <2>3
<1> QED
  BY <1>5, <1>6 DEF r

LEMMA TailFacts ==
  ASSUME NEW S, NEW q \in Seq(S), q # <<>>, NEW E
  PROVE  /\ Holds(q, E) <=> Head(q) \in E \/ Holds(Tail(q), E)
         /\ Once(q, E) => Once(Tail(q), E)
         /\ Once(q, E) /\ Head(q) \in E => ~Holds(Tail(q), E)
<1> DEFINE r == Tail(q)
<1>1. Len(q) \in Nat /\ Len(q) > 0 /\ Len(r) = Len(q) - 1 /\ Head(q) = q[1]
  OBVIOUS
<1>2. \A k \in 1 .. Len(r) : r[k] = q[k + 1] /\ k + 1 \in 1 .. Len(q)
  BY <1>1
<1>3. \A k \in 1 .. Len(q) : k = 1 \/ (k - 1 \in 1 .. Len(r) /\ r[k - 1] = q[k])
  BY <1>1
<1>4. 1 \in 1 .. Len(q)
  BY <1>1
<1> HIDE DEF r
<1>5. Holds(q, E) => Head(q) \in E \/ Holds(r, E)
  <2> SUFFICES ASSUME NEW k \in 1 .. Len(q), q[k] \in E
               PROVE  Head(q) \in E \/ Holds(r, E)
    BY DEF Holds
  <2>1. CASE k = 1
    BY <1>1, <2>1
  <2>2. CASE k # 1
    <3>1. k - 1 \in 1 .. Len(r) /\ r[k - 1] \in E
      BY <1>3, <2>2
    <3> QED
      BY <3>1 DEF Holds
  <2> QED
    BY <2>1, <2>2
<1>6. Holds(r, E) => Holds(q, E)
  BY <1>2 DEF Holds
<1>7. Head(q) \in E => Holds(q, E)
  BY <1>1, <1>4 DEF Holds
<1>8. ASSUME Once(q, E) PROVE Once(r, E)
  <2> SUFFICES ASSUME NEW i \in 1 .. Len(r), NEW j \in 1 .. Len(r), r[i] \in E, r[j] \in E
               PROVE  i = j
    BY DEF Once
  <2>1. i + 1 = j + 1
    BY <1>2, <1>8 DEF Once
  <2> QED
    BY <2>1
<1>9. ASSUME Once(q, E), Head(q) \in E, Holds(r, E) PROVE FALSE
  <2>1. PICK k \in 1 .. Len(r) : r[k] \in E
    BY <1>9 DEF Holds
  <2>2. k + 1 = 1
    BY <1>1, <1>2, <1>4, <1>9, <2>1 DEF Once
  <2> QED
    BY <2>2
<1> QED
  BY <1>5, <1>6, <1>7, <1>8, <1>9 DEF r

LEMMA ConcatFacts ==
  ASSUME NEW S, NEW q \in Seq(S), NEW s \in Seq(S), NEW E
  PROVE  /\ Holds(q \o s, E) <=> Holds(q, E) \/ Holds(s, E)
         /\ Once(q, E) /\ Once(s, E) /\ ~(Holds(q, E) /\ Holds(s, E)) => Once(q \o s, E)
<1> DEFINE r == q \o s
<1>1. Len(q) \in Nat /\ Len(s) \in Nat /\ Len(r) = Len(q) + Len(s)
  OBVIOUS
<1>2. \A k \in 1 .. Len(q) : r[k] = q[k] /\ k \in 1 .. Len(r)
  OBVIOUS
<1>3. \A k \in 1 .. Len(s) : r[Len(q) + k] = s[k] /\ Len(q) + k \in 1 .. Len(r)
  OBVIOUS
<1>4. \A k \in 1 .. Len(r) :
        k \in 1 .. Len(q) \/ (k - Len(q) \in 1 .. Len(s) /\ r[k] = s[k - Len(q)])
  OBVIOUS
<1> HIDE DEF r
<1>5. Holds(r, E) <=> Holds(q, E) \/ Holds(s, E)
  BY <1>2, <1>3, <1>4 DEF Holds
<1>6. ASSUME Once(q, E), Once(s, E), ~(Holds(q, E) /\ Holds(s, E))
      PROVE  Once(r, E)
  <2> SUFFICES ASSUME NEW i \in 1 .. Len(r), NEW j \in 1 .. Len(r), r[i] \in E, r[j] \in E
               PROVE  i = j
    BY DEF Once
  <2>1. CASE i \in 1 .. Len(q) /\ j \in 1 .. Len(q)
    BY <1>2, <1>6, <2>1 DEF Once
  <2>2. CASE i \notin 1 .. Len(q) /\ j \notin 1 .. Len(q)
    <3>1. i - Len(q) = j - Len(q)
      BY <1>4, <1>6, <2>2 DEF Once
    <3> QED
      BY <1>1, <3>1
  <2>3. CASE (i \in 1 .. Len(q)) # (j \in 1 .. Len(q))
    BY <1>2, <1>4, <1>6, <2>3 DEF Holds
  <2> QED
    BY <2>1, <2>2, <2>3
<1> QED
  BY <1>5, <1>6 DEF r

-----------------------------------------------------------------------------
(* Types                                                                   *)

ServerEvents == Completed \cup Accesses \cup Links

LEMMA ServerEventTypes ==
  /\ \A r \in Requests, ok \in BOOLEAN : <<r[1], r[2], ok>> \in ServerEvents
  /\ \A p \in Profiles, v \in Values : <<"WRITE", p, "descr", v>> \in ServerEvents
  /\ \A p \in Profiles : /\ <<"WRITE", p, "char", "off">> \in ServerEvents
                         /\ <<"EXEC", p>> \in ServerEvents /\ <<"READ", p>> \in ServerEvents
  /\ \A p \in Profiles, i \in 0 .. BufferSize : <<"PREPARE", p, i>> \in ServerEvents
  /\ <<"CONNECT">> \in ServerEvents /\ <<"DISCONNECT">> \in ServerEvents
  /\ Accesses \subseteq ServerEvents
<1>1. \A r \in Requests, ok \in BOOLEAN : <<r[1], r[2], ok>> \in ServerEvents
  BY DEF ServerEvents, Completed
<1>2. \A p \in Profiles, v \in Values : <<"WRITE", p, "descr", v>> \in ServerEvents
  BY DEF ServerEvents, Accesses
<1>3. \A p \in Profiles : /\ <<"WRITE", p, "char", "off">> \in ServerEvents
                          /\ <<"EXEC", p>> \in ServerEvents /\ <<"READ", p>> \in ServerEvents
  BY DEF ServerEvents, Accesses
<1>4. \A p \in Profiles, i \in 0 .. BufferSize : <<"PREPARE", p, i>> \in ServerEvents
  BY DEF ServerEvents, Accesses
<1>5. <<"CONNECT">> \in ServerEvents /\ <<"DISCONNECT">> \in ServerEvents
  BY DEF ServerEvents, Links
<1> QED
  BY <1>1, <1>2, <1>3, <1>4, <1>5 DEF ServerEvents

LEMMA RequestTypes ==
  /\ \A p \in Profiles : /\ <<"register", p>> \in Requests /\ <<"service", p>> \in Requests
                         /\ <<"char", p>> \in Requests /\ <<"descr", p>> \in Requests
  /\ \A d \in DataSets : <<"config", d>> \in Requests
  /\ \A r \in Requests : r = <<r[1], r[2]>>
  /\ \A r \in Requests : \/ r[1] = "register" /\ r[2] \in Profiles
                         \/ r[1] = "config" /\ r[2] \in DataSets
                         \/ r[1] \in Attributes /\ r[2] \in Profiles
  BY DEF Requests, Attributes

LEMMA ClientEventTypes ==
  /\ \A c \in Calls, ok \in BOOLEAN : <<c, ok>> \in ClientEvents
  /\ <<"SCAN_RESULT">> \in ClientEvents /\ <<"CONNECT">> \in ClientEvents
  /\ <<"SEARCH_RES">> \in ClientEvents /\ <<"NOTIFY">> \in ClientEvents
  /\ <<"DISCONNECT">> \in ClientEvents
  BY DEF ClientEvents

LEMMA ReceiveFacts ==
  ASSUME ServerTypeOK, NEW e, Receive(e)
  PROVE  /\ inbox \in Seq(ServerEvents) /\ inbox # <<>> /\ Head(inbox) = e
         /\ inbox' = Tail(inbox) /\ inbox' \in Seq(ServerEvents) /\ e \in ServerEvents
  BY DEF ServerTypeOK, Receive, ServerEvents

LEMMA TakesFacts ==
  ASSUME ClientTypeOK, NEW e, Takes(e)
  PROVE  /\ cInbox \in Seq(ClientEvents) /\ cInbox # <<>> /\ Head(cInbox) = e
         /\ cInbox' = Tail(cInbox) /\ cInbox' \in Seq(ClientEvents) /\ e \in ClientEvents
  BY DEF ClientTypeOK, Takes

LEMMA OutcomeType ==
  ASSUME faultsLeft \in 0 .. Faults, NEW ok \in BOOLEAN, Outcome(ok)
  PROVE  faultsLeft' \in 0 .. Faults
<1>1. faultsLeft' = faultsLeft \/ (faultsLeft > 0 /\ faultsLeft' = faultsLeft - 1)
  BY DEF Outcome
<1> QED
  BY <1>1, ServerAssumption

\* Advertising is started, or the server is deaf.
LEMMA StartFacts ==
  ASSUME ServerTypeOK, StartAdvertising
  PROVE  /\ faultsLeft' \in 0 .. Faults
         /\ advertising' \in BOOLEAN /\ deaf' \in BOOLEAN
         /\ advertising' \/ (deaf' /\ advertising' = advertising)
<1>1. PICK ok \in BOOLEAN :
        Outcome(ok) /\ advertising' = (advertising \/ ok) /\ deaf' = ~ok
  BY DEF StartAdvertising
<1>2. faultsLeft' \in 0 .. Faults
  BY <1>1, OutcomeType DEF ServerTypeOK
<1> QED
  BY <1>1, <1>2 DEF ServerTypeOK

LEMMA ConfigureAdvFacts ==
  ASSUME ServerTypeOK, ConfigureAdv
  PROVE  /\ faultsLeft' \in 0 .. Faults
         /\ advConfig' = advConfig \cup DataSets
         /\ <<<<"service", "A">>>> \in Seq(Requests)
         /\ \E s \in Seq(Requests) :
              /\ requested \o s \in Seq(Requests)
              /\ requested' = (requested \o s) \o <<<<"service", "A">>>>
              /\ requested' \in Seq(Requests)
              /\ s \in {<<>>, <<<<"config", "adv">>>>, <<<<"config", "scan_rsp">>>>,
                        <<<<"config", "adv">>, <<"config", "scan_rsp">>>>}
<1> DEFINE a == <<"config", "adv">>
           b == <<"config", "scan_rsp">>
           c == <<"service", "A">>
<1>1. a \in Requests /\ b \in Requests /\ c \in Requests
  BY RequestTypes DEF Profiles, DataSets
<1>2. PICK s \in {<<>>, <<a>>, <<b>>, <<a, b>>} :
        /\ Outcome(Len(s) = 2)
        /\ requested' = requested \o s \o <<c>>
        /\ advConfig' = advConfig \cup DataSets
  BY DEF ConfigureAdv
<1>3. faultsLeft' \in 0 .. Faults
  BY <1>2, OutcomeType DEF ServerTypeOK
<1>4. requested \in Seq(Requests)
  BY DEF ServerTypeOK
<1> HIDE DEF a, b, c
<1>5. <<>> \in Seq(Requests) /\ <<a>> \in Seq(Requests) /\ <<b>> \in Seq(Requests)
  BY <1>1
<1>6. <<a, b>> \in Seq(Requests) /\ <<c>> \in Seq(Requests)
  BY <1>1
<1>7. s \in Seq(Requests)
  BY <1>2, <1>5, <1>6
<1>8. requested \o s \in Seq(Requests)
  BY <1>4, <1>7
<1>9. requested' \in Seq(Requests)
  BY <1>2, <1>6, <1>8
<1>10. /\ <<c>> \in Seq(Requests) /\ s \in {<<>>, <<a>>, <<b>>, <<a, b>>}
       /\ requested' = (requested \o s) \o <<c>>
  BY <1>2, <1>6
<1> USE DEF a, b, c
<1> QED
  BY <1>2, <1>3, <1>7, <1>8, <1>9, <1>10

LEMMA TypesCompletes == ServerTypeOK /\ Completes => ServerTypeOK'
<1> SUFFICES ASSUME ServerTypeOK, Completes PROVE ServerTypeOK'
  OBVIOUS
<1> DEFINE r == Head(requested)
<1>1. PICK ok \in BOOLEAN :
        /\ requested # <<>> /\ requested' = Tail(requested)
        /\ IF Possible(r) THEN Outcome(ok) ELSE ~ok /\ UNCHANGED faultsLeft
        /\ inbox' = Append(inbox, <<r[1], r[2], ok>>)
        /\ advData' = IF ok /\ r[1] = "config" THEN advData \cup {r[2]} ELSE advData
        /\ attr' = IF ok /\ r[1] \in {"char", "descr"}
                   THEN [attr EXCEPT ![r[2]] = @ \cup {r[1]}] ELSE attr
        /\ UNCHANGED <<handles, advConfig, advertising, deaf, prepareLen, answers>>
  BY DEF Completes
<1>2. r \in Requests /\ requested' \in Seq(Requests)
  BY <1>1 DEF ServerTypeOK
<1> HIDE DEF r
<1>3. faultsLeft' \in 0 .. Faults
  BY <1>1, OutcomeType DEF ServerTypeOK
<1>4. <<r[1], r[2], ok>> \in ServerEvents
  BY <1>2, ServerEventTypes
<1>5. inbox' \in Seq(ServerEvents)
  BY <1>1, <1>4 DEF ServerTypeOK, ServerEvents
<1>6. advData' \in SUBSET DataSets
  <2>1. CASE r[1] = "config"
    <3>1. r[2] \in DataSets
      BY <1>2, <2>1, RequestTypes DEF Attributes
    <3> QED
      BY <1>1, <3>1 DEF ServerTypeOK
  <2>2. CASE r[1] # "config"
    BY <1>1, <2>2 DEF ServerTypeOK
  <2> QED
    BY <2>1, <2>2
<1>7. attr' \in [Profiles -> SUBSET Attributes]
  <2>1. CASE ok /\ r[1] \in {"char", "descr"}
    <3>1. r[2] \in Profiles /\ r[1] \in Attributes
      BY <1>2, <2>1, RequestTypes DEF Attributes
    <3> QED
      BY <1>1, <2>1, <3>1 DEF ServerTypeOK
  <2>2. CASE ~(ok /\ r[1] \in {"char", "descr"})
    BY <1>1, <2>2 DEF ServerTypeOK
  <2> QED
    BY <2>1, <2>2
<1> QED
  BY <1>1, <1>2, <1>3, <1>5, <1>6, <1>7 DEF ServerTypeOK, ServerEvents

LEMMA TypesServer == ServerTypeOK /\ ServerHandles => ServerTypeOK'
<1> SUFFICES ASSUME ServerTypeOK, ServerHandles PROVE ServerTypeOK'
  OBVIOUS
<1> USE DEF tableVars, advVars, callVars
<1>0. \A e : Receive(e) => inbox' \in Seq(Completed \cup Accesses \cup Links)
  BY ReceiveFacts DEF ServerEvents
<1>1. ASSUME NEW d \in DataSets, HandleDataSet(d) PROVE ServerTypeOK'
  <2>1. inbox' \in Seq(Completed \cup Accesses \cup Links)
    BY <1>0, <1>1 DEF HandleDataSet
  <2>2. advConfig' \in SUBSET DataSets
    BY <1>1 DEF HandleDataSet, ServerTypeOK
  <2>3. advertising' \in BOOLEAN /\ deaf' \in BOOLEAN /\ faultsLeft' \in 0 .. Faults
    BY <1>1, StartFacts DEF HandleDataSet, ServerTypeOK
  <2> QED
    BY <1>1, <2>1, <2>2, <2>3 DEF HandleDataSet, ServerTypeOK
<1>2. CASE HandleRegA
  <2>1. ConfigureAdv /\ inbox' \in Seq(Completed \cup Accesses \cup Links)
    BY <1>0, <1>2 DEF HandleRegA
  <2>2. faultsLeft' \in 0 .. Faults /\ advConfig' \in SUBSET DataSets
        /\ requested' \in Seq(Requests)
    BY <2>1, ConfigureAdvFacts DEF ServerTypeOK
  <2> QED
    BY <1>2, <2>1, <2>2 DEF HandleRegA, ServerTypeOK
<1>3. ASSUME NEW p \in Profiles, NEW r \in Requests, requested' = Append(requested, r)
      PROVE  requested' \in Seq(Requests)
  BY <1>3 DEF ServerTypeOK
<1>4. CASE HandleRegB
  <2>1. inbox' \in Seq(Completed \cup Accesses \cup Links)
    BY <1>0, <1>4 DEF HandleRegB
  <2>2. requested' \in Seq(Requests)
    BY <1>3, <1>4, RequestTypes DEF HandleRegB, Profiles
  <2> QED
    BY <1>4, <2>1, <2>2 DEF HandleRegB, ServerTypeOK
<1>5. ASSUME NEW p \in Profiles, HandleRegFailed(p) PROVE ServerTypeOK'
  <2>1. inbox' \in Seq(Completed \cup Accesses \cup Links)
    BY <1>0, <1>5 DEF HandleRegFailed
  <2> QED
    BY <1>5, <2>1 DEF HandleRegFailed, ServerTypeOK
<1>6. ASSUME NEW p \in Profiles, NEW a \in Attributes, NEW ok \in BOOLEAN, Store(p, a, ok)
      PROVE  handles' \in [Profiles -> SUBSET Attributes]
  <2>1. CASE ok
    BY <1>6, <2>1 DEF Store, ServerTypeOK
  <2>2. CASE ~ok
    BY <1>6, <2>2 DEF Store, ServerTypeOK
  <2> QED
    BY <2>1, <2>2
<1>7. "service" \in Attributes /\ "char" \in Attributes /\ "descr" \in Attributes
  BY DEF Attributes
<1>8. ASSUME NEW p \in Profiles, HandleCreate(p) PROVE ServerTypeOK'
  <2>1. PICK ok \in BOOLEAN :
          /\ Receive(<<"service", p, ok>>)
          /\ Store(p, "service", ok)
          /\ attr' = IF ok THEN [attr EXCEPT ![p] = @ \cup {"service"}] ELSE attr
          /\ requested' = Append(requested, <<"char", p>>)
          /\ UNCHANGED <<advVars, prepareLen, faultsLeft, answers>>
    BY <1>8 DEF HandleCreate
  <2>2. inbox' \in Seq(Completed \cup Accesses \cup Links)
    BY <1>0, <2>1
  <2>3. requested' \in Seq(Requests)
    BY <1>3, <2>1, RequestTypes
  <2>4. handles' \in [Profiles -> SUBSET Attributes]
    BY <1>6, <1>7, <2>1
  <2>5. attr' \in [Profiles -> SUBSET Attributes]
    BY <1>7, <2>1 DEF ServerTypeOK
  <2> QED
    BY <2>1, <2>2, <2>3, <2>4, <2>5 DEF ServerTypeOK
<1>9. ASSUME NEW p \in Profiles, HandleAddChar(p) PROVE ServerTypeOK'
  <2>1. PICK ok \in BOOLEAN :
          /\ Receive(<<"char", p, ok>>)
          /\ Store(p, "char", ok)
          /\ requested' = Append(requested, <<"descr", p>>)
          /\ UNCHANGED <<attr, advVars, prepareLen, faultsLeft, answers>>
    BY <1>9 DEF HandleAddChar
  <2>2. inbox' \in Seq(Completed \cup Accesses \cup Links)
    BY <1>0, <2>1
  <2>3. requested' \in Seq(Requests)
    BY <1>3, <2>1, RequestTypes
  <2>4. handles' \in [Profiles -> SUBSET Attributes]
    BY <1>6, <1>7, <2>1
  <2> QED
    BY <2>1, <2>2, <2>3, <2>4 DEF ServerTypeOK
<1>10. ASSUME NEW p \in Profiles, HandleAddDescr(p) PROVE ServerTypeOK'
  <2>1. PICK ok \in BOOLEAN :
          /\ Receive(<<"descr", p, ok>>)
          /\ Store(p, "descr", ok)
          /\ UNCHANGED <<attr, advVars, prepareLen, callVars, answers>>
    BY <1>10 DEF HandleAddDescr
  <2>2. inbox' \in Seq(Completed \cup Accesses \cup Links)
    BY <1>0, <2>1
  <2>4. handles' \in [Profiles -> SUBSET Attributes]
    BY <1>6, <1>7, <2>1
  <2> QED
    BY <2>1, <2>2, <2>4 DEF ServerTypeOK
<1>11. ASSUME NEW p \in Packets, answers' = Append(answers, p)
       PROVE  answers' \in Seq(Packets)
  BY <1>11 DEF ServerTypeOK
<1>12. ASSUME NEW p \in Profiles, HandleWrite(p) PROVE ServerTypeOK'
  <2>1. PICK target \in {"char", "descr"}, value \in Values :
          /\ Receive(<<"WRITE", p, target, value>>)
          /\ answers' = answers \o (IF Notifies(p, target, value) THEN <<"NOTIFY">> ELSE <<>>)
                                \o <<"WRITE_RSP">>
          /\ UNCHANGED <<tableVars, advVars, prepareLen, callVars>>
    BY <1>12 DEF HandleWrite
  <2>2. inbox' \in Seq(Completed \cup Accesses \cup Links)
    BY <1>0, <2>1
  <2>3. <<"NOTIFY">> \in Seq(Packets) /\ <<>> \in Seq(Packets) /\ <<"WRITE_RSP">> \in Seq(Packets)
    BY DEF Packets
  <2>4. answers' \in Seq(Packets)
    BY <2>1, <2>3 DEF ServerTypeOK
  <2> QED
    BY <2>1, <2>2, <2>4 DEF ServerTypeOK
<1>13. ASSUME NEW p \in Profiles, HandlePrepare(p) PROVE ServerTypeOK'
  <2>1. PICK offset \in 0 .. BufferSize :
          /\ Receive(<<"PREPARE", p, offset>>)
          /\ \/ /\ prepareLen' = [prepareLen EXCEPT ![p] = @ + 1]
                /\ answers' = Append(answers, "PREPARE_RSP")
             \/ /\ answers' = Append(answers, "ERROR_RSP")
                /\ UNCHANGED prepareLen
          /\ UNCHANGED <<tableVars, advVars, callVars>>
    BY <1>13 DEF HandlePrepare
  <2>2. inbox' \in Seq(Completed \cup Accesses \cup Links)
    BY <1>0, <2>1
  <2>3. answers' \in Seq(Packets)
    BY <1>11, <2>1 DEF Packets
  <2>4. prepareLen' = [prepareLen EXCEPT ![p] = prepareLen[p] + 1] \/ prepareLen' = prepareLen
    BY <2>1
  <2>5. prepareLen \in [Profiles -> Nat]
    BY DEF ServerTypeOK
  <2>6. prepareLen' \in [Profiles -> Nat]
    BY <2>4, <2>5
  <2> QED
    BY <2>1, <2>2, <2>3, <2>6 DEF ServerTypeOK
<1>14. ASSUME NEW p \in Profiles, HandleExec(p) PROVE ServerTypeOK'
  <2>2. inbox' \in Seq(Completed \cup Accesses \cup Links)
    BY <1>0, <1>14 DEF HandleExec
  <2>3. answers' \in Seq(Packets)
    BY <1>11, <1>14 DEF Packets, HandleExec
  <2>4. prepareLen' \in [Profiles -> Nat]
    BY <1>14 DEF ServerTypeOK, HandleExec
  <2> QED
    BY <1>14, <2>2, <2>3, <2>4 DEF ServerTypeOK, HandleExec
<1>15. ASSUME NEW p \in Profiles, HandleRead(p) PROVE ServerTypeOK'
  <2>2. inbox' \in Seq(Completed \cup Accesses \cup Links)
    BY <1>0, <1>15 DEF HandleRead
  <2>3. answers' \in Seq(Packets)
    BY <1>11, <1>15 DEF Packets, HandleRead
  <2> QED
    BY <1>15, <2>2, <2>3 DEF ServerTypeOK, HandleRead
<1>16. CASE HandleConnected \/ HandleDisconnected
  <2>2. inbox' \in Seq(Completed \cup Accesses \cup Links)
    BY <1>0, <1>16 DEF HandleConnected, HandleDisconnected
  <2>3. advertising' \in BOOLEAN /\ deaf' \in BOOLEAN /\ faultsLeft' \in 0 .. Faults
    BY <1>16, StartFacts DEF HandleConnected, HandleDisconnected, ServerTypeOK
  <2> QED
    BY <1>16, <2>2, <2>3 DEF ServerTypeOK, HandleConnected, HandleDisconnected
<1> QED
  BY <1>1, <1>2, <1>4, <1>5, <1>8, <1>9, <1>10, <1>12, <1>13, <1>14, <1>15, <1>16
     DEF ServerHandles

LEMMA TypesClient ==
  ASSUME ClientTypeOK, NEW alive \in BOOLEAN, ClientHandles(alive)
  PROVE  ClientTypeOK'
<1> USE DEF aimVars, logVars
<1>1. \A e : Takes(e) => cInbox' \in Seq(ClientEvents)
  BY TakesFacts
<1>2. \A c \in Calls : Call(c) => calls' \in SUBSET Calls
  BY DEF Call, ClientTypeOK
<1>3. /\ "scan_params" \in Calls /\ "open" \in Calls /\ "search" \in Calls
      /\ "reg_for_notify" \in Calls /\ "write_descr" \in Calls /\ "write_char" \in Calls
  BY DEF Calls
<1>4. ASSUME NEW a, NEW next \in Calls, Looks(a, alive, next)
      PROVE  calls' \in SUBSET Calls /\ failed' \in BOOLEAN
  <2>1. calls' \in SUBSET Calls
    BY <1>2, <1>4 DEF Looks, ClientTypeOK
  <2>2. failed' = TRUE \/ failed' = failed
    BY <1>4 DEF Looks
  <2> QED
    BY <2>1, <2>2 DEF ClientTypeOK
<1>5. CASE HandleFailure \/ HandleConnect \/ HandleOpen
  <2>1. cInbox' \in Seq(ClientEvents)
    BY <1>1, <1>5 DEF HandleFailure, HandleConnect, HandleOpen
  <2>2. UNCHANGED <<aimVars, calls, cache, logVars, failed>>
    BY <1>5 DEF HandleFailure, HandleConnect, HandleOpen
  <2> QED
    BY <2>1, <2>2 DEF ClientTypeOK
<1>6. CASE HandleReg
  <2>1. cInbox' \in Seq(ClientEvents) /\ calls' \in SUBSET Calls
    BY <1>1, <1>2, <1>3, <1>6 DEF HandleReg
  <2> QED
    BY <1>6, <2>1 DEF HandleReg, ClientTypeOK
<1>7. CASE HandleScanParamsSet
  <2>1. cInbox' \in Seq(ClientEvents)
    BY <1>1, <1>7 DEF HandleScanParamsSet
  <2> QED
    BY <1>7, <2>1 DEF HandleScanParamsSet, ClientTypeOK
<1>8. CASE HandleScanResult
  <2>1. cInbox' \in Seq(ClientEvents)
    BY <1>1, <1>8 DEF HandleScanResult
  <2>2. UNCHANGED <<getServer, cache, logVars, failed>>
    BY <1>8 DEF HandleScanResult
  <2>3. CASE ~connect
    <3>1. connect' = TRUE /\ scan' = "over" /\ calls' \in SUBSET Calls
      BY <1>2, <1>3, <1>8, <2>3 DEF HandleScanResult
    <3> QED
      BY <2>1, <2>2, <3>1 DEF ClientTypeOK
  <2>4. CASE connect
    <3>1. UNCHANGED <<connect, scan, calls>>
      BY <1>8, <2>4 DEF HandleScanResult
    <3> QED
      BY <2>1, <2>2, <3>1 DEF ClientTypeOK
  <2> QED
    BY <2>3, <2>4
<1>9. CASE HandleDiscovered(alive)
  <2>1. cInbox' \in Seq(ClientEvents) /\ calls' \in SUBSET Calls
    BY <1>1, <1>2, <1>3, <1>9 DEF HandleDiscovered, ClientTypeOK
  <2> QED
    BY <1>9, <2>1 DEF HandleDiscovered, ClientTypeOK
<1>10. CASE HandleSearchRes
  <2>1. cInbox' \in Seq(ClientEvents)
    BY <1>1, <1>10 DEF HandleSearchRes
  <2> QED
    BY <1>10, <2>1 DEF HandleSearchRes, ClientTypeOK
<1>11. CASE HandleSearchCmpl(alive)
  <2>1. cInbox' \in Seq(ClientEvents) /\ UNCHANGED <<aimVars, cache, logVars>>
    BY <1>1, <1>11 DEF HandleSearchCmpl
  <2>2. calls' \in SUBSET Calls /\ failed' \in BOOLEAN
    <3>1. CASE getServer
      BY <1>3, <1>4, <1>11, <3>1 DEF HandleSearchCmpl
    <3>2. CASE ~getServer
      BY <1>11, <3>2 DEF HandleSearchCmpl, ClientTypeOK
    <3> QED
      BY <3>1, <3>2
  <2> QED
    BY <2>1, <2>2 DEF ClientTypeOK
<1>12. CASE HandleRegForNotify(alive)
  <2>1. cInbox' \in Seq(ClientEvents) /\ UNCHANGED <<aimVars, cache, logVars>>
    BY <1>1, <1>12 DEF HandleRegForNotify
  <2>2. calls' \in SUBSET Calls /\ failed' \in BOOLEAN
    BY <1>3, <1>4, <1>12 DEF HandleRegForNotify
  <2> QED
    BY <2>1, <2>2 DEF ClientTypeOK
<1>13. CASE HandleNotify
  <2>1. cInbox' \in Seq(ClientEvents)
    BY <1>1, <1>13 DEF HandleNotify
  <2> QED
    BY <1>13, <2>1 DEF HandleNotify, ClientTypeOK
<1>14. CASE HandleWriteDescr(alive)
  <2>1. cInbox' \in Seq(ClientEvents) /\ calls' \in SUBSET Calls
    BY <1>1, <1>2, <1>3, <1>14 DEF HandleWriteDescr, ClientTypeOK
  <2> QED
    BY <1>14, <2>1 DEF HandleWriteDescr, ClientTypeOK
<1>15. CASE HandleWriteChar
  <2>1. cInbox' \in Seq(ClientEvents)
    BY <1>1, <1>15 DEF HandleWriteChar
  <2> QED
    BY <1>15, <2>1 DEF HandleWriteChar, ClientTypeOK
<1>16. CASE HandleDisconnect
  <2>1. cInbox' \in Seq(ClientEvents)
    BY <1>1, <1>16 DEF HandleDisconnect
  <2> QED
    BY <1>16, <2>1 DEF HandleDisconnect, ClientTypeOK
<1> QED
  BY <1>5, <1>6, <1>7, <1>8, <1>9, <1>10, <1>11, <1>12, <1>13, <1>14, <1>15, <1>16
     DEF ClientHandles

LEMMA TypesInit == Init => TypeOK
<1> SUFFICES ASSUME Init PROVE TypeOK
  OBVIOUS
<1>1. ClientTypeOK
  <2>1. /\ connect = FALSE /\ getServer = FALSE /\ scan = "off" /\ calls = {"register"}
        /\ cInbox = <<>> /\ cache = {} /\ heard = FALSE /\ written = FALSE /\ failed = FALSE
    BY DEF Init, ClientInit
  <2>2. calls \in SUBSET Calls
    BY <2>1 DEF Calls
  <2>3. cInbox \in Seq(ClientEvents)
    BY <2>1
  <2>4. /\ connect \in BOOLEAN /\ getServer \in BOOLEAN /\ heard \in BOOLEAN
        /\ written \in BOOLEAN /\ failed \in BOOLEAN
    BY <2>1
  <2> QED
    BY <2>1, <2>2, <2>3, <2>4 DEF ClientTypeOK
<1>2. <<<<"register", "A">>, <<"register", "B">>>> \in Seq(Requests)
  BY RequestTypes DEF Profiles
<1>3. ServerTypeOK
  <2>1. /\ attr = [p \in Profiles |-> {}] /\ handles = [p \in Profiles |-> {}]
        /\ advConfig = {} /\ advData = {} /\ advertising = FALSE /\ deaf = FALSE
        /\ prepareLen = [p \in Profiles |-> 0] /\ faultsLeft = Faults
        /\ requested = <<<<"register", "A">>, <<"register", "B">>>>
        /\ inbox = <<>> /\ answers = <<>>
    BY DEF Init, ServerInit
  <2>2. faultsLeft \in 0 .. Faults
    BY <2>1, ServerAssumption
  <2>3. /\ inbox \in Seq(Completed \cup Accesses \cup Links)
        /\ answers \in Seq(Packets) /\ requested \in Seq(Requests)
    BY <1>2, <2>1
  <2>4. /\ attr \in [Profiles -> SUBSET Attributes] /\ handles \in [Profiles -> SUBSET Attributes]
        /\ prepareLen \in [Profiles -> Nat]
    BY <2>1
  <2>5. advertising \in BOOLEAN /\ deaf \in BOOLEAN
    BY <2>1
  <2> QED
    BY <2>1, <2>2, <2>3, <2>4, <2>5 DEF ServerTypeOK
<1>4. sent \in Seq(Packets)
  BY DEF Init
<1> QED
  BY <1>1, <1>3, <1>4, LinkAssumption DEF Init, TypeOK

LEMMA TypesConnects ==
  ASSUME TypeOK, NEW who \in {"client", "guest"}, Connects(who)
  PROVE  /\ ServerTypeOK' /\ link' = who /\ linksLeft' \in 0 .. Connections
         /\ UNCHANGED <<sent, guestLeft>>
<1>1. linksLeft' \in 0 .. Connections /\ link' = who /\ UNCHANGED <<sent, guestLeft>>
  BY LinkAssumption DEF Connects, TypeOK
<1>2. inbox' \in Seq(Completed \cup Accesses \cup Links)
  BY ServerEventTypes DEF Connects, TypeOK, ServerTypeOK, ServerEvents
<1>3. answers' = <<>> /\ UNCHANGED <<tableVars, advConfig, advData, prepareLen, callVars>>
  BY DEF Connects
<1>4. answers' \in Seq(Packets)
  BY <1>3
<1>5. advertising' \in BOOLEAN /\ deaf' = deaf
  BY DEF Connects
<1> QED
  BY <1>1, <1>2, <1>3, <1>4, <1>5 DEF TypeOK, ServerTypeOK, tableVars, callVars

LEMMA TypesClientStack == TypeOK /\ ClientStack => TypeOK'
<1> SUFFICES ASSUME TypeOK, ClientStack PROVE TypeOK'
  OBVIOUS
<1> USE DEF aimVars, logVars, clientVars, tableVars, advVars, callVars, serverVars, airVars
<1>0. cInbox \in Seq(ClientEvents) /\ calls \in SUBSET Calls
  BY DEF TypeOK, ClientTypeOK
<1>1. ASSUME NEW e \in ServerEvents, inbox' = Append(inbox, e)
      PROVE  inbox' \in Seq(Completed \cup Accesses \cup Links)
  BY <1>1 DEF TypeOK, ServerTypeOK, ServerEvents
<1>2. CASE Registered
  <2>1. PICK c \in {"register", "scan_params", "reg_for_notify"} :
          Local(c) /\ cInbox' = Append(cInbox, <<c, TRUE>>) /\ UNCHANGED <<cache, failed>>
    BY <1>2 DEF Registered
  <2>2. <<c, TRUE>> \in ClientEvents
    BY ClientEventTypes DEF Calls
  <2>3. cInbox' \in Seq(ClientEvents) /\ calls' \in SUBSET Calls
    BY <1>0, <2>1, <2>2 DEF Local
  <2> QED
    BY <2>1, <2>3 DEF Local, TypeOK, ClientTypeOK, ServerTypeOK
<1>3. CASE Discovered
  <2>1. <<"discover", TRUE>> \in ClientEvents
    BY ClientEventTypes DEF Calls
  <2>2. cInbox' \in Seq(ClientEvents) /\ calls' \in SUBSET Calls
    BY <1>0, <1>3, <2>1 DEF Discovered, Local
  <2>3. cache' \in SUBSET {"service", "char", "descr"}
    BY <1>3 DEF Discovered, TypeOK, ServerTypeOK, Profiles, Attributes
  <2> QED
    BY <1>3, <2>2, <2>3 DEF Discovered, Local, TypeOK, ClientTypeOK, ServerTypeOK
<1>4. CASE Searched
  <2>1. <<"search", TRUE>> \in ClientEvents /\ <<"SEARCH_RES">> \in ClientEvents
    BY ClientEventTypes DEF Calls
  <2>2. /\ <<<<"search", TRUE>>>> \in Seq(ClientEvents)
        /\ <<<<"SEARCH_RES">>>> \in Seq(ClientEvents) /\ <<>> \in Seq(ClientEvents)
    BY <2>1
  <2>3. cInbox' \in Seq(ClientEvents) /\ calls' \in SUBSET Calls
    BY <1>0, <1>4, <2>2 DEF Searched, Local
  <2> QED
    BY <1>4, <2>3 DEF Searched, Local, TypeOK, ClientTypeOK, ServerTypeOK
<1>5. CASE Opens
  <2>1. <<"CONNECT">> \in ClientEvents /\ <<"open", TRUE>> \in ClientEvents /\ "discover" \in Calls
    BY ClientEventTypes DEF Calls
  <2>2. <<<<"CONNECT">>, <<"open", TRUE>>>> \in Seq(ClientEvents)
    BY <2>1
  <2>3. cInbox' \in Seq(ClientEvents) /\ calls' \in SUBSET Calls
    BY <1>0, <1>5, <2>1, <2>2 DEF Opens
  <2>4. Connects("client")
    BY <1>5 DEF Opens
  <2> QED
    BY <1>5, <2>3, <2>4, TypesConnects DEF Opens, TypeOK, ClientTypeOK
<1>6. CASE ClientWrites
  <2>1. /\ <<"WRITE_RSP">> \in Seq(Packets)
        /\ <<"PREPARE_RSP", "PREPARE_RSP", "EXEC_RSP">> \in Seq(Packets)
    BY DEF Packets
  <2>2. /\ <<"WRITE", "A", "descr", "notify">> \in ServerEvents
        /\ <<"WRITE", "A", "char", "off">> \in ServerEvents
        /\ <<"PREPARE", "A", 0>> \in ServerEvents
    BY ServerEventTypes, ServerAssumption DEF Profiles, Values
  <2>3. sent' \in Seq(Packets)
    BY <1>6, <2>1 DEF ClientWrites
  <2>4. inbox' \in Seq(Completed \cup Accesses \cup Links)
    BY <1>1, <1>6, <2>2 DEF ClientWrites
  <2> QED
    BY <1>6, <2>3, <2>4 DEF ClientWrites, TypeOK, ClientTypeOK, ServerTypeOK
<1>7. ASSUME NEW packet, Answered(packet) PROVE answers' \in Seq(Packets)
  BY <1>7 DEF Answered, TypeOK, ServerTypeOK
<1>8. CASE NotificationArrives
  <2>1. answers' \in Seq(Packets)
    BY <1>7, <1>8 DEF NotificationArrives
  <2>2. cInbox' \in Seq(ClientEvents)
    BY <1>0, <1>8, ClientEventTypes DEF NotificationArrives
  <2> QED
    BY <1>8, <2>1, <2>2 DEF NotificationArrives, Answered, TypeOK, ClientTypeOK, ServerTypeOK
<1>9. CASE NextPacket
  <2>1. answers' \in Seq(Packets)
    BY <1>7, <1>9 DEF NextPacket
  <2>2. sent' \in Seq(Packets)
    <3>1. sent \in Seq(Packets) /\ Len(sent) > 1 /\ sent' = Tail(sent)
      BY <1>9 DEF NextPacket, TypeOK
    <3> QED
      BY <3>1
  <2>3. <<"EXEC", "A">> \in ServerEvents /\ <<"PREPARE", "A", 1>> \in ServerEvents
    BY ServerEventTypes, ServerAssumption DEF Profiles
  <2>4. inbox' \in Seq(Completed \cup Accesses \cup Links)
    BY <1>1, <1>9, <2>3 DEF NextPacket
  <2> QED
    BY <1>9, <2>1, <2>2, <2>4 DEF NextPacket, Answered, TypeOK, ClientTypeOK, ServerTypeOK
<1>10. CASE WriteEnds
  <2>1. PICK packet \in {"WRITE_RSP", "EXEC_RSP", "ERROR_RSP"},
             c \in calls \cap {"write_descr", "write_char"} :
          /\ Answered(packet)
          /\ calls' = calls \ {c}
          /\ cInbox' = Append(cInbox, <<c, packet # "ERROR_RSP">>)
          /\ failed' = (failed \/ packet = "ERROR_RSP")
    BY <1>10 DEF WriteEnds
  <2>2. answers' \in Seq(Packets) /\ sent' \in Seq(Packets) /\ UNCHANGED inbox
    BY <1>7, <1>10, <2>1 DEF WriteEnds
  <2>3. failed' \in BOOLEAN
    BY <2>1
  <2>4. <<c, packet # "ERROR_RSP">> \in ClientEvents
    <3>1. (packet # "ERROR_RSP") \in BOOLEAN /\ c \in Calls
      BY <1>0
    <3> QED
      BY <3>1, ClientEventTypes
  <2>5. cInbox' \in Seq(ClientEvents) /\ calls' \in SUBSET Calls
    BY <1>0, <2>1, <2>4
  <2> QED
    BY <2>1, <2>2, <2>3, <2>5 DEF Answered, TypeOK, ClientTypeOK, ServerTypeOK
<1> QED
  BY <1>2, <1>3, <1>4, <1>5, <1>6, <1>8, <1>9, <1>10 DEF ClientStack

LEMMA TypesAir == TypeOK /\ Air => TypeOK'
<1> SUFFICES ASSUME TypeOK, Air PROVE TypeOK'
  OBVIOUS
<1> USE DEF aimVars, logVars, clientVars, tableVars, advVars, callVars, serverVars, airVars
<1>0. cInbox \in Seq(ClientEvents) /\ calls \in SUBSET Calls
  BY DEF TypeOK, ClientTypeOK
<1>1. ASSUME NEW c \in Calls, Fails(c) PROVE TypeOK'
  <2>1. <<c, FALSE>> \in ClientEvents
    BY ClientEventTypes
  <2>2. cInbox' \in Seq(ClientEvents) /\ calls' \in SUBSET Calls
    BY <1>0, <1>1, <2>1 DEF Fails
  <2>3. failed' \in BOOLEAN
    BY <1>1 DEF Fails
  <2> QED
    BY <1>1, <2>2, <2>3 DEF Fails, TypeOK, ClientTypeOK, ServerTypeOK
<1>2. CASE ScanReports
  <2>1. cInbox' \in Seq(ClientEvents)
    BY <1>0, <1>2, ClientEventTypes DEF ScanReports
  <2> QED
    BY <1>2, <2>1 DEF ScanReports, TypeOK, ClientTypeOK, ServerTypeOK
<1>3. CASE ScanEnds
  BY <1>3 DEF ScanEnds, TypeOK, ClientTypeOK, ServerTypeOK
<1>4. CASE OpenFails
  <2>1. PICK end \in {<<>>, <<<<"DISCONNECT">>>>} : cInbox' = cInbox \o end \o <<<<"open", FALSE>>>>
    BY <1>4 DEF OpenFails
  <2>2. <<"open", FALSE>> \in ClientEvents /\ <<"DISCONNECT">> \in ClientEvents
    BY ClientEventTypes DEF Calls
  <2>3. /\ <<>> \in Seq(ClientEvents) /\ <<<<"DISCONNECT">>>> \in Seq(ClientEvents)
        /\ <<<<"open", FALSE>>>> \in Seq(ClientEvents)
    BY <2>2
  <2>5. end \in Seq(ClientEvents)
    BY <2>1, <2>3
  <2>6. cInbox' \in Seq(ClientEvents)
    BY <1>0, <2>1, <2>3, <2>5
  <2>4. calls' \in SUBSET Calls
    BY <1>0, <1>4 DEF OpenFails
  <2> QED
    BY <1>4, <2>4, <2>6 DEF OpenFails, TypeOK, ClientTypeOK, ServerTypeOK
<1>5. CASE GuestConnects
  <2>1. Connects("guest") /\ UNCHANGED clientVars
    BY <1>5 DEF GuestConnects
  <2> QED
    BY <2>1, TypesConnects DEF TypeOK, ClientTypeOK
<1>6. CASE LinkEnds
  <2>1. inbox' \in Seq(Completed \cup Accesses \cup Links)
    BY <1>6, ServerEventTypes DEF LinkEnds, TypeOK, ServerTypeOK, ServerEvents
  <2>2. calls' \in SUBSET Calls /\ cInbox' \in Seq(ClientEvents)
    <3>1. CASE link = "client"
      <4>1. /\ cInbox' = Append(cInbox, <<"DISCONNECT">>)
            /\ calls' = calls \ {"discover", "search", "write_descr", "write_char"}
        BY <1>6, <3>1 DEF LinkEnds
      <4> QED
        BY <1>0, <4>1, ClientEventTypes
    <3>2. CASE link # "client"
      BY <1>0, <1>6, <3>2 DEF LinkEnds
    <3> QED
      BY <3>1, <3>2
  <2>3. /\ link' = "none" /\ answers' = <<>> /\ sent' = <<>>
        /\ UNCHANGED <<tableVars, advVars, prepareLen, callVars, aimVars,
                       cache, logVars, failed, linksLeft, guestLeft>>
    BY <1>6 DEF LinkEnds
  <2> QED
    BY <2>1, <2>2, <2>3 DEF TypeOK, ClientTypeOK, ServerTypeOK
<1>7. CASE GuestAsks
  <2>1. inbox' \in Seq(Completed \cup Accesses \cup Links)
    BY <1>7 DEF GuestAsks, TypeOK, ServerTypeOK
  <2>2. guestLeft' \in 0 .. GuestWrites
    BY <1>7, LinkAssumption DEF GuestAsks, TypeOK
  <2> QED
    BY <1>7, <2>1, <2>2 DEF GuestAsks, TypeOK, ClientTypeOK, ServerTypeOK
<1> QED
  BY <1>1, <1>2, <1>3, <1>4, <1>5, <1>6, <1>7 DEF Air

LEMMA TypesStep == TypeOK /\ [Next]_vars => TypeOK'
<1> SUFFICES ASSUME TypeOK, [Next]_vars PROVE TypeOK'
  OBVIOUS
<1> USE DEF aimVars, logVars, clientVars, tableVars, advVars, callVars, serverVars, airVars
<1>1. CASE ServerStep
  BY <1>1, TypesServer DEF ServerStep, TypeOK, ClientTypeOK
<1>2. CASE StackStep
  BY <1>2, TypesCompletes DEF StackStep, TypeOK, ClientTypeOK
<1>3. CASE ClientStep
  <2>1. ClientHandles(link = "client") /\ (link = "client") \in BOOLEAN
    BY <1>3 DEF ClientStep
  <2>2. ClientTypeOK'
    BY <2>1, TypesClient DEF TypeOK
  <2> QED
    BY <1>3, <2>2 DEF ClientStep, TypeOK, ServerTypeOK
<1>4. CASE UNCHANGED vars
  BY <1>4 DEF vars, TypeOK, ClientTypeOK, ServerTypeOK
<1> QED
  BY <1>1, <1>2, <1>3, <1>4, TypesClientStack, TypesAir DEF Next

(* The state of both programs and of their stacks keeps its type: the     *)
(* lists of events hold only what a callback can be given.                 *)
THEOREM TypeCorrect == Spec => []TypeOK
<1>1. Init => TypeOK
  BY TypesInit
<1>2. TypeOK /\ [Next]_vars => TypeOK'
  BY TypesStep
<1> QED
  BY <1>1, <1>2, PTL DEF Spec

-----------------------------------------------------------------------------
(* What the client takes from its list of events                           *)

Gone  == <<"DISCONNECT">>
Heard == <<"NOTIFY">>
Acked == <<"write_descr", TRUE>>

LEMMA ClientEventsDiffer ==
  /\ \A c \in Calls, ok \in BOOLEAN : <<c, ok>> # Gone /\ <<c, ok>> # Heard
  /\ \A c \in Calls, ok \in BOOLEAN : <<c, ok>> = Acked => c = "write_descr" /\ ok = TRUE
  /\ \A c \in Calls : <<c, FALSE>> # Acked
  /\ <<"SCAN_RESULT">> \notin {Gone, Heard, Acked} /\ <<"CONNECT">> \notin {Gone, Heard, Acked}
  /\ <<"SEARCH_RES">> \notin {Gone, Heard, Acked}
  /\ Gone # Heard /\ Gone # Acked /\ Heard # Acked
<1>1. \A c \in Calls, ok \in BOOLEAN : <<c, ok>> # Gone /\ <<c, ok>> # Heard
  BY DEF Calls, Gone, Heard
<1>2. \A c \in Calls, ok \in BOOLEAN : <<c, ok>> = Acked => c = "write_descr" /\ ok = TRUE
  BY DEF Acked
<1>3. \A c \in Calls : <<c, FALSE>> # Acked
  BY <1>2
<1>4. /\ <<"SCAN_RESULT">> \notin {Gone, Heard, Acked} /\ <<"CONNECT">> \notin {Gone, Heard, Acked}
      /\ <<"SEARCH_RES">> \notin {Gone, Heard, Acked}
  BY DEF Gone, Heard, Acked
<1>5. Gone # Heard /\ Gone # Acked /\ Heard # Acked
  BY DEF Gone, Heard, Acked
<1> QED
  BY <1>1, <1>2, <1>3, <1>4, <1>5

\* The handling of an event that is none of the three.
Passes(alive) ==
  /\ Head(cInbox) \notin {Gone, Heard, Acked}
  /\ \/ connect' = connect /\ "open" \notin calls' \ calls
     \/ ~connect /\ connect' = TRUE
  /\ UNCHANGED <<heard, cache>>
  /\ "write_char" \in calls' => "write_char" \in calls
  /\ "write_descr" \in calls' => "write_descr" \in calls \/ "descr" \in cache

LEMMA ClientTakes ==
  ASSUME TypeOK, NEW alive \in BOOLEAN, ClientHandles(alive)
  PROVE  /\ cInbox \in Seq(ClientEvents) /\ cInbox # <<>> /\ cInbox' = Tail(cInbox)
         /\ \/ Passes(alive)
            \/ Head(cInbox) = Gone /\ HandleDisconnect
            \/ Head(cInbox) = Heard /\ HandleNotify
            \/ Head(cInbox) = Acked /\ HandleWriteDescr(alive)
<1> USE DEF aimVars, logVars
<1>0. ClientTypeOK
  BY DEF TypeOK
<1>a. \A e : Takes(e) => /\ cInbox \in Seq(ClientEvents) /\ cInbox # <<>>
                         /\ cInbox' = Tail(cInbox) /\ Head(cInbox) = e
  BY <1>0, TakesFacts
<1> DEFINE Taken == cInbox \in Seq(ClientEvents) /\ cInbox # <<>> /\ cInbox' = Tail(cInbox)
<1>c. \A c \in {"register", "scan_params", "open", "discover", "search", "reg_for_notify",
                "write_char"},
        ok \in BOOLEAN : <<c, ok>> \notin {Gone, Heard, Acked}
  BY ClientEventsDiffer DEF Calls
<1>d. ASSUME NEW a, NEW next \in {"reg_for_notify", "write_descr"}, Looks(a, alive, next)
      PROVE  /\ "open" \notin calls' \ calls
             /\ "write_char" \in calls' => "write_char" \in calls
             /\ next = "reg_for_notify" => ("write_descr" \in calls' => "write_descr" \in calls)
             /\ a = "descr" =>
                  ("write_descr" \in calls' => "write_descr" \in calls \/ "descr" \in cache)
  BY <1>d DEF Looks, Call
<1>1. CASE HandleFailure
  <2>1. PICK c \in Calls \ {"scan_params"} : Takes(<<c, FALSE>>)
    BY <1>1 DEF HandleFailure
  <2>2. Taken /\ Head(cInbox) \notin {Gone, Heard, Acked}
    BY <1>a, <2>1, ClientEventsDiffer
  <2> QED
    BY <1>1, <2>2 DEF HandleFailure, Passes
<1>2. CASE HandleReg
  <2>1. Taken /\ Head(cInbox) \notin {Gone, Heard, Acked}
    BY <1>a, <1>c, <1>2 DEF HandleReg
  <2> QED
    BY <1>2, <2>1 DEF HandleReg, Passes, Call
<1>3. CASE HandleScanParamsSet
  <2>1. PICK ok \in BOOLEAN : Takes(<<"scan_params", ok>>)
    BY <1>3 DEF HandleScanParamsSet
  <2>2. Taken /\ Head(cInbox) \notin {Gone, Heard, Acked}
    BY <1>a, <1>c, <2>1
  <2> QED
    BY <1>3, <2>2 DEF HandleScanParamsSet, Passes
<1>4. CASE HandleScanResult
  <2>1. Taken /\ Head(cInbox) \notin {Gone, Heard, Acked}
    BY <1>a, <1>4, ClientEventsDiffer DEF HandleScanResult
  <2>2. UNCHANGED <<heard, cache>>
    BY <1>4 DEF HandleScanResult
  <2>3. CASE connect
    <3>1. UNCHANGED <<connect, calls>>
      BY <1>4, <2>3 DEF HandleScanResult
    <3> QED
      BY <2>1, <2>2, <3>1 DEF Passes
  <2>4. CASE ~connect
    <3>1. connect' = TRUE /\ calls' = calls \cup {"open"}
      BY <1>4, <2>4 DEF HandleScanResult, Call
    <3> QED
      BY <2>1, <2>2, <2>4, <3>1 DEF Passes
  <2> QED
    BY <2>3, <2>4
<1>5. CASE HandleConnect \/ HandleSearchRes
  <2>1. Taken /\ Head(cInbox) \notin {Gone, Heard, Acked}
    BY <1>a, <1>5, ClientEventsDiffer DEF HandleConnect, HandleSearchRes
  <2>2. UNCHANGED <<connect, calls, heard, cache>>
    BY <1>5 DEF HandleConnect, HandleSearchRes
  <2> QED
    BY <2>1, <2>2 DEF Passes
<1>6. CASE HandleOpen \/ HandleWriteChar
  <2>1. Taken /\ Head(cInbox) \notin {Gone, Heard, Acked}
    BY <1>a, <1>c, <1>6 DEF HandleOpen, HandleWriteChar
  <2>2. UNCHANGED <<connect, calls, heard, cache>>
    BY <1>6 DEF HandleOpen, HandleWriteChar
  <2> QED
    BY <2>1, <2>2 DEF Passes
<1>7. CASE HandleDiscovered(alive)
  <2>1. Taken /\ Head(cInbox) \notin {Gone, Heard, Acked}
    BY <1>a, <1>c, <1>7 DEF HandleDiscovered
  <2>2. UNCHANGED <<connect, heard, cache>> /\ calls' \subseteq calls \cup {"search"}
    BY <1>7 DEF HandleDiscovered, Call
  <2> QED
    BY <2>1, <2>2 DEF Passes
<1>8. CASE HandleSearchCmpl(alive)
  <2>1. Taken /\ Head(cInbox) \notin {Gone, Heard, Acked}
    BY <1>a, <1>c, <1>8 DEF HandleSearchCmpl
  <2>2. UNCHANGED <<connect, heard, cache>>
    BY <1>8 DEF HandleSearchCmpl
  <2>3. CASE getServer
    <3>1. Looks("char", alive, "reg_for_notify")
      BY <1>8, <2>3 DEF HandleSearchCmpl
    <3> QED
      BY <1>d, <2>1, <2>2, <3>1 DEF Passes
  <2>4. CASE ~getServer
    <3>1. UNCHANGED calls
      BY <1>8, <2>4 DEF HandleSearchCmpl
    <3> QED
      BY <2>1, <2>2, <3>1 DEF Passes
  <2> QED
    BY <2>3, <2>4
<1>9. CASE HandleRegForNotify(alive)
  <2>1. Taken /\ Head(cInbox) \notin {Gone, Heard, Acked}
    BY <1>a, <1>c, <1>9 DEF HandleRegForNotify
  <2>2. UNCHANGED <<connect, heard, cache>> /\ Looks("descr", alive, "write_descr")
    BY <1>9 DEF HandleRegForNotify
  <2> QED
    BY <1>d, <2>1, <2>2 DEF Passes
<1>10. CASE HandleNotify
  <2>1. Taken /\ Head(cInbox) = Heard
    BY <1>a, <1>10 DEF HandleNotify, Heard
  <2> QED
    BY <1>10, <2>1
<1>11. CASE HandleWriteDescr(alive)
  <2>1. Taken /\ Head(cInbox) = Acked
    BY <1>a, <1>11 DEF HandleWriteDescr, Acked
  <2> QED
    BY <1>11, <2>1
<1>12. CASE HandleDisconnect
  <2>1. Taken /\ Head(cInbox) = Gone
    BY <1>a, <1>12 DEF HandleDisconnect, Gone
  <2> QED
    BY <1>12, <2>1
<1> QED
  BY <1>1, <1>2, <1>3, <1>4, <1>5, <1>6, <1>7, <1>8, <1>9, <1>10, <1>11, <1>12
     DEF ClientHandles

-----------------------------------------------------------------------------
(* The client asks for one connection at a time                            *)

\* While a connection is asked for or held, or its end is still to be handled,
\* connect is set; and there is only one of these at a time.
AimInv ==
  /\ ~("open" \in calls /\ link = "client")
  /\ "open" \in calls \/ link = "client" \/ Holds(cInbox, {Gone}) => connect
  /\ Holds(cInbox, {Gone}) => "open" \notin calls /\ link # "client"
  /\ Once(cInbox, {Gone})

LEMMA AimInit == Init => AimInv
<1> SUFFICES ASSUME Init PROVE AimInv
  OBVIOUS
<1>1. cInbox = <<>> /\ link = "none" /\ calls = {"register"}
  BY DEF Init, ClientInit
<1>2. ~Holds(cInbox, {Gone}) /\ Once(cInbox, {Gone})
  BY <1>1 DEF Holds, Once
<1> QED
  BY <1>1, <1>2 DEF AimInv

LEMMA AimKept ==
  ASSUME AimInv, UNCHANGED connect, "open" \in calls' => "open" \in calls,
         link' = "client" => link = "client",
         Holds(cInbox', {Gone}) <=> Holds(cInbox, {Gone}), Once(cInbox', {Gone})
  PROVE  AimInv'
  BY DEF AimInv

LEMMA AimSame == AimInv /\ UNCHANGED <<connect, calls, link, cInbox>> => AimInv'
  BY DEF AimInv

\* An event is appended that is not the end of the connection.
LEMMA GoneAppend ==
  ASSUME cInbox \in Seq(ClientEvents), NEW e \in ClientEvents, e # Gone
  PROVE  /\ Holds(Append(cInbox, e), {Gone}) <=> Holds(cInbox, {Gone})
         /\ Once(cInbox, {Gone}) => Once(Append(cInbox, e), {Gone})
  BY AppendFacts

\* What follows the events in a list of two has the same effect as two appends.
LEMMA TwoAppends ==
  ASSUME NEW S, NEW q \in Seq(S), NEW a \in S, NEW b \in S
  PROVE  /\ q \o <<a, b>> = Append(Append(q, a), b)
         /\ q \o <<a>> \o <<b>> = Append(Append(q, a), b)
         /\ q \o <<>> \o <<b>> = Append(q, b)
         /\ Append(q, a) \in Seq(S) /\ Append(q, b) \in Seq(S)
<1>1. q \o <<a, b>> = Append(Append(q, a), b)
  OBVIOUS
<1>2. q \o <<a>> = Append(q, a) /\ q \o <<>> = q
  OBVIOUS
<1>3. Append(q, a) \in Seq(S) /\ Append(q, b) \in Seq(S)
  OBVIOUS
<1>4. Append(q, a) \o <<b>> = Append(Append(q, a), b) /\ q \o <<b>> = Append(q, b)
  BY <1>3
<1> QED
  BY <1>1, <1>2, <1>3, <1>4

\* Two appends of which only the first may be the end of the connection.
LEMMA GoneTwice ==
  ASSUME NEW q, q \in Seq(ClientEvents), NEW a \in ClientEvents, NEW b \in ClientEvents,
         b # Gone, Once(q, {Gone}), a = Gone => ~Holds(q, {Gone})
  PROVE  /\ Once(Append(Append(q, a), b), {Gone})
         /\ Holds(Append(Append(q, a), b), {Gone}) <=> Holds(q, {Gone}) \/ a = Gone
<1> DEFINE r == Append(q, a)
<1>1. r \in Seq(ClientEvents) /\ b \notin {Gone}
  OBVIOUS
<1>2. Once(r, {Gone}) /\ (Holds(r, {Gone}) <=> Holds(q, {Gone}) \/ a = Gone)
  BY AppendFacts
<1> HIDE DEF r
<1>3. /\ Once(r, {Gone}) => Once(Append(r, b), {Gone})
      /\ Holds(Append(r, b), {Gone}) <=> Holds(r, {Gone})
  BY <1>1, AppendFacts
<1> QED
  BY <1>2, <1>3 DEF r

LEMMA AimClient == TypeOK /\ AimInv /\ ClientStep => AimInv'
<1> SUFFICES ASSUME TypeOK, AimInv, ClientStep PROVE AimInv'
  OBVIOUS
<1>1. UNCHANGED link /\ ClientHandles(link = "client") /\ (link = "client") \in BOOLEAN
  BY DEF ClientStep, airVars
<1>2. /\ cInbox \in Seq(ClientEvents) /\ cInbox # <<>> /\ cInbox' = Tail(cInbox)
      /\ \/ Passes(link = "client")
         \/ Head(cInbox) = Gone /\ HandleDisconnect
         \/ Head(cInbox) = Heard /\ HandleNotify
         \/ Head(cInbox) = Acked /\ HandleWriteDescr(link = "client")
  BY <1>1, ClientTakes
<1>3. /\ Holds(cInbox, {Gone}) <=> Head(cInbox) \in {Gone} \/ Holds(cInbox', {Gone})
      /\ Once(cInbox', {Gone})
      /\ Head(cInbox) \in {Gone} => ~Holds(cInbox', {Gone})
  BY <1>2, TailFacts DEF AimInv
<1>4. CASE Passes(link = "client")
  <2>1. Holds(cInbox', {Gone}) <=> Holds(cInbox, {Gone})
    BY <1>3, <1>4 DEF Passes
  <2>2. CASE connect' = connect /\ "open" \notin calls' \ calls
    BY <1>1, <1>3, <2>1, <2>2, AimKept
  <2>3. CASE ~connect /\ connect' = TRUE
    <3>1. ~Holds(cInbox, {Gone}) /\ link # "client"
      BY <2>3 DEF AimInv
    <3> QED
      BY <1>1, <1>3, <2>1, <2>3, <3>1 DEF AimInv
  <2> QED
    BY <1>4, <2>2, <2>3 DEF Passes
<1>5. CASE Head(cInbox) = Gone /\ HandleDisconnect
  <2>1. calls' = calls
    BY <1>5 DEF HandleDisconnect
  <2>2. ~Holds(cInbox', {Gone}) /\ Holds(cInbox, {Gone})
    BY <1>3, <1>5
  <2>3. "open" \notin calls' /\ link' # "client"
    BY <1>1, <2>1, <2>2 DEF AimInv
  <2> QED
    BY <1>3, <2>2, <2>3 DEF AimInv
<1>6. CASE Head(cInbox) = Heard /\ HandleNotify
  <2>1. Holds(cInbox', {Gone}) <=> Holds(cInbox, {Gone})
    BY <1>3, <1>6, ClientEventsDiffer
  <2>2. UNCHANGED <<connect, calls>>
    BY <1>6 DEF HandleNotify, aimVars
  <2> QED
    BY <1>1, <1>3, <2>1, <2>2, AimKept
<1>7. CASE Head(cInbox) = Acked /\ HandleWriteDescr(link = "client")
  <2>1. Holds(cInbox', {Gone}) <=> Holds(cInbox, {Gone})
    BY <1>3, <1>7, ClientEventsDiffer
  <2>2. UNCHANGED connect /\ ("open" \in calls' => "open" \in calls)
    BY <1>7 DEF HandleWriteDescr, aimVars, Call
  <2> QED
    BY <1>1, <1>3, <2>1, <2>2, AimKept
<1> QED
  BY <1>2, <1>4, <1>5, <1>6, <1>7

LEMMA AimStack == TypeOK /\ AimInv /\ ClientStack => AimInv'
<1> SUFFICES ASSUME TypeOK, AimInv, ClientStack PROVE AimInv'
  OBVIOUS
<1> USE DEF aimVars, logVars, clientVars
<1>0. cInbox \in Seq(ClientEvents) /\ Once(cInbox, {Gone})
  BY DEF TypeOK, ClientTypeOK, AimInv
<1>1. ASSUME NEW c \in Calls, NEW ok \in BOOLEAN, cInbox' = Append(cInbox, <<c, ok>>),
             UNCHANGED <<connect, link>>, calls' \subseteq calls
      PROVE  AimInv'
  <2>1. <<c, ok>> \in ClientEvents /\ <<c, ok>> # Gone
    BY ClientEventTypes, ClientEventsDiffer
  <2>2. Once(cInbox', {Gone}) /\ (Holds(cInbox', {Gone}) <=> Holds(cInbox, {Gone}))
    BY <1>0, <1>1, <2>1, GoneAppend
  <2> QED
    BY <1>1, <2>2, AimKept
<1>2. CASE Registered
  <2>1. PICK c \in {"register", "scan_params", "reg_for_notify"} :
          Local(c) /\ cInbox' = Append(cInbox, <<c, TRUE>>)
    BY <1>2 DEF Registered
  <2>2. c \in Calls /\ UNCHANGED <<connect, link>> /\ calls' \subseteq calls
    BY <2>1 DEF Calls, Local, airVars
  <2> QED
    BY <1>1, <2>1, <2>2
<1>3. CASE Discovered
  <2>1. /\ "discover" \in Calls /\ UNCHANGED <<connect, link>> /\ calls' \subseteq calls
        /\ cInbox' = Append(cInbox, <<"discover", TRUE>>)
    BY <1>3 DEF Discovered, Local, Calls, airVars
  <2> QED
    BY <1>1, <2>1
<1>4. CASE Searched
  <2>1. /\ UNCHANGED <<connect, link>> /\ calls' \subseteq calls
        /\ cInbox' = cInbox \o (IF "service" \in cache THEN <<<<"SEARCH_RES">>>> ELSE <<>>)
                            \o <<<<"search", TRUE>>>>
    BY <1>4 DEF Searched, Local, airVars
  <2>2. /\ <<"SEARCH_RES">> \in ClientEvents /\ <<"search", TRUE>> \in ClientEvents
        /\ <<"SEARCH_RES">> # Gone /\ <<"search", TRUE>> # Gone
    BY ClientEventTypes, ClientEventsDiffer DEF Calls
  <2> DEFINE a == <<"SEARCH_RES">>
             b == <<"search", TRUE>>
  <2>4. a \in ClientEvents /\ b \in ClientEvents /\ a # Gone /\ b # Gone
    BY <2>2
  <2>6. cInbox' = cInbox \o <<a>> \o <<b>> \/ cInbox' = cInbox \o <<>> \o <<b>>
    BY <2>1
  <2> HIDE DEF a, b
  <2>9. /\ cInbox \o <<a>> \o <<b>> = Append(Append(cInbox, a), b)
        /\ cInbox \o <<>> \o <<b>> = Append(cInbox, b)
    BY <1>0, <2>4, TwoAppends
  <2>3. \/ cInbox' = Append(Append(cInbox, a), b)
        \/ cInbox' = Append(cInbox, b)
    BY <2>6, <2>9
  <2>7. /\ Once(Append(Append(cInbox, a), b), {Gone})
        /\ Holds(Append(Append(cInbox, a), b), {Gone}) <=> Holds(cInbox, {Gone})
    BY <1>0, <2>4, GoneTwice
  <2>8. /\ Once(Append(cInbox, b), {Gone})
        /\ Holds(Append(cInbox, b), {Gone}) <=> Holds(cInbox, {Gone})
    BY <1>0, <2>4, GoneAppend
  <2>5. Once(cInbox', {Gone}) /\ (Holds(cInbox', {Gone}) <=> Holds(cInbox, {Gone}))
    BY <2>3, <2>7, <2>8
  <2> QED
    BY <2>1, <2>5, AimKept
<1>5. CASE Opens
  <2>1. /\ "open" \in calls /\ link' = "client" /\ UNCHANGED connect
        /\ calls' = (calls \ {"open"}) \cup {"discover"}
        /\ cInbox' = cInbox \o <<<<"CONNECT">>, <<"open", TRUE>>>>
    BY <1>5 DEF Opens, Connects
  <2>2. /\ <<"CONNECT">> \in ClientEvents /\ <<"open", TRUE>> \in ClientEvents
        /\ <<"CONNECT">> # Gone /\ <<"open", TRUE>> # Gone
    BY ClientEventTypes, ClientEventsDiffer DEF Calls
  <2> DEFINE a == <<"CONNECT">>
             b == <<"open", TRUE>>
  <2>4. /\ a \in ClientEvents /\ b \in ClientEvents /\ a # Gone /\ b # Gone
        /\ cInbox' = cInbox \o <<a, b>>
    BY <2>1, <2>2
  <2> HIDE DEF a, b
  <2>3. cInbox' = Append(Append(cInbox, a), b)
    BY <1>0, <2>4, TwoAppends
  <2>5. Once(cInbox', {Gone}) /\ (Holds(cInbox', {Gone}) <=> Holds(cInbox, {Gone}))
    <3>1. /\ Once(Append(Append(cInbox, a), b), {Gone})
          /\ Holds(Append(Append(cInbox, a), b), {Gone}) <=> Holds(cInbox, {Gone})
      BY <1>0, <2>4, GoneTwice
    <3> QED
      BY <2>3, <3>1
  <2>6. "open" \notin calls' /\ ~Holds(cInbox', {Gone}) /\ connect
    BY <2>1, <2>5 DEF AimInv
  <2>7. connect'
    BY <2>1, <2>6
  <2> QED
    BY <2>5, <2>6, <2>7 DEF AimInv
<1>6. CASE ClientWrites
  BY <1>6, AimSame DEF ClientWrites
<1>7. CASE NotificationArrives
  <2>1. /\ cInbox' = Append(cInbox, Heard) /\ UNCHANGED <<connect, calls, link>>
        /\ Heard \in ClientEvents /\ Heard # Gone
    BY <1>7, ClientEventTypes, ClientEventsDiffer DEF NotificationArrives, Answered, Heard
  <2>2. Once(cInbox', {Gone}) /\ (Holds(cInbox', {Gone}) <=> Holds(cInbox, {Gone}))
    BY <1>0, <2>1, GoneAppend
  <2> QED
    BY <2>1, <2>2, AimKept
<1>8. CASE NextPacket
  BY <1>8, AimSame DEF NextPacket, Answered
<1>9. CASE WriteEnds
  <2>1. PICK packet \in {"WRITE_RSP", "EXEC_RSP", "ERROR_RSP"},
             c \in calls \cap {"write_descr", "write_char"} :
          /\ Answered(packet)
          /\ calls' = calls \ {c}
          /\ cInbox' = Append(cInbox, <<c, packet # "ERROR_RSP">>)
    BY <1>9 DEF WriteEnds
  <2>2. /\ c \in Calls /\ UNCHANGED <<connect, link>> /\ calls' \subseteq calls
        /\ (packet # "ERROR_RSP") \in BOOLEAN
    BY <2>1 DEF Answered, Calls
  <2> QED
    BY <1>1, <2>1, <2>2
<1> QED
  BY <1>2, <1>3, <1>4, <1>5, <1>6, <1>7, <1>8, <1>9 DEF ClientStack

LEMMA AimAir == TypeOK /\ AimInv /\ Air => AimInv'
<1> SUFFICES ASSUME TypeOK, AimInv, Air PROVE AimInv'
  OBVIOUS
<1> USE DEF aimVars, logVars, clientVars
<1>0. cInbox \in Seq(ClientEvents) /\ Once(cInbox, {Gone})
  BY DEF TypeOK, ClientTypeOK, AimInv
<1>1. ASSUME NEW c \in Calls, Fails(c) PROVE AimInv'
  <2>1. /\ cInbox' = Append(cInbox, <<c, FALSE>>) /\ UNCHANGED <<connect, link>>
        /\ calls' \subseteq calls /\ <<c, FALSE>> \in ClientEvents /\ <<c, FALSE>> # Gone
    BY <1>1, ClientEventTypes, ClientEventsDiffer DEF Fails, airVars
  <2>2. Once(cInbox', {Gone}) /\ (Holds(cInbox', {Gone}) <=> Holds(cInbox, {Gone}))
    BY <1>0, <2>1, GoneAppend
  <2> QED
    BY <2>1, <2>2, AimKept
<1>2. CASE ScanReports
  <2>1. /\ cInbox' = Append(cInbox, <<"SCAN_RESULT">>) /\ UNCHANGED <<connect, link, calls>>
        /\ <<"SCAN_RESULT">> \in ClientEvents /\ <<"SCAN_RESULT">> # Gone
    BY <1>2, ClientEventTypes, ClientEventsDiffer DEF ScanReports, airVars
  <2>2. Once(cInbox', {Gone}) /\ (Holds(cInbox', {Gone}) <=> Holds(cInbox, {Gone}))
    BY <1>0, <2>1, GoneAppend
  <2> QED
    BY <2>1, <2>2, AimKept
<1>3. CASE ScanEnds
  BY <1>3, AimSame DEF ScanEnds, airVars
<1>4. CASE OpenFails
  <2>1. /\ "open" \in calls /\ calls' = calls \ {"open"} /\ UNCHANGED <<connect, link>>
    BY <1>4 DEF OpenFails, airVars
  <2>2. PICK end \in {<<>>, <<Gone>>} : cInbox' = cInbox \o end \o <<<<"open", FALSE>>>>
    BY <1>4 DEF OpenFails, Gone
  <2>3. /\ <<"open", FALSE>> \in ClientEvents /\ <<"open", FALSE>> # Gone
        /\ Gone \in ClientEvents
    BY ClientEventTypes, ClientEventsDiffer DEF Calls, Gone
  <2> DEFINE b == <<"open", FALSE>>
  <2>5. /\ Gone \in ClientEvents /\ b \in ClientEvents /\ b # Gone
        /\ cInbox' = cInbox \o <<Gone>> \o <<b>> \/ cInbox' = cInbox \o <<>> \o <<b>>
    BY <2>2, <2>3
  <2> HIDE DEF b
  <2>4. cInbox' = Append(Append(cInbox, Gone), b) \/ cInbox' = Append(cInbox, b)
    BY <1>0, <2>5, TwoAppends
  <2>6. ~Holds(cInbox, {Gone}) /\ link # "client" /\ connect
    BY <2>1 DEF AimInv
  <2>7. Once(Append(Append(cInbox, Gone), b), {Gone}) /\ Once(Append(cInbox, b), {Gone})
    BY <1>0, <2>5, <2>6, GoneTwice, GoneAppend
  <2>8. Once(cInbox', {Gone})
    BY <2>4, <2>7
  <2>9. connect' /\ "open" \notin calls' /\ link' # "client"
    BY <2>1, <2>6
  <2> QED
    BY <2>8, <2>9 DEF AimInv
<1>5. CASE GuestConnects
  <2>1. UNCHANGED <<connect, calls, cInbox>> /\ link' = "guest"
    BY <1>5 DEF GuestConnects, Connects
  <2> QED
    BY <1>0, <2>1, AimKept
<1>6. CASE LinkEnds
  <2>1. UNCHANGED connect /\ link' = "none" /\ calls' \subseteq calls
    BY <1>6 DEF LinkEnds
  <2>2. CASE link = "client"
    <3>1. cInbox' = Append(cInbox, Gone) /\ Gone \in ClientEvents
      BY <1>6, <2>2, ClientEventTypes DEF LinkEnds, Gone
    <3>2. ~Holds(cInbox, {Gone}) /\ "open" \notin calls /\ connect
      BY <2>2 DEF AimInv
    <3>3. Once(cInbox', {Gone})
      BY <1>0, <3>1, <3>2, AppendFacts
    <3>4. connect' /\ "open" \notin calls' /\ link' # "client"
      BY <2>1, <3>2
    <3> QED
      BY <3>3, <3>4 DEF AimInv
  <2>3. CASE link # "client"
    <3>1. UNCHANGED cInbox
      BY <1>6, <2>3 DEF LinkEnds
    <3> QED
      BY <1>0, <2>1, <3>1, AimKept
  <2> QED
    BY <2>2, <2>3
<1>7. CASE GuestAsks
  BY <1>7, AimSame DEF GuestAsks
<1> QED
  BY <1>1, <1>2, <1>3, <1>4, <1>5, <1>6, <1>7 DEF Air

LEMMA AimStep == TypeOK /\ AimInv /\ [Next]_vars => AimInv'
<1>1. AimInv /\ (ServerStep \/ StackStep \/ UNCHANGED vars) => AimInv'
  <2>1. ServerStep \/ StackStep \/ UNCHANGED vars => UNCHANGED <<clientVars, airVars>>
    BY DEF ServerStep, StackStep, vars
  <2>2. UNCHANGED <<clientVars, airVars>> => UNCHANGED <<connect, calls, link, cInbox>>
    BY DEF clientVars, aimVars, airVars
  <2> QED
    BY <2>1, <2>2, AimSame
<1> QED
  BY <1>1, AimClient, AimStack, AimAir DEF Next

(* connect tells the truth until the end of the connection is handled: the *)
(* client never asks for a connection while it has or awaits one, and it   *)
(* never takes the end of an old connection for that of a new one          *)
(* (gattc_demo.c, ESP_GAP_BLE_SCAN_RESULT_EVT and ESP_GATTC_DISCONNECT_EVT).*)
THEOREM OneConnection == Spec => []ConnectFollowsLink
<1>1. Init => AimInv
  BY AimInit
<1>2. TypeOK /\ AimInv /\ [Next]_vars => AimInv'
  BY AimStep
<1>3. AimInv => ConnectFollowsLink
  BY DEF AimInv, ConnectFollowsLink
<1> QED
  BY <1>1, <1>2, <1>3, TypeCorrect, PTL DEF Spec

-----------------------------------------------------------------------------
(* Calls of the server on their way: requested, or completed and announced *)

RequestCodes == {"register", "config", "service", "char", "descr"}
AccessCodes  == {"WRITE", "PREPARE", "EXEC", "READ"}

\* Requests and events of one of these kinds, about one of these owners.
Kind(codes, owners) ==
  {e \in Requests \cup ServerEvents : e[1] \in codes /\ e[2] \in owners}

Either(E)    == Holds(requested, E) \/ Holds(inbox, E)
AtMostOne(E) ==
  Once(requested, E) /\ Once(inbox, E) /\ ~(Holds(requested, E) /\ Holds(inbox, E))

\* A step leaves requests of a kind alone, or completes one.
SameKind(codes, owners) ==
  /\ Either(Kind(codes, owners))' <=> Either(Kind(codes, owners))
  /\ AtMostOne(Kind(codes, owners)) => AtMostOne(Kind(codes, owners))'

SameKinds == \A owners : \A codes \in SUBSET RequestCodes : SameKind(codes, owners)

LEMMA KindFacts ==
  /\ \A codes, owners : \A r \in Requests, ok \in BOOLEAN :
       <<r[1], r[2], ok>> \in Kind(codes, owners) <=> r \in Kind(codes, owners)
  /\ \A codes, owners : \A r \in Requests :
       r \in Kind(codes, owners) <=> r[1] \in codes /\ r[2] \in owners
  /\ \A owners : \A codes \in SUBSET RequestCodes : \A e \in Accesses \cup Links :
       e \notin Kind(codes, owners)
<1>1. ASSUME NEW codes, NEW owners, NEW r \in Requests, NEW ok \in BOOLEAN
      PROVE  <<r[1], r[2], ok>> \in Kind(codes, owners) <=> r \in Kind(codes, owners)
  <2>1. <<r[1], r[2], ok>> \in ServerEvents
    BY ServerEventTypes
  <2>2. <<r[1], r[2], ok>>[1] = r[1] /\ <<r[1], r[2], ok>>[2] = r[2]
    OBVIOUS
  <2> QED
    BY <2>1, <2>2 DEF Kind
<1>2. ASSUME NEW e \in Accesses \cup Links
      PROVE  e[1] \notin RequestCodes
  BY <1>2 DEF Accesses, Links, RequestCodes
<1> QED
  BY <1>1, <1>2 DEF Kind

LEMMA EventIsRequest ==
  ASSUME NEW codes, NEW owners, NEW c, NEW p, <<c, p>> \in Requests, NEW ok \in BOOLEAN
  PROVE  /\ <<c, p, ok>> \in Kind(codes, owners) <=> c \in codes /\ p \in owners
         /\ <<c, p>> \in Kind(codes, owners) <=> c \in codes /\ p \in owners
<1>1. <<c, p>>[1] = c /\ <<c, p>>[2] = p
  OBVIOUS
<1> QED
  BY <1>1, KindFacts

LEMMA ServerQueues ==
  ASSUME TypeOK PROVE requested \in Seq(Requests) /\ inbox \in Seq(ServerEvents)
  BY DEF TypeOK, ServerTypeOK, ServerEvents

LEMMA StackCompletes == TypeOK /\ Completes => SameKinds
<1> SUFFICES ASSUME TypeOK, Completes, NEW codes \in SUBSET RequestCodes, NEW owners
             PROVE  SameKind(codes, owners)
  BY DEF SameKinds
<1> DEFINE K == Kind(codes, owners)
           r == Head(requested)
<1>0. requested \in Seq(Requests) /\ inbox \in Seq(ServerEvents)
  BY ServerQueues
<1>1. PICK ok \in BOOLEAN :
        /\ requested # <<>> /\ requested' = Tail(requested)
        /\ inbox' = Append(inbox, <<r[1], r[2], ok>>)
  BY DEF Completes
<1>2. r \in Requests
  BY <1>0, <1>1
<1> DEFINE e == <<r[1], r[2], ok>>
<1>3. e \in ServerEvents /\ (e \in K <=> r \in K)
  BY <1>2, ServerEventTypes, KindFacts
<1>4. inbox' = Append(inbox, e)
  BY <1>1
<1>9. r = Head(requested)
  OBVIOUS
<1> HIDE DEF K, r, e
<1>5. /\ Holds(requested, K) <=> r \in K \/ Holds(requested', K)
      /\ Once(requested, K) => Once(requested', K)
      /\ Once(requested, K) /\ r \in K => ~Holds(requested', K)
  BY <1>0, <1>1, <1>9, TailFacts
<1>6. /\ Holds(inbox', K) <=> Holds(inbox, K) \/ e \in K
      /\ Once(inbox, K) /\ (e \in K => ~Holds(inbox, K)) => Once(inbox', K)
  BY <1>0, <1>3, <1>4, AppendFacts
<1>7. Either(K)' <=> Either(K)
  BY <1>3, <1>5, <1>6 DEF Either, K
<1>8. AtMostOne(K) => AtMostOne(K)'
  BY <1>3, <1>5, <1>6 DEF AtMostOne, K
<1> QED
  BY <1>7, <1>8 DEF SameKind, K

\* An event arrives that is no completion.
LEMMA OtherArrives ==
  ASSUME TypeOK, UNCHANGED requested, NEW e \in Accesses \cup Links, inbox' = Append(inbox, e)
  PROVE  SameKinds
<1> SUFFICES ASSUME NEW codes \in SUBSET RequestCodes, NEW owners
             PROVE  SameKind(codes, owners)
  BY DEF SameKinds
<1> DEFINE K == Kind(codes, owners)
<1>1. e \notin K /\ e \in ServerEvents /\ inbox \in Seq(ServerEvents)
  BY KindFacts, ServerQueues DEF ServerEvents
<1> HIDE DEF K
<1>2. /\ Holds(inbox', K) <=> Holds(inbox, K)
      /\ Once(inbox, K) => Once(inbox', K)
  BY <1>1, AppendFacts
<1>3. (Either(K)' <=> Either(K)) /\ (AtMostOne(K) => AtMostOne(K)')
  BY <1>2 DEF Either, AtMostOne, K
<1> QED
  BY <1>3 DEF SameKind, K

\* An event is handled, and nothing or the calls of s are requested.
LEMMA Handled ==
  ASSUME TypeOK, NEW e, Receive(e), NEW codes, NEW owners
  PROVE  /\ e \in Kind(codes, owners) => Either(Kind(codes, owners))
         /\ UNCHANGED requested =>
              /\ Either(Kind(codes, owners))' => Either(Kind(codes, owners))
              /\ AtMostOne(Kind(codes, owners)) => AtMostOne(Kind(codes, owners))'
              /\ AtMostOne(Kind(codes, owners)) /\ e \in Kind(codes, owners) =>
                   ~Either(Kind(codes, owners))'
              /\ e \notin Kind(codes, owners) =>
                   (Either(Kind(codes, owners))' <=> Either(Kind(codes, owners)))
         /\ \A r \in Requests : requested' = Append(requested, r) =>
              /\ e \notin Kind(codes, owners) /\ r \notin Kind(codes, owners) =>
                  SameKind(codes, owners)
              /\ e \in Kind(codes, owners) /\ AtMostOne(Kind(codes, owners)) =>
                   /\ Either(Kind(codes, owners))' => r \in Kind(codes, owners)
                   /\ AtMostOne(Kind(codes, owners))'
<1> DEFINE K == Kind(codes, owners)
<1>0. requested \in Seq(Requests)
  BY ServerQueues
<1>1. /\ inbox \in Seq(ServerEvents) /\ inbox # <<>> /\ Head(inbox) = e
      /\ inbox' = Tail(inbox)
  BY ReceiveFacts DEF TypeOK
<1> HIDE DEF K
<1>2. /\ Holds(inbox, K) <=> e \in K \/ Holds(inbox', K)
      /\ Once(inbox, K) => Once(inbox', K)
      /\ Once(inbox, K) /\ e \in K => ~Holds(inbox', K)
  BY <1>1, TailFacts
<1>3. e \in K => Either(K)
  BY <1>2 DEF Either
<1>4. ASSUME UNCHANGED requested
      PROVE  /\ Either(K)' => Either(K)
             /\ AtMostOne(K) => AtMostOne(K)'
             /\ AtMostOne(K) /\ e \in K => ~Either(K)'
             /\ e \notin K => (Either(K)' <=> Either(K))
  <2>1. Either(K)' => Either(K)
    BY <1>2, <1>4 DEF Either, K
  <2>2. AtMostOne(K) => AtMostOne(K)'
    BY <1>2, <1>4 DEF AtMostOne, K
  <2>3. AtMostOne(K) /\ e \in K => ~Either(K)'
    BY <1>2, <1>4 DEF AtMostOne, Either, K
  <2>4. e \notin K => (Either(K)' <=> Either(K))
    BY <1>2, <1>4 DEF Either, K
  <2> QED
    BY <2>1, <2>2, <2>3, <2>4
<1>5. ASSUME NEW r \in Requests, requested' = Append(requested, r)
      PROVE  /\ e \notin K /\ r \notin K => SameKind(codes, owners)
             /\ e \in K /\ AtMostOne(K) => (Either(K)' => r \in K) /\ AtMostOne(K)'
  <2>1. /\ Holds(requested', K) <=> Holds(requested, K) \/ r \in K
        /\ Once(requested, K) /\ (r \in K => ~Holds(requested, K)) => Once(requested', K)
    BY <1>0, <1>5, AppendFacts
  <2>2. ASSUME e \notin K, r \notin K PROVE SameKind(codes, owners)
    <3>1. Either(K)' <=> Either(K)
      BY <1>2, <2>1, <2>2 DEF Either, K
    <3>2. AtMostOne(K) => AtMostOne(K)'
      BY <1>2, <2>1, <2>2 DEF AtMostOne, K
    <3> QED
      BY <3>1, <3>2 DEF SameKind, K
  <2>3. ASSUME e \in K, AtMostOne(K) PROVE (Either(K)' => r \in K) /\ AtMostOne(K)'
    <3>1. ~Holds(requested, K) /\ ~Holds(inbox', K) /\ Once(requested, K) /\ Once(inbox', K)
      BY <1>2, <2>3 DEF AtMostOne
    <3>2. Either(K)' => r \in K
      BY <2>1, <3>1 DEF Either, K
    <3>3. AtMostOne(K)'
      BY <2>1, <3>1 DEF AtMostOne, K
    <3> QED
      BY <3>2, <3>3
  <2> QED
    BY <2>2, <2>3
<1> QED
  BY <1>3, <1>4, <1>5 DEF K

-----------------------------------------------------------------------------
(* The server can be found                                                 *)

\* The attributes of profile A are made one after the other.
ChainCodes == {"register", "service", "char", "descr"}
Chain   == Kind(ChainCodes, {"A"})
RegA    == Kind({"register"}, {"A"})
ServA   == Kind({"service"}, {"A"})
Conf(d) == Kind({"config"}, {d})

Serving == advertising \/ link # "none" \/ Holds(inbox, {Gone})

\* The data is configured once, after the registration and before anybody sees
\* the server, which from then on is seen, connected or about to be seen again, or
\* deaf.
ServeInv ==
  /\ Serving => advConfig = {} /\ ~Either(RegA)
  /\ advertising => link = "none" /\ ~Holds(inbox, {Gone})
  /\ Holds(inbox, {Gone}) => link = "none"
  /\ Once(inbox, {Gone})
  /\ \A d \in DataSets : (Either(Conf(d)) => d \in advConfig) /\ AtMostOne(Conf(d))
  /\ Either(RegA) => \A d \in DataSets : ~Either(Conf(d))
  /\ AtMostOne(Chain)
  /\ (Either(ServA) \/ "service" \in handles["A"]) /\ advConfig = {} => Serving \/ deaf

\* What the server asks for when it is registered.
LEMMA AskedFor ==
  ASSUME NEW s \in Seq(Requests), NEW a, NEW b, a # b, s \in {<<>>, <<a>>, <<b>>, <<a, b>>}, NEW K
  PROVE  /\ Holds(s, K) => a \in K \/ b \in K
         /\ a \notin K \/ b \notin K => Once(s, K)
<1>1. CASE s = <<>>
  BY <1>1 DEF Holds, Once
<1>2. ASSUME NEW x \in {a, b}, s = <<x>>
      PROVE  /\ Holds(s, K) => a \in K \/ b \in K
             /\ a \notin K \/ b \notin K => Once(s, K)
  <2>1. Len(s) = 1 /\ s[1] = x
    BY <1>2
  <2>2. 1 .. Len(s) = {1}
    BY <2>1
  <2> QED
    BY <2>1, <2>2 DEF Holds, Once
<1>3. CASE s = <<a, b>>
  <2>1. Len(s) = 2 /\ s[1] = a /\ s[2] = b
    BY <1>3
  <2>2. 1 .. Len(s) = {1, 2}
    BY <2>1
  <2> QED
    BY <2>1, <2>2 DEF Holds, Once
<1> QED
  BY <1>1, <1>2, <1>3

LEMMA RegisteredA ==
  ASSUME TypeOK, HandleRegA, AtMostOne(Chain), \A d \in DataSets : ~Either(Conf(d))
  PROVE  /\ Either(RegA) /\ ~Either(RegA)' /\ AtMostOne(Chain)'
         /\ \A d \in DataSets : AtMostOne(Conf(d))'
<1> DEFINE e == <<"register", "A", TRUE>>
           a == <<"config", "adv">>
           b == <<"config", "scan_rsp">>
           c == <<"service", "A">>
<1>1. Receive(e) /\ ConfigureAdv
  BY DEF HandleRegA
<1>2. PICK s \in Seq(Requests) :
        /\ requested \o s \in Seq(Requests) /\ <<c>> \in Seq(Requests)
        /\ requested' = (requested \o s) \o <<c>>
        /\ requested' \in Seq(Requests)
        /\ s \in {<<>>, <<a>>, <<b>>, <<a, b>>}
  BY <1>1, ConfigureAdvFacts DEF TypeOK
<1>3. requested \in Seq(Requests)
  BY ServerQueues
<1>4. /\ inbox \in Seq(ServerEvents) /\ inbox # <<>> /\ Head(inbox) = e
      /\ inbox' = Tail(inbox)
  BY <1>1, ReceiveFacts DEF TypeOK
<1>5. /\ <<"register", "A">> \in Requests /\ a \in Requests /\ b \in Requests /\ c \in Requests
      /\ a # b /\ Len(<<c>>) = 1 /\ <<c>>[1] = c
  BY RequestTypes DEF Profiles, DataSets
<1>6. /\ e \in Chain /\ e \in RegA
      /\ a \notin Chain /\ b \notin Chain
      /\ a \notin RegA /\ b \notin RegA /\ c \notin RegA
      /\ \A d \in DataSets : c \notin Conf(d) /\ (a \notin Conf(d) \/ b \notin Conf(d))
  <2>1. e \in Chain /\ e \in RegA
    BY <1>5, EventIsRequest DEF Chain, RegA, ChainCodes
  <2>4. \A codes, owners :
          /\ a \in Kind(codes, owners) <=> "config" \in codes /\ "adv" \in owners
          /\ b \in Kind(codes, owners) <=> "config" \in codes /\ "scan_rsp" \in owners
          /\ c \in Kind(codes, owners) <=> "service" \in codes /\ "A" \in owners
    <3>1. /\ a[1] = "config" /\ a[2] = "adv" /\ b[1] = "config" /\ b[2] = "scan_rsp"
          /\ c[1] = "service" /\ c[2] = "A"
      OBVIOUS
    <3>2. a \in Requests /\ b \in Requests /\ c \in Requests
      BY <1>5
    <3> HIDE DEF a, b, c
    <3> QED
      BY <3>1, <3>2, KindFacts
  <2> HIDE DEF a, b, c
  <2>2. /\ a \notin Chain /\ b \notin Chain /\ a \notin RegA /\ b \notin RegA /\ c \notin RegA
    BY <2>4 DEF Chain, RegA, ChainCodes
  <2>3. \A d \in DataSets : c \notin Conf(d) /\ (a \notin Conf(d) \/ b \notin Conf(d))
    <3> SUFFICES ASSUME NEW d \in DataSets
                 PROVE  c \notin Conf(d) /\ (a \notin Conf(d) \/ b \notin Conf(d))
      OBVIOUS
    <3>1. /\ a \in Conf(d) <=> "config" \in {"config"} /\ "adv" \in {d}
          /\ b \in Conf(d) <=> "config" \in {"config"} /\ "scan_rsp" \in {d}
          /\ c \in Conf(d) <=> "service" \in {"config"} /\ "A" \in {d}
      BY <2>4 DEF Conf
    <3> QED
      BY <3>1
  <2> QED
    BY <2>1, <2>2, <2>3
<1>11. RegA \subseteq Chain
  BY DEF RegA, Chain, Kind, ChainCodes
<1> HIDE DEF e, a, b, c
<1>7. ASSUME NEW K
      PROVE  /\ Holds(requested', K) => Holds(requested, K) \/ Holds(s, K) \/ c \in K
             /\ Once(requested, K) /\ Once(s, K) /\ ~(Holds(requested, K) /\ Holds(s, K))
                  /\ (c \in K => ~Holds(requested, K) /\ ~Holds(s, K)) => Once(requested', K)
             /\ Holds(inbox, K) <=> e \in K \/ Holds(inbox', K)
             /\ Once(inbox, K) => Once(inbox', K)
             /\ Once(inbox, K) /\ e \in K => ~Holds(inbox', K)
             /\ Holds(s, K) => a \in K \/ b \in K
             /\ a \notin K \/ b \notin K => Once(s, K)
  <2> DEFINE q == requested \o s
             t == <<c>>
  <2>1. Holds(q, K) <=> Holds(requested, K) \/ Holds(s, K)
    BY <1>2, <1>3, ConcatFacts
  <2>2. Once(requested, K) /\ Once(s, K) /\ ~(Holds(requested, K) /\ Holds(s, K)) => Once(q, K)
    BY <1>2, <1>3, ConcatFacts
  <2>3. (Holds(t, K) <=> c \in K) /\ Once(t, K)
    <3>1. 1 .. Len(t) = {1} /\ t[1] = c
      BY <1>5
    <3> QED
      BY <3>1 DEF Holds, Once
  <2>4. q \in Seq(Requests) /\ t \in Seq(Requests) /\ requested' = q \o t
    BY <1>2
  <2> HIDE DEF q, t
  <2>5. Holds(requested', K) <=> Holds(q, K) \/ Holds(t, K)
    BY <2>4, ConcatFacts
  <2>6. Once(q, K) /\ Once(t, K) /\ ~(Holds(q, K) /\ Holds(t, K)) => Once(requested', K)
    BY <2>4, ConcatFacts
  <2>7. /\ Holds(inbox, K) <=> e \in K \/ Holds(inbox', K)
        /\ Once(inbox, K) => Once(inbox', K)
        /\ Once(inbox, K) /\ e \in K => ~Holds(inbox', K)
    BY <1>4, TailFacts
  <2>8. /\ Holds(s, K) => a \in K \/ b \in K
        /\ a \notin K \/ b \notin K => Once(s, K)
    BY <1>2, <1>5, AskedFor
  <2> QED
    BY <2>1, <2>2, <2>3, <2>5, <2>6, <2>7, <2>8
<1>8. ~Holds(requested, Chain) /\ ~Holds(inbox', Chain)
  BY <1>6, <1>7 DEF AtMostOne
<1>9. AtMostOne(Chain)'
  <2>1. Once(requested', Chain)
    BY <1>6, <1>7, <1>8 DEF AtMostOne
  <2>2. Once(inbox', Chain)
    BY <1>7 DEF AtMostOne
  <2> QED
    BY <1>8, <2>1, <2>2 DEF AtMostOne, Chain
<1>10. Either(RegA) /\ ~Either(RegA)'
  <2>1. ~Holds(requested, RegA) /\ ~Holds(inbox', RegA)
    BY <1>8, <1>11 DEF Holds
  <2>2. ~Holds(requested', RegA)
    BY <1>6, <1>7, <2>1
  <2>3. Holds(inbox, RegA)
    BY <1>6, <1>7
  <2> QED
    BY <2>1, <2>2, <2>3 DEF Either, RegA
<1>12. ASSUME NEW d \in DataSets PROVE AtMostOne(Conf(d))'
  <2>1. ~Holds(requested, Conf(d)) /\ ~Holds(inbox, Conf(d)) /\ Once(requested, Conf(d))
    BY DEF Either, Holds, Once
  <2>2. ~Holds(inbox', Conf(d)) /\ Once(inbox', Conf(d))
    <3>1. ~Holds(inbox', Conf(d))
      BY <1>7, <2>1
    <3> QED
      BY <3>1 DEF Holds, Once
  <2>3. Once(requested', Conf(d))
    BY <1>6, <1>7, <2>1
  <2> QED
    BY <2>2, <2>3 DEF AtMostOne, Conf
<1> QED
  BY <1>9, <1>10, <1>12

LEMMA ServeInit == Init => ServeInv
<1> SUFFICES ASSUME Init PROVE ServeInv
  OBVIOUS
<1>1. /\ inbox = <<>> /\ link = "none" /\ ~advertising /\ advConfig = {}
      /\ requested = <<<<"register", "A">>, <<"register", "B">>>>
      /\ handles["A"] = {}
  BY DEF Init, ServerInit, Profiles
<1>2. \A E : ~Holds(inbox, E) /\ Once(inbox, E)
  BY <1>1 DEF Holds, Once
<1>3. /\ Len(requested) = 2 /\ requested[1] = <<"register", "A">>
      /\ requested[2] = <<"register", "B">>
  BY <1>1
<1>4. /\ <<"register", "A">> \in Requests /\ <<"register", "B">> \in Requests
  BY RequestTypes DEF Profiles
<1>5. \A codes, owners :
        /\ requested[1] \in Kind(codes, owners) <=> "register" \in codes /\ "A" \in owners
        /\ requested[2] \in Kind(codes, owners) <=> "register" \in codes /\ "B" \in owners
  <2>1. /\ requested[1] \in Requests /\ requested[1][1] = "register" /\ requested[1][2] = "A"
        /\ requested[2] \in Requests /\ requested[2][1] = "register" /\ requested[2][2] = "B"
    BY <1>3, <1>4
  <2> QED
    BY <2>1, KindFacts
<1>6. requested[2] \notin Chain /\ requested[1] \notin ServA /\ requested[2] \notin ServA
  BY <1>5 DEF Chain, ServA
<1>7. \A d \in DataSets : requested[1] \notin Conf(d) /\ requested[2] \notin Conf(d)
  BY <1>5 DEF Conf
<1>8. 1 .. Len(requested) = {1, 2}
  BY <1>3
<1>9. Once(requested, Chain) /\ ~Holds(requested, ServA)
  BY <1>6, <1>8 DEF Once, Holds
<1>10. \A d \in DataSets : ~Holds(requested, Conf(d)) /\ Once(requested, Conf(d))
  BY <1>7, <1>8 DEF Once, Holds
<1>11. AtMostOne(Chain) /\ ~Either(ServA)
  BY <1>2, <1>9 DEF AtMostOne, Either
<1>12. \A d \in DataSets : ~Either(Conf(d)) /\ AtMostOne(Conf(d))
  BY <1>2, <1>10 DEF AtMostOne, Either
<1>13. ~Serving
  BY <1>1, <1>2 DEF Serving
<1> QED
  BY <1>1, <1>2, <1>11, <1>12, <1>13 DEF ServeInv

LEMMA ServeKept ==
  ASSUME ServeInv, SameKinds, UNCHANGED <<advertising, deaf, link, advConfig>>,
         "service" \in handles'["A"] <=> "service" \in handles["A"],
         Holds(inbox', {Gone}) <=> Holds(inbox, {Gone}), Once(inbox', {Gone})
  PROVE  ServeInv'
<1>1. /\ (Either(RegA)' <=> Either(RegA)) /\ (Either(ServA)' <=> Either(ServA))
      /\ AtMostOne(Chain)'
  <2>1. /\ {"register"} \in SUBSET RequestCodes /\ {"service"} \in SUBSET RequestCodes
        /\ ChainCodes \in SUBSET RequestCodes /\ AtMostOne(Chain)
    BY DEF RequestCodes, ChainCodes, ServeInv
  <2> QED
    BY <2>1 DEF SameKinds, SameKind, RegA, ServA, Chain
<1>2. \A d \in DataSets : (Either(Conf(d))' <=> Either(Conf(d))) /\ AtMostOne(Conf(d))'
  <2>1. {"config"} \in SUBSET RequestCodes /\ \A d \in DataSets : AtMostOne(Conf(d))
    BY DEF RequestCodes, ServeInv
  <2> QED
    BY <2>1 DEF SameKinds, SameKind, Conf
<1>3. Serving' <=> Serving
  BY DEF Serving
<1>4. Serving' => advConfig' = {} /\ ~Either(RegA)'
  BY <1>1, <1>3 DEF ServeInv
<1>5. /\ advertising' => link' = "none" /\ ~Holds(inbox', {Gone})
      /\ Holds(inbox', {Gone}) => link' = "none"
  BY DEF ServeInv
<1>6. \A d \in DataSets : (Either(Conf(d))' => d \in advConfig') /\ AtMostOne(Conf(d))'
  BY <1>2 DEF ServeInv
<1>7. Either(RegA)' => \A d \in DataSets : ~Either(Conf(d))'
  BY <1>1, <1>2 DEF ServeInv
<1>8. (Either(ServA)' \/ "service" \in handles'["A"]) /\ advConfig' = {} => Serving' \/ deaf'
  BY <1>1, <1>3 DEF ServeInv
<1> QED
  BY <1>1, <1>4, <1>5, <1>6, <1>7, <1>8 DEF ServeInv

\* An event that is not the end of the connection is handled.
LEMMA GoneHandled ==
  ASSUME TypeOK, NEW e, Receive(e)
  PROVE  /\ Once(inbox, {Gone}) => Once(inbox', {Gone})
         /\ e # Gone => (Holds(inbox', {Gone}) <=> Holds(inbox, {Gone}))
         /\ e = Gone => Holds(inbox, {Gone}) /\ (Once(inbox, {Gone}) => ~Holds(inbox', {Gone}))
<1>1. /\ inbox \in Seq(ServerEvents) /\ inbox # <<>> /\ Head(inbox) = e
      /\ inbox' = Tail(inbox)
  BY ReceiveFacts DEF TypeOK
<1>2. /\ Holds(inbox, {Gone}) <=> e \in {Gone} \/ Holds(inbox', {Gone})
      /\ Once(inbox, {Gone}) => Once(inbox', {Gone})
      /\ Once(inbox, {Gone}) /\ e \in {Gone} => ~Holds(inbox', {Gone})
  BY <1>1, TailFacts
<1> QED
  BY <1>2

LEMMA GoneArrives ==
  ASSUME TypeOK, NEW e \in ServerEvents, inbox' = Append(inbox, e)
  PROVE  /\ e # Gone => /\ Once(inbox, {Gone}) => Once(inbox', {Gone})
                        /\ Holds(inbox', {Gone}) <=> Holds(inbox, {Gone})
         /\ e = Gone => /\ Holds(inbox', {Gone})
                        /\ ~Holds(inbox, {Gone}) /\ Once(inbox, {Gone}) => Once(inbox', {Gone})
<1>1. inbox \in Seq(ServerEvents)
  BY ServerQueues
<1>2. /\ Holds(inbox', {Gone}) <=> Holds(inbox, {Gone}) \/ e \in {Gone}
      /\ Once(inbox, {Gone}) /\ (e \in {Gone} => ~Holds(inbox, {Gone})) => Once(inbox', {Gone})
  BY <1>1, AppendFacts
<1> QED
  BY <1>2

\* No completion and no request is the end of the connection.
LEMMA ServerEventsDiffer ==
  /\ \A c, p : \A ok \in BOOLEAN : <<c, p, ok>> # Gone
  /\ \A e \in Accesses : e # Gone /\ e # <<"CONNECT">>
  /\ <<"CONNECT">> # Gone
<1>1. \A c, p : \A ok \in BOOLEAN : <<c, p, ok>> # Gone
  BY DEF Gone
<1>2. \A e \in Accesses : e[1] \in AccessCodes
  BY DEF Accesses, AccessCodes
<1>3. \A e \in Accesses : e # Gone /\ e # <<"CONNECT">>
  BY <1>2 DEF AccessCodes, Gone
<1>4. <<"CONNECT">> # Gone
  BY DEF Gone
<1> QED
  BY <1>1, <1>3, <1>4

\* The callbacks that answer requests of a central.
Accessed ==
  \E p \in Profiles : HandleWrite(p) \/ HandlePrepare(p) \/ HandleExec(p) \/ HandleRead(p)

LEMMA AccessHandled ==
  ASSUME TypeOK, Accessed
  PROVE  /\ \E e \in Accesses : Receive(e)
         /\ UNCHANGED <<tableVars, advVars, callVars>>
<1> PICK p \in Profiles : HandleWrite(p) \/ HandlePrepare(p) \/ HandleExec(p) \/ HandleRead(p)
  BY DEF Accessed
<1>1. CASE HandleWrite(p)
  <2>1. PICK target \in {"char", "descr"}, value \in Values :
          /\ Receive(<<"WRITE", p, target, value>>)
          /\ UNCHANGED <<tableVars, advVars, callVars>>
    BY <1>1 DEF HandleWrite
  <2> DEFINE e == <<"WRITE", p, target, value>>
  <2>2. e \in ServerEvents /\ Receive(e)
    BY <2>1, ReceiveFacts DEF TypeOK
  <2>3. e[1] = "WRITE"
    OBVIOUS
  <2> HIDE DEF e
  <2>4. e \notin Completed /\ e \notin Links
    BY <2>3 DEF Completed, Links, Requests, Attributes
  <2> QED
    BY <2>1, <2>2, <2>4 DEF ServerEvents
<1>2. CASE HandlePrepare(p)
  <2>1. PICK offset \in 0 .. BufferSize : Receive(<<"PREPARE", p, offset>>)
    BY <1>2 DEF HandlePrepare
  <2>2. <<"PREPARE", p, offset>> \in Accesses
    BY DEF Accesses
  <2> QED
    BY <1>2, <2>1, <2>2 DEF HandlePrepare
<1>3. CASE HandleExec(p)
  <2>1. <<"EXEC", p>> \in Accesses
    BY DEF Accesses
  <2> QED
    BY <1>3, <2>1 DEF HandleExec
<1>4. CASE HandleRead(p)
  <2>1. <<"READ", p>> \in Accesses
    BY DEF Accesses
  <2> QED
    BY <1>4, <2>1 DEF HandleRead
<1> QED
  BY <1>1, <1>2, <1>3, <1>4

\* An event that is no completion is handled and nothing is requested.
LEMMA OtherHandled ==
  ASSUME TypeOK, NEW e \in Accesses \cup Links, Receive(e), UNCHANGED requested
  PROVE  SameKinds
<1> SUFFICES ASSUME NEW codes \in SUBSET RequestCodes, NEW owners
             PROVE  SameKind(codes, owners)
  BY DEF SameKinds
<1>1. e \notin Kind(codes, owners)
  BY KindFacts
<1> QED
  BY <1>1, Handled DEF SameKind

LEMMA ServeDataSet ==
  ASSUME TypeOK, ServeInv, NEW d \in DataSets, HandleDataSet(d), UNCHANGED link
  PROVE  ServeInv'
<1>1. PICK ok \in BOOLEAN : Receive(<<"config", d, ok>>)
  BY DEF HandleDataSet
<1> DEFINE e == <<"config", d, ok>>
<1>2. /\ advConfig' = advConfig \ {d}
      /\ advConfig' = {} => advertising' \/ deaf'
      /\ advConfig' # {} => advertising' = advertising
      /\ UNCHANGED <<handles, requested>>
  BY StartFacts DEF HandleDataSet, tableVars, TypeOK
<1>3. <<"config", d>> \in Requests
  BY RequestTypes
<1>4. \A codes, owners : e \in Kind(codes, owners) <=> "config" \in codes /\ d \in owners
  BY <1>3, EventIsRequest
<1>5. Receive(e) /\ e # Gone
  BY <1>1, ServerEventsDiffer
<1>20. d # "A"
  BY DEF DataSets
<1> HIDE DEF e
<1>6. e \in Conf(d) /\ e \notin RegA /\ e \notin ServA /\ e \notin Chain
  BY <1>4 DEF Conf, RegA, ServA, Chain, ChainCodes
<1>7. \A c \in DataSets \ {d} : e \notin Conf(c)
  BY <1>4 DEF Conf
<1>8. Either(Conf(d)) /\ ~Either(Conf(d))' /\ AtMostOne(Conf(d))'
  <2>1. AtMostOne(Conf(d))
    BY DEF ServeInv
  <2> QED
    BY <1>2, <1>5, <1>6, <2>1, Handled DEF Conf
<1>9. \A c \in DataSets : (Either(Conf(c))' => Either(Conf(c))) /\ AtMostOne(Conf(c))'
  <2>1. \A c \in DataSets : AtMostOne(Conf(c))
    BY DEF ServeInv
  <2> QED
    BY <1>2, <1>5, <2>1, Handled DEF Conf
<1>10. /\ (Either(RegA)' => Either(RegA)) /\ (Either(ServA)' => Either(ServA)) /\ AtMostOne(Chain)'
  <2>1. AtMostOne(Chain)
    BY DEF ServeInv
  <2> QED
    BY <1>2, <1>5, <2>1, Handled DEF RegA, ServA, Chain
<1>11. d \in advConfig /\ ~Serving /\ ~Either(RegA)
  <2>1. d \in advConfig
    BY <1>8 DEF ServeInv
  <2>2. ~Serving
    BY <2>1 DEF ServeInv
  <2>3. ~Either(RegA)
    BY <1>8 DEF ServeInv
  <2> QED
    BY <2>1, <2>2, <2>3
<1>12. ~Holds(inbox', {Gone}) /\ Once(inbox', {Gone}) /\ link' = "none"
  <2>1. ~Holds(inbox, {Gone}) /\ link = "none" /\ Once(inbox, {Gone})
    BY <1>11 DEF Serving, ServeInv
  <2> QED
    BY <1>5, <2>1, GoneHandled
<1>13. /\ advertising' => advConfig' = {}
       /\ advConfig' = {} => advertising' \/ deaf'
  BY <1>2, <1>11 DEF Serving
<1>14. /\ Serving' => advConfig' = {}
       /\ advConfig' = {} => Serving' \/ deaf'
  BY <1>12, <1>13 DEF Serving
<1>15. \A c \in DataSets : (Either(Conf(c))' => c \in advConfig') /\ AtMostOne(Conf(c))'
  <2> SUFFICES ASSUME NEW c \in DataSets
               PROVE  (Either(Conf(c))' => c \in advConfig') /\ AtMostOne(Conf(c))'
    OBVIOUS
  <2>1. CASE c = d
    BY <1>8, <2>1
  <2>2. CASE c # d
    <3>1. Either(Conf(c)) => c \in advConfig
      BY DEF ServeInv
    <3> QED
      BY <1>2, <1>9, <2>2, <3>1
  <2> QED
    BY <2>1, <2>2
<1>16. ~Either(RegA)'
  BY <1>10, <1>11
<1> QED
  BY <1>10, <1>12, <1>14, <1>15, <1>16 DEF ServeInv

LEMMA ServeRegA == TypeOK /\ ServeInv /\ HandleRegA /\ UNCHANGED link => ServeInv'
<1> SUFFICES ASSUME TypeOK, ServeInv, HandleRegA, UNCHANGED link PROVE ServeInv'
  OBVIOUS
<1>1. Receive(<<"register", "A", TRUE>>) /\ ConfigureAdv /\ UNCHANGED <<advertising, handles>>
  BY DEF HandleRegA, tableVars
<1>2. <<"register", "A">> \in Requests
  BY RequestTypes DEF Profiles
<1>3. Either(RegA)
  <2>1. <<"register", "A", TRUE>> \in RegA
    BY <1>2, EventIsRequest DEF RegA
  <2> QED
    BY <1>1, <2>1, Handled DEF RegA
<1>4. (\A d \in DataSets : ~Either(Conf(d))) /\ AtMostOne(Chain) /\ ~Serving
  BY <1>3 DEF ServeInv
<1>5. /\ ~Either(RegA)' /\ AtMostOne(Chain)' /\ \A d \in DataSets : AtMostOne(Conf(d))'
  BY <1>4, RegisteredA
<1>6. advConfig' = advConfig \cup DataSets
  BY <1>1, ConfigureAdvFacts DEF TypeOK
<1>7. "adv" \in advConfig' /\ \A d \in DataSets : d \in advConfig'
  BY <1>6 DEF DataSets
<1>8. ~Holds(inbox', {Gone}) /\ Once(inbox', {Gone}) /\ ~Serving'
  <2>1. ~Holds(inbox, {Gone}) /\ link = "none" /\ Once(inbox, {Gone}) /\ ~advertising
    BY <1>4 DEF Serving, ServeInv
  <2>2. ~Holds(inbox', {Gone}) /\ Once(inbox', {Gone})
    BY <1>1, <2>1, GoneHandled, ServerEventsDiffer
  <2>3. ~advertising'
    BY <1>1, <2>1
  <2> QED
    BY <2>1, <2>2, <2>3 DEF Serving
<1>9. ~advertising'
  BY <1>8 DEF Serving
<1> QED
  BY <1>5, <1>7, <1>8, <1>9 DEF ServeInv

\* A call of the chain is handled, and nothing of profile A but the next one requested.
LEMMA ServeChain ==
  ASSUME TypeOK, ServeInv, NEW e, Receive(e), e # Gone,
         UNCHANGED <<advertising, deaf, link, advConfig>>,
         \A K \in {RegA, ServA} : Either(K)' => Either(K),
         \A d \in DataSets : (Either(Conf(d))' => Either(Conf(d))) /\ AtMostOne(Conf(d))',
         AtMostOne(Chain)',
         "service" \in handles'["A"] => "service" \in handles["A"] \/ Either(ServA)
  PROVE  ServeInv'
<1>1. (Holds(inbox', {Gone}) <=> Holds(inbox, {Gone})) /\ Once(inbox', {Gone})
  BY GoneHandled DEF ServeInv
<1>2. Serving' <=> Serving
  BY <1>1 DEF Serving
<1>3. Serving' => advConfig' = {} /\ ~Either(RegA)'
  BY <1>2 DEF ServeInv
<1>4. /\ advertising' => link' = "none" /\ ~Holds(inbox', {Gone})
      /\ Holds(inbox', {Gone}) => link' = "none"
  BY <1>1 DEF ServeInv
<1>5. \A d \in DataSets : (Either(Conf(d))' => d \in advConfig') /\ AtMostOne(Conf(d))'
  BY DEF ServeInv
<1>6. Either(RegA)' => \A d \in DataSets : ~Either(Conf(d))'
  BY DEF ServeInv
<1>7. (Either(ServA)' \/ "service" \in handles'["A"]) /\ advConfig' = {} => Serving' \/ deaf'
  BY <1>2 DEF ServeInv
<1> QED
  BY <1>1, <1>3, <1>4, <1>5, <1>6, <1>7 DEF ServeInv

LEMMA ChainMoves ==
  ASSUME TypeOK, ServeInv, NEW c \in ChainCodes, NEW p \in Profiles, NEW ok \in BOOLEAN,
         Receive(<<c, p, ok>>),
         \/ UNCHANGED requested
         \/ \E n \in {"service", "char", "descr"} :
              /\ requested' = Append(requested, <<n, p>>)
              /\ n = "service" => p = "B"
  PROVE  /\ \A K \in {RegA, ServA} : Either(K)' => Either(K)
         /\ \A d \in DataSets : (Either(Conf(d))' => Either(Conf(d))) /\ AtMostOne(Conf(d))'
         /\ AtMostOne(Chain)'
         /\ p = "A" => Either(Chain)
         /\ p = "A" /\ UNCHANGED requested => ~Either(Chain)'
         /\ p = "B" => SameKind(ChainCodes, {"A"})
<1> DEFINE e == <<c, p, ok>>
<1>1. <<c, p>> \in Requests
  BY RequestTypes DEF ChainCodes
<1>2. \A codes, owners : e \in Kind(codes, owners) <=> c \in codes /\ p \in owners
  BY <1>1, EventIsRequest
<1>3. Receive(e)
  OBVIOUS
<1> HIDE DEF e
<1>4. c # "config"
  BY DEF ChainCodes
<1>5. AtMostOne(Chain) /\ \A d \in DataSets : AtMostOne(Conf(d))
  BY DEF ServeInv
<1>6. (\A d \in DataSets : e \notin Conf(d)) /\ (e \in Chain <=> p = "A")
  BY <1>2, <1>4 DEF Conf, Chain
<1>7. /\ \A d \in DataSets : e \in Conf(d) => Either(Conf(d))
      /\ e \in RegA => Either(RegA)
      /\ e \in ServA => Either(ServA)
      /\ e \in Chain => Either(Chain)
  BY <1>3, Handled DEF Conf, RegA, ServA, Chain
<1>8. CASE UNCHANGED requested
  <2>1. (Either(RegA)' => Either(RegA)) /\ (Either(ServA)' => Either(ServA))
    BY <1>3, <1>8, Handled DEF RegA, ServA
  <2>2. \A d \in DataSets : (Either(Conf(d))' => Either(Conf(d))) /\ AtMostOne(Conf(d))'
    BY <1>3, <1>5, <1>8, Handled DEF Conf
  <2>3. AtMostOne(Chain)' /\ (e \in Chain => ~Either(Chain)')
    BY <1>3, <1>5, <1>8, Handled DEF Chain
  <2>4. e \notin Chain => SameKind(ChainCodes, {"A"})
    BY <1>3, <1>8, Handled DEF Chain, SameKind
  <2>5. \A K \in {RegA, ServA} : Either(K)' => Either(K)
    BY <2>1
  <2>6. p = "B" => p # "A"
    OBVIOUS
  <2> QED
    BY <1>6, <1>7, <2>2, <2>3, <2>4, <2>5, <2>6
<1>9. CASE \E n \in {"service", "char", "descr"} :
             /\ requested' = Append(requested, <<n, p>>)
             /\ n = "service" => p = "B"
  <2>0. PICK n \in {"service", "char", "descr"} :
          /\ requested' = Append(requested, <<n, p>>)
          /\ n = "service" => p = "B"
    BY <1>9
  <2> DEFINE r == <<n, p>>
  <2>1. r \in Requests
    BY RequestTypes
  <2>2. \A codes, owners : r \in Kind(codes, owners) <=> n \in codes /\ p \in owners
    BY <2>1, EventIsRequest
  <2>3. requested' = Append(requested, r)
    BY <2>0
  <2> HIDE DEF r
  <2>4. r \notin RegA /\ (\A d \in DataSets : r \notin Conf(d)) /\ (r \in Chain <=> p = "A")
    BY <2>2 DEF RegA, Conf, Chain, ChainCodes
  <2>5. r \notin ServA
    BY <2>0, <2>2 DEF ServA
  <2>6. /\ e \notin RegA /\ r \notin RegA => SameKind({"register"}, {"A"})
        /\ e \notin ServA /\ r \notin ServA => SameKind({"service"}, {"A"})
        /\ \A d \in DataSets : e \notin Conf(d) /\ r \notin Conf(d) => SameKind({"config"}, {d})
        /\ e \notin Chain /\ r \notin Chain => SameKind(ChainCodes, {"A"})
        /\ e \in Chain /\ AtMostOne(Chain) => AtMostOne(Chain)'
    BY <1>3, <2>1, <2>3, Handled DEF RegA, ServA, Conf, Chain
  <2>7. (Either(RegA)' => Either(RegA)) /\ (Either(ServA)' => Either(ServA))
    BY <1>7, <2>4, <2>5, <2>6 DEF SameKind, RegA, ServA
  <2>8. \A d \in DataSets : (Either(Conf(d))' => Either(Conf(d))) /\ AtMostOne(Conf(d))'
    BY <1>5, <1>6, <2>4, <2>6 DEF SameKind, Conf
  <2>9. AtMostOne(Chain)'
    BY <1>5, <1>6, <2>4, <2>6 DEF SameKind, Chain
  <2>10. p = "B" => SameKind(ChainCodes, {"A"})
    BY <1>6, <2>4, <2>6
  <2>11. ~UNCHANGED requested
    <3>1. requested \in Seq(Requests)
      BY ServerQueues
    <3>2. Len(requested') = Len(requested) + 1 /\ Len(requested) \in Nat
      BY <2>1, <2>3, <3>1
    <3> QED
      BY <3>2
  <2>12. \A K \in {RegA, ServA} : Either(K)' => Either(K)
    BY <2>7
  <2> QED
    BY <1>6, <1>7, <2>8, <2>9, <2>10, <2>11, <2>12
<1> QED
  BY <1>8, <1>9

LEMMA StoreFacts ==
  ASSUME TypeOK, NEW p \in Profiles, NEW a \in Attributes, NEW ok \in BOOLEAN, Store(p, a, ok)
  PROVE  /\ \A q \in Profiles, b \in Attributes :
              ~(q = p /\ b = a) => (b \in handles'[q] <=> b \in handles[q])
         /\ a \in handles'[p] <=> ok
<1>1. handles \in [Profiles -> SUBSET Attributes]
  BY DEF TypeOK, ServerTypeOK
<1>2. CASE ok
  <2>1. handles' = [handles EXCEPT ![p] = handles[p] \cup {a}]
    BY <1>2 DEF Store
  <2> QED
    BY <1>1, <1>2, <2>1
<1>3. CASE ~ok
  <2>1. handles' = [handles EXCEPT ![p] = handles[p] \ {a}]
    BY <1>3 DEF Store
  <2> QED
    BY <1>1, <1>3, <2>1
<1> QED
  BY <1>2, <1>3

\* The callbacks that complete a registration or make an attribute.
Makes == HandleRegB \/ \E p \in Profiles :
           HandleRegFailed(p) \/ HandleCreate(p) \/ HandleAddChar(p) \/ HandleAddDescr(p)

Made(c, p, ok) ==
  /\ Receive(<<c, p, ok>>) /\ UNCHANGED <<advertising, deaf, advConfig>>
  /\ \/ UNCHANGED requested
     \/ \E n \in {"service", "char", "descr"} :
          /\ requested' = Append(requested, <<n, p>>)
          /\ n = "service" => p = "B"
  /\ (c \in Attributes /\ Store(p, c, ok)) \/ (c = "register" /\ UNCHANGED handles)
  /\ \A q \in Profiles : "descr" \in attr'[q] <=> "descr" \in attr[q]
  /\ c = "descr" => UNCHANGED requested

LEMMA MakesFacts ==
  ASSUME TypeOK, Makes
  PROVE  \E c \in ChainCodes, p \in Profiles, ok \in BOOLEAN : Made(c, p, ok)
<1> USE DEF ChainCodes, advVars, callVars, tableVars
<1>1. CASE HandleRegB
  <2>1. /\ Receive(<<"register", "B", TRUE>>) /\ UNCHANGED <<advertising, deaf, advConfig, handles, attr>>
        /\ requested' = Append(requested, <<"service", "B">>)
    BY <1>1 DEF HandleRegB
  <2>2. /\ "B" \in Profiles /\ "register" \in ChainCodes /\ "register" # "descr" /\ "B" # "A"
        /\ TRUE \in BOOLEAN
    BY DEF Profiles
  <2>3. \E n \in {"service", "char", "descr"} :
          requested' = Append(requested, <<n, "B">>) /\ (n = "service" => "B" = "B")
    BY <2>1
  <2>4. Made("register", "B", TRUE)
    BY <2>1, <2>2, <2>3 DEF Made
  <2> QED
    BY <2>2, <2>4
<1>2. ASSUME NEW p \in Profiles, HandleRegFailed(p)
      PROVE  \E ok \in BOOLEAN :
               /\ Receive(<<"register", p, ok>>) /\ ~ok
               /\ UNCHANGED <<advertising, deaf, advConfig, handles, attr, requested>>
  BY <1>2 DEF HandleRegFailed
<1>4. ASSUME NEW p \in Profiles, HandleCreate(p)
      PROVE  \E ok \in BOOLEAN :
               /\ Receive(<<"service", p, ok>>) /\ UNCHANGED <<advertising, deaf, advConfig>>
               /\ requested' = Append(requested, <<"char", p>>)
               /\ Store(p, "service", ok)
               /\ \A q \in Profiles : "descr" \in attr'[q] <=> "descr" \in attr[q]
  <2>1. PICK ok \in BOOLEAN :
          /\ Receive(<<"service", p, ok>>)
          /\ Store(p, "service", ok)
          /\ attr' = IF ok THEN [attr EXCEPT ![p] = @ \cup {"service"}] ELSE attr
          /\ requested' = Append(requested, <<"char", p>>)
          /\ UNCHANGED <<advertising, deaf, advConfig>>
    BY <1>4 DEF HandleCreate
  <2>2. attr \in [Profiles -> SUBSET Attributes]
    BY DEF TypeOK, ServerTypeOK
  <2>3. \A q \in Profiles : "descr" \in attr'[q] <=> "descr" \in attr[q]
    BY <2>1, <2>2
  <2> QED
    BY <2>1, <2>3
<1>5. ASSUME NEW p \in Profiles, HandleAddChar(p)
      PROVE  \E ok \in BOOLEAN :
               /\ Receive(<<"char", p, ok>>) /\ UNCHANGED <<advertising, deaf, advConfig, attr>>
               /\ requested' = Append(requested, <<"descr", p>>)
               /\ Store(p, "char", ok)
  BY <1>5 DEF HandleAddChar
<1>6. ASSUME NEW p \in Profiles, HandleAddDescr(p)
      PROVE  \E ok \in BOOLEAN :
               /\ Receive(<<"descr", p, ok>>) /\ UNCHANGED <<advertising, deaf, advConfig, attr, requested>>
               /\ Store(p, "descr", ok)
  BY <1>6 DEF HandleAddDescr
<1>7. /\ "service" \in Attributes /\ "char" \in Attributes /\ "descr" \in Attributes
  BY DEF Attributes
<1>8. CASE \E p \in Profiles : HandleRegFailed(p)
  <2>1. PICK p \in Profiles : HandleRegFailed(p)
    BY <1>8
  <2>2. PICK ok \in BOOLEAN :
          /\ Receive(<<"register", p, ok>>) /\ ~ok
          /\ UNCHANGED <<advertising, deaf, advConfig, handles, attr, requested>>
    BY <1>2, <2>1
  <2>3. Made("register", p, ok)
    BY <2>2 DEF Made
  <2> QED
    BY <2>3
<1>9. CASE \E p \in Profiles : HandleCreate(p)
  <2>1. PICK p \in Profiles : HandleCreate(p)
    BY <1>9
  <2>2. PICK ok \in BOOLEAN :
          /\ Receive(<<"service", p, ok>>) /\ UNCHANGED <<advertising, deaf, advConfig>>
          /\ requested' = Append(requested, <<"char", p>>)
          /\ Store(p, "service", ok)
          /\ \A q \in Profiles : "descr" \in attr'[q] <=> "descr" \in attr[q]
    BY <1>4, <2>1
  <2>3. Made("service", p, ok)
    BY <1>7, <2>2 DEF Made
  <2> QED
    BY <2>3
<1>10. CASE \E p \in Profiles : HandleAddChar(p)
  <2>1. PICK p \in Profiles : HandleAddChar(p)
    BY <1>10
  <2>2. PICK ok \in BOOLEAN :
          /\ Receive(<<"char", p, ok>>) /\ UNCHANGED <<advertising, deaf, advConfig, attr>>
          /\ requested' = Append(requested, <<"descr", p>>)
          /\ Store(p, "char", ok)
    BY <1>5, <2>1
  <2>3. Made("char", p, ok)
    BY <1>7, <2>2 DEF Made
  <2> QED
    BY <2>3
<1>11. CASE \E p \in Profiles : HandleAddDescr(p)
  <2>1. PICK p \in Profiles : HandleAddDescr(p)
    BY <1>11
  <2>2. PICK ok \in BOOLEAN :
          /\ Receive(<<"descr", p, ok>>)
          /\ UNCHANGED <<advertising, deaf, advConfig, attr, requested>>
          /\ Store(p, "descr", ok)
    BY <1>6, <2>1
  <2>3. Made("descr", p, ok)
    BY <1>7, <2>2 DEF Made
  <2> QED
    BY <2>3
<1> QED
  BY <1>1, <1>8, <1>9, <1>10, <1>11 DEF Makes

LEMMA ServeMakes == TypeOK /\ ServeInv /\ Makes /\ UNCHANGED link => ServeInv'
<1> SUFFICES ASSUME TypeOK, ServeInv, Makes, UNCHANGED link PROVE ServeInv'
  OBVIOUS
<1>1. PICK c \in ChainCodes, p \in Profiles, ok \in BOOLEAN : Made(c, p, ok)
  BY MakesFacts
<1>2. /\ Receive(<<c, p, ok>>)
      /\ \/ UNCHANGED requested
         \/ \E n \in {"service", "char", "descr"} :
              /\ requested' = Append(requested, <<n, p>>)
              /\ n = "service" => p = "B"
  BY <1>1 DEF Made
<1>3. /\ \A K \in {RegA, ServA} : Either(K)' => Either(K)
      /\ \A d \in DataSets : (Either(Conf(d))' => Either(Conf(d))) /\ AtMostOne(Conf(d))'
      /\ AtMostOne(Chain)'
  BY <1>2, ChainMoves
<1>4. <<c, p, ok>> # Gone
  BY ServerEventsDiffer
<1>5. UNCHANGED <<advertising, deaf, advConfig>>
  BY <1>1 DEF Made
<1>6. "service" \in handles'["A"] => "service" \in handles["A"] \/ Either(ServA)
  <2>1. CASE c = "service" /\ p = "A"
    <3>1. <<"service", "A">> \in Requests
      BY RequestTypes DEF Profiles
    <3>2. <<"service", "A", ok>> \in ServA
      BY <3>1, EventIsRequest DEF ServA
    <3> QED
      BY <1>2, <2>1, <3>2, Handled DEF ServA
  <2>2. CASE ~(c = "service" /\ p = "A")
    <3>1. CASE UNCHANGED handles
      BY <3>1
    <3>2. CASE c \in Attributes /\ Store(p, c, ok)
      <4>1. "service" \in Attributes /\ "A" \in Profiles
        BY DEF Attributes, Profiles
      <4> QED
        BY <2>2, <3>2, <4>1, StoreFacts
    <3> QED
      BY <1>1, <3>1, <3>2 DEF Made
  <2> QED
    BY <2>1, <2>2
<1> QED
  BY <1>2, <1>3, <1>4, <1>5, <1>6, ServeChain

LEMMA ServeServer == TypeOK /\ ServeInv /\ ServerStep => ServeInv'
<1> SUFFICES ASSUME TypeOK, ServeInv, ServerStep PROVE ServeInv'
  OBVIOUS
<1>1. UNCHANGED link /\ ServerHandles
  BY DEF ServerStep, airVars
<1>2. ASSUME NEW e \in Accesses \cup {<<"CONNECT">>}, Receive(e),
             UNCHANGED <<tableVars, advVars, callVars>>
      PROVE  ServeInv'
  <2>1. /\ UNCHANGED <<requested, advertising, deaf, advConfig, handles>>
        /\ e \in Accesses \cup Links /\ e # Gone
    BY <1>2, ServerEventsDiffer DEF tableVars, advVars, callVars, Links
  <2>2. SameKinds
    BY <1>2, <2>1, OtherHandled
  <2>3. (Holds(inbox', {Gone}) <=> Holds(inbox, {Gone})) /\ Once(inbox', {Gone})
    BY <1>2, <2>1, GoneHandled DEF ServeInv
  <2> QED
    BY <1>1, <2>1, <2>2, <2>3, ServeKept
<1>3. CASE Accessed
  BY <1>2, <1>3, AccessHandled
<1>4. CASE HandleConnected
  <2>1. Receive(<<"CONNECT">>) /\ UNCHANGED <<tableVars, advVars, callVars>>
    BY <1>4 DEF HandleConnected
  <2> QED
    BY <1>2, <2>1
<1>5. CASE HandleDisconnected
  <2>1. /\ Receive(Gone)
        /\ advertising' \/ deaf'
        /\ UNCHANGED <<advConfig, handles, requested>>
    BY <1>5, StartFacts DEF HandleDisconnected, Gone, tableVars, TypeOK
  <2>2. Gone \in Accesses \cup Links
    BY DEF Gone, Links
  <2>3. SameKinds
    BY <2>1, <2>2, OtherHandled
  <2>4. Holds(inbox, {Gone}) /\ ~Holds(inbox', {Gone}) /\ Once(inbox', {Gone})
    BY <2>1, GoneHandled DEF ServeInv
  <2>5. link' = "none" /\ advConfig = {} /\ ~Either(RegA)
    BY <1>1, <2>4 DEF ServeInv, Serving
  <2>6. /\ (Either(RegA)' <=> Either(RegA)) /\ (Either(ServA)' <=> Either(ServA))
        /\ AtMostOne(Chain)'
    <3>1. /\ {"register"} \in SUBSET RequestCodes /\ {"service"} \in SUBSET RequestCodes
          /\ ChainCodes \in SUBSET RequestCodes /\ AtMostOne(Chain)
      BY DEF RequestCodes, ChainCodes, ServeInv
    <3> QED
      BY <2>3, <3>1 DEF SameKinds, SameKind, RegA, ServA, Chain
  <2>7. \A d \in DataSets : (Either(Conf(d))' <=> Either(Conf(d))) /\ AtMostOne(Conf(d))'
    <3>1. {"config"} \in SUBSET RequestCodes /\ \A d \in DataSets : AtMostOne(Conf(d))
      BY DEF RequestCodes, ServeInv
    <3> QED
      BY <2>3, <3>1 DEF SameKinds, SameKind, Conf
  <2>8. \A d \in DataSets : (Either(Conf(d))' => d \in advConfig') /\ AtMostOne(Conf(d))'
    BY <2>1, <2>7 DEF ServeInv
  <2>9. Serving' \/ deaf'
    BY <2>1 DEF Serving
  <2> QED
    BY <2>1, <2>4, <2>5, <2>6, <2>8, <2>9 DEF ServeInv
<1> QED
  BY <1>1, <1>3, <1>4, <1>5, ServeDataSet, ServeRegA, ServeMakes DEF ServerHandles, Accessed, Makes

LEMMA ServeStack == TypeOK /\ ServeInv /\ StackStep => ServeInv'
<1> SUFFICES ASSUME TypeOK, ServeInv, StackStep PROVE ServeInv'
  OBVIOUS
<1>1. UNCHANGED link /\ Completes /\ UNCHANGED <<advertising, deaf, advConfig, handles>>
  BY DEF StackStep, airVars, Completes
<1>2. SameKinds
  BY <1>1, StackCompletes
<1> DEFINE r == Head(requested)
<1>3. PICK ok \in BOOLEAN : requested # <<>> /\ inbox' = Append(inbox, <<r[1], r[2], ok>>)
  BY <1>1 DEF Completes
<1>4. r \in Requests
  BY <1>3, ServerQueues
<1>5. <<r[1], r[2], ok>> \in ServerEvents /\ <<r[1], r[2], ok>> # Gone
  BY <1>4, ServerEventTypes, ServerEventsDiffer
<1>6. (Holds(inbox', {Gone}) <=> Holds(inbox, {Gone})) /\ Once(inbox', {Gone})
  BY <1>3, <1>5, GoneArrives DEF ServeInv
<1> QED
  BY <1>1, <1>2, <1>6, ServeKept

LEMMA ServeSame ==
  ServeInv /\ UNCHANGED <<advertising, deaf, link, advConfig, handles, inbox, requested>> => ServeInv'
  BY DEF ServeInv, Serving, Either, AtMostOne, RegA, ServA, Conf, Chain

\* A request of a central arrives.
LEMMA ServeAsked ==
  ASSUME TypeOK, ServeInv, NEW e \in Accesses, inbox' = Append(inbox, e),
         UNCHANGED <<tableVars, advVars, callVars, link>>
  PROVE  ServeInv'
<1>1. UNCHANGED <<requested, advertising, deaf, advConfig, handles>> /\ e # Gone /\ e \in ServerEvents
  BY ServerEventsDiffer, ServerEventTypes DEF tableVars, advVars, callVars
<1>2. SameKinds
  BY <1>1, OtherArrives
<1>3. (Holds(inbox', {Gone}) <=> Holds(inbox, {Gone})) /\ Once(inbox', {Gone})
  BY <1>1, GoneArrives DEF ServeInv
<1> QED
  BY <1>1, <1>2, <1>3, ServeKept

\* The connection begins or ends.
LEMMA ServeLink ==
  ASSUME TypeOK, ServeInv, NEW e \in Links, inbox' = Append(inbox, e),
         UNCHANGED <<tableVars, advConfig, callVars>>,
         \/ e = <<"CONNECT">> /\ advertising /\ ~advertising' /\ link' # "none"
         \/ e = Gone /\ link # "none" /\ link' = "none" /\ UNCHANGED advertising
  PROVE  ServeInv'
<1>1. UNCHANGED <<requested, handles>> /\ e \in ServerEvents
  BY ServerEventTypes DEF tableVars, callVars, ServerEvents
<1>2. SameKinds
  BY <1>1, OtherArrives
<1>3. Serving /\ ~Holds(inbox, {Gone}) /\ Once(inbox, {Gone})
  BY DEF Serving, ServeInv
<1>4. /\ Once(inbox', {Gone}) /\ ~advertising'
      /\ Holds(inbox', {Gone}) => link' = "none"
      /\ Serving'
  <2>1. CASE e = Gone
    <3>1. e # <<"CONNECT">>
      BY <2>1, ServerEventsDiffer
    <3>2. ~advertising /\ link' = "none" /\ UNCHANGED advertising
      BY <3>1 DEF ServeInv
    <3>3. Holds(inbox', {Gone}) /\ Once(inbox', {Gone})
      BY <1>1, <1>3, <2>1, GoneArrives
    <3> QED
      BY <3>2, <3>3 DEF Serving
  <2>2. CASE e # Gone
    <3>1. ~advertising' /\ link' # "none"
      BY <2>2
    <3>2. ~Holds(inbox', {Gone}) /\ Once(inbox', {Gone})
      BY <1>1, <1>3, <2>2, GoneArrives
    <3> QED
      BY <3>1, <3>2 DEF Serving
  <2> QED
    BY <2>1, <2>2
<1>5. /\ (Either(RegA)' <=> Either(RegA)) /\ AtMostOne(Chain)'
  <2>1. /\ {"register"} \in SUBSET RequestCodes
        /\ ChainCodes \in SUBSET RequestCodes /\ AtMostOne(Chain)
    BY DEF RequestCodes, ChainCodes, ServeInv
  <2> QED
    BY <1>2, <2>1 DEF SameKinds, SameKind, RegA, Chain
<1>6. \A d \in DataSets : (Either(Conf(d))' <=> Either(Conf(d))) /\ AtMostOne(Conf(d))'
  <2>1. {"config"} \in SUBSET RequestCodes /\ \A d \in DataSets : AtMostOne(Conf(d))
    BY DEF RequestCodes, ServeInv
  <2> QED
    BY <1>2, <2>1 DEF SameKinds, SameKind, Conf
<1>7. advConfig' = {} /\ ~Either(RegA)'
  BY <1>3, <1>5 DEF ServeInv
<1>8. \A d \in DataSets : (Either(Conf(d))' => d \in advConfig') /\ AtMostOne(Conf(d))'
  BY <1>6 DEF ServeInv
<1> QED
  BY <1>4, <1>5, <1>7, <1>8 DEF ServeInv

LEMMA ServeConnects ==
  ASSUME TypeOK, ServeInv, NEW who \in {"client", "guest"}, Connects(who)
  PROVE  ServeInv'
<1>1. /\ advertising /\ ~advertising' /\ link' # "none"
      /\ inbox' = Append(inbox, <<"CONNECT">>) /\ <<"CONNECT">> \in Links
      /\ UNCHANGED <<tableVars, advConfig, callVars>>
  BY DEF Connects, Links
<1> QED
  BY <1>1, ServeLink

LEMMA ServeAir == TypeOK /\ ServeInv /\ (ClientStep \/ ClientStack \/ Air) => ServeInv'
<1> SUFFICES ASSUME TypeOK, ServeInv, ClientStep \/ ClientStack \/ Air PROVE ServeInv'
  OBVIOUS
<1> DEFINE Still == UNCHANGED <<advertising, deaf, link, advConfig, handles, inbox, requested>>
<1> USE DEF airVars, serverVars, advVars, tableVars, callVars
<1>1. CASE ClientStep
  BY <1>1, ServeSame DEF ClientStep
<1>2. CASE \E c \in {"register", "scan_params", "reg_for_notify", "discover", "search"} : Local(c)
  <2>1. PICK c \in {"register", "scan_params", "reg_for_notify", "discover", "search"} : Local(c)
    BY <1>2
  <2> QED
    BY <2>1, ServeSame DEF Local
<1>3. CASE Opens \/ GuestConnects
  BY <1>3, ServeConnects DEF Opens, GuestConnects
<1>4. CASE NotificationArrives
  BY <1>4, ServeSame DEF NotificationArrives, Answered
<1>5. CASE WriteEnds
  <2>1. PICK packet \in {"WRITE_RSP", "EXEC_RSP", "ERROR_RSP"} : Answered(packet) /\ UNCHANGED inbox
    BY <1>5 DEF WriteEnds
  <2> QED
    BY <2>1, ServeSame DEF Answered
<1>6. CASE ClientWrites
  <2>1. PICK e \in {<<"WRITE", "A", "descr", "notify">>, <<"WRITE", "A", "char", "off">>,
                    <<"PREPARE", "A", 0>>} : inbox' = Append(inbox, e)
    BY <1>6 DEF ClientWrites
  <2>2. e \in Accesses
    BY <2>1, ServerAssumption DEF Accesses, Profiles, Values
  <2> QED
    BY <1>6, <2>1, <2>2, ServeAsked DEF ClientWrites
<1>7. CASE NextPacket
  <2>1. PICK e \in {<<"EXEC", "A">>, <<"PREPARE", "A", 1>>} : inbox' = Append(inbox, e)
    BY <1>7 DEF NextPacket
  <2>2. e \in Accesses
    <3>1. 1 \in 0 .. BufferSize
      BY ServerAssumption
    <3> QED
      BY <2>1, <3>1 DEF Accesses, Profiles
  <2> QED
    BY <1>7, <2>1, <2>2, ServeAsked DEF NextPacket, Answered
<1>8. CASE \E c \in Calls : Fails(c)
  <2>1. PICK c \in Calls : Fails(c)
    BY <1>8
  <2> QED
    BY <2>1, ServeSame DEF Fails
<1>9. CASE ScanReports \/ ScanEnds \/ OpenFails
  BY <1>9, ServeSame DEF ScanReports, ScanEnds, OpenFails
<1>10. CASE LinkEnds
  <2>1. /\ Gone \in Links /\ inbox' = Append(inbox, Gone) /\ link # "none" /\ link' = "none"
        /\ UNCHANGED <<tableVars, advConfig, callVars, advertising>>
    BY <1>10 DEF LinkEnds, Gone, Links
  <2> QED
    BY <2>1, ServeLink
<1>11. CASE GuestAsks
  BY <1>11, ServeAsked DEF GuestAsks
<1>12. CASE Registered \/ Discovered \/ Searched
  BY <1>2, <1>12 DEF Registered, Discovered, Searched
<1> QED
  BY <1>1, <1>3, <1>4, <1>5, <1>6, <1>7, <1>8, <1>9, <1>10, <1>11, <1>12
     DEF ClientStack, Air

LEMMA ServeStep == TypeOK /\ ServeInv /\ [Next]_vars => ServeInv'
<1>1. ServeInv /\ UNCHANGED vars => ServeInv'
  <2>1. UNCHANGED vars => UNCHANGED <<advertising, deaf, link, advConfig, handles, inbox, requested>>
    BY DEF vars, serverVars, tableVars, advVars, callVars, airVars
  <2> QED
    BY <2>1, ServeSame
<1> QED
  BY <1>1, ServeServer, ServeStack, ServeAir DEF Next

(* A server that has handled what it was told is advertising, or somebody  *)
(* is connected to it, unless its latest start of advertising failed; and  *)
(* it does not advertise before both parts of its data are configured,     *)
(* which happens once: a completion that comes late, or the end of a       *)
(* connection, never makes a connected server advertise                    *)
(* (gatts_demo.c, gap_event_handler and gatts_profile_a_event_handler).    *)
THEOREM FindableServer == Spec => []ServerFindable
<1>1. Init => ServeInv
  BY ServeInit
<1>2. TypeOK /\ ServeInv /\ [Next]_vars => ServeInv'
  BY ServeStep
<1>3. ServeInv => ServerFindable
  <2> SUFFICES ASSUME ServeInv PROVE ServerFindable
    OBVIOUS
  <2>1. advertising => advConfig = {}
    BY DEF ServeInv, Serving
  <2>2. ASSUME inbox = <<>>, advConfig = {}, "service" \in handles["A"]
        PROVE  /\ advertising => link = "none"
               /\ advertising \/ link # "none" \/ deaf
    <3>1. ~Holds(inbox, {Gone})
      BY <2>2 DEF Holds
    <3>2. Serving \/ deaf
      BY <2>2 DEF ServeInv
    <3>3. advertising => link = "none"
      BY DEF ServeInv
    <3> QED
      BY <3>1, <3>2, <3>3 DEF Serving
  <2> QED
    BY <2>1, <2>2 DEF ServerFindable
<1> QED
  BY <1>1, <1>2, <1>3, TypeCorrect, PTL DEF Spec

-----------------------------------------------------------------------------
(* The order of events in a list                                           *)

\* Before every element of q in Y there is one in X; after it, there is one.
Ahead(q, X, Y) ==
  \A i \in 1 .. Len(q) : q[i] \in Y => \E j \in 1 .. Len(q) : j < i /\ q[j] \in X
Followed(q, Y, X) ==
  \A i \in 1 .. Len(q) : q[i] \in Y => \E j \in 1 .. Len(q) : i < j /\ q[j] \in X

LEMMA OrderAppend ==
  ASSUME NEW S, NEW q \in Seq(S), NEW e \in S, NEW X, NEW Y
  PROVE  /\ Ahead(q, X, Y) /\ (e \in Y => Holds(q, X)) => Ahead(Append(q, e), X, Y)
         /\ Followed(q, Y, X) /\ e \notin Y => Followed(Append(q, e), Y, X)
         /\ e \in X /\ e \notin Y => Followed(Append(q, e), Y, X)
<1> DEFINE r == Append(q, e)
<1>1. Len(q) \in Nat /\ Len(r) = Len(q) + 1 /\ r[Len(q) + 1] = e
  OBVIOUS
<1>2. \A k \in 1 .. Len(q) : r[k] = q[k] /\ k \in 1 .. Len(r) /\ k < Len(q) + 1
  BY <1>1
<1>3. \A k \in 1 .. Len(r) : k \in 1 .. Len(q) \/ k = Len(q) + 1
  BY <1>1
<1>4. Len(q) + 1 \in 1 .. Len(r)
  BY <1>1
<1> HIDE DEF r
<1>5. ASSUME Ahead(q, X, Y), e \in Y => Holds(q, X) PROVE Ahead(r, X, Y)
  <2> SUFFICES ASSUME NEW i \in 1 .. Len(r), r[i] \in Y
               PROVE  \E j \in 1 .. Len(r) : j < i /\ r[j] \in X
    BY DEF Ahead
  <2>1. CASE i \in 1 .. Len(q)
    <3>1. PICK j \in 1 .. Len(q) : j < i /\ q[j] \in X
      BY <1>2, <1>5, <2>1 DEF Ahead
    <3> QED
      BY <1>2, <3>1
  <2>2. CASE i = Len(q) + 1
    <3>1. PICK j \in 1 .. Len(q) : q[j] \in X
      BY <1>1, <1>5, <2>2 DEF Holds
    <3> QED
      BY <1>2, <2>2, <3>1
  <2> QED
    BY <1>3, <2>1, <2>2
<1>6. ASSUME Followed(q, Y, X), e \notin Y PROVE Followed(r, Y, X)
  <2> SUFFICES ASSUME NEW i \in 1 .. Len(r), r[i] \in Y
               PROVE  \E j \in 1 .. Len(r) : i < j /\ r[j] \in X
    BY DEF Followed
  <2>1. i \in 1 .. Len(q)
    BY <1>1, <1>3, <1>6
  <2>2. PICK j \in 1 .. Len(q) : i < j /\ q[j] \in X
    BY <1>2, <1>6, <2>1 DEF Followed
  <2> QED
    BY <1>2, <2>2
<1>7. ASSUME e \in X, e \notin Y PROVE Followed(r, Y, X)
  <2> SUFFICES ASSUME NEW i \in 1 .. Len(r), r[i] \in Y
               PROVE  \E j \in 1 .. Len(r) : i < j /\ r[j] \in X
    BY DEF Followed
  <2>1. i \in 1 .. Len(q)
    BY <1>1, <1>3, <1>7
  <2> QED
    BY <1>1, <1>2, <1>4, <1>7, <2>1
<1> QED
  BY <1>5, <1>6, <1>7 DEF r

LEMMA OrderTail ==
  ASSUME NEW S, NEW q \in Seq(S), q # <<>>, NEW X, NEW Y
  PROVE  /\ Ahead(q, X, Y) => Head(q) \notin Y
         /\ Ahead(q, X, Y) /\ Head(q) \notin X => Ahead(Tail(q), X, Y)
         /\ Followed(q, Y, X) => Followed(Tail(q), Y, X)
<1> DEFINE r == Tail(q)
<1>1. Len(q) \in Nat /\ Len(q) > 0 /\ Len(r) = Len(q) - 1 /\ Head(q) = q[1]
  OBVIOUS
<1>2. \A k \in 1 .. Len(r) : r[k] = q[k + 1] /\ k + 1 \in 1 .. Len(q)
  BY <1>1
<1>3. \A k \in 1 .. Len(q) : k = 1 \/ (k - 1 \in 1 .. Len(r) /\ r[k - 1] = q[k])
  BY <1>1
<1>4. 1 \in 1 .. Len(q)
  BY <1>1
<1> HIDE DEF r
<1>5. Ahead(q, X, Y) => Head(q) \notin Y
  BY <1>1, <1>4 DEF Ahead
<1>6. ASSUME Ahead(q, X, Y), Head(q) \notin X PROVE Ahead(r, X, Y)
  <2> SUFFICES ASSUME NEW i \in 1 .. Len(r), r[i] \in Y
               PROVE  \E j \in 1 .. Len(r) : j < i /\ r[j] \in X
    BY DEF Ahead
  <2>1. PICK j \in 1 .. Len(q) : j < i + 1 /\ q[j] \in X
    BY <1>2, <1>6 DEF Ahead
  <2>2. j # 1
    BY <1>1, <1>6, <2>1
  <2>3. j - 1 \in 1 .. Len(r) /\ r[j - 1] \in X /\ j - 1 < i
    BY <1>3, <2>1, <2>2
  <2> QED
    BY <2>3
<1>7. ASSUME Followed(q, Y, X) PROVE Followed(r, Y, X)
  <2> SUFFICES ASSUME NEW i \in 1 .. Len(r), r[i] \in Y
               PROVE  \E j \in 1 .. Len(r) : i < j /\ r[j] \in X
    BY DEF Followed
  <2>1. PICK j \in 1 .. Len(q) : i + 1 < j /\ q[j] \in X
    BY <1>2, <1>7 DEF Followed
  <2>2. j - 1 \in 1 .. Len(r) /\ r[j - 1] \in X /\ i < j - 1
    BY <1>3, <2>1
  <2> QED
    BY <2>2
<1> QED
  BY <1>5, <1>6, <1>7 DEF r

LEMMA OrderNone ==
  ASSUME NEW q, NEW X, NEW Y
  PROVE  /\ ~Holds(q, Y) => Ahead(q, X, Y) /\ Followed(q, Y, X)
         /\ Followed(q, Y, X) /\ ~Holds(q, X) => ~Holds(q, Y)
  BY DEF Holds, Ahead, Followed

-----------------------------------------------------------------------------
(* The server knows the descriptor before a client can                     *)

Known == <<"descr", "A", TRUE>>

\* Once the descriptor of profile A exists, the server holds its handle and no
\* attribute of the profile is being made, or the server is about to be told.
DescrInv ==
  /\ "descr" \in attr["A"] =>
       \/ "descr" \in handles["A"] /\ ~Either(Chain)
       \/ Holds(inbox, {Known})
  /\ "descr" \in cache \/ "write_descr" \in calls => "descr" \in attr["A"]

LEMMA DescrInit == Init => DescrInv
<1> SUFFICES ASSUME Init PROVE DescrInv
  OBVIOUS
<1>1. attr["A"] = {} /\ cache = {} /\ calls = {"register"}
  BY DEF Init, ServerInit, ClientInit, Profiles
<1> QED
  BY <1>1 DEF DescrInv

LEMMA DescrKept ==
  ASSUME DescrInv, "descr" \in attr'["A"] <=> "descr" \in attr["A"],
         "descr" \in handles["A"] => "descr" \in handles'["A"],
         Either(Chain)' => Either(Chain),
         Holds(inbox, {Known}) => Holds(inbox', {Known}),
         "descr" \in cache' => "descr" \in attr["A"],
         "write_descr" \in calls' => "write_descr" \in calls \/ "descr" \in cache
  PROVE  DescrInv'
  BY DEF DescrInv

LEMMA KnownHandled ==
  ASSUME TypeOK, NEW e, Receive(e), e # Known, Holds(inbox, {Known})
  PROVE  Holds(inbox', {Known})
<1>1. /\ inbox \in Seq(ServerEvents) /\ inbox # <<>> /\ Head(inbox) = e
      /\ inbox' = Tail(inbox)
  BY ReceiveFacts DEF TypeOK
<1>2. Holds(inbox, {Known}) <=> e \in {Known} \/ Holds(inbox', {Known})
  BY <1>1, TailFacts
<1> QED
  BY <1>2

LEMMA KnownArrives ==
  ASSUME TypeOK, NEW e \in ServerEvents, inbox' = Append(inbox, e)
  PROVE  Holds(inbox', {Known}) <=> Holds(inbox, {Known}) \/ e = Known
<1>1. inbox \in Seq(ServerEvents)
  BY ServerQueues
<1>2. Holds(inbox', {Known}) <=> Holds(inbox, {Known}) \/ e \in {Known}
  BY <1>1, AppendFacts
<1> QED
  BY <1>2

LEMMA KnownIsChain == Known \in Chain /\ Known \notin Accesses \cup Links
<1>1. <<"descr", "A">> \in Requests
  BY RequestTypes DEF Profiles
<1>2. Known \in Chain
  BY <1>1, EventIsRequest DEF Known, Chain, ChainCodes
<1>3. ChainCodes \in SUBSET RequestCodes
  BY DEF ChainCodes, RequestCodes
<1> QED
  BY <1>2, <1>3, KindFacts DEF Chain

\* While the descriptor is made, no other event of profile A waits.
LEMMA OnlyKnown ==
  ASSUME TypeOK, ServeInv, Holds(inbox, {Known}), NEW e, Receive(e), e \in Chain
  PROVE  e = Known
<1>1. /\ inbox \in Seq(ServerEvents) /\ inbox # <<>> /\ Head(inbox) = e
  BY ReceiveFacts DEF TypeOK
<1>2. e = inbox[1] /\ 1 \in 1 .. Len(inbox)
  BY <1>1
<1>3. PICK k \in 1 .. Len(inbox) : inbox[k] = Known
  BY DEF Holds
<1>4. Once(inbox, Chain)
  BY DEF ServeInv, AtMostOne
<1>5. k = 1
  BY <1>2, <1>3, <1>4, KnownIsChain DEF Once
<1> QED
  BY <1>2, <1>3, <1>5

\* No event of the chain but the last is handled once the descriptor exists.
LEMMA DescrLast ==
  ASSUME TypeOK, ServeInv, DescrInv, "descr" \in attr["A"], NEW e, Receive(e), e \in Chain
  PROVE  e = Known
<1>1. Either(Chain)
  BY Handled DEF Chain
<1>2. Holds(inbox, {Known})
  BY <1>1 DEF DescrInv
<1> QED
  BY <1>2, OnlyKnown

LEMMA DescrMakes ==
  ASSUME TypeOK, ServeInv, DescrInv, Makes, UNCHANGED <<cache, calls>>
  PROVE  DescrInv'
<1>1. PICK c \in ChainCodes, p \in Profiles, ok \in BOOLEAN : Made(c, p, ok)
  BY MakesFacts
<1> DEFINE e == <<c, p, ok>>
<1>2. /\ Receive(e)
      /\ \/ UNCHANGED requested
         \/ \E n \in {"service", "char", "descr"} :
              /\ requested' = Append(requested, <<n, p>>)
              /\ n = "service" => p = "B"
      /\ c = "descr" => UNCHANGED requested
      /\ (c \in Attributes /\ Store(p, c, ok)) \/ UNCHANGED handles
  BY <1>1 DEF Made
<1>3. /\ p = "A" /\ UNCHANGED requested => ~Either(Chain)'
      /\ p = "B" => SameKind(ChainCodes, {"A"})
  BY <1>2, ChainMoves
<1>4. "descr" \in attr'["A"] <=> "descr" \in attr["A"]
  BY <1>1 DEF Made, Profiles
<1>5. "descr" \in cache' \/ "write_descr" \in calls' => "descr" \in attr'["A"]
  BY <1>4 DEF DescrInv
<1>6. "descr" \in Attributes /\ "A" \in Profiles
  BY DEF Attributes, Profiles
<1>7. ASSUME "descr" \in attr["A"], p = "A"
      PROVE  "descr" \in handles'["A"] /\ ~Either(Chain)'
  <2>1. <<c, p>> \in Requests
    BY RequestTypes DEF ChainCodes
  <2>2. e \in Chain
    BY <1>7, <2>1, EventIsRequest DEF Chain
  <2>3. e = Known
    BY <1>2, <1>7, <2>2, DescrLast
  <2>4. c = "descr" /\ ok
    <3>1. e[1] = c /\ e[3] = ok /\ Known[1] = "descr" /\ Known[3] = TRUE
      BY DEF Known
    <3> HIDE DEF e
    <3> QED
      BY <2>3, <3>1
  <2>5. ~Either(Chain)'
    BY <1>2, <1>3, <1>7, <2>4
  <2>6. Store(p, "descr", ok)
    BY <1>1, <2>4 DEF Made
  <2>7. "descr" \in handles'["A"]
    BY <1>6, <1>7, <2>4, <2>6, StoreFacts
  <2> QED
    BY <2>5, <2>7
<1>8. ASSUME "descr" \in attr["A"], p = "B"
      PROVE  ("descr" \in handles'["A"] /\ ~Either(Chain)') \/ Holds(inbox', {Known})
  <2>1. "descr" \in handles'["A"] <=> "descr" \in handles["A"]
    <3>1. CASE UNCHANGED handles
      BY <3>1
    <3>2. CASE c \in Attributes /\ Store(p, c, ok)
      BY <1>6, <1>8, <3>2, StoreFacts
    <3> QED
      BY <1>2, <3>1, <3>2
  <2>2. Either(Chain)' <=> Either(Chain)
    BY <1>3, <1>8 DEF SameKind, Chain
  <2>3. e # Known
    <3>1. e[2] = "B" /\ Known[2] = "A"
      BY <1>8 DEF Known
    <3> HIDE DEF e
    <3> QED
      BY <3>1
  <2>4. Holds(inbox, {Known}) => Holds(inbox', {Known})
    BY <1>2, <2>3, KnownHandled
  <2> QED
    BY <1>8, <2>1, <2>2, <2>4 DEF DescrInv
<1>9. "descr" \in attr'["A"] =>
        ("descr" \in handles'["A"] /\ ~Either(Chain)') \/ Holds(inbox', {Known})
  BY <1>4, <1>7, <1>8 DEF Profiles
<1> QED
  BY <1>5, <1>9 DEF DescrInv

\* The other callbacks of the server take no event of the chain but its first.
LEMMA OthersTake ==
  ASSUME TypeOK, ServerHandles, ~Makes
  PROVE  \E e : /\ Receive(e) /\ e # Known /\ UNCHANGED handles
                /\ "descr" \in attr'["A"] <=> "descr" \in attr["A"]
                /\ \/ e \in Chain
                   \/ e \notin Chain /\ (Either(Chain)' <=> Either(Chain))
                /\ \/ e \in Accesses /\ Accessed
                   \/ e \notin Accesses /\ UNCHANGED answers
<1> USE DEF tableVars, callVars, advVars
<1>0. Accesses \subseteq ServerEvents
  BY ServerEventTypes
<1>1. ASSUME NEW d \in DataSets, HandleDataSet(d)
      PROVE  \E e : /\ Receive(e) /\ e # Known /\ e \notin Accesses /\ e \notin Chain
                    /\ UNCHANGED requested
  <2>1. PICK ok \in BOOLEAN : Receive(<<"config", d, ok>>) /\ UNCHANGED requested
    BY <1>1 DEF HandleDataSet
  <2> DEFINE e == <<"config", d, ok>>
  <2>2. <<"config", d>> \in Requests
    BY RequestTypes
  <2>3. e \notin Chain
    BY <2>2, EventIsRequest DEF Chain, ChainCodes
  <2>4. e \in Kind({"config"}, {d}) /\ {"config"} \in SUBSET RequestCodes
    BY <2>2, EventIsRequest DEF RequestCodes
  <2>5. e \notin Accesses /\ e # Known
    BY <2>3, <2>4, KindFacts, KnownIsChain
  <2> QED
    BY <2>1, <2>3, <2>5
<1>2. CASE \E d \in DataSets : HandleDataSet(d)
  <2>1. PICK d \in DataSets : HandleDataSet(d)
    BY <1>2
  <2>2. PICK e : /\ Receive(e) /\ e # Known /\ e \notin Accesses /\ e \notin Chain
                 /\ UNCHANGED requested
    BY <1>1, <2>1
  <2>3. Either(Chain)' <=> Either(Chain)
    BY <2>2, Handled DEF Chain
  <2>4. UNCHANGED <<handles, attr, answers>>
    BY <2>1 DEF HandleDataSet
  <2> QED
    BY <2>2, <2>3, <2>4
<1>3. CASE HandleRegA
  <2>1. <<"register", "A">> \in Requests /\ {"register"} \in SUBSET RequestCodes
    BY RequestTypes DEF Profiles, RequestCodes
  <2> DEFINE e == <<"register", "A", TRUE>>
  <2>6. TRUE \in BOOLEAN
    OBVIOUS
  <2>7. \A codes, owners : e \in Kind(codes, owners) <=> "register" \in codes /\ "A" \in owners
    BY <2>1, <2>6, EventIsRequest
  <2>2. e \in Chain /\ e \in RegA
    BY <2>7 DEF Chain, ChainCodes, RegA
  <2>3. e \notin Accesses
    BY <2>1, <2>2, KindFacts DEF RegA
  <2>4. e # Known
    BY DEF Known
  <2>5. Receive(e) /\ UNCHANGED <<handles, attr, answers>>
    BY <1>3 DEF HandleRegA
  <2> QED
    BY <2>2, <2>3, <2>4, <2>5
<1>4. ASSUME NEW e \in Accesses \cup Links, Receive(e), UNCHANGED <<handles, attr, requested>>
      PROVE  e # Known /\ e \notin Chain /\ (Either(Chain)' <=> Either(Chain))
  <2>1. e # Known
    BY KnownIsChain
  <2>2. e \notin Chain
    BY KindFacts DEF Chain, ChainCodes, RequestCodes
  <2> QED
    BY <1>4, <2>1, <2>2, Handled DEF Chain
<1>5. CASE Accessed
  <2>1. PICK e \in Accesses : Receive(e)
    BY <1>5, AccessHandled
  <2>2. UNCHANGED <<handles, attr, requested>>
    BY <1>5, AccessHandled
  <2> QED
    BY <1>4, <1>5, <2>1, <2>2
<1>6. CASE HandleConnected \/ HandleDisconnected
  <2>1. PICK e \in Links : Receive(e)
    BY <1>6 DEF HandleConnected, HandleDisconnected, Links
  <2>2. UNCHANGED <<handles, attr, requested, answers>>
    BY <1>6 DEF HandleConnected, HandleDisconnected
  <2>3. e \notin Accesses
    BY ServerEventsDiffer DEF Links, Gone
  <2> QED
    BY <1>4, <2>1, <2>2, <2>3
<1> QED
  BY <1>2, <1>3, <1>5, <1>6 DEF ServerHandles, Makes, Accessed

LEMMA DescrServer == TypeOK /\ ServeInv /\ DescrInv /\ ServerStep => DescrInv'
<1> SUFFICES ASSUME TypeOK, ServeInv, DescrInv, ServerStep PROVE DescrInv'
  OBVIOUS
<1>1. UNCHANGED <<cache, calls>> /\ ServerHandles
  BY DEF ServerStep, clientVars
<1>2. CASE Makes
  BY <1>1, <1>2, DescrMakes
<1>3. CASE ~Makes
  <2>1. PICK e : /\ Receive(e) /\ e # Known /\ UNCHANGED handles
                 /\ "descr" \in attr'["A"] <=> "descr" \in attr["A"]
                 /\ e \in Chain \/ (e \notin Chain /\ (Either(Chain)' <=> Either(Chain)))
    BY <1>1, <1>3, OthersTake
  <2>2. CASE "descr" \in attr["A"]
    <3>1. Either(Chain)' => Either(Chain)
      BY <2>1, <2>2, DescrLast
    <3>2. Holds(inbox, {Known}) => Holds(inbox', {Known})
      BY <2>1, KnownHandled
    <3> QED
      BY <1>1, <2>1, <2>2, <3>1, <3>2, DescrKept
  <2>3. CASE "descr" \notin attr["A"]
    BY <1>1, <2>1, <2>3 DEF DescrInv
  <2> QED
    BY <2>2, <2>3
<1> QED
  BY <1>2, <1>3

LEMMA DescrStack == TypeOK /\ DescrInv /\ StackStep => DescrInv'
<1> SUFFICES ASSUME TypeOK, DescrInv, StackStep PROVE DescrInv'
  OBVIOUS
<1>1. UNCHANGED <<cache, calls, handles>> /\ Completes
  BY DEF StackStep, clientVars, Completes
<1>2. SameKinds
  BY <1>1, StackCompletes
<1>3. Either(Chain)' <=> Either(Chain)
  BY <1>2 DEF SameKinds, SameKind, Chain, ChainCodes, RequestCodes
<1> DEFINE r == Head(requested)
<1>4. PICK ok \in BOOLEAN :
        /\ requested # <<>> /\ inbox' = Append(inbox, <<r[1], r[2], ok>>)
        /\ attr' = IF ok /\ r[1] \in {"char", "descr"}
                   THEN [attr EXCEPT ![r[2]] = @ \cup {r[1]}] ELSE attr
  BY <1>1 DEF Completes
<1>5. r \in Requests
  BY <1>4, ServerQueues
<1> HIDE DEF r
<1>6. <<r[1], r[2], ok>> \in ServerEvents
  BY <1>5, ServerEventTypes
<1>7. Holds(inbox, {Known}) => Holds(inbox', {Known})
  BY <1>4, <1>6, KnownArrives
<1>8. attr \in [Profiles -> SUBSET Attributes] /\ "A" \in Profiles
  BY DEF TypeOK, ServerTypeOK, Profiles
<1>9. CASE ok /\ r[1] = "descr" /\ r[2] = "A"
  <2>1. <<r[1], r[2], ok>> = Known
    <3>1. ok = TRUE
      BY <1>9
    <3> QED
      BY <1>9, <3>1 DEF Known
  <2>2. Holds(inbox', {Known})
    BY <1>4, <1>6, <2>1, KnownArrives
  <2>3. "descr" \in attr'["A"]
    BY <1>4, <1>8, <1>9
  <2> QED
    BY <2>2, <2>3 DEF DescrInv
<1>10. CASE ~(ok /\ r[1] = "descr" /\ r[2] = "A")
  <2>1. "descr" \in attr'["A"] <=> "descr" \in attr["A"]
    <3>1. CASE ok /\ r[1] \in {"char", "descr"}
      <4>1. attr' = [attr EXCEPT ![r[2]] = attr[r[2]] \cup {r[1]}]
        BY <1>4, <3>1
      <4>2. CASE r[2] = "A"
        BY <1>8, <1>10, <3>1, <4>1, <4>2
      <4>3. CASE r[2] # "A"
        BY <1>8, <4>1, <4>3
      <4> QED
        BY <4>2, <4>3
    <3>2. CASE ~(ok /\ r[1] \in {"char", "descr"})
      BY <1>4, <3>2
    <3> QED
      BY <3>1, <3>2
  <2>2. "descr" \in cache' => "descr" \in attr["A"]
    BY <1>1 DEF DescrInv
  <2> QED
    BY <1>1, <1>3, <1>7, <2>1, <2>2, DescrKept
<1> QED
  BY <1>9, <1>10

LEMMA DescrSame ==
  DescrInv /\ UNCHANGED <<attr, handles, requested, inbox, cache>>
    /\ ("write_descr" \in calls' => "write_descr" \in calls \/ "descr" \in cache) => DescrInv'
  BY DEF DescrInv, Either, Chain

LEMMA DescrArrives ==
  ASSUME DescrInv, TypeOK, UNCHANGED <<attr, handles, requested>>,
         NEW e \in Accesses \cup Links, inbox' = Append(inbox, e),
         cache' = cache \/ cache' = {},
         "write_descr" \in calls' => "write_descr" \in calls
  PROVE  DescrInv'
<1>1. SameKinds
  BY OtherArrives
<1>2. Either(Chain)' <=> Either(Chain)
  BY <1>1 DEF SameKinds, SameKind, Chain, ChainCodes, RequestCodes
<1>3. e \in ServerEvents
  BY ServerEventTypes DEF ServerEvents
<1>4. Holds(inbox, {Known}) => Holds(inbox', {Known})
  BY <1>3, KnownArrives
<1>5. "descr" \in cache' => "descr" \in attr["A"]
  BY DEF DescrInv
<1> QED
  BY <1>2, <1>4, <1>5, DescrKept

LEMMA ClientAccesses ==
  /\ <<"WRITE", "A", "descr", "notify">> \in Accesses
  /\ <<"WRITE", "A", "char", "off">> \in Accesses
  /\ <<"PREPARE", "A", 0>> \in Accesses /\ <<"PREPARE", "A", 1>> \in Accesses
  /\ <<"EXEC", "A">> \in Accesses
<1>1. 0 \in 0 .. BufferSize /\ 1 \in 0 .. BufferSize
  BY ServerAssumption
<1> QED
  BY <1>1 DEF Accesses, Profiles, Values

LEMMA DescrAir == TypeOK /\ DescrInv /\ (ClientStep \/ ClientStack \/ Air) => DescrInv'
<1> SUFFICES ASSUME TypeOK, DescrInv, ClientStep \/ ClientStack \/ Air PROVE DescrInv'
  OBVIOUS
<1> USE DEF airVars, serverVars, advVars, tableVars, callVars, clientVars
<1>1. CASE ClientStep
  <2>1. ClientHandles(link = "client") /\ (link = "client") \in BOOLEAN
        /\ UNCHANGED <<attr, handles, requested, inbox>>
    BY <1>1 DEF ClientStep
  <2>2. \/ Passes(link = "client")
        \/ HandleDisconnect \/ HandleNotify \/ HandleWriteDescr(link = "client")
    BY <2>1, ClientTakes
  <2>3. UNCHANGED cache
    BY <2>2 DEF Passes, HandleDisconnect, HandleNotify, HandleWriteDescr
  <2>4. "write_descr" \in calls' => "write_descr" \in calls \/ "descr" \in cache
    BY <2>2 DEF Passes, HandleDisconnect, HandleNotify, HandleWriteDescr, Call
  <2> QED
    BY <2>1, <2>3, <2>4, DescrSame
<1>2. CASE Registered \/ Searched
  <2>1. UNCHANGED cache /\ \E c \in Calls : Local(c)
    BY <1>2 DEF Registered, Searched, Calls
  <2>2. calls' \subseteq calls /\ UNCHANGED <<attr, handles, requested, inbox>>
    BY <2>1 DEF Local
  <2> QED
    BY <2>1, <2>2, DescrSame
<1>3. CASE Discovered
  <2>1. calls' \subseteq calls /\ UNCHANGED <<attr, handles, requested, inbox>> /\ cache' = attr["A"]
    BY <1>3 DEF Discovered, Local
  <2> QED
    BY <2>1 DEF DescrInv, Either, Chain
<1>4. CASE Opens
  <2>1. /\ cache' = {} /\ ("write_descr" \in calls' => "write_descr" \in calls)
        /\ inbox' = Append(inbox, <<"CONNECT">>) /\ UNCHANGED <<attr, handles, requested>>
        /\ <<"CONNECT">> \in Links
    BY <1>4 DEF Opens, Connects, Links
  <2> QED
    BY <2>1, DescrArrives
<1>5. CASE ClientWrites
  <2>1. PICK e \in Accesses : inbox' = Append(inbox, e)
    BY <1>5, ClientAccesses DEF ClientWrites
  <2>2. UNCHANGED <<attr, handles, requested, cache, calls>>
    BY <1>5 DEF ClientWrites
  <2> QED
    BY <2>1, <2>2, DescrArrives
<1>6. CASE NotificationArrives
  BY <1>6, DescrSame DEF NotificationArrives, Answered
<1>7. CASE NextPacket
  <2>1. PICK e \in Accesses : inbox' = Append(inbox, e)
    BY <1>7, ClientAccesses DEF NextPacket
  <2>2. UNCHANGED <<attr, handles, requested, cache, calls>>
    BY <1>7 DEF NextPacket, Answered
  <2> QED
    BY <2>1, <2>2, DescrArrives
<1>8. CASE WriteEnds
  <2>1. PICK packet \in {"WRITE_RSP", "EXEC_RSP", "ERROR_RSP"},
             c \in calls \cap {"write_descr", "write_char"} :
          Answered(packet) /\ calls' = calls \ {c} /\ UNCHANGED inbox
    BY <1>8 DEF WriteEnds
  <2>2. UNCHANGED <<attr, handles, requested, cache, inbox>> /\ calls' \subseteq calls
    BY <2>1 DEF Answered
  <2> QED
    BY <2>2, DescrSame
<1>9. CASE \E c \in Calls : Fails(c)
  <2>1. PICK c \in Calls : Fails(c)
    BY <1>9
  <2>2. UNCHANGED <<attr, handles, requested, cache, inbox>> /\ calls' \subseteq calls
    BY <2>1 DEF Fails
  <2> QED
    BY <2>2, DescrSame
<1>10. CASE ScanReports \/ ScanEnds \/ OpenFails
  <2>1. UNCHANGED <<attr, handles, requested, cache, inbox>> /\ calls' \subseteq calls
    BY <1>10 DEF ScanReports, ScanEnds, OpenFails
  <2> QED
    BY <2>1, DescrSame
<1>11. CASE GuestConnects
  <2>1. /\ inbox' = Append(inbox, <<"CONNECT">>) /\ <<"CONNECT">> \in Links
        /\ UNCHANGED <<attr, handles, requested, cache, calls>>
    BY <1>11 DEF GuestConnects, Connects, Links
  <2> QED
    BY <2>1, DescrArrives
<1>12. CASE LinkEnds
  <2>1. /\ inbox' = Append(inbox, Gone) /\ Gone \in Links
        /\ UNCHANGED <<attr, handles, requested, cache>> /\ calls' \subseteq calls
    BY <1>12 DEF LinkEnds, Links, Gone
  <2> QED
    BY <2>1, DescrArrives
<1>13. CASE GuestAsks
  <2>1. PICK e \in Accesses : inbox' = Append(inbox, e)
    BY <1>13 DEF GuestAsks
  <2>2. UNCHANGED <<attr, handles, requested, cache, calls>>
    BY <1>13 DEF GuestAsks
  <2> QED
    BY <2>1, <2>2, DescrArrives
<1> QED
  BY <1>1, <1>2, <1>3, <1>4, <1>5, <1>6, <1>7, <1>8, <1>9, <1>10, <1>11, <1>12, <1>13
     DEF ClientStack, Air

LEMMA DescrStep == TypeOK /\ ServeInv /\ DescrInv /\ [Next]_vars => DescrInv'
<1>1. ASSUME DescrInv, UNCHANGED vars PROVE DescrInv'
  <2>1. UNCHANGED <<attr, handles, requested, inbox, cache, calls>>
    BY <1>1 DEF vars, serverVars, tableVars, callVars, clientVars
  <2> QED
    BY <1>1, <2>1, DescrSame
<1> QED
  BY <1>1, DescrServer, DescrStack, DescrAir DEF Next

-----------------------------------------------------------------------------
(* One request of the client is on its way at a time                       *)

Ask == <<"WRITE", "A", "descr", "notify">>

Told == heard \/ Holds(cInbox, {Heard})

\* A notification comes first, and only with the answer to a write.
NotifyFirst(q) ==
  Len(q) <= 2 /\ \A i \in 1 .. Len(q) : q[i] = "NOTIFY" <=> i = 1 /\ Len(q) = 2

\* The client's call is with the server, which handles its request or has
\* answered it; the server reaches a request for notifications only after it
\* holds the descriptor, and a call in progress is such a request or follows one.
Talking ==
  /\ Once(inbox, Accesses)
  /\ sent = <<>> => answers = <<>> /\ ~Holds(inbox, Accesses)
  /\ Holds(inbox, Accesses) => answers = <<>>
  /\ NotifyFirst(answers)
  /\ Holds(inbox, {Ask}) => /\ "descr" \in attr["A"]
                            /\ "descr" \in handles["A"] \/ Ahead(inbox, {Known}, {Ask})
  /\ sent # <<>> => Told \/ Holds(inbox, {Ask}) \/ Len(answers) = 2

\* What a lost connection leaves for the server ends with the loss.
TalkInv ==
  /\ link = "none" => Followed(inbox, Accesses, {Gone})
  /\ link # "client" => sent = <<>>
  /\ link = "client" => Talking

\* The client writes the characteristic only after it was told; the
\* acknowledgement of its request follows a notification, and is followed by
\* the end of the connection it came over, if that has ended.
AckInv ==
  /\ "write_char" \in calls => link = "client" /\ Told
  /\ link = "client" \/ Followed(cInbox, {Acked}, {Gone})
  /\ heard \/ Ahead(cInbox, {Heard}, {Acked})

LEMMA TalkInit == Init => TalkInv /\ AckInv
<1> SUFFICES ASSUME Init PROVE TalkInv /\ AckInv
  OBVIOUS
<1>1. /\ cInbox = <<>> /\ inbox = <<>> /\ link = "none" /\ calls = {"register"} /\ sent = <<>>
  BY DEF Init, ClientInit, ServerInit
<1>2. Followed(inbox, Accesses, {Gone}) /\ Followed(cInbox, {Acked}, {Gone})
      /\ Ahead(cInbox, {Heard}, {Acked})
  BY <1>1 DEF Followed, Ahead
<1> QED
  BY <1>1, <1>2 DEF TalkInv, AckInv

LEMMA TalkSame ==
  TalkInv /\ UNCHANGED <<inbox, link, sent, answers, attr, handles>> /\ (Told => Told') => TalkInv'
  BY DEF TalkInv, Talking

LEMMA AskTypes == Ask \in Accesses /\ Ask # Known /\ Gone \notin Accesses /\ Known \notin Accesses
  BY ClientAccesses, ServerEventsDiffer, KnownIsChain DEF Ask

\* Nothing is answered, and what is handled is no request of a central.
LEMMA TalkHandled ==
  ASSUME TypeOK, TalkInv, NEW e, Receive(e), e \notin Accesses,
         UNCHANGED <<link, sent, answers>>, Told => Told',
         "descr" \in attr["A"] => "descr" \in attr'["A"],
         Holds(inbox, {Ask}) /\ "descr" \in attr["A"] =>
           \/ "descr" \in handles'["A"]
           \/ e # Known /\ ("descr" \in handles["A"] => "descr" \in handles'["A"])
  PROVE  TalkInv'
<1>1. /\ inbox \in Seq(ServerEvents) /\ inbox # <<>> /\ Head(inbox) = e
      /\ inbox' = Tail(inbox)
  BY ReceiveFacts DEF TypeOK
<1>2. link = "none" => Followed(inbox', Accesses, {Gone})
  BY <1>1, OrderTail DEF TalkInv
<1>3. /\ Holds(inbox', Accesses) <=> Holds(inbox, Accesses)
      /\ Once(inbox, Accesses) => Once(inbox', Accesses)
  BY <1>1, TailFacts
<1>4. Holds(inbox', {Ask}) <=> Holds(inbox, {Ask})
  <2>1. e \notin {Ask}
    BY AskTypes
  <2> QED
    BY <1>1, <2>1, TailFacts
<1>5. Ahead(inbox, {Known}, {Ask}) /\ e # Known => Ahead(inbox', {Known}, {Ask})
  <2>1. e # Known => e \notin {Known}
    OBVIOUS
  <2> QED
    BY <1>1, <2>1, OrderTail
<1>6. link = "client" => Talking'
  <2> SUFFICES ASSUME link = "client" PROVE Talking'
    OBVIOUS
  <2>1. Talking
    BY DEF TalkInv
  <2>2. Holds(inbox', {Ask}) => /\ "descr" \in attr'["A"]
                                /\ "descr" \in handles'["A"] \/ Ahead(inbox', {Known}, {Ask})
    BY <1>4, <1>5, <2>1 DEF Talking
  <2> QED
    BY <1>3, <1>4, <2>1, <2>2 DEF Talking
<1> QED
  BY <1>2, <1>6 DEF TalkInv

\* An event of the server's own arrives.
LEMMA TalkArrives ==
  ASSUME TypeOK, TalkInv, NEW e \in ServerEvents, e \notin Accesses, inbox' = Append(inbox, e),
         UNCHANGED <<link, sent, answers, handles>>, Told => Told',
         "descr" \in attr["A"] => "descr" \in attr'["A"]
  PROVE  TalkInv'
<1>1. inbox \in Seq(ServerEvents)
  BY ServerQueues
<1>2. link = "none" => Followed(inbox', Accesses, {Gone})
  BY <1>1, OrderAppend DEF TalkInv
<1>3. /\ Holds(inbox', Accesses) <=> Holds(inbox, Accesses)
      /\ Once(inbox, Accesses) => Once(inbox', Accesses)
  BY <1>1, AppendFacts
<1>4. e \notin {Ask}
  BY AskTypes
<1>5. Holds(inbox', {Ask}) <=> Holds(inbox, {Ask})
  BY <1>1, <1>4, AppendFacts
<1>6. Ahead(inbox, {Known}, {Ask}) => Ahead(inbox', {Known}, {Ask})
  BY <1>1, <1>4, OrderAppend
<1>7. link = "client" => Talking'
  <2> SUFFICES ASSUME link = "client" PROVE Talking'
    OBVIOUS
  <2>1. Talking
    BY DEF TalkInv
  <2>2. Holds(inbox', {Ask}) => /\ "descr" \in attr'["A"]
                                /\ "descr" \in handles'["A"] \/ Ahead(inbox', {Known}, {Ask})
    BY <1>5, <1>6, <2>1 DEF Talking
  <2> QED
    BY <1>3, <1>5, <2>1, <2>2 DEF Talking
<1> QED
  BY <1>2, <1>7 DEF TalkInv

\* A request is answered by one packet, after a notification if that was asked
\* for and the server holds the descriptor.
LEMMA AccessAnswers ==
  ASSUME TypeOK, Accessed, answers = <<>>
  PROVE  \E e \in Accesses : /\ Receive(e) /\ NotifyFirst(answers') /\ answers' # <<>>
                             /\ e = Ask /\ "descr" \in handles["A"] => Len(answers') = 2
<1> PICK p \in Profiles : HandleWrite(p) \/ HandlePrepare(p) \/ HandleExec(p) \/ HandleRead(p)
  BY DEF Accessed
<1>1. ASSUME NEW packet, packet # "NOTIFY", answers' = <<packet>>
      PROVE  NotifyFirst(answers') /\ answers' # <<>> /\ Len(answers') = 1
  <2>1. /\ Len(answers') = 1 /\ answers'[1] = packet /\ answers' # <<>>
    BY <1>1
  <2> QED
    BY <1>1, <2>1 DEF NotifyFirst
<1>2. CASE HandleWrite(p)
  <2>1. PICK target \in {"char", "descr"}, value \in Values :
          /\ Receive(<<"WRITE", p, target, value>>)
          /\ answers' = answers \o (IF Notifies(p, target, value) THEN <<"NOTIFY">> ELSE <<>>)
                                \o <<"WRITE_RSP">>
    BY <1>2 DEF HandleWrite
  <2> DEFINE e == <<"WRITE", p, target, value>>
  <2>2. e \in ServerEvents /\ Receive(e)
    BY <2>1, ReceiveFacts DEF TypeOK
  <2>3. e[1] = "WRITE" /\ e[2] = p /\ e[3] = target /\ e[4] = value
    OBVIOUS
  <2>4. Ask[1] = "WRITE" /\ Ask[2] = "A" /\ Ask[3] = "descr" /\ Ask[4] = "notify"
    BY DEF Ask
  <2> HIDE DEF e
  <2>5. e \notin Completed /\ e \notin Links
    BY <2>3 DEF Completed, Links, Requests, Attributes
  <2>6. e \in Accesses
    BY <2>2, <2>5 DEF ServerEvents
  <2>7. CASE Notifies(p, target, value)
    <3>4. answers' = <<>> \o <<"NOTIFY">> \o <<"WRITE_RSP">>
      BY <2>1, <2>7
    <3>5. <<>> \in Seq(Packets) /\ "NOTIFY" \in Packets /\ "WRITE_RSP" \in Packets
      BY DEF Packets
    <3>6. answers' = Append(Append(<<>>, "NOTIFY"), "WRITE_RSP")
      BY <3>4, <3>5, TwoAppends
    <3> DEFINE q == Append(<<>>, "NOTIFY")
    <3>7. q \in Seq(Packets) /\ Len(q) = 1 /\ q[1] = "NOTIFY"
      BY <3>5
    <3> HIDE DEF q
    <3>8. answers' = Append(q, "WRITE_RSP")
      BY <3>6 DEF q
    <3>9. \A s \in Seq(Packets), x \in Packets :
            /\ Len(Append(s, x)) = Len(s) + 1 /\ Append(s, x)[Len(s) + 1] = x
            /\ Append(s, x) # <<>>
            /\ \A k \in 1 .. Len(s) : Append(s, x)[k] = s[k]
      OBVIOUS
    <3>10. Len(answers') = Len(q) + 1 /\ answers'[Len(q) + 1] = "WRITE_RSP" /\ answers' # <<>>
           /\ \A k \in 1 .. Len(q) : answers'[k] = q[k]
      BY <3>5, <3>7, <3>8, <3>9
    <3>2. Len(answers') = 2 /\ answers'[1] = "NOTIFY" /\ answers'[2] = "WRITE_RSP"
          /\ answers' # <<>>
      BY <3>7, <3>10
    <3>3. NotifyFirst(answers')
      BY <3>2 DEF NotifyFirst
    <3> QED
      BY <2>2, <2>6, <3>2, <3>3
  <2>8. CASE ~Notifies(p, target, value)
    <3>1. answers' = <<"WRITE_RSP">>
      BY <2>1, <2>8
    <3>2. ~(e = Ask /\ "descr" \in handles["A"])
      BY <2>3, <2>4, <2>8 DEF Notifies
    <3> QED
      BY <1>1, <2>2, <2>6, <3>1, <3>2
  <2> QED
    BY <2>7, <2>8
<1>3. ASSUME NEW e \in Accesses, Receive(e), e[1] # "WRITE",
             NEW packet, packet # "NOTIFY", answers' = Append(answers, packet)
      PROVE  /\ Receive(e) /\ NotifyFirst(answers') /\ answers' # <<>>
             /\ e = Ask /\ "descr" \in handles["A"] => Len(answers') = 2
  <2>1. answers' = <<packet>>
    BY <1>3
  <2>2. e # Ask
    BY <1>3 DEF Ask
  <2> QED
    BY <1>1, <1>3, <2>1, <2>2
<1>4. CASE HandlePrepare(p)
  <2>1. PICK offset \in 0 .. BufferSize, packet \in {"PREPARE_RSP", "ERROR_RSP"} :
          Receive(<<"PREPARE", p, offset>>) /\ answers' = Append(answers, packet)
    BY <1>4 DEF HandlePrepare
  <2> DEFINE e == <<"PREPARE", p, offset>>
  <2>2. e \in Accesses /\ e[1] # "WRITE" /\ packet # "NOTIFY"
    BY DEF Accesses
  <2> QED
    BY <1>3, <2>1, <2>2
<1>5. CASE HandleExec(p)
  <2>1. /\ <<"EXEC", p>> \in Accesses /\ <<"EXEC", p>>[1] # "WRITE"
    BY DEF Accesses
  <2> QED
    BY <1>3, <1>5, <2>1 DEF HandleExec
<1>6. CASE HandleRead(p)
  <2>1. /\ <<"READ", p>> \in Accesses /\ <<"READ", p>>[1] # "WRITE"
    BY DEF Accesses
  <2> QED
    BY <1>3, <1>6, <2>1 DEF HandleRead
<1> QED
  BY <1>2, <1>4, <1>5, <1>6

LEMMA TalkAccessed ==
  TypeOK /\ TalkInv /\ Accessed /\ UNCHANGED <<link, sent, heard, cInbox>> => TalkInv'
<1> SUFFICES ASSUME TypeOK, TalkInv, Accessed, UNCHANGED <<link, sent, heard, cInbox>>
             PROVE  TalkInv'
  OBVIOUS
<1>1. PICK e \in Accesses : Receive(e)
  BY AccessHandled
<1>2. /\ inbox \in Seq(ServerEvents) /\ inbox # <<>> /\ Head(inbox) = e
      /\ inbox' = Tail(inbox)
  BY <1>1, ReceiveFacts DEF TypeOK
<1>3. link = "none" => Followed(inbox', Accesses, {Gone})
  BY <1>2, OrderTail DEF TalkInv
<1>4. link = "client" => Talking'
  <2> SUFFICES ASSUME link = "client" PROVE Talking'
    OBVIOUS
  <2>1. Talking
    BY DEF TalkInv
  <2>2. Holds(inbox, Accesses) /\ ~Holds(inbox', Accesses) /\ Once(inbox', Accesses)
    BY <1>2, <2>1, TailFacts DEF Talking
  <2>3. answers = <<>> /\ sent # <<>>
    BY <2>1, <2>2 DEF Talking
  <2>4. PICK f \in Accesses : /\ Receive(f) /\ NotifyFirst(answers') /\ answers' # <<>>
                              /\ f = Ask /\ "descr" \in handles["A"] => Len(answers') = 2
    BY <2>3, AccessAnswers
  <2>5. f = e
    BY <1>1, <2>4 DEF Receive
  <2>6. ~Holds(inbox', {Ask})
    BY <2>2, AskTypes DEF Holds
  <2>7. Holds(inbox, {Ask}) => e = Ask /\ "descr" \in handles["A"]
    <3> SUFFICES ASSUME Holds(inbox, {Ask}) PROVE e = Ask /\ "descr" \in handles["A"]
      OBVIOUS
    <3>1. e \in {Ask}
      BY <1>2, <2>6, TailFacts
    <3>2. ~Ahead(inbox, {Known}, {Ask})
      BY <1>2, <3>1, OrderTail
    <3> QED
      BY <2>1, <3>1, <3>2 DEF Talking
  <2>8. Told' <=> Told
    BY DEF Told
  <2>9. Len(answers) # 2
    BY <2>3
  <2>10. Told' \/ Len(answers') = 2
    BY <2>1, <2>3, <2>4, <2>5, <2>7, <2>8, <2>9 DEF Talking
  <2> QED
    BY <2>2, <2>3, <2>4, <2>6, <2>10 DEF Talking
<1> QED
  BY <1>3, <1>4 DEF TalkInv

LEMMA TalkServer == TypeOK /\ ServeInv /\ DescrInv /\ TalkInv /\ ServerStep => TalkInv'
<1> SUFFICES ASSUME TypeOK, ServeInv, DescrInv, TalkInv, ServerStep PROVE TalkInv'
  OBVIOUS
<1>1. ServerHandles /\ UNCHANGED <<link, sent, heard, cInbox>>
  BY DEF ServerStep, clientVars, logVars, airVars
<1>2. Told' <=> Told
  BY <1>1 DEF Told
<1>3. CASE Makes
  <2>1. PICK c \in ChainCodes, p \in Profiles, ok \in BOOLEAN : Made(c, p, ok)
    BY <1>3, MakesFacts
  <2>2. UNCHANGED answers
    BY <1>3 DEF Makes, HandleRegB, HandleRegFailed, HandleCreate, HandleAddChar, HandleAddDescr
  <2> DEFINE e == <<c, p, ok>>
  <2>3. /\ Receive(e)
        /\ (c \in Attributes /\ Store(p, c, ok)) \/ UNCHANGED handles
        /\ c = "descr" => Store(p, c, ok)
        /\ "descr" \in attr'["A"] <=> "descr" \in attr["A"]
    BY <2>1 DEF Made, Profiles
  <2>4. <<c, p>> \in Requests
    BY RequestTypes DEF ChainCodes
  <2>5. e[1] = c /\ e[2] = p /\ e[3] = ok /\ Known[1] = "descr" /\ Known[2] = "A" /\ Known[3] = TRUE
    BY DEF Known
  <2>6. e \in Kind({c}, {p}) /\ (p = "A" => e \in Chain)
    BY <2>4, EventIsRequest DEF Chain
  <2> HIDE DEF e
  <2>7. e \notin Accesses
    <3>1. {c} \in SUBSET RequestCodes
      BY DEF ChainCodes, RequestCodes
    <3> QED
      BY <2>6, <3>1, KindFacts
  <2>8. "descr" \in Attributes /\ "A" \in Profiles
    BY DEF Attributes, Profiles
  <2>9. ASSUME "descr" \in attr["A"]
        PROVE  \/ "descr" \in handles'["A"]
               \/ e # Known /\ ("descr" \in handles["A"] => "descr" \in handles'["A"])
    <3>1. CASE p = "A"
      <4>1. e = Known
        BY <2>3, <2>6, <2>9, <3>1, DescrLast
      <4>2. c = "descr" /\ ok
        BY <2>5, <4>1
      <4>3. Store(p, "descr", ok)
        BY <2>3, <4>2
      <4> QED
        BY <2>8, <3>1, <4>2, <4>3, StoreFacts
    <3>2. CASE p # "A"
      <4>1. "descr" \in handles'["A"] <=> "descr" \in handles["A"]
        <5>1. CASE UNCHANGED handles
          BY <5>1
        <5>2. CASE c \in Attributes /\ Store(p, c, ok)
          BY <2>8, <3>2, <5>2, StoreFacts
        <5> QED
          BY <2>3, <5>1, <5>2
      <4> QED
        BY <2>5, <3>2, <4>1
    <3> QED
      BY <3>1, <3>2
  <2> QED
    BY <1>1, <1>2, <2>2, <2>3, <2>7, <2>9, TalkHandled
<1>4. CASE ~Makes
  <2>1. PICK e : /\ Receive(e) /\ e # Known /\ UNCHANGED handles
                 /\ "descr" \in attr'["A"] <=> "descr" \in attr["A"]
                 /\ \/ e \in Accesses /\ Accessed
                    \/ e \notin Accesses /\ UNCHANGED answers
    BY <1>1, <1>4, OthersTake
  <2>2. CASE Accessed
    BY <1>1, <2>2, TalkAccessed
  <2>3. CASE e \notin Accesses /\ UNCHANGED answers
    BY <1>1, <1>2, <2>1, <2>3, TalkHandled
  <2> QED
    BY <2>1, <2>2, <2>3
<1> QED
  BY <1>3, <1>4

LEMMA TalkStack == TypeOK /\ TalkInv /\ StackStep => TalkInv'
<1> SUFFICES ASSUME TypeOK, TalkInv, StackStep PROVE TalkInv'
  OBVIOUS
<1>1. UNCHANGED <<link, sent, heard, cInbox, handles, answers>> /\ Completes
  BY DEF StackStep, clientVars, logVars, airVars, Completes
<1> DEFINE r == Head(requested)
<1>2. PICK ok \in BOOLEAN :
        /\ requested # <<>> /\ inbox' = Append(inbox, <<r[1], r[2], ok>>)
        /\ attr' = IF ok /\ r[1] \in {"char", "descr"}
                   THEN [attr EXCEPT ![r[2]] = @ \cup {r[1]}] ELSE attr
  BY <1>1 DEF Completes
<1>3. r \in Requests
  BY <1>2, ServerQueues
<1> HIDE DEF r
<1> DEFINE e == <<r[1], r[2], ok>>
<1>4. e \in ServerEvents
  BY <1>3, ServerEventTypes
<1>5. e \notin Accesses
  <2>1. e[1] = r[1] /\ r[1] \notin AccessCodes
    BY <1>3 DEF Requests, Attributes, AccessCodes
  <2>2. \A a \in Accesses : a[1] \in AccessCodes
    BY DEF Accesses, AccessCodes
  <2> HIDE DEF e
  <2> QED
    BY <2>1, <2>2
<1>6. attr \in [Profiles -> SUBSET Attributes] /\ "A" \in Profiles
  BY DEF TypeOK, ServerTypeOK, Profiles
<1>7. "descr" \in attr["A"] => "descr" \in attr'["A"]
  <2>1. CASE ok /\ r[1] \in {"char", "descr"}
    <3>1. attr' = [attr EXCEPT ![r[2]] = attr[r[2]] \cup {r[1]}]
      BY <1>2, <2>1
    <3> QED
      BY <1>6, <3>1
  <2>2. CASE ~(ok /\ r[1] \in {"char", "descr"})
    BY <1>2, <2>2
  <2> QED
    BY <2>1, <2>2
<1>8. Told' <=> Told
  BY <1>1 DEF Told
<1>9. inbox' = Append(inbox, e)
  BY <1>2
<1> HIDE DEF e
<1> QED
  BY <1>1, <1>4, <1>5, <1>7, <1>8, <1>9, TalkArrives

\* A request of the client is sent while nothing is on its way.
LEMMA TalkAsks ==
  ASSUME TypeOK, TalkInv, link = "client", answers = <<>>, ~Holds(inbox, Accesses),
         NEW e \in Accesses, inbox' = Append(inbox, e), sent' # <<>>,
         UNCHANGED <<link, answers, attr, handles, heard, cInbox>>,
         e # Ask => Told,
         e = Ask => "descr" \in attr["A"] /\ ("descr" \in handles["A"] \/ Holds(inbox, {Known}))
  PROVE  TalkInv'
<1>1. inbox \in Seq(ServerEvents) /\ e \in ServerEvents
  BY ServerQueues, ServerEventTypes
<1>2. Once(inbox, Accesses)
  BY DEF TalkInv, Talking
<1>3. Once(inbox', Accesses)
  BY <1>1, <1>2, AppendFacts
<1>4. ~Holds(inbox, {Ask})
  BY AskTypes DEF Holds
<1>5. Holds(inbox', {Ask}) <=> e = Ask
  <2>1. Holds(inbox', {Ask}) <=> Holds(inbox, {Ask}) \/ e \in {Ask}
    BY <1>1, AppendFacts
  <2> QED
    BY <1>4, <2>1
<1>6. Ahead(inbox, {Known}, {Ask})
  BY <1>4, OrderNone
<1>7. Holds(inbox, {Known}) => Ahead(inbox', {Known}, {Ask})
  BY <1>1, <1>6, OrderAppend
<1>8. Told' <=> Told
  BY DEF Told
<1>9. NotifyFirst(answers')
  BY DEF TalkInv, Talking
<1>10. Holds(inbox', {Ask}) => /\ "descr" \in attr'["A"]
                               /\ "descr" \in handles'["A"] \/ Ahead(inbox', {Known}, {Ask})
  BY <1>5, <1>7
<1>11. Told' \/ Holds(inbox', {Ask})
  BY <1>5, <1>8
<1>12. Talking'
  BY <1>3, <1>9, <1>10, <1>11 DEF Talking
<1> QED
  BY <1>12 DEF TalkInv

\* A packet arrives: a notification is one of two; any other is the last, and
\* the client was told before if it answers a call that had not to tell it.
LEMMA PacketArrives ==
  ASSUME TypeOK, TalkInv, NEW packet, Answered(packet)
  PROVE  /\ sent # <<>> /\ ~Holds(inbox, Accesses)
         /\ packet = "NOTIFY" => NotifyFirst(answers')
         /\ packet # "NOTIFY" => answers' = <<>> /\ Told
<1>1. /\ Talking /\ answers \in Seq(Packets) /\ answers # <<>> /\ Head(answers) = packet
      /\ answers' = Tail(answers)
  BY DEF Answered, TalkInv, TypeOK, ServerTypeOK
<1>2. /\ Len(answers) \in Nat /\ Len(answers) > 0 /\ Len(answers') = Len(answers) - 1
      /\ answers[1] = packet
  BY <1>1
<1>3. /\ Len(answers) = 1 \/ (Len(answers) = 2 /\ answers[2] # "NOTIFY")
      /\ packet = "NOTIFY" <=> Len(answers) = 2
  <2>1. NotifyFirst(answers)
    BY <1>1 DEF Talking
  <2>2. (Len(answers) = 1 \/ Len(answers) = 2) /\ 1 \in 1 .. Len(answers)
    BY <1>2, <2>1 DEF NotifyFirst
  <2>3. packet = "NOTIFY" <=> Len(answers) = 2
    BY <1>2, <2>1, <2>2 DEF NotifyFirst
  <2>4. Len(answers) = 2 => answers[2] # "NOTIFY"
    BY <2>1 DEF NotifyFirst
  <2> QED
    BY <2>2, <2>3, <2>4
<1>4. sent # <<>> /\ ~Holds(inbox, Accesses)
  BY <1>1 DEF Talking
<1>5. ASSUME packet = "NOTIFY" PROVE NotifyFirst(answers')
  <2>1. Len(answers) = 2 /\ answers[2] # "NOTIFY"
    BY <1>3, <1>5
  <2>2. Len(answers') = 1
    BY <1>2, <2>1
  <2>3. Tail(answers)[1] = answers[2]
    BY <1>1, <2>1
  <2> QED
    BY <1>1, <2>1, <2>2, <2>3 DEF NotifyFirst
<1>6. ASSUME packet # "NOTIFY" PROVE answers' = <<>> /\ Told
  <2>1. Len(answers) = 1
    BY <1>3, <1>6
  <2>2. answers' = <<>>
    BY <1>1, <1>2, <2>1
  <2>3. ~Holds(inbox, {Ask})
    BY <1>4, AskTypes DEF Holds
  <2>4. Told
    BY <1>1, <1>4, <2>1, <2>3 DEF Talking
  <2> QED
    BY <2>2, <2>4
<1> QED
  BY <1>4, <1>5, <1>6

\* What the client has been told stays true until it connects again.
LEMMA ToldTail ==
  ASSUME TypeOK, cInbox # <<>>, cInbox' = Tail(cInbox), heard => heard',
         Head(cInbox) = Heard => heard'
  PROVE  Told => Told'
<1>1. cInbox \in Seq(ClientEvents)
  BY DEF TypeOK, ClientTypeOK
<1>2. Holds(cInbox, {Heard}) <=> Head(cInbox) \in {Heard} \/ Holds(cInbox', {Heard})
  BY <1>1, TailFacts
<1> QED
  BY <1>2 DEF Told

LEMMA ToldAppend ==
  ASSUME TypeOK, NEW e \in ClientEvents, cInbox' = Append(cInbox, e), UNCHANGED heard
  PROVE  Told' <=> Told \/ e = Heard
<1>1. cInbox \in Seq(ClientEvents)
  BY DEF TypeOK, ClientTypeOK
<1>2. Holds(cInbox', {Heard}) <=> Holds(cInbox, {Heard}) \/ e \in {Heard}
  BY <1>1, AppendFacts
<1> QED
  BY <1>2 DEF Told

LEMMA ToldTwice ==
  ASSUME TypeOK, NEW a \in ClientEvents, NEW b \in ClientEvents,
         cInbox' = Append(Append(cInbox, a), b), UNCHANGED heard, Told
  PROVE  Told'
<1> DEFINE q == Append(cInbox, a)
<1>1. cInbox \in Seq(ClientEvents) /\ q \in Seq(ClientEvents)
  BY DEF TypeOK, ClientTypeOK
<1>2. Holds(cInbox, {Heard}) => Holds(q, {Heard})
  BY <1>1, AppendFacts
<1>3. cInbox' = Append(q, b)
  OBVIOUS
<1> HIDE DEF q
<1>4. Holds(q, {Heard}) => Holds(cInbox', {Heard})
  BY <1>1, <1>3, AppendFacts
<1> QED
  BY <1>2, <1>4 DEF Told

\* The steps of the client's stack and of the air leave what it was told.
LEMMA ToldStays ==
  ASSUME TypeOK, Registered \/ Discovered \/ Searched \/ ScanReports \/ ScanEnds \/ OpenFails
                   \/ \E c \in Calls : Fails(c)
  PROVE  Told => Told'
<1> USE DEF logVars, clientVars
<1>0. cInbox \in Seq(ClientEvents)
  BY DEF TypeOK, ClientTypeOK
<1>1. CASE Registered
  <2>1. PICK c \in Calls : cInbox' = Append(cInbox, <<c, TRUE>>) /\ UNCHANGED heard
    BY <1>1 DEF Registered, Local, Calls
  <2> QED
    BY <2>1, ClientEventTypes, ToldAppend
<1>2. CASE Discovered
  <2>1. "discover" \in Calls /\ cInbox' = Append(cInbox, <<"discover", TRUE>>) /\ UNCHANGED heard
    BY <1>2 DEF Discovered, Local, Calls
  <2> QED
    BY <2>1, ClientEventTypes, ToldAppend
<1>3. CASE Searched
  <2> DEFINE a == <<"SEARCH_RES">>
             b == <<"search", TRUE>>
  <2>1. a \in ClientEvents /\ b \in ClientEvents
    BY ClientEventTypes DEF Calls
  <2>2. /\ UNCHANGED heard
        /\ cInbox' = cInbox \o <<a>> \o <<b>> \/ cInbox' = cInbox \o <<>> \o <<b>>
    BY <1>3 DEF Searched, Local
  <2> HIDE DEF a, b
  <2>3. /\ cInbox \o <<a>> \o <<b>> = Append(Append(cInbox, a), b)
        /\ cInbox \o <<>> \o <<b>> = Append(cInbox, b)
    BY <1>0, <2>1, TwoAppends
  <2> QED
    BY <2>1, <2>2, <2>3, ToldAppend, ToldTwice
<1>4. CASE ScanReports
  BY <1>4, ClientEventTypes, ToldAppend DEF ScanReports
<1>5. CASE ScanEnds
  BY <1>5 DEF ScanEnds, Told
<1>6. CASE OpenFails
  <2> DEFINE a == <<"DISCONNECT">>
             b == <<"open", FALSE>>
  <2>1. a \in ClientEvents /\ b \in ClientEvents
    BY ClientEventTypes DEF Calls
  <2>2. /\ UNCHANGED heard
        /\ cInbox' = cInbox \o <<a>> \o <<b>> \/ cInbox' = cInbox \o <<>> \o <<b>>
    BY <1>6 DEF OpenFails
  <2> HIDE DEF a, b
  <2>3. /\ cInbox \o <<a>> \o <<b>> = Append(Append(cInbox, a), b)
        /\ cInbox \o <<>> \o <<b>> = Append(cInbox, b)
    BY <1>0, <2>1, TwoAppends
  <2> QED
    BY <2>1, <2>2, <2>3, ToldAppend, ToldTwice
<1>7. CASE \E c \in Calls : Fails(c)
  <2>1. PICK c \in Calls : Fails(c)
    BY <1>7
  <2>2. cInbox' = Append(cInbox, <<c, FALSE>>) /\ UNCHANGED heard
    BY <2>1 DEF Fails
  <2> QED
    BY <2>2, ClientEventTypes, ToldAppend
<1> QED
  BY <1>1, <1>2, <1>3, <1>4, <1>5, <1>6, <1>7

LEMMA TalkAir == TypeOK /\ ServeInv /\ DescrInv /\ TalkInv /\ AckInv
                   /\ (ClientStep \/ ClientStack \/ Air) => TalkInv'
<1> SUFFICES ASSUME TypeOK, ServeInv, DescrInv, TalkInv, AckInv,
                    ClientStep \/ ClientStack \/ Air
             PROVE  TalkInv'
  OBVIOUS
<1> USE DEF airVars, serverVars, advVars, tableVars, callVars, clientVars, logVars
<1>0. inbox \in Seq(ServerEvents)
  BY ServerQueues
<1>1. CASE ClientStep
  <2>1. /\ ClientHandles(link = "client") /\ (link = "client") \in BOOLEAN
        /\ UNCHANGED <<inbox, link, sent, answers, attr, handles>>
    BY <1>1 DEF ClientStep
  <2>2. /\ cInbox # <<>> /\ cInbox' = Tail(cInbox)
        /\ \/ Passes(link = "client")
           \/ Head(cInbox) = Gone /\ HandleDisconnect
           \/ Head(cInbox) = Heard /\ HandleNotify
           \/ Head(cInbox) = Acked /\ HandleWriteDescr(link = "client")
    BY <2>1, ClientTakes
  <2>3. (heard => heard') /\ (Head(cInbox) = Heard => heard')
    BY <2>2, ClientEventsDiffer DEF Passes, HandleDisconnect, HandleNotify, HandleWriteDescr
  <2>4. Told => Told'
    BY <2>2, <2>3, ToldTail
  <2> QED
    BY <2>1, <2>4, TalkSame
<1>2. CASE Registered \/ Discovered \/ Searched \/ ScanReports \/ ScanEnds \/ OpenFails
             \/ \E c \in Calls : Fails(c)
  <2>1. UNCHANGED <<inbox, link, sent, answers, attr, handles>>
    BY <1>2 DEF Registered, Discovered, Searched, Local, ScanReports, ScanEnds, OpenFails, Fails
  <2> QED
    BY <1>2, <2>1, ToldStays, TalkSame
<1>3. CASE Opens \/ GuestConnects
  <2>1. PICK who \in {"client", "guest"} : Connects(who)
    BY <1>3 DEF Opens, GuestConnects
  <2>2. /\ link = "none" /\ advertising /\ link' = who /\ answers' = <<>>
        /\ inbox' = Append(inbox, <<"CONNECT">>) /\ UNCHANGED sent
    BY <2>1 DEF Connects
  <2>3. sent = <<>> /\ ~Holds(inbox, Accesses)
    <3>1. ~Holds(inbox, {Gone})
      BY <2>2 DEF ServeInv
    <3>2. sent = <<>> /\ Followed(inbox, Accesses, {Gone})
      BY <2>2 DEF TalkInv
    <3> QED
      BY <3>1, <3>2, OrderNone
  <2>4. <<"CONNECT">> \in ServerEvents /\ <<"CONNECT">> \notin Accesses
    BY ServerEventTypes, ServerEventsDiffer
  <2>5. ~Holds(inbox', Accesses)
    BY <1>0, <2>2, <2>3, <2>4, AppendFacts
  <2>6. ~Holds(inbox', {Ask})
    BY <2>5, AskTypes DEF Holds
  <2>7. Once(inbox', Accesses) /\ NotifyFirst(answers')
    BY <2>2, <2>5 DEF Holds, Once, NotifyFirst
  <2>8. Talking'
    BY <2>2, <2>3, <2>5, <2>6, <2>7 DEF Talking
  <2>9. link' # "none" /\ sent' = <<>>
    BY <2>2, <2>3
  <2> QED
    BY <2>8, <2>9 DEF TalkInv
<1>4. CASE ClientWrites
  <2>1. /\ link = "client" /\ sent = <<>>
        /\ UNCHANGED <<link, answers, attr, handles, heard, cInbox>>
    BY <1>4 DEF ClientWrites
  <2>2. answers = <<>> /\ ~Holds(inbox, Accesses)
    BY <2>1 DEF TalkInv, Talking
  <2>3. \/ "write_descr" \in calls /\ sent' = <<"WRITE_RSP">> /\ inbox' = Append(inbox, Ask)
        \/ "write_char" \in calls /\ sent' = <<"WRITE_RSP">>
             /\ inbox' = Append(inbox, <<"WRITE", "A", "char", "off">>)
        \/ "write_char" \in calls /\ sent' = <<"PREPARE_RSP", "PREPARE_RSP", "EXEC_RSP">>
             /\ inbox' = Append(inbox, <<"PREPARE", "A", 0>>)
    BY <1>4 DEF ClientWrites, Ask
  <2>4. CASE "write_descr" \in calls /\ sent' = <<"WRITE_RSP">> /\ inbox' = Append(inbox, Ask)
    <3>1. "descr" \in attr["A"] /\ ("descr" \in handles["A"] \/ Holds(inbox, {Known}))
      BY <2>4 DEF DescrInv
    <3>2. sent' # <<>>
      BY <2>4
    <3> QED
      BY <2>1, <2>2, <2>4, <3>1, <3>2, AskTypes, TalkAsks
  <2>5. ASSUME "write_char" \in calls, sent' # <<>>, NEW e \in Accesses, e # Ask,
               inbox' = Append(inbox, e)
        PROVE  TalkInv'
    <3>1. Told
      BY <2>5 DEF AckInv
    <3> QED
      BY <2>1, <2>2, <2>5, <3>1, TalkAsks
  <2>6. <<"WRITE", "A", "char", "off">> # Ask /\ <<"PREPARE", "A", 0>> # Ask
    BY DEF Ask
  <2>7. sent' # <<>>
    <3>1. <<"WRITE_RSP">> # <<>> /\ <<"PREPARE_RSP", "PREPARE_RSP", "EXEC_RSP">> # <<>>
      OBVIOUS
    <3> QED
      BY <2>3, <3>1
  <2> QED
    BY <2>3, <2>4, <2>5, <2>6, <2>7, ClientAccesses
<1>5. CASE NotificationArrives
  <2>1. /\ Answered("NOTIFY") /\ cInbox' = Append(cInbox, Heard) /\ link = "client"
        /\ UNCHANGED <<inbox, link, sent, attr, handles, heard>>
    BY <1>5 DEF NotificationArrives, Answered, Heard
  <2>2. sent # <<>> /\ ~Holds(inbox, Accesses) /\ NotifyFirst(answers')
    BY <2>1, PacketArrives
  <2>3. Told'
    BY <2>1, ClientEventTypes, ToldAppend DEF Heard
  <2>4. Once(inbox', Accesses) /\ ~Holds(inbox', Accesses)
    BY <2>1, <2>2 DEF Holds, Once
  <2>5. ~Holds(inbox', {Ask})
    BY <2>4, AskTypes DEF Holds
  <2>6. sent' # <<>>
    BY <2>1, <2>2
  <2>7. Talking'
    BY <2>2, <2>3, <2>4, <2>5, <2>6 DEF Talking
  <2> QED
    BY <2>1, <2>7 DEF TalkInv
<1>6. CASE NextPacket
  <2>1. /\ Answered("PREPARE_RSP") /\ Len(sent) > 1 /\ sent' = Tail(sent) /\ link = "client"
        /\ UNCHANGED <<link, attr, handles, heard, cInbox>>
    BY <1>6 DEF NextPacket, Answered
  <2>2. ~Holds(inbox, Accesses) /\ answers' = <<>> /\ Told
    BY <2>1, PacketArrives
  <2>3. PICK e \in {<<"EXEC", "A">>, <<"PREPARE", "A", 1>>} : inbox' = Append(inbox, e)
    BY <1>6 DEF NextPacket
  <2>4. e \in Accesses /\ e # Ask
    BY ClientAccesses DEF Ask
  <2>5. e \in ServerEvents /\ e \notin {Ask}
    BY <2>4, ServerEventTypes
  <2>6. Once(inbox', Accesses)
    <3>1. Once(inbox, Accesses)
      BY <2>2 DEF Holds, Once
    <3> QED
      BY <1>0, <2>2, <2>3, <2>5, <3>1, AppendFacts
  <2>7. ~Holds(inbox', {Ask})
    <3>1. ~Holds(inbox, {Ask})
      BY <2>2, AskTypes DEF Holds
    <3> QED
      BY <1>0, <2>3, <2>5, <3>1, AppendFacts
  <2>8. sent' # <<>>
    <3>1. sent \in Seq(Packets)
      BY DEF TypeOK
    <3>2. Len(sent') = Len(sent) - 1 /\ Len(sent) \in Nat
      BY <2>1, <3>1
    <3> QED
      BY <2>1, <3>2
  <2>9. Told' /\ NotifyFirst(answers')
    BY <2>1, <2>2 DEF Told, NotifyFirst
  <2>10. Talking'
    BY <2>2, <2>6, <2>7, <2>8, <2>9 DEF Talking
  <2> QED
    BY <2>1, <2>10 DEF TalkInv
<1>7. CASE WriteEnds
  <2>1. PICK packet \in {"WRITE_RSP", "EXEC_RSP", "ERROR_RSP"} :
          /\ Answered(packet) /\ sent' = <<>> /\ UNCHANGED inbox
    BY <1>7 DEF WriteEnds
  <2>2. ~Holds(inbox, Accesses) /\ answers' = <<>> /\ link = "client" /\ UNCHANGED link
    BY <2>1, PacketArrives DEF Answered
  <2>3. ~Holds(inbox', Accesses) /\ Once(inbox', Accesses) /\ NotifyFirst(answers')
    BY <2>1, <2>2 DEF Holds, Once, NotifyFirst
  <2>4. ~Holds(inbox', {Ask})
    BY <2>3, AskTypes DEF Holds
  <2>5. Talking'
    BY <2>1, <2>2, <2>3, <2>4 DEF Talking
  <2> QED
    BY <2>2, <2>5 DEF TalkInv
<1>8. CASE LinkEnds
  <2>1. inbox' = Append(inbox, Gone) /\ link' = "none" /\ sent' = <<>>
    BY <1>8 DEF LinkEnds, Gone
  <2>2. Gone \in ServerEvents /\ Gone \in {Gone} /\ Gone \notin Accesses
    BY ServerEventTypes, AskTypes DEF Gone
  <2>3. Followed(inbox', Accesses, {Gone})
    BY <1>0, <2>1, <2>2, OrderAppend
  <2> QED
    BY <2>1, <2>3 DEF TalkInv
<1>9. CASE GuestAsks
  <2>1. link = "guest" /\ UNCHANGED <<link, sent>>
    BY <1>9 DEF GuestAsks
  <2> QED
    BY <2>1 DEF TalkInv
<1> QED
  BY <1>1, <1>2, <1>3, <1>4, <1>5, <1>6, <1>7, <1>8, <1>9 DEF ClientStack, Air

LEMMA TalkStep == TypeOK /\ ServeInv /\ DescrInv /\ TalkInv /\ AckInv /\ [Next]_vars => TalkInv'
<1>1. ASSUME TalkInv, UNCHANGED vars PROVE TalkInv'
  <2>1. UNCHANGED <<inbox, link, sent, answers, attr, handles, heard, cInbox>>
    BY <1>1 DEF vars, serverVars, tableVars, clientVars, logVars, airVars
  <2>2. Told => Told'
    BY <2>1 DEF Told
  <2> QED
    BY <1>1, <2>1, <2>2, TalkSame
<1> QED
  BY <1>1, TalkServer, TalkStack, TalkAir DEF Next

-----------------------------------------------------------------------------
(* An acknowledgement follows a notification                               *)

LEMMA AckSame ==
  AckInv /\ UNCHANGED <<calls, link, heard, cInbox>> => AckInv'
  BY DEF AckInv, Told

\* An event that is no acknowledgement leaves the order as it is.
LEMMA AckOrder ==
  ASSUME NEW q \in Seq(ClientEvents), NEW e \in ClientEvents, e # Acked
  PROVE  /\ Append(q, e) \in Seq(ClientEvents)
         /\ Ahead(q, {Heard}, {Acked}) => Ahead(Append(q, e), {Heard}, {Acked})
         /\ Followed(q, {Acked}, {Gone}) => Followed(Append(q, e), {Acked}, {Gone})
         /\ e = Gone => Followed(Append(q, e), {Acked}, {Gone})
<1>1. Append(q, e) \in Seq(ClientEvents)
  OBVIOUS
<1>2. e \notin {Acked}
  OBVIOUS
<1>3. e = Gone => e \in {Gone}
  OBVIOUS
<1> QED
  BY <1>1, <1>2, <1>3, OrderAppend

LEMMA AckArrives ==
  ASSUME TypeOK, AckInv, NEW e \in ClientEvents, e # Acked, cInbox' = Append(cInbox, e),
         UNCHANGED <<link, heard>>, calls' \subseteq calls
  PROVE  AckInv'
<1>1. cInbox \in Seq(ClientEvents)
  BY DEF TypeOK, ClientTypeOK
<1>2. Told => Told'
  BY ToldAppend
<1>3. /\ Ahead(cInbox, {Heard}, {Acked}) => Ahead(cInbox', {Heard}, {Acked})
      /\ Followed(cInbox, {Acked}, {Gone}) => Followed(cInbox', {Acked}, {Gone})
  BY <1>1, AckOrder
<1> QED
  BY <1>2, <1>3 DEF AckInv

LEMMA AckTwice ==
  ASSUME TypeOK, AckInv, NEW a \in ClientEvents, NEW b \in ClientEvents, a # Acked, b # Acked,
         cInbox' = Append(Append(cInbox, a), b), UNCHANGED <<link, heard>>, calls' \subseteq calls
  PROVE  AckInv'
<1> DEFINE q == Append(cInbox, a)
<1>1. cInbox \in Seq(ClientEvents)
  BY DEF TypeOK, ClientTypeOK
<1>2. Told => Told'
  BY ToldTwice
<1>3. /\ q \in Seq(ClientEvents) /\ cInbox' = Append(q, b)
      /\ Ahead(cInbox, {Heard}, {Acked}) => Ahead(q, {Heard}, {Acked})
      /\ Followed(cInbox, {Acked}, {Gone}) => Followed(q, {Acked}, {Gone})
  BY <1>1, AckOrder
<1> HIDE DEF q
<1>4. /\ Ahead(q, {Heard}, {Acked}) => Ahead(cInbox', {Heard}, {Acked})
      /\ Followed(q, {Acked}, {Gone}) => Followed(cInbox', {Acked}, {Gone})
  BY <1>3, AckOrder
<1> QED
  BY <1>2, <1>3, <1>4 DEF AckInv

LEMMA AckClient == TypeOK /\ AckInv /\ ClientStep => AckInv'
<1> SUFFICES ASSUME TypeOK, AckInv, ClientStep PROVE AckInv'
  OBVIOUS
<1>1. ClientHandles(link = "client") /\ (link = "client") \in BOOLEAN /\ UNCHANGED link
  BY DEF ClientStep, airVars
<1>2. /\ cInbox \in Seq(ClientEvents) /\ cInbox # <<>> /\ cInbox' = Tail(cInbox)
      /\ \/ Passes(link = "client")
         \/ Head(cInbox) = Gone /\ HandleDisconnect
         \/ Head(cInbox) = Heard /\ HandleNotify
         \/ Head(cInbox) = Acked /\ HandleWriteDescr(link = "client")
  BY <1>1, ClientTakes
<1>3. (heard => heard') /\ (Head(cInbox) = Heard => heard')
  BY <1>2, ClientEventsDiffer DEF Passes, HandleDisconnect, HandleNotify, HandleWriteDescr, logVars
<1>4. Told => Told'
  BY <1>2, <1>3, ToldTail
<1>5. Followed(cInbox, {Acked}, {Gone}) => Followed(cInbox', {Acked}, {Gone})
  BY <1>2, OrderTail
<1>6. Ahead(cInbox, {Heard}, {Acked}) => Head(cInbox) # Acked
  <2>1. Ahead(cInbox, {Heard}, {Acked}) => Head(cInbox) \notin {Acked}
    BY <1>2, OrderTail
  <2> QED
    BY <2>1
<1>7. heard' \/ Ahead(cInbox', {Heard}, {Acked})
  <2>1. CASE heard \/ Head(cInbox) = Heard
    BY <1>3, <2>1
  <2>2. CASE ~heard /\ Head(cInbox) # Heard
    <3>1. Ahead(cInbox, {Heard}, {Acked}) /\ Head(cInbox) \notin {Heard}
      BY <2>2 DEF AckInv
    <3> QED
      BY <1>2, <3>1, OrderTail
  <2> QED
    BY <2>1, <2>2
<1>8. "write_char" \in calls' => link = "client" /\ Told'
  <2>1. CASE "write_char" \in calls
    BY <1>4, <2>1 DEF AckInv
  <2>2. CASE "write_char" \notin calls
    <3> SUFFICES ASSUME "write_char" \in calls' PROVE link = "client" /\ Told'
      OBVIOUS
    <3>1. Head(cInbox) = Acked /\ HandleWriteDescr(link = "client")
      BY <1>2, <2>2 DEF Passes, HandleDisconnect, HandleNotify
    <3>2. link = "client"
      BY <2>2, <3>1 DEF HandleWriteDescr
    <3>3. heard'
      BY <1>3, <1>6, <3>1 DEF AckInv
    <3> QED
      BY <3>2, <3>3 DEF Told
  <2> QED
    BY <2>1, <2>2
<1> QED
  BY <1>1, <1>5, <1>7, <1>8 DEF AckInv

LEMMA AckAir == TypeOK /\ AimInv /\ TalkInv /\ AckInv /\ (ClientStack \/ Air) => AckInv'
<1> SUFFICES ASSUME TypeOK, AimInv, TalkInv, AckInv, ClientStack \/ Air PROVE AckInv'
  OBVIOUS
<1> USE DEF airVars, clientVars, logVars
<1>0. cInbox \in Seq(ClientEvents)
  BY DEF TypeOK, ClientTypeOK
<1>1. CASE Registered
  <2>1. PICK c \in {"register", "scan_params", "reg_for_notify"} :
          Local(c) /\ cInbox' = Append(cInbox, <<c, TRUE>>)
    BY <1>1 DEF Registered
  <2>2. <<c, TRUE>> \in ClientEvents /\ <<c, TRUE>> # Acked
    BY ClientEventTypes, ClientEventsDiffer DEF Calls
  <2>3. UNCHANGED <<link, heard>> /\ calls' \subseteq calls
    BY <2>1 DEF Local
  <2> QED
    BY <2>1, <2>2, <2>3, AckArrives
<1>2. CASE Discovered
  <2>1. <<"discover", TRUE>> \in ClientEvents /\ <<"discover", TRUE>> # Acked
    BY ClientEventTypes, ClientEventsDiffer DEF Calls
  <2>2. /\ UNCHANGED <<link, heard>> /\ calls' \subseteq calls
        /\ cInbox' = Append(cInbox, <<"discover", TRUE>>)
    BY <1>2 DEF Discovered, Local
  <2> QED
    BY <2>1, <2>2, AckArrives
<1>3. CASE Searched \/ OpenFails
  <2>1. ASSUME NEW a \in ClientEvents, NEW b \in ClientEvents, a # Acked, b # Acked,
               UNCHANGED <<link, heard>>, calls' \subseteq calls,
               cInbox' = cInbox \o <<a>> \o <<b>> \/ cInbox' = cInbox \o <<>> \o <<b>>
        PROVE  AckInv'
    <3>1. /\ cInbox \o <<a>> \o <<b>> = Append(Append(cInbox, a), b)
          /\ cInbox \o <<>> \o <<b>> = Append(cInbox, b)
      BY <1>0, TwoAppends
    <3>2. CASE cInbox' = Append(Append(cInbox, a), b)
      BY <2>1, <3>2, AckTwice
    <3>3. CASE cInbox' = Append(cInbox, b)
      BY <2>1, <3>3, AckArrives
    <3> QED
      BY <2>1, <3>1, <3>2, <3>3
  <2> DEFINE a == <<"SEARCH_RES">>
             b == <<"search", TRUE>>
             c == <<"DISCONNECT">>
             d == <<"open", FALSE>>
  <2>2. /\ a \in ClientEvents /\ b \in ClientEvents /\ c \in ClientEvents /\ d \in ClientEvents
        /\ a # Acked /\ b # Acked /\ c # Acked /\ d # Acked
    BY ClientEventTypes, ClientEventsDiffer DEF Calls, Gone
  <2>3. UNCHANGED <<link, heard>> /\ calls' \subseteq calls
    BY <1>3 DEF Searched, Local, OpenFails
  <2>4. \/ cInbox' = cInbox \o <<a>> \o <<b>> \/ cInbox' = cInbox \o <<>> \o <<b>>
        \/ cInbox' = cInbox \o <<c>> \o <<d>> \/ cInbox' = cInbox \o <<>> \o <<d>>
    BY <1>3 DEF Searched, OpenFails
  <2> HIDE DEF a, b, c, d
  <2> QED
    BY <2>1, <2>2, <2>3, <2>4
<1>4. CASE Opens
  <2>1. /\ "open" \in calls /\ link = "none" /\ link' = "client"
        /\ calls' = (calls \ {"open"}) \cup {"discover"}
        /\ cInbox' = cInbox \o <<<<"CONNECT">>, <<"open", TRUE>>>>
    BY <1>4 DEF Opens, Connects
  <2> DEFINE a == <<"CONNECT">>
             b == <<"open", TRUE>>
  <2>2. /\ a \in ClientEvents /\ b \in ClientEvents /\ a # Acked /\ b # Acked
        /\ cInbox' = cInbox \o <<a, b>>
    BY <2>1, ClientEventTypes, ClientEventsDiffer DEF Calls
  <2> HIDE DEF a, b
  <2>3. cInbox' = Append(Append(cInbox, a), b)
    BY <1>0, <2>2, TwoAppends
  <2>4. "write_char" \notin calls'
    BY <2>1 DEF AckInv
  <2>5. Ahead(cInbox, {Heard}, {Acked})
    <3>1. ~Holds(cInbox, {Gone})
      BY <2>1 DEF AimInv
    <3>2. Followed(cInbox, {Acked}, {Gone})
      BY <2>1 DEF AckInv
    <3> QED
      BY <3>1, <3>2, OrderNone
  <2>6. Ahead(cInbox', {Heard}, {Acked})
    <3> DEFINE q == Append(cInbox, a)
    <3>1. /\ q \in Seq(ClientEvents) /\ cInbox' = Append(q, b)
          /\ Ahead(q, {Heard}, {Acked})
      BY <1>0, <2>2, <2>3, <2>5, AckOrder
    <3> HIDE DEF q
    <3> QED
      BY <2>2, <3>1, AckOrder
  <2> QED
    BY <2>1, <2>4, <2>6 DEF AckInv
<1>5. CASE ClientWrites \/ NextPacket
  BY <1>5, AckSame DEF ClientWrites, NextPacket, Answered
<1>6. CASE NotificationArrives
  <2>1. /\ cInbox' = Append(cInbox, Heard) /\ UNCHANGED <<link, heard, calls>>
        /\ Heard \in ClientEvents /\ Heard # Acked
    BY <1>6, ClientEventTypes, ClientEventsDiffer DEF NotificationArrives, Answered, Heard
  <2> QED
    BY <2>1, AckArrives
<1>7. CASE WriteEnds
  <2>1. PICK packet \in {"WRITE_RSP", "EXEC_RSP", "ERROR_RSP"},
             c \in calls \cap {"write_descr", "write_char"} :
          /\ Answered(packet)
          /\ calls' = calls \ {c}
          /\ cInbox' = Append(cInbox, <<c, packet # "ERROR_RSP">>)
    BY <1>7 DEF WriteEnds
  <2> DEFINE ok == packet # "ERROR_RSP"
             e == <<c, ok>>
  <2>2. /\ c \in Calls /\ ok \in BOOLEAN /\ link = "client" /\ UNCHANGED <<link, heard>>
        /\ packet # "NOTIFY"
    BY <2>1 DEF Answered, Calls
  <2>3. cInbox' = Append(cInbox, e)
    BY <2>1
  <2> HIDE DEF ok
  <2>4. e \in ClientEvents
    BY <2>2, ClientEventTypes
  <2>5. Told
    BY <2>1, <2>2, PacketArrives
  <2> HIDE DEF e
  <2>6. Told'
    BY <2>2, <2>3, <2>4, <2>5, ToldAppend
  <2>7. heard' \/ Ahead(cInbox', {Heard}, {Acked})
    <3>1. CASE heard
      BY <2>2, <3>1
    <3>2. CASE ~heard
      <4>1. Ahead(cInbox, {Heard}, {Acked}) /\ Holds(cInbox, {Heard})
        BY <2>5, <3>2 DEF AckInv, Told
      <4> QED
        BY <1>0, <2>3, <2>4, <4>1, OrderAppend
    <3> QED
      BY <3>1, <3>2
  <2> QED
    BY <2>2, <2>6, <2>7 DEF AckInv
<1>8. CASE \E c \in Calls : Fails(c)
  <2>1. PICK c \in Calls : Fails(c)
    BY <1>8
  <2>2. <<c, FALSE>> \in ClientEvents /\ <<c, FALSE>> # Acked
    BY ClientEventTypes, ClientEventsDiffer
  <2>3. /\ cInbox' = Append(cInbox, <<c, FALSE>>) /\ UNCHANGED <<link, heard>>
        /\ calls' \subseteq calls
    BY <2>1 DEF Fails
  <2> QED
    BY <2>2, <2>3, AckArrives
<1>9. CASE ScanReports
  <2>1. <<"SCAN_RESULT">> \in ClientEvents /\ <<"SCAN_RESULT">> # Acked
    BY ClientEventTypes, ClientEventsDiffer
  <2>2. cInbox' = Append(cInbox, <<"SCAN_RESULT">>) /\ UNCHANGED <<link, heard, calls>>
    BY <1>9 DEF ScanReports
  <2> QED
    BY <2>1, <2>2, AckArrives
<1>10. CASE ScanEnds \/ GuestAsks
  BY <1>10, AckSame DEF ScanEnds, GuestAsks
<1>11. CASE GuestConnects
  <2>1. link = "none" /\ link' = "guest" /\ UNCHANGED <<calls, heard, cInbox>>
    BY <1>11 DEF GuestConnects, Connects
  <2>2. "write_char" \notin calls' /\ Followed(cInbox', {Acked}, {Gone})
    BY <2>1 DEF AckInv
  <2>3. heard' \/ Ahead(cInbox', {Heard}, {Acked})
    BY <2>1 DEF AckInv
  <2> QED
    BY <2>2, <2>3 DEF AckInv
<1>12. CASE LinkEnds
  <2>1. link' = "none" /\ UNCHANGED heard
    BY <1>12 DEF LinkEnds
  <2>2. CASE link = "client"
    <3>1. cInbox' = Append(cInbox, Gone) /\ "write_char" \notin calls'
      BY <1>12, <2>2 DEF LinkEnds, Gone
    <3>2. Gone \in ClientEvents /\ Gone # Acked
      BY ClientEventTypes, ClientEventsDiffer DEF Gone
    <3>3. /\ Followed(cInbox', {Acked}, {Gone})
          /\ Ahead(cInbox, {Heard}, {Acked}) => Ahead(cInbox', {Heard}, {Acked})
      BY <1>0, <3>1, <3>2, AckOrder
    <3> QED
      BY <2>1, <3>1, <3>3 DEF AckInv
  <2>3. CASE link # "client"
    <3>1. UNCHANGED <<cInbox, calls>>
      BY <1>12, <2>3 DEF LinkEnds
    <3>2. "write_char" \notin calls' /\ Followed(cInbox', {Acked}, {Gone})
      BY <2>3, <3>1 DEF AckInv
    <3>3. heard' \/ Ahead(cInbox', {Heard}, {Acked})
      BY <2>1, <3>1 DEF AckInv
    <3> QED
      BY <3>2, <3>3 DEF AckInv
  <2> QED
    BY <2>2, <2>3
<1> QED
  BY <1>1, <1>2, <1>3, <1>4, <1>5, <1>6, <1>7, <1>8, <1>9, <1>10, <1>11, <1>12
     DEF ClientStack, Air

LEMMA AckStep == TypeOK /\ AimInv /\ TalkInv /\ AckInv /\ [Next]_vars => AckInv'
<1>1. ASSUME AckInv, ServerStep \/ StackStep \/ UNCHANGED vars PROVE AckInv'
  <2>1. UNCHANGED <<calls, link, heard, cInbox>>
    BY <1>1 DEF ServerStep, StackStep, vars, clientVars, logVars, airVars
  <2> QED
    BY <1>1, <2>1, AckSame
<1> QED
  BY <1>1, AckClient, AckAir DEF Next

(* A write to the descriptor that is acknowledged was told to the client   *)
(* first: a client finds the descriptor only once the server is about to   *)
(* hold its handle, the server handles what it is told in order, and       *)
(* esp_ble_gatts_send_indicate comes before the answer to the write        *)
(* (gatts_demo.c, gatts_profile_a_event_handler).  Neither a failed call   *)
(* of the server, nor a lost connection, nor a guest in between changes it.*)
THEOREM AckMeansNotified == Spec => []AcknowledgedMeansNotified
<1>1. Init => AimInv /\ ServeInv /\ DescrInv /\ TalkInv /\ AckInv
  BY AimInit, ServeInit, DescrInit, TalkInit
<1>2. TypeOK /\ AimInv /\ ServeInv /\ DescrInv /\ TalkInv /\ AckInv /\ [Next]_vars
        => (AimInv /\ ServeInv /\ DescrInv /\ TalkInv /\ AckInv)'
  BY AimStep, ServeStep, DescrStep, TalkStep, AckStep
<1>3. TypeOK /\ AckInv => AcknowledgedMeansNotified
  <2> SUFFICES ASSUME TypeOK, AckInv, NEW i \in DOMAIN cInbox, cInbox[i] = <<"write_descr", TRUE>>
               PROVE  heard \/ \E j \in DOMAIN cInbox : j < i /\ Notification(j)
    BY DEF AcknowledgedMeansNotified
  <2>1. DOMAIN cInbox = 1 .. Len(cInbox)
    BY DEF TypeOK, ClientTypeOK
  <2>2. heard \/ \E j \in 1 .. Len(cInbox) : j < i /\ cInbox[j] \in {Heard}
    BY <2>1 DEF AckInv, Ahead, Acked
  <2> QED
    BY <2>1, <2>2 DEF Heard, Notification
<1> QED
  BY <1>1, <1>2, <1>3, TypeCorrect, PTL DEF Spec

=============================================================================
