------------------------- MODULE ShadowDemo_proofs --------------------------
(***************************************************************************)
(* Proofs about ShadowDemo.  The heart of them is Matching: which requests *)
(* and acknowledgments may be on their way in which phase, and why an      *)
(* identifier that is used again cannot be that of a stored publish.       *)
(***************************************************************************)
EXTENDS ShadowDemo, TLAPS

\* The calls of the script: those that subscribe and those that unsubscribe.
Steps  == 1 .. 14
Subs   == {1, 2, 7, 8, 9}
Unsubs == {4, 5, 12, 13, 14}

\* The calls that publish and the identifiers they can get.
PublishIds == {3, 9, 10}

Active == phase \in {"call", "wait", "loop"}

\* How far the identifiers are: the check takes none, and the report may be
\* skipped.
Numbering ==
  /\ phase # "done" => runs < MaxRuns
  /\ Active => call \in Steps
  /\ phase = "call" /\ call <= 6 => nextId = call
  /\ phase = "call" /\ 6 < call /\ call <= 11 => nextId = call - 1
  /\ phase = "call" /\ 11 < call => nextId \in {call - 2, call - 1}
  /\ phase \in {"wait", "loop"} /\ call <= 6 => nextId = call + 1
  /\ phase \in {"wait", "loop"} /\ 6 < call /\ call <= 11 => nextId = call
  /\ phase \in {"wait", "loop"} /\ 11 < call => nextId \in {call - 1, call}
  /\ phase = "wait" => Script[call].kind \in {"sub", "unsub"}
  /\ phase = "loop" => Script[call].kind = "pub"

\* The report was skipped by this run.
Skipped ==
  \/ phase = "call" /\ 11 < call /\ nextId = call - 2
  \/ phase = "wait" /\ 11 < call /\ nextId = call - 1

\* A publish of this identifier is stored, sent or being acknowledged.
Pending(id) ==
  \/ id \in unacked
  \/ \E r \in outbox : r.type = "PUBLISH" /\ r.id = id
  \/ \E m \in inbox : m.type = "PUBACK" /\ m.id = id

Publishes ==
  /\ \A id \in Ids : Pending(id) => id \in PublishIds
  /\ Pending(10) => stateChanged /\ ~Skipped

\* A request is under way, or its acknowledgment, or neither, and only once.
Once ==
  /\ \A r, q \in outbox : r.type # "PUBLISH" /\ q.type # "PUBLISH" => r = q
  /\ \A m, n \in inbox :
       m.type \in {"SUBACK", "UNSUBACK"} /\ n.type \in {"SUBACK", "UNSUBACK"} => m = n
  /\ \A r \in outbox, m \in inbox : r.type = "PUBLISH" \/ m.type \notin {"SUBACK", "UNSUBACK"}
  /\ phase = "wait" /\ ack = Awaited =>
       /\ \A r \in outbox : r.type = "PUBLISH"
       /\ \A m \in inbox : m.type \notin {"SUBACK", "UNSUBACK"}

\* What may be under way besides publishes: the request of the call that
\* waits, or of one that was given up, until the session is closed.
Matching ==
  /\ phase \in {"establish", "judge", "done"} => outbox = {} /\ inbox = {} /\ ~link
  /\ \A r \in outbox : r.type # "PUBLISH" =>
       /\ phase = "wait" \/ (phase = "disconnect" /\ ~ok)
       /\ r.id = IF r.type = "SUBSCRIBE" THEN subId ELSE unsubId
       /\ phase = "wait" =>
            /\ r.topic = Script[call].topic
            /\ r.type = "SUBSCRIBE" <=> Script[call].kind = "sub"
  /\ \A m \in inbox : m.type \in {"SUBACK", "UNSUBACK"} =>
       /\ phase = "wait" \/ (phase = "disconnect" /\ ~ok)
       /\ m.id = IF m.type = "SUBACK" THEN subId ELSE unsubId
       /\ phase = "wait" =>
            /\ m.type = "SUBACK" <=> Script[call].kind = "sub"
            /\ m.type = "SUBACK" => Script[call].topic \in subs \cup refused
            /\ m.type = "UNSUBACK" => Script[call].topic \notin subs
  /\ phase = "wait" /\ Script[call].kind = "sub" => subId = Awaited
  /\ phase = "wait" /\ Script[call].kind = "unsub" => unsubId = Awaited

\* What a run has unsubscribed from stays so until its end.
Leaving ==
  Active \/ (phase = "disconnect" /\ ok) =>
    /\ phase = "disconnect" => call = 15
    /\ \A u \in Unsubs : u < call => Script[u].topic \notin subs

IInv == TypeOK /\ Numbering /\ Publishes /\ Matching /\ Once /\ AckIsGenuine /\ Leaving

-----------------------------------------------------------------------------
(* What the script is, so that no proof below has to look at it again. *)

LEMMA ScriptKinds ==
  /\ Len(Script) = 14
  /\ \A c \in Steps :
       /\ (Script[c].kind = "sub") <=> (c \in Subs)
       /\ (Script[c].kind = "unsub") <=> (c \in Unsubs)
       /\ (Script[c].kind = "pub") <=> (c \in {3, 10, 11})
       /\ (Script[c].kind = "check") <=> (c = 6)
BY DEF Script, Call, Steps, Subs, Unsubs

LEMMA ScriptTopics ==
  /\ \A c \in Subs \cup Unsubs : Script[c].topic \in Topics
  /\ \A t \in Topics : \E u \in Unsubs : Script[u].topic = t
  /\ \A c \in {3, 10, 11} : (Script[c].topic = "reported") <=> (c = 11)
  /\ \A u \in Unsubs : \A c \in Subs : u < c => Script[u].topic # Script[c].topic
BY DEF Script, Call, Steps, Subs, Unsubs, Topics

\* An acknowledgment is no message of the shadow.
LEMMA PacketTypes ==
  /\ \A m \in Acks : m.id \in Ids
  /\ \A m \in Messages : m.type \notin {"SUBACK", "UNSUBACK", "PUBACK"}
BY DEF Acks, Messages, Deleted, Rejected, Deltas, Accepted

LEMMA RequestTypes ==
  ASSUME NEW r \in Requests
  PROVE  /\ r.id \in Ids
         /\ r.type \in {"SUBSCRIBE", "UNSUBSCRIBE", "PUBLISH"}
         /\ r.type = "PUBLISH" \/ r.topic \in Topics
BY DEF Requests

-----------------------------------------------------------------------------
(* Types and numbering. *)

LEMMA TypeInit == Init => TypeOK
<1> SUFFICES ASSUME Init PROVE TypeOK
  OBVIOUS
<1>1. TaskTypes
  BY RunsAssumption, ScriptKinds DEF Init, TaskTypes, Phases
<1>2. FlagTypes /\ PacketsInFlight
  BY DEF Init, FlagTypes, PacketsInFlight
<1> QED
  BY <1>1, <1>2 DEF TypeOK

\* The bounds that keep identifiers and counters in their types.
LEMMA Bounds ==
  ASSUME TaskTypes, Numbering
  PROVE  /\ Len(Script) = 14 /\ MaxRuns \in Nat
         /\ Active => call \in 1 .. 14
         /\ phase = "call" => nextId \in 1 .. 14
         /\ phase \in {"wait", "loop"} => nextId \in 2 .. 15
         /\ phase # "done" => runs \in 0 .. MaxRuns - 1
BY RunsAssumption, ScriptKinds DEF TaskTypes, Numbering, Active, Steps

LEMMA TaskTypesNext ==
  ASSUME TypeOK, Numbering, [Next]_vars
  PROVE  TaskTypes'
<1>0. /\ Len(Script) = 14 /\ MaxRuns \in Nat
      /\ Active => call \in 1 .. 14
      /\ phase = "call" => nextId \in 1 .. 14
      /\ phase # "done" => runs \in 0 .. MaxRuns - 1
  BY Bounds DEF TypeOK
<1>1. /\ phase \in Phases /\ call \in 1 .. 15 /\ power \in Nat /\ version \in Nat
      /\ runs \in 0 .. MaxRuns /\ nextId \in 1 .. 15
      /\ subId \in 0 .. 14 /\ unsubId \in 0 .. 14 /\ ack \in 0 .. 14
      /\ unacked \subseteq 1 .. 14
  BY <1>0 DEF TypeOK, TaskTypes, Ids
<1> SUFFICES /\ phase' \in Phases /\ call' \in 1 .. 15 /\ power' \in Nat /\ version' \in Nat
             /\ runs' \in 0 .. MaxRuns /\ nextId' \in 1 .. 15
             /\ subId' \in 0 .. 14 /\ unsubId' \in 0 .. 14 /\ ack' \in 0 .. 14
             /\ unacked' \subseteq 1 .. 14
  BY <1>0 DEF TaskTypes, Ids
<1> USE DEF Phases, session, shadow, At
<1>2. CASE ConnectFails
  BY <1>1, <1>2 DEF ConnectFails
<1>3. CASE StartsClean
  BY <1>1, <1>3 DEF StartsClean, Connects
<1>4. CASE Resumes
  <2>1. Connects /\ unacked' = unacked
    BY <1>4 DEF Resumes
  <2> QED
    BY <1>1, <2>1 DEF Connects
<1>5. CASE Subscribe
  BY <1>0, <1>1, <1>5 DEF Subscribe, Fail
<1>6. CASE Unsubscribe
  BY <1>0, <1>1, <1>6 DEF Unsubscribe, Fail
<1>7. CASE Publish
  <2>1. unacked' \subseteq unacked \cup {nextId}
    BY <1>7 DEF Publish
  <2>2. /\ nextId' = nextId + 1 /\ call' = call
        /\ phase' \in {"loop", "disconnect"}
        /\ UNCHANGED <<runs, ack, subId, unsubId, power, version>>
    BY <1>7 DEF Publish, Fail
  <2>3. nextId \in 1 .. 14
    BY <1>0, <1>7 DEF Publish
  <2> QED
    BY <1>1, <2>1, <2>2, <2>3
<1>8. ASSUME Active, Advance, UNCHANGED <<runs, ack, session, shadow>>
      PROVE  TaskTypes'
  BY <1>0, <1>1, <1>8 DEF Advance, TaskTypes, Ids
<1>9. CASE NothingToReport
  <2>1. TaskTypes'
    BY <1>8, <1>9 DEF NothingToReport, Active
  <2> QED
    BY <1>0, <2>1 DEF TaskTypes, Ids, NothingToReport, Advance
<1>10. CASE WaitEnds \/ LoopEnds
  BY <1>0, <1>8, <1>10 DEF WaitEnds, LoopEnds, Active, TaskTypes, Ids
<1>11. CASE WaitFails
  BY <1>1, <1>11 DEF WaitFails, Fail
<1>12. CASE CheckDelete
  <2>1. CASE Advance
    BY <1>0, <1>8, <1>12, <2>1 DEF CheckDelete, Active, TaskTypes, Ids
  <2>2. CASE Fail
    BY <1>1, <1>12, <2>2 DEF CheckDelete, Fail
  <2> QED
    BY <1>12, <2>1, <2>2 DEF CheckDelete
<1>13. CASE DisconnectMqttSession
  BY <1>1, <1>13 DEF DisconnectMqttSession
<1>14. CASE Judge
  BY <1>0, <1>1, <1>14 DEF Judge
<1>15. ASSUME NEW m, Take(m)
       PROVE  UNCHANGED <<phase, call, runs, nextId, subId, unsubId>>
  BY <1>15 DEF Take
<1>16. ASSUME NEW m, HandleAck(m)
       PROVE  TaskTypes'
  <2>1. m.id \in 1 .. 14
    BY <1>0, <1>16, PacketTypes DEF HandleAck, Ids
  <2>2. Take(m) /\ ack' = m.id /\ unacked' \subseteq unacked /\ UNCHANGED <<power, version>>
    BY <1>16 DEF HandleAck
  <2> QED
    BY <1>0, <1>1, <1>15, <2>1, <2>2 DEF TaskTypes, Ids
<1>17. ASSUME NEW m, updateDeltaHandler(m)
       PROVE  TaskTypes'
  <2>1. m.version \in Nat /\ m.powerOn \in {{}, {0}, {1}}
    BY <1>17, VersionsAssumption DEF updateDeltaHandler, Deltas
  <2>2. NewState(m) \subseteq Nat
    BY <2>1 DEF NewState
  <2>3. power' \in Nat
    BY <1>1, <1>17, <2>2 DEF updateDeltaHandler
  <2>4. version' \in Nat /\ UNCHANGED <<ack, unacked>>
    BY <1>1, <1>17, <2>1 DEF updateDeltaHandler
  <2> QED
    BY <1>0, <1>1, <1>15, <1>17, <2>3, <2>4 DEF updateDeltaHandler, TaskTypes, Ids
<1>18. CASE eventCallback
  <2> SUFFICES ASSUME NEW m \in inbox,
                      HandleDeleted(m) \/ deleteRejectedHandler(m) \/ updateAcceptedHandler(m)
               PROVE  TaskTypes'
    BY <1>0, <1>16, <1>17, <1>18 DEF eventCallback, TaskTypes, Ids
  <2>1. Take(m) /\ UNCHANGED <<ack, unacked, power, version>>
    BY DEF HandleDeleted, deleteRejectedHandler, updateAcceptedHandler
  <2> QED
    BY <1>0, <1>1, <1>15, <2>1 DEF TaskTypes, Ids
<1>19. CASE BrokerAnswers \/ ShadowPublishes \/ LinkBreaks \/ UNCHANGED vars
  BY <1>1, <1>19 DEF BrokerAnswers, ShadowPublishes, LinkBreaks, client, vars
<1>20. CASE Task
  BY <1>2, <1>3, <1>4, <1>5, <1>6, <1>7, <1>9, <1>10, <1>11, <1>12, <1>13, <1>14, <1>20 DEF Task
<1> QED
  BY <1>18, <1>19, <1>20 DEF Next

LEMMA FlagTypesNext ==
  ASSUME TypeOK, [Next]_vars
  PROVE  FlagTypes'
<1> USE DEF TypeOK, FlagTypes, flags, network
<1>1. CASE ConnectFails \/ StartsClean \/ Resumes
  BY <1>1 DEF ConnectFails, StartsClean, Resumes, Connects
<1>2. CASE Subscribe
  BY <1>2 DEF Subscribe, Send, Fail
<1>3. CASE Unsubscribe
  BY <1>3 DEF Unsubscribe, Send, Fail
<1>4. CASE Publish
  BY <1>4 DEF Publish, Send, Fail
<1>5. CASE NothingToReport \/ WaitEnds \/ WaitFails \/ LoopEnds \/ CheckDelete
  BY <1>5 DEF NothingToReport, WaitEnds, WaitFails, LoopEnds, CheckDelete, Advance, Fail
<1>6. CASE DisconnectMqttSession \/ Judge
  BY <1>6 DEF DisconnectMqttSession, Judge
<1>7. ASSUME NEW m \in inbox,
             HandleAck(m) \/ HandleDeleted(m) \/ updateDeltaHandler(m)
      PROVE  FlagTypes'
  BY <1>7 DEF HandleAck, HandleDeleted, updateDeltaHandler, Take
<1>8. ASSUME NEW m \in inbox,
             deleteRejectedHandler(m) \/ updateAcceptedHandler(m)
      PROVE  FlagTypes'
  BY <1>8 DEF deleteRejectedHandler, updateAcceptedHandler, Take
<1>9. CASE eventCallback
  BY <1>7, <1>8, <1>9 DEF eventCallback
<1>10. CASE BrokerAnswers \/ ShadowPublishes \/ LinkBreaks \/ UNCHANGED vars
  BY <1>10 DEF BrokerAnswers, ShadowPublishes, LinkBreaks, client, vars
<1>11. CASE Task
  BY <1>1, <1>2, <1>3, <1>4, <1>5, <1>6, <1>11 DEF Task
<1> QED
  BY <1>9, <1>10, <1>11 DEF Next

\* What each step does to the packets in flight and to the subscriptions.
LEMMA PacketsNext ==
  ASSUME TypeOK, Numbering, [Next]_vars
  PROVE  PacketsInFlight'
<1>0. TypeOK /\ PacketsInFlight /\ TaskTypes
  BY DEF TypeOK
<1> USE DEF PacketsInFlight, network
<1>1. CASE ConnectFails \/ StartsClean
  BY <1>0, <1>1 DEF ConnectFails, StartsClean, Connects
<1>2. CASE Resumes
  <2>1. {Packet("PUBLISH", id) : id \in unacked} \subseteq Requests
    BY <1>0 DEF TaskTypes, Packet, Requests
  <2> QED
    BY <1>0, <1>2, <2>1 DEF Resumes, Connects
<1>3. CASE Subscribe
  <2>1. Request("SUBSCRIBE", nextId, Script[call].topic) \in Requests
    BY <1>0, <1>3, Bounds, ScriptKinds, ScriptTopics
       DEF Subscribe, At, Request, Requests, Ids, Subs, Active, Steps
  <2> QED
    BY <1>0, <1>3, <2>1 DEF Subscribe, Send
<1>4. CASE Unsubscribe
  <2>1. Request("UNSUBSCRIBE", nextId, Script[call].topic) \in Requests
    BY <1>0, <1>4, Bounds, ScriptKinds, ScriptTopics
       DEF Unsubscribe, At, Request, Requests, Ids, Unsubs, Active, Steps
  <2> QED
    BY <1>0, <1>4, <2>1 DEF Unsubscribe, Send
<1>5. CASE Publish
  <2>1. Packet("PUBLISH", nextId) \in Requests
    BY <1>0, <1>5, Bounds DEF Publish, At, Packet, Requests, Ids
  <2> QED
    BY <1>0, <1>5, <2>1 DEF Publish, Send
<1>6. CASE NothingToReport \/ WaitEnds \/ WaitFails \/ LoopEnds \/ CheckDelete \/ Judge
  BY <1>0, <1>6 DEF NothingToReport, WaitEnds, WaitFails, LoopEnds, CheckDelete, Judge
<1>7. CASE DisconnectMqttSession \/ LinkBreaks
  BY <1>0, <1>7 DEF DisconnectMqttSession, LinkBreaks
<1>8. CASE eventCallback
  <2> SUFFICES ASSUME NEW m, Take(m) PROVE PacketsInFlight'
    BY <1>8 DEF eventCallback, HandleAck, HandleDeleted, deleteRejectedHandler,
                updateDeltaHandler, updateAcceptedHandler
  <2> QED
    BY <1>0 DEF Take
<1>9. CASE BrokerAnswers
  <2> SUFFICES ASSUME NEW r \in outbox,
                      \/ BrokerSubscribes(r) \/ BrokerRefuses(r)
                      \/ BrokerUnsubscribes(r) \/ BrokerTakes(r),
                      outbox' = outbox \ {r}
               PROVE  PacketsInFlight'
    BY <1>9 DEF BrokerAnswers
  <2>0. r \in Requests
    BY <1>0
  <2>1. r.id \in Ids /\ (r.type = "PUBLISH" \/ r.topic \in Topics)
    BY <2>0, RequestTypes
  <2>2. \A t \in {"SUBACK", "UNSUBACK", "PUBACK"} : Packet(t, r.id) \in Acks
    BY <2>1 DEF Packet, Acks
  <2>3. inbox' \subseteq Acks \cup Messages
    BY <1>0, <2>2 DEF BrokerSubscribes, BrokerRefuses, BrokerUnsubscribes, BrokerTakes
  <2>4. subs' \subseteq Topics /\ refused' \subseteq Topics
    BY <1>0, <2>1 DEF BrokerSubscribes, BrokerRefuses, BrokerUnsubscribes, BrokerTakes
  <2> QED
    BY <1>0, <2>3, <2>4
<1>10. CASE ShadowPublishes
  BY <1>0, <1>10 DEF ShadowPublishes
<1>11. CASE UNCHANGED vars
  BY <1>0, <1>11 DEF vars
<1>12. CASE Task
  BY <1>1, <1>2, <1>3, <1>4, <1>5, <1>6, <1>7, <1>12 DEF Task
<1> QED
  BY <1>7, <1>8, <1>9, <1>10, <1>11, <1>12 DEF Next

-----------------------------------------------------------------------------
(* The rest of the invariant. *)

LEMMA NumberingNext ==
  ASSUME TypeOK, Numbering, [Next]_vars
  PROVE  Numbering'
<1>0. /\ call \in Int /\ nextId \in Int /\ runs \in 0 .. MaxRuns /\ MaxRuns \in Nat \ {0}
      /\ phase \in Phases /\ Len(Script) = 14
  BY RunsAssumption, ScriptKinds DEF TypeOK, TaskTypes
<1> USE DEF Numbering, Active, Steps, Phases, At, session
<1>1. CASE ConnectFails
  BY <1>0, <1>1 DEF ConnectFails
<1>2. CASE Connects
  BY <1>0, <1>2 DEF Connects
<1>3. CASE Subscribe
  <2>1. call \in Subs
    BY <1>3, ScriptKinds DEF Subscribe
  <2> QED
    BY <1>0, <1>3, <2>1, ScriptKinds DEF Subscribe, Fail, Subs, Unsubs
<1>4. CASE Unsubscribe
  <2>1. call \in Unsubs
    BY <1>4, ScriptKinds DEF Unsubscribe
  <2> QED
    BY <1>0, <1>4, <2>1, ScriptKinds DEF Unsubscribe, Fail, Subs, Unsubs
<1>5. CASE Publish
  <2>1. call \in {3, 10, 11}
    BY <1>5, ScriptKinds DEF Publish
  <2> QED
    BY <1>0, <1>5, <2>1, ScriptKinds DEF Publish, Fail
<1>6. CASE NothingToReport
  <2>1. call = 11
    BY <1>6, ScriptKinds, ScriptTopics DEF NothingToReport, Due
  <2> QED
    BY <1>0, <1>6, <2>1 DEF NothingToReport, Advance
<1>7. CASE WaitEnds
  <2>1. call \in Subs \cup Unsubs
    BY <1>7, ScriptKinds DEF WaitEnds
  <2> QED
    BY <1>0, <1>7, <2>1 DEF WaitEnds, Advance, Subs, Unsubs
<1>8. CASE LoopEnds
  <2>1. call \in {3, 10, 11}
    BY <1>8, ScriptKinds DEF LoopEnds
  <2> QED
    BY <1>0, <1>8, <2>1 DEF LoopEnds, Advance
<1>9. CASE WaitFails
  BY <1>0, <1>9 DEF WaitFails, Fail
<1>10. CASE CheckDelete
  <2>1. call = 6
    BY <1>10, ScriptKinds DEF CheckDelete
  <2> QED
    BY <1>0, <1>10, <2>1 DEF CheckDelete, Advance, Fail
<1>11. CASE DisconnectMqttSession
  BY <1>0, <1>11 DEF DisconnectMqttSession
<1>12. CASE Judge
  BY <1>0, <1>12 DEF Judge
<1>13. ASSUME UNCHANGED <<phase, call, runs, nextId>>
       PROVE  Numbering'
  BY <1>13
<1>14. CASE eventCallback
  BY <1>13, <1>14 DEF eventCallback, HandleAck, HandleDeleted, deleteRejectedHandler,
                      updateDeltaHandler, updateAcceptedHandler, Take
<1>15. CASE BrokerAnswers \/ ShadowPublishes \/ LinkBreaks \/ UNCHANGED vars
  BY <1>13, <1>15 DEF BrokerAnswers, ShadowPublishes, LinkBreaks, client, vars
<1>16. CASE Task
  BY <1>1, <1>2, <1>3, <1>4, <1>5, <1>6, <1>7, <1>8, <1>9, <1>10, <1>11, <1>12, <1>16
     DEF Task, StartsClean, Resumes
<1> QED
  BY <1>14, <1>15, <1>16 DEF Next

\* All that the proofs below need to know about the handlers of messages:
\* they take a message out, only ever forget stored publishes, and never take
\* a change of state back.
LEMMA Handling ==
  ASSUME eventCallback, TypeOK
  PROVE  \E m \in inbox :
           /\ Take(m) /\ unacked' \subseteq unacked
           /\ stateChanged => stateChanged'
           /\ ack' = ack \/ (m \in Acks /\ ack' = m.id)
<1>1. PICK m \in inbox :
         \/ HandleAck(m) \/ HandleDeleted(m) \/ deleteRejectedHandler(m)
         \/ updateDeltaHandler(m) \/ updateAcceptedHandler(m)
  BY DEF eventCallback
<1>2. Take(m)
  BY <1>1 DEF HandleAck, HandleDeleted, deleteRejectedHandler, updateDeltaHandler,
              updateAcceptedHandler
<1>3. CASE HandleAck(m)
  <2>1. unacked' \subseteq unacked /\ m \in Acks /\ ack' = m.id
    BY <1>3 DEF HandleAck
  <2>2. stateChanged' = stateChanged
    BY <1>3 DEF HandleAck, flags
  <2> QED
    BY <1>2, <2>1, <2>2
<1>4. CASE HandleDeleted(m)
  BY <1>2, <1>4 DEF HandleDeleted
<1>5. CASE deleteRejectedHandler(m)
  BY <1>2, <1>5 DEF deleteRejectedHandler
<1>6. CASE updateDeltaHandler(m)
  <2>1. UNCHANGED <<ack, unacked>>
    BY <1>6 DEF updateDeltaHandler
  <2>2. stateChanged => stateChanged'
    BY <1>6 DEF updateDeltaHandler
  <2> QED
    BY <1>2, <2>1, <2>2
<1>7. CASE updateAcceptedHandler(m)
  BY <1>2, <1>7 DEF updateAcceptedHandler
<1> QED
  BY <1>1, <1>3, <1>4, <1>5, <1>6, <1>7

\* Nothing new is published and what was skipped stays so.
LEMMA NothingPublished ==
  ASSUME Publishes,
         \A id \in Ids : Pending(id)' => Pending(id),
         stateChanged => stateChanged',
         Skipped' => Skipped
  PROVE  Publishes'
<1>1. 10 \in Ids
  BY ScriptKinds DEF Ids
<1> QED
  BY <1>1 DEF Publishes

LEMMA PublishesNext ==
  ASSUME TypeOK, Numbering, Publishes, [Next]_vars
  PROVE  Publishes'
<1>0. /\ call \in Int /\ nextId \in Int /\ Len(Script) = 14
      /\ 10 \in Ids /\ Ids = 1 .. 14 /\ unacked \subseteq Ids
  BY ScriptKinds DEF TypeOK, TaskTypes, Ids
<1> USE DEF session, flags, network
<1>1. CASE ConnectFails
  <2>1. ~Skipped' /\ UNCHANGED <<unacked, outbox, inbox, stateChanged>>
    BY <1>1 DEF ConnectFails, Skipped
  <2> QED
    BY <2>1, NothingPublished DEF Pending
<1>2. CASE StartsClean
  <2>1. ~Skipped' /\ UNCHANGED stateChanged
    BY <1>2 DEF StartsClean, Connects, Skipped
  <2>2. unacked' = {} /\ outbox' = {} /\ inbox' = {}
    BY <1>2 DEF StartsClean, Connects
  <2> QED
    BY <2>1, <2>2, NothingPublished DEF Pending
<1>3. CASE Resumes
  <2>1. ~Skipped' /\ UNCHANGED stateChanged
    BY <1>3 DEF Resumes, Connects, Skipped
  <2>2. unacked' = unacked /\ inbox' = {} /\ outbox' = {Packet("PUBLISH", id) : id \in unacked}
    BY <1>3 DEF Resumes, Connects
  <2>3. \A id \in Ids : Pending(id)' => id \in unacked
    BY <2>2 DEF Pending, Packet
  <2> QED
    BY <2>1, <2>3, NothingPublished DEF Pending
<1>4. CASE Subscribe \/ Unsubscribe
  <2>1. UNCHANGED <<unacked, inbox, stateChanged>>
    BY <1>4 DEF Subscribe, Unsubscribe, Send
  <2>2. \A r \in outbox' : r.type = "PUBLISH" => r \in outbox
    BY <1>4 DEF Subscribe, Unsubscribe, Send, Request
  <2>3. Skipped' => Skipped
    BY <1>0, <1>4, Bounds DEF Subscribe, Unsubscribe, Fail, Skipped, At, TypeOK
  <2> QED
    BY <2>1, <2>2, <2>3, NothingPublished DEF Pending
<1>5. CASE Publish
  <2>1. /\ ~Skipped' /\ UNCHANGED <<inbox, stateChanged>>
        /\ unacked' \subseteq unacked \cup {nextId}
        /\ outbox' \subseteq outbox \cup {Packet("PUBLISH", nextId)}
        /\ phase = "call" /\ Script[call].kind = "pub" /\ Due
    BY <1>5 DEF Publish, Send, Fail, Skipped, At
  <2>2. \A id \in Ids : Pending(id)' => Pending(id) \/ id = nextId
    BY <2>1 DEF Pending, Packet
  <2>3. call \in {3, 10, 11} /\ nextId \in PublishIds /\ (nextId = 10 => call = 11)
    BY <1>0, <2>1, ScriptKinds DEF Numbering, Active, Steps, PublishIds
  <2>4. call = 11 => stateChanged
    BY <2>1, ScriptTopics DEF Due
  <2> QED
    BY <1>0, <2>1, <2>2, <2>3, <2>4 DEF Publishes
<1>6. CASE NothingToReport
  <2>1. ~stateChanged /\ UNCHANGED <<unacked, outbox, inbox, stateChanged>>
    BY <1>6 DEF NothingToReport, Due
  <2> QED
    BY <2>1 DEF Publishes, Pending
<1>7. CASE WaitEnds
  <2>1. call \in Subs \cup Unsubs
    BY <1>7, ScriptKinds DEF WaitEnds, Numbering, Active, Steps
  <2>2. UNCHANGED <<unacked, outbox, inbox, stateChanged, nextId>>
    BY <1>7 DEF WaitEnds
  <2>3. Skipped' => Skipped
    BY <1>0, <1>7, <2>1, <2>2 DEF WaitEnds, Advance, Skipped, Subs, Unsubs
  <2> QED
    BY <2>2, <2>3, NothingPublished DEF Pending
<1>8. CASE LoopEnds
  <2>1. call \in {3, 10, 11} /\ (call = 11 => nextId = 11)
    BY <1>0, <1>8, ScriptKinds DEF LoopEnds, Numbering, Active, Steps
  <2>2. UNCHANGED <<unacked, outbox, inbox, stateChanged, nextId>>
    BY <1>8 DEF LoopEnds
  <2>3. ~Skipped'
    BY <1>0, <1>8, <2>1, <2>2 DEF LoopEnds, Advance, Skipped
  <2> QED
    BY <2>2, <2>3, NothingPublished DEF Pending
<1>9. CASE WaitFails \/ CheckDelete
  <2>1. UNCHANGED <<unacked, outbox, inbox, stateChanged, nextId>>
    BY <1>9 DEF WaitFails, CheckDelete
  <2>2. ~Skipped'
    <3>1. CASE WaitFails
      BY <3>1 DEF WaitFails, Fail, Skipped
    <3>2. CASE CheckDelete
      <4>1. call = 6
        BY <3>2, ScriptKinds DEF CheckDelete, At, Numbering, Active, Steps
      <4> QED
        BY <3>2, <4>1 DEF CheckDelete, Advance, Fail, Skipped
    <3> QED
      BY <1>9, <3>1, <3>2
  <2> QED
    BY <2>1, <2>2, NothingPublished DEF Pending
<1>10. CASE DisconnectMqttSession \/ Judge \/ LinkBreaks
  <2>1. Skipped' => Skipped
    BY <1>10 DEF DisconnectMqttSession, Judge, LinkBreaks, client, Skipped
  <2>2. /\ UNCHANGED <<unacked, stateChanged>>
        /\ outbox' \subseteq outbox /\ inbox' \subseteq inbox
    BY <1>10 DEF DisconnectMqttSession, Judge, LinkBreaks, client
  <2> QED
    BY <2>1, <2>2, NothingPublished DEF Pending
<1>11. CASE eventCallback
  <2>0. PICK m \in inbox : Take(m) /\ unacked' \subseteq unacked /\ (stateChanged => stateChanged')
    BY <1>11, Handling
  <2>1. Skipped' => Skipped
    BY <2>0 DEF Take, Skipped
  <2>2. outbox' = outbox /\ inbox' \subseteq inbox
    BY <2>0 DEF Take
  <2> QED
    BY <2>0, <2>1, <2>2, NothingPublished DEF Pending
<1>12. CASE BrokerAnswers
  <2> SUFFICES ASSUME NEW r \in outbox,
                      \/ BrokerSubscribes(r) \/ BrokerRefuses(r)
                      \/ BrokerUnsubscribes(r) \/ BrokerTakes(r),
                      outbox' = outbox \ {r}, UNCHANGED client
               PROVE  Publishes'
    BY <1>12 DEF BrokerAnswers
  <2>1. \A m \in inbox' : m.type = "PUBACK" => m \in inbox \/ (r.type = "PUBLISH" /\ m.id = r.id)
    BY DEF BrokerSubscribes, BrokerRefuses, BrokerUnsubscribes, BrokerTakes, Packet
  <2>2. UNCHANGED <<unacked, stateChanged, phase, call, nextId>>
    BY DEF client
  <2> QED
    BY <2>1, <2>2, NothingPublished DEF Pending, Skipped
<1>13. CASE ShadowPublishes
  <2>1. PICK m \in Messages : inbox' = inbox \cup {m}
    BY <1>13 DEF ShadowPublishes
  <2>2. UNCHANGED <<unacked, outbox, stateChanged, phase, call, nextId>>
    BY <1>13 DEF ShadowPublishes, client
  <2>3. m.type # "PUBACK"
    BY PacketTypes
  <2> QED
    BY <2>1, <2>2, <2>3, NothingPublished DEF Pending, Skipped
<1>14. CASE UNCHANGED vars
  BY <1>14, NothingPublished DEF vars, Pending, Skipped
<1>15. CASE Task
  BY <1>1, <1>2, <1>3, <1>4, <1>5, <1>6, <1>7, <1>8, <1>9, <1>10, <1>15 DEF Task
<1> QED
  BY <1>10, <1>11, <1>12, <1>13, <1>14, <1>15 DEF Next

\* Only publishes are under way.
Quiet ==
  /\ \A r \in outbox : r.type = "PUBLISH"
  /\ \A m \in inbox : m.type \notin {"SUBACK", "UNSUBACK"}

Replies == Matching /\ Once /\ AckIsGenuine

\* Then, and while no wait begins, the invariant has nothing to say.
LEMMA QuietSuffices ==
  ASSUME Quiet', phase' # "wait",
         phase' \in {"establish", "judge", "done"} => outbox' = {} /\ inbox' = {} /\ ~link'
  PROVE  Replies'
BY DEF Quiet, Replies, Matching, Once, AckIsGenuine

LEMMA QuietBetween ==
  ASSUME Replies, TypeOK
  PROVE  /\ phase \notin {"wait", "disconnect"} => Quiet
         /\ phase = "wait" /\ ack = Awaited => Quiet
         /\ phase \in {"establish", "judge", "done"} => outbox = {} /\ inbox = {} /\ ~link
BY DEF Replies, Matching, Once, Quiet

\* A step that touches no packets and begins no wait.
LEMMA StaysQuiet ==
  ASSUME Quiet, UNCHANGED <<outbox, inbox>>,
         phase' \notin {"wait", "establish", "judge", "done"}
  PROVE  Replies'
BY QuietSuffices DEF Quiet

\* A request is sent: it is the only one under way.
LEMMA RequestSent ==
  ASSUME Quiet, TypeOK, phase = "call", NEW type \in {"SUBSCRIBE", "UNSUBSCRIBE"},
         type = "SUBSCRIBE" => Script[call].kind = "sub" /\ subId' = nextId,
         type = "UNSUBSCRIBE" => Script[call].kind = "unsub" /\ unsubId' = nextId,
         Send(Request(type, nextId, Script[call].topic)),
         phase' = "wait", ack' = 0, nextId' = nextId + 1, call' = call
  PROVE  Replies'
<1>0. nextId \in 1 .. 15
  BY ScriptKinds DEF TypeOK, TaskTypes
<1>1. Awaited' = nextId /\ ack' # Awaited'
  BY <1>0 DEF Awaited
<1> DEFINE req == Request(type, nextId, Script[call].topic)
<1>2. req.type = type /\ req.id = nextId /\ req.topic = Script[call].topic
  BY DEF Request
<1>3. \A r \in outbox' : r.type = "PUBLISH" \/ r = req
  BY DEF Send, Quiet
<1>4. \A m \in inbox' : m.type \notin {"SUBACK", "UNSUBACK"}
  BY DEF Send, Quiet
<1>5. Once' /\ AckIsGenuine'
  BY <1>1, <1>3, <1>4 DEF Once, AckIsGenuine
<1>6. Matching'
  BY <1>1, <1>2, <1>3, <1>4 DEF Matching
<1> QED
  BY <1>5, <1>6 DEF Replies

LEMMA RepliesTask ==
  ASSUME TypeOK, Replies, Task
  PROVE  Replies'
<1> USE DEF session, flags, network, At
<1>1. CASE ConnectFails
  BY <1>1, QuietBetween, QuietSuffices DEF ConnectFails, Quiet
<1>2. CASE StartsClean
  BY <1>2, QuietSuffices DEF StartsClean, Connects, Quiet
<1>3. CASE Resumes
  <2>1. \A r \in outbox' : r.type = "PUBLISH"
    BY <1>3 DEF Resumes, Packet
  <2> QED
    BY <1>3, <2>1, QuietSuffices DEF Resumes, Connects, Quiet
<1>4. CASE Subscribe
  <2>1. CASE Fail
    BY <1>4, <2>1, QuietBetween, QuietSuffices DEF Subscribe, Fail, Send, Quiet
  <2>2. CASE Send(Request("SUBSCRIBE", nextId, Script[call].topic)) /\ phase' = "wait"
    BY <1>4, <2>2, QuietBetween, RequestSent DEF Subscribe, Fail
  <2> QED
    BY <1>4, <2>1, <2>2 DEF Subscribe
<1>5. CASE Unsubscribe
  <2>1. CASE Fail
    BY <1>5, <2>1, QuietBetween, QuietSuffices DEF Unsubscribe, Fail, Send, Quiet
  <2>2. CASE Send(Request("UNSUBSCRIBE", nextId, Script[call].topic)) /\ phase' = "wait"
    BY <1>5, <2>2, QuietBetween, RequestSent DEF Unsubscribe, Fail
  <2> QED
    BY <1>5, <2>1, <2>2 DEF Unsubscribe
<1>6. CASE Publish
  <2>1. /\ phase = "call" /\ phase' \in {"loop", "disconnect"} /\ inbox' = inbox
        /\ outbox' \subseteq outbox \cup {Packet("PUBLISH", nextId)}
    BY <1>6 DEF Publish, Send, Fail
  <2> QED
    BY <2>1, QuietBetween, QuietSuffices DEF Packet, Quiet
<1>7. CASE NothingToReport \/ LoopEnds \/ CheckDelete
  BY <1>7, QuietBetween, StaysQuiet
     DEF NothingToReport, LoopEnds, CheckDelete, Advance, Fail
<1>8. CASE WaitEnds
  BY <1>8, QuietBetween, StaysQuiet DEF WaitEnds, Advance
<1>9. CASE WaitFails
  BY <1>9 DEF WaitFails, Fail, Replies, Matching, Once, AckIsGenuine
<1>10. CASE DisconnectMqttSession
  BY <1>10, QuietSuffices DEF DisconnectMqttSession, Quiet
<1>11. CASE Judge
  BY <1>11, QuietBetween, QuietSuffices DEF Judge, Quiet
<1> QED
  BY <1>1, <1>2, <1>3, <1>4, <1>5, <1>6, <1>7, <1>8, <1>9, <1>10, <1>11 DEF Task

\* The identifier that a subscribe or an unsubscribe waits for is that of no
\* publish: only the tenth could be both, and then nothing was reported.
LEMMA AwaitedIsFresh ==
  ASSUME TypeOK, Numbering, Publishes, phase = "wait", NEW m \in inbox, m.type = "PUBACK"
  PROVE  m.id # Awaited
<1>1. m.id \in Ids
  <2>1. m \in Acks \cup Messages
    BY DEF TypeOK, PacketsInFlight
  <2> QED
    BY <2>1, PacketTypes
<1>2. Pending(m.id) /\ m.id \in PublishIds
  BY <1>1 DEF Pending, Publishes
<1>3. m.id = 10 => ~Skipped
  BY <1>2 DEF Publishes
<1>4. call \in Subs \cup Unsubs /\ nextId \in Int
  BY ScriptKinds DEF Numbering, Active, Steps, TypeOK, TaskTypes
<1> QED
  BY <1>2, <1>3, <1>4 DEF Numbering, Skipped, Awaited, PublishIds, Subs, Unsubs

LEMMA RepliesEnv ==
  ASSUME TypeOK, Numbering, Publishes, Replies,
         eventCallback \/ BrokerAnswers \/ ShadowPublishes \/ LinkBreaks \/ UNCHANGED vars
  PROVE  Replies'
<1> USE DEF Replies, session, flags
<1>1. CASE eventCallback
  <2>1. PICK m \in inbox : Take(m) /\ (ack' = ack \/ (m \in Acks /\ ack' = m.id))
    BY <1>1, Handling
  <2>2. /\ inbox' = inbox \ {m} /\ phase \in {"wait", "loop"}
        /\ phase = "wait" => ack # Awaited
        /\ UNCHANGED <<phase, call, ok, nextId, subId, unsubId, link, outbox, subs, refused>>
    BY <2>1 DEF Take, Processing
  <2>3. Matching'
    BY <2>2 DEF Matching, Awaited
  <2>4. phase = "wait" /\ ack' = Awaited => m.type \in {"SUBACK", "UNSUBACK"} /\ Quiet'
    <3> SUFFICES ASSUME phase = "wait", ack' = Awaited
                 PROVE  m.type \in {"SUBACK", "UNSUBACK"} /\ Quiet'
      OBVIOUS
    <3>1. m \in Acks /\ m.id = Awaited
      BY <2>1, <2>2
    <3>2. m.type \in {"SUBACK", "UNSUBACK"}
      BY <3>1, AwaitedIsFresh DEF Acks
    <3> QED
      BY <2>2, <3>2 DEF Once, Quiet
  <2>5. Once'
    BY <2>2, <2>4 DEF Once, Quiet, Awaited
  <2>6. AckIsGenuine'
    BY <2>2, <2>4 DEF AckIsGenuine, Matching, Awaited
  <2> QED
    BY <2>3, <2>5, <2>6
<1>2. CASE BrokerAnswers
  <2>1. PICK r \in outbox :
          /\ \/ BrokerSubscribes(r) \/ BrokerRefuses(r)
             \/ BrokerUnsubscribes(r) \/ BrokerTakes(r)
          /\ outbox' = outbox \ {r}
    BY <1>2 DEF BrokerAnswers
  <2>2. UNCHANGED <<phase, call, ok, nextId, subId, unsubId, ack, link>>
    BY <1>2 DEF BrokerAnswers, client
  <2>3. CASE BrokerTakes(r)
    <3>1. \A m \in inbox' : m.type \in {"SUBACK", "UNSUBACK"} => m \in inbox
      BY <2>3 DEF BrokerTakes, Packet
    <3>2. UNCHANGED <<subs, refused>> /\ outbox # {}
      BY <2>3 DEF BrokerTakes
    <3> QED
      BY <2>1, <2>2, <3>1, <3>2 DEF Matching, Once, AckIsGenuine, Awaited
  <2>4. CASE BrokerSubscribes(r) \/ BrokerRefuses(r) \/ BrokerUnsubscribes(r)
    <3> DEFINE reply == Packet(IF r.type = "SUBSCRIBE" THEN "SUBACK" ELSE "UNSUBACK", r.id)
    <3>1. /\ r.type \in {"SUBSCRIBE", "UNSUBSCRIBE"} /\ inbox' = inbox \cup {reply}
          /\ r.type = "SUBSCRIBE" /\ phase = "wait" => r.topic \in subs' \cup refused'
          /\ r.type = "UNSUBSCRIBE" => r.topic \notin subs'
      BY <2>4 DEF BrokerSubscribes, BrokerRefuses, BrokerUnsubscribes
    <3>2. /\ reply.id = r.id
          /\ r.type = "SUBSCRIBE" => reply.type = "SUBACK"
          /\ r.type = "UNSUBSCRIBE" => reply.type = "UNSUBACK"
      BY <3>1 DEF Packet
    <3>3. /\ \A q \in outbox' : q.type = "PUBLISH"
          /\ \A m \in inbox' : m.type \in {"SUBACK", "UNSUBACK"} => m = reply
          /\ ~(phase = "wait" /\ ack = Awaited)
      BY <2>1, <3>1 DEF Once
    <3>4. Once' /\ AckIsGenuine'
      BY <2>2, <3>3 DEF Once, AckIsGenuine, Awaited
    <3>5. Matching'
      BY <2>1, <2>2, <3>1, <3>2, <3>3 DEF Matching, Awaited
    <3> QED
      BY <3>4, <3>5
  <2> QED
    BY <2>1, <2>3, <2>4
<1>3. CASE ShadowPublishes
  <2>1. PICK m \in Messages : inbox' = inbox \cup {m} /\ link
    BY <1>3 DEF ShadowPublishes
  <2>2. UNCHANGED <<phase, call, ok, nextId, subId, unsubId, ack, outbox, subs, refused, link>>
    BY <1>3 DEF ShadowPublishes, client
  <2>3. m.type \notin {"SUBACK", "UNSUBACK"}
    BY PacketTypes
  <2> QED
    BY <2>1, <2>2, <2>3 DEF Matching, Once, AckIsGenuine, Awaited
<1>4. CASE LinkBreaks
  <2>1. /\ outbox' = {} /\ inbox' = {} /\ ~link'
        /\ UNCHANGED <<phase, call, ok, nextId, subId, unsubId, ack, subs, refused>>
    BY <1>4 DEF LinkBreaks, client
  <2> QED
    BY <2>1 DEF Matching, Once, AckIsGenuine, Awaited
<1>5. CASE UNCHANGED vars
  BY <1>5 DEF vars, network, Matching, Once, AckIsGenuine, Awaited
<1> QED
  BY <1>1, <1>2, <1>3, <1>4, <1>5

\* The call in progress is done: if it was an unsubscribe, its topic is gone.
LEMMA LeavingAdvances ==
  ASSUME TypeOK, Numbering, Leaving, Active, Advance, UNCHANGED subs,
         call \in Unsubs => Script[call].topic \notin subs
  PROVE  Leaving'
<1>1. call \in 1 .. 14 /\ call' = call + 1 /\ Len(Script) = 14
  BY ScriptKinds DEF Numbering, Steps, Advance
<1>2. \A u \in Unsubs : u < call' => u < call \/ u = call
  BY <1>1 DEF Unsubs
<1>3. phase' = "disconnect" => call' = 15
  BY <1>1 DEF Advance
<1> QED
  BY <1>1, <1>2, <1>3 DEF Leaving

LEMMA LeavingNext ==
  ASSUME TypeOK, Numbering, Replies, Leaving, [Next]_vars
  PROVE  Leaving'
<1> USE DEF network, At
<1>1. CASE ConnectFails
  BY <1>1 DEF ConnectFails, Leaving, Active
<1>2. CASE StartsClean \/ Resumes
  <2>1. phase' = "call" /\ call' = 1
    BY <1>2 DEF StartsClean, Resumes, Connects
  <2> QED
    BY <2>1 DEF Leaving, Unsubs
<1>3. CASE Fail
  BY <1>3 DEF Fail, Leaving, Active
<1>4. ASSUME Active, Active', UNCHANGED <<call, subs>>
      PROVE  Leaving'
  BY <1>4 DEF Leaving, Active
<1>5. CASE Subscribe
  BY <1>3, <1>4, <1>5 DEF Subscribe, Send, Active
<1>6. CASE Unsubscribe
  BY <1>3, <1>4, <1>6 DEF Unsubscribe, Send, Active
<1>7. CASE Publish
  BY <1>3, <1>4, <1>7 DEF Publish, Send, Active
<1>8. CASE NothingToReport \/ LoopEnds \/ (CheckDelete /\ Advance)
  <2>1. Active /\ Advance /\ UNCHANGED subs
    BY <1>8 DEF NothingToReport, LoopEnds, CheckDelete, Active
  <2>2. Script[call].kind \in {"pub", "check"} /\ call \in Steps
    BY <1>8, <2>1 DEF NothingToReport, LoopEnds, CheckDelete, Numbering
  <2>3. call \notin Unsubs
    BY <2>2, ScriptKinds
  <2> QED
    BY <2>1, <2>3, LeavingAdvances
<1>9. CASE WaitEnds
  <2>1. Active /\ Advance /\ UNCHANGED subs /\ phase = "wait" /\ ack = Awaited
    BY <1>9 DEF WaitEnds, Active
  <2>2. call \in Unsubs => Script[call].topic \notin subs
    BY <2>1, ScriptKinds DEF Replies, AckIsGenuine, Numbering
  <2> QED
    BY <2>1, <2>2, LeavingAdvances
<1>10. CASE WaitFails \/ CheckDelete
  BY <1>3, <1>8, <1>10 DEF WaitFails, CheckDelete
<1>11. CASE DisconnectMqttSession \/ Judge
  BY <1>11 DEF DisconnectMqttSession, Judge, Leaving, Active
<1>12. ASSUME UNCHANGED <<phase, call, ok>>, subs' \subseteq subs
       PROVE  Leaving'
  BY <1>12 DEF Leaving, Active
<1>13. CASE eventCallback
  <2>1. PICK m \in inbox : Take(m)
    BY <1>13, Handling
  <2> QED
    BY <1>12, <2>1 DEF Take
<1>14. CASE BrokerAnswers
  <2>1. PICK r \in outbox : \/ BrokerSubscribes(r) \/ BrokerRefuses(r)
                            \/ BrokerUnsubscribes(r) \/ BrokerTakes(r)
    BY <1>14 DEF BrokerAnswers
  <2>2. UNCHANGED <<phase, call, ok>>
    BY <1>14 DEF BrokerAnswers, client
  <2>3. CASE BrokerSubscribes(r)
    <3>1. r.type = "SUBSCRIBE" /\ subs' = subs \cup {r.topic}
      BY <2>3 DEF BrokerSubscribes
    <3>2. phase = "wait" \/ (phase = "disconnect" /\ ~ok)
      BY <3>1 DEF Replies, Matching
    <3>3. CASE phase = "wait"
      <4>1. r.topic = Script[call].topic /\ Script[call].kind = "sub" /\ call \in Steps
        BY <3>1, <3>3 DEF Replies, Matching, Numbering, Active
      <4>2. call \in Subs
        BY <4>1, ScriptKinds
      <4>3. \A u \in Unsubs : u < call => Script[u].topic # r.topic
        BY <4>1, <4>2, ScriptTopics
      <4> QED
        BY <2>2, <3>1, <3>3, <4>3 DEF Leaving, Active
    <3>4. CASE phase = "disconnect" /\ ~ok
      BY <2>2, <3>4 DEF Leaving, Active
    <3> QED
      BY <3>2, <3>3, <3>4
  <2>4. CASE BrokerRefuses(r) \/ BrokerUnsubscribes(r) \/ BrokerTakes(r)
    BY <1>12, <2>2, <2>4 DEF BrokerRefuses, BrokerUnsubscribes, BrokerTakes
  <2> QED
    BY <2>1, <2>3, <2>4
<1>15. CASE ShadowPublishes \/ LinkBreaks \/ UNCHANGED vars
  BY <1>12, <1>15 DEF ShadowPublishes, LinkBreaks, client, vars
<1>16. CASE Task
  BY <1>1, <1>2, <1>5, <1>6, <1>7, <1>8, <1>9, <1>10, <1>11, <1>16 DEF Task
<1> QED
  BY <1>13, <1>14, <1>15, <1>16 DEF Next

-----------------------------------------------------------------------------
(* The theorems. *)

LEMMA InitHolds == Init => IInv
<1> SUFFICES ASSUME Init PROVE IInv
  OBVIOUS
<1>1. Numbering
  BY RunsAssumption DEF Init, Numbering, Active
<1>2. Publishes
  BY DEF Init, Publishes, Pending
<1>3. Replies
  BY DEF Init, Replies, Matching, Once, AckIsGenuine
<1>4. Leaving
  BY DEF Init, Leaving, Active
<1> QED
  BY <1>1, <1>2, <1>3, <1>4, TypeInit DEF IInv, Replies

LEMMA NextHolds == IInv /\ [Next]_vars => IInv'
<1> SUFFICES ASSUME IInv, [Next]_vars PROVE IInv'
  OBVIOUS
<1>1. TypeOK /\ Numbering /\ Publishes /\ Replies /\ Leaving
  BY DEF IInv, Replies
<1>2. TypeOK'
  BY <1>1, TaskTypesNext, FlagTypesNext, PacketsNext DEF TypeOK
<1>3. Numbering' /\ Publishes'
  BY <1>1, NumberingNext, PublishesNext
<1>4. Replies'
  BY <1>1, RepliesTask, RepliesEnv DEF Next
<1>5. Leaving'
  BY <1>1, LeavingNext
<1> QED
  BY <1>2, <1>3, <1>4, <1>5 DEF IInv, Replies

LEMMA Invariant == Spec => []IInv
BY InitHolds, NextHolds, PTL DEF Spec

\* Every reachable state is well typed: in particular the identifiers stay
\* within the calls of the script, and no more than MaxRuns runs are made.
THEOREM TypeCorrect == Spec => []TypeOK
<1>1. IInv => TypeOK
  BY DEF IInv
<1> QED
  BY <1>1, Invariant, PTL

\* The assertions of HandleOtherIncomingPacket never fail.
THEOREM AssertionsHold == Spec => []AcksMatchRequests
<1>1. IInv => AcksMatchRequests
  BY DEF IInv, Matching, AcksMatchRequests
<1> QED
  BY <1>1, Invariant, PTL

\* A subscribe or an unsubscribe that returns success was answered by the
\* broker: it was done, or it is a subscribe that the broker refused.
THEOREM AcksAreGenuine == Spec => []AckIsGenuine
<1>1. IInv => AckIsGenuine
  BY DEF IInv
<1> QED
  BY <1>1, Invariant, PTL

\* A run whose calls have all succeeded leaves nothing subscribed.
THEOREM NothingStaysSubscribed == Spec => []LeavesNoSubscription
<1>1. IInv => LeavesNoSubscription
  <2> SUFFICES ASSUME IInv, phase = "disconnect", ok PROVE subs = {}
    BY DEF LeavesNoSubscription
  <2>1. \A u \in Unsubs : Script[u].topic \notin subs
    BY DEF IInv, Leaving, Unsubs
  <2>2. subs \subseteq Topics
    BY DEF IInv, TypeOK, PacketsInFlight
  <2> QED
    BY <2>1, <2>2, ScriptTopics
<1> QED
  BY <1>1, Invariant, PTL

=============================================================================
