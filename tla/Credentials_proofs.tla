-------------------------- MODULE Credentials_proofs --------------------------
(***************************************************************************)
(* Proofs about the two programs that keep credentials in flash key by     *)
(* key: NvsStore, for every set of networks, and Nimble, for every number  *)
(* of packets, of waiting requests, of troubles and of failed accesses.    *)
(***************************************************************************)
EXTENDS NvsStore, Nimble, SequenceTheorems, TLAPS

-----------------------------------------------------------------------------
(* NvsStore: type correctness.                                             *)

LEMMA ConfigTypes ==
  \A c \in Configs : /\ c \in [ssid : Ssids \cup {Blank}, password : Passwords \cup {Blank}]
                     /\ c.ssid # Absent /\ c.password # Absent
                     /\ (c.ssid = Blank <=> c = NoNet)
                     /\ (c.password = Blank <=> c = NoNet)
BY NvsAssumption DEF Configs, NoNet

FlashType == [ssid : Ssids \cup {Blank, Absent},
              password : Passwords \cup {Blank, Absent},
              settings : {"default", Absent}]

LEMMA NvsTypeInit == NvsInit => NvsTypeOK
<1> SUFFICES ASSUME NvsInit PROVE NvsTypeOK
  OBVIOUS
<1>1. EmptyFlash \in FlashType
  BY DEF EmptyFlash, Fields, FlashType
<1>2. [EmptyFlash EXCEPT !.settings = "default"] \in FlashType
  BY <1>1 DEF FlashType
<1>3. \A c \in Configs : Holds(c) \in FlashType
  BY ConfigTypes DEF Holds, FlashType
<1>4. blobs \in FlashType
  BY <1>1, <1>2, <1>3 DEF NvsInit
<1>5. posting \in [net : Configs, at : {"idle", "ssid", "password"}]
  BY DEF NvsInit, Idle, Configs
<1> QED
  BY <1>4, <1>5 DEF NvsInit, NvsTypeOK, NoNet, FlashType

LEMMA NvsTypeNext == NvsTypeOK /\ [NvsNext]_nvsVars => NvsTypeOK'
<1> SUFFICES ASSUME NvsTypeOK, [NvsNext]_nvsVars PROVE NvsTypeOK'
  OBVIOUS
<1> USE DEF NvsTypeOK, Fields
<1>1. CASE TakeLock
  BY <1>1 DEF TakeLock
<1>2. CASE OpenFails
  BY <1>2 DEF OpenFails, Ends, NoNet
<1>3. CASE BeginSave \/ BeginErase \/ SaveOpen
  <2>1. CASE BeginSave
    BY <2>1 DEF BeginSave
  <2>2. CASE BeginErase
    BY <2>2 DEF BeginErase, NoNet
  <2>3. CASE SaveOpen
    BY <2>3 DEF SaveOpen, After
  <2> QED
    BY <1>3, <2>1, <2>2, <2>3
<1>4. ASSUME NEW f \in Fields, SaveSkips(f) \/ SaveWriteFails(f) PROVE NvsTypeOK'
  BY <1>4 DEF SaveSkips, SaveWriteFails, Ends, After, At
<1>5. ASSUME NEW f \in Fields, SaveWrites(f) PROVE NvsTypeOK'
  <2>1. Wanted("ssid") \in Ssids \cup {Blank, Absent}
    BY DEF Wanted
  <2>2. Wanted("password") \in Passwords \cup {Blank, Absent}
    BY DEF Wanted
  <2>3. Wanted("settings") = "default"
    BY DEF Wanted
  <2>4. blobs' \in [ssid : Ssids \cup {Blank, Absent},
                    password : Passwords \cup {Blank, Absent},
                    settings : {"default", Absent}]
    BY <1>5, <2>1, <2>2, <2>3 DEF SaveWrites
  <2> QED
    BY <1>5, <2>4 DEF SaveWrites, After, At
<1>6. CASE SaveEnds \/ SaveEndsBadly
  BY <1>6 DEF SaveEnds, SaveEndsBadly, Ends
<1>7. CASE FetchOpen
  BY <1>7 DEF FetchOpen, NoNet
<1>8. CASE FetchEnds
  BY <1>8 DEF FetchEnds, Ends, NoNet
<1>9. ASSUME NEW f \in Fields, FetchReads(f) PROVE NvsTypeOK'
  <2>1. CASE f = "ssid"
    BY <1>9, <2>1 DEF FetchReads, After, At
  <2>2. CASE f = "password"
    BY <1>9, <2>2 DEF FetchReads, After, At
  <2> QED
    BY <1>9, <2>1, <2>2 DEF FetchReads
<1>10. ASSUME NEW f \in Fields, FetchFails(f) PROVE NvsTypeOK'
  BY <1>10 DEF FetchFails, Ends, NoNet
<1>11. ASSUME NEW net \in Nets, PostBegins(net) PROVE NvsTypeOK'
  BY <1>11 DEF PostBegins, NoNet, Configs, nvsTaskVars
<1>12. CASE PostCopies
  <2>1. posting.net \in [ssid : Ssids \cup {Blank}, password : Passwords \cup {Blank}]
    BY ConfigTypes
  <2>2. CASE posting.at = "ssid"
    BY <1>12, <2>1, <2>2 DEF PostCopies, nvsTaskVars
  <2>3. CASE posting.at = "password"
    BY <1>12, <2>1, <2>3 DEF PostCopies, Idle, Configs, nvsTaskVars
  <2> QED
    BY <1>12, <2>2, <2>3 DEF PostCopies
<1>13. CASE AppLocks \/ AppUnlocks
  BY <1>13 DEF AppLocks, AppUnlocks, nvsTaskVars
<1>14. CASE PowerOff
  BY <1>14 DEF PowerOff, NoNet, Idle, Configs
<1>15. CASE UNCHANGED nvsVars
  BY <1>15 DEF nvsVars, nvsTaskVars
<1> QED
  BY <1>1, <1>2, <1>3, <1>4, <1>5, <1>6, <1>7, <1>8, <1>9, <1>10, <1>11, <1>12,
     <1>13, <1>14, <1>15 DEF NvsNext, TaskStep, Save, Fetch

(* Flash, configuration and program counters keep their types.             *)
THEOREM NvsTypeCorrect == NvsSpec => []NvsTypeOK
BY NvsTypeInit, NvsTypeNext, PTL DEF NvsSpec

-----------------------------------------------------------------------------
(* NvsStore: the mutex.                                                    *)

LockInv == mutex = "wifi_manager" => op # "none"

(* Without flash errors the task returns from every save and every fetch   *)
(* with the mutex released: the only exit that keeps it is the one taken   *)
(* after a failed access.                                                  *)
THEOREM LockIsFreeAtRest ==
  ASSUME "ioerror" \notin Env
  PROVE  NvsSpec => []LockFreeAtRest
<1>1. NvsInit => LockInv
  BY DEF NvsInit, LockInv
<1>2. LockInv /\ [NvsNext]_nvsVars => LockInv'
  <2> SUFFICES ASSUME LockInv, [NvsNext]_nvsVars PROVE LockInv'
    OBVIOUS
  <2> USE DEF LockInv
  <2>1. CASE TakeLock \/ OpenFails
    BY <2>1 DEF TakeLock, OpenFails, Ends
  <2>2. CASE Save
    BY <2>2 DEF Save, BeginSave, BeginErase, SaveOpen, SaveSkips, SaveWrites,
                SaveWriteFails, SaveEnds, SaveEndsBadly, Ends, MayFail
  <2>3. CASE Fetch
    BY <2>3 DEF Fetch, FetchOpen, FetchReads, FetchFails, FetchEnds, Ends
  <2>4. CASE PostCopies \/ \E net \in Nets : PostBegins(net)
    BY <2>4 DEF PostCopies, PostBegins, nvsTaskVars
  <2>5. CASE AppLocks \/ AppUnlocks \/ PowerOff
    BY <2>5 DEF AppLocks, AppUnlocks, PowerOff
  <2>6. CASE UNCHANGED nvsVars
    BY <2>6 DEF nvsVars, nvsTaskVars
  <2> QED
    BY <2>1, <2>2, <2>3, <2>4, <2>5, <2>6 DEF NvsNext, TaskStep
<1>3. LockInv => LockFreeAtRest
  BY DEF LockInv, LockFreeAtRest
<1> QED
  BY <1>1, <1>2, <1>3, PTL DEF NvsSpec

-----------------------------------------------------------------------------
(* NvsStore: fetching.                                                     *)

FetchInv ==
  /\ op = "fetch" <=> restored = Unknown
  /\ op = "fetch" =>
       /\ posting = Idle
       /\ step \in {"lock", "open"} => config = NoNet
       /\ step = "ssid" => config = NoNet
       /\ step \in {"password", "settings"} => config.ssid = blobs.ssid
       /\ step = "settings" => config.password = blobs.password
       /\ step # "commit"

LEMMA NotUnknown == NvsTypeOK => config # Unknown /\ NoNet # Unknown
BY UnknownAssumption DEF NvsTypeOK, NoNet

LEMMA FetchNext == NvsTypeOK /\ FetchInv /\ [NvsNext]_nvsVars => FetchInv'
<1> SUFFICES ASSUME NvsTypeOK, FetchInv, [NvsNext]_nvsVars PROVE FetchInv'
  OBVIOUS
<1> USE DEF FetchInv
<1>1. CASE TakeLock
  BY <1>1 DEF TakeLock
<1>2. CASE OpenFails
  BY <1>2, NotUnknown DEF OpenFails, Ends
<1>3. CASE Save
  BY <1>3 DEF Save, BeginSave, BeginErase, SaveOpen, SaveSkips, SaveWrites,
              SaveWriteFails, SaveEnds, SaveEndsBadly, Ends, At
<1>4. CASE FetchOpen
  BY <1>4 DEF FetchOpen, At
<1>5. ASSUME NEW f \in Fields, FetchReads(f) PROVE FetchInv'
  <2>1. CASE f = "ssid"
    BY <1>5, <2>1 DEF FetchReads, At, After, NvsTypeOK
  <2>2. CASE f = "password"
    BY <1>5, <2>2 DEF FetchReads, At, After, NvsTypeOK
  <2> QED
    BY <1>5, <2>1, <2>2 DEF FetchReads, Fields
<1>6. ASSUME NEW f \in Fields, FetchFails(f) PROVE FetchInv'
  BY <1>6, NotUnknown DEF FetchFails, Ends
<1>7. CASE FetchEnds
  BY <1>7, NotUnknown DEF FetchEnds, Ends
<1>8. ASSUME NEW net \in Nets, PostBegins(net) PROVE FetchInv'
  BY <1>8 DEF PostBegins, nvsTaskVars
<1>9. CASE PostCopies
  BY <1>9 DEF PostCopies, nvsTaskVars, Idle
<1>10. CASE AppLocks \/ AppUnlocks
  BY <1>10 DEF AppLocks, AppUnlocks, nvsTaskVars
<1>11. CASE PowerOff
  BY <1>11 DEF PowerOff
<1>12. CASE UNCHANGED nvsVars
  BY <1>12 DEF nvsVars, nvsTaskVars
<1> QED
  BY <1>1, <1>2, <1>3, <1>4, <1>5, <1>6, <1>7, <1>8, <1>9, <1>10, <1>11, <1>12
     DEF NvsNext, TaskStep, Fetch

LEMMA FetchInit == NvsInit => FetchInv
BY DEF NvsInit, FetchInv

LEMMA ReadsAreStored ==
  ASSUME NvsTypeOK, config.ssid = blobs.ssid, config.password = blobs.password
  PROVE  FlashPair = config
<1>1. blobs.ssid # Absent /\ blobs.password # Absent
  BY NvsAssumption DEF NvsTypeOK
<1> QED
  BY <1>1 DEF FlashPair, Stored, NvsTypeOK

(* Only the branch that has read all three blobs reports a network, and no *)
(* POST and no save touches configuration or flash before it: a restored   *)
(* network is never half read, whatever fails and whenever.                *)
THEOREM RestoresAreFaithful == NvsSpec => RestoreIsFaithful
<1>1. ASSUME NvsTypeOK, FetchInv, [NvsNext]_nvsVars,
             restored = Unknown, restored' \notin {Unknown, NoNet}
      PROVE  restored' = FlashPair
  <2>1. FetchEnds
    BY <1>1 DEF NvsNext, TaskStep, TakeLock, OpenFails, Save, BeginSave, BeginErase,
                SaveOpen, SaveSkips, SaveWrites, SaveWriteFails, SaveEnds,
                SaveEndsBadly, Fetch, FetchOpen, FetchReads, FetchFails, PostBegins,
                PostCopies, AppLocks, AppUnlocks, PowerOff, nvsVars, nvsTaskVars, At
  <2> QED
    BY <1>1, <2>1, ReadsAreStored DEF FetchEnds, At, FetchInv
<1> QED
  BY <1>1, NvsTypeInit, NvsTypeNext, FetchInit, FetchNext, PTL DEF NvsSpec, RestoreIsFaithful

-----------------------------------------------------------------------------
(* NvsStore: saving.                                                       *)

\* The blobs already dealt with, when the save does step s next.
Passed(f, s) == CASE f = "ssid" -> s \in {"password", "settings", "commit"}
                  [] f = "password" -> s \in {"settings", "commit"}
                  [] OTHER -> FALSE

SaveInv ==
  /\ op = "save" => posting = Idle
  /\ op = "save" =>
       \A f \in {"ssid", "password"} :
         Passed(f, step) /\ f \notin failed => Stored(f) = config[f]

LEMMA BlobsExist ==
  NvsTypeOK => /\ \A f \in {"ssid", "password"} : config[f] # Absent
            /\ blobs = [f \in Fields |-> blobs[f]]
BY NvsAssumption DEF NvsTypeOK, Fields

\* One blob is dealt with, and the ones before it stay as they are.
LEMMA SaveStepKeepsInv ==
  ASSUME NvsTypeOK, SaveInv, NEW f \in Fields, SaveSkips(f) \/ SaveWrites(f)
  PROVE  SaveInv'
<1> USE DEF SaveInv, Fields
<1>1. op = "save" /\ op' = "save" /\ posting' = posting /\ config' = config
      /\ step = f /\ step' = After(f)
  BY DEF SaveSkips, SaveWrites, At
<1>2. ASSUME NEW g \in {"ssid", "password"}, Passed(g, step'), g \notin failed'
      PROVE  Stored(g)' = config'[g]
  <2>1. CASE g # f
    <3>1. Passed(g, step)
      BY <1>1, <1>2, <2>1 DEF Passed, After
    <3>2. g \notin failed /\ blobs'[g] = blobs[g]
      BY <1>2, <2>1 DEF SaveSkips, SaveWrites, NvsTypeOK
    <3> QED
      BY <1>1, <3>1, <3>2 DEF Stored
  <2>2. CASE g = f /\ SaveSkips(f)
    BY <1>1, <1>2, <2>2 DEF SaveSkips, Stored, Wanted, At
  <2>3. CASE g = f /\ SaveWrites(f)
    <3>1. blobs'[g] = config[g]
      BY <2>3 DEF SaveWrites, Wanted, NvsTypeOK
    <3> QED
      BY <1>1, <3>1, BlobsExist DEF Stored
  <2> QED
    BY <2>1, <2>2, <2>3
<1> QED
  BY <1>1, <1>2

LEMMA SaveNext ==
  ASSUME "post" \notin Env
  PROVE  NvsTypeOK /\ SaveInv /\ [NvsNext]_nvsVars => SaveInv'
<1> SUFFICES ASSUME NvsTypeOK, SaveInv, [NvsNext]_nvsVars PROVE SaveInv'
  OBVIOUS
<1>1. CASE TakeLock
  BY <1>1 DEF TakeLock, SaveInv, Passed, Stored
<1>2. CASE OpenFails \/ Fetch
  BY <1>2 DEF OpenFails, Fetch, FetchOpen, FetchReads, FetchFails, FetchEnds, Ends,
              At, SaveInv
<1>3. CASE BeginSave \/ BeginErase \/ SaveOpen
  BY <1>3 DEF BeginSave, BeginErase, SaveOpen, After, SaveInv, Passed, At
<1>4. ASSUME NEW f \in Fields, SaveSkips(f) \/ SaveWrites(f) PROVE SaveInv'
  BY <1>4, SaveStepKeepsInv
<1>5. CASE SaveEnds \/ SaveEndsBadly \/ \E f \in Fields : SaveWriteFails(f)
  BY <1>5 DEF SaveEnds, SaveEndsBadly, SaveWriteFails, Ends, SaveInv
<1>6. ASSUME NEW net \in Nets, PostBegins(net) PROVE SaveInv'
  BY <1>6 DEF PostBegins, nvsTaskVars, SaveInv
<1>7. CASE PostCopies
  BY <1>7 DEF PostCopies, nvsTaskVars, SaveInv, Idle
<1>8. CASE AppLocks \/ AppUnlocks \/ PowerOff
  BY <1>8 DEF AppLocks, AppUnlocks, PowerOff, nvsTaskVars, SaveInv, Stored
<1>9. CASE UNCHANGED nvsVars
  BY <1>9 DEF nvsVars, nvsTaskVars, SaveInv, Stored
<1> QED
  BY <1>1, <1>2, <1>3, <1>4, <1>5, <1>6, <1>7, <1>8, <1>9 DEF NvsNext, TaskStep, Save

(* A save deals with the blobs in turn: each is compared with the          *)
(* configuration, and written if it differs, before the next is read.  As  *)
(* long as no POST changes the configuration meanwhile, the blobs already  *)
(* dealt with agree with it, whatever mixture was there before.            *)
THEOREM SavesAreComplete ==
  ASSUME "post" \notin Env
  PROVE  NvsSpec => SaveIsComplete
<1>1. NvsInit => SaveInv
  BY DEF NvsInit, SaveInv
<1>2. ASSUME NvsTypeOK, SaveInv, [NvsNext]_nvsVars,
             At("save", "commit"), op' = "none", failed = {}
      PROVE  FlashPair' = config
  <2>1. blobs' = blobs
    BY <1>2 DEF NvsNext, TaskStep, TakeLock, OpenFails, Save, BeginSave, BeginErase,
                SaveOpen, SaveSkips, SaveWrites, SaveWriteFails, SaveEnds,
                SaveEndsBadly, Fetch, FetchOpen, FetchReads, FetchFails, FetchEnds,
                PostBegins, PostCopies, AppLocks, AppUnlocks, PowerOff, nvsVars,
                nvsTaskVars, At
  <2>2. FlashPair = config
    BY <1>2 DEF SaveInv, Passed, FlashPair, NvsTypeOK, At
  <2> QED
    BY <2>1, <2>2 DEF FlashPair, Stored
<1> QED
  BY <1>1, <1>2, NvsTypeInit, NvsTypeNext, SaveNext, PTL DEF NvsSpec, SaveIsComplete

-----------------------------------------------------------------------------
(* NvsStore: the refinement of CredentialStore.                            *)

Undisturbed == Env \subseteq {"restart"}

\* Between saves flash holds a network or none, and the settings with it.
Whole == /\ blobs.ssid = Absent <=> blobs.password = Absent
         /\ blobs.settings = Absent => blobs.ssid = Absent
         /\ FlashPair \in Configs

\* While a save replaces one network by another.
Mixed == /\ blobs.ssid = Absent => blobs.password = Absent
         /\ blobs.password = Absent /\ config = NoNet => blobs.ssid = Absent
         /\ blobs.settings = Absent => blobs.password = Absent

Replaced == blobs.ssid = Absent <=> blobs.password = Absent

PostInv ==
  /\ posting # Idle => posting.net \in Nets /\ posting.at \in {"ssid", "password"}
  /\ posting.at = "ssid" => config = NoNet
  /\ posting.at = "password" => config = [ssid |-> posting.net.ssid, password |-> Blank]
  /\ op # "fetch" /\ posting = Idle => config \in Configs

StoreInv ==
  /\ failed = {}
  /\ op # "save" \/ step \in {"lock", "open", "ssid"} => Whole
  /\ op = "save" => CASE step = "password" -> Mixed
                      [] step = "settings" -> Replaced
                      [] step = "commit" -> Replaced /\ blobs.settings # Absent
                      [] OTHER -> TRUE

DetailInv == NvsTypeOK /\ FetchInv /\ SaveInv /\ PostInv /\ StoreInv

LEMMA PostInit == NvsInit => PostInv
BY DEF NvsInit, PostInv, Idle, Configs

LEMMA CopyField ==
  ASSUME NEW s, NEW p, NEW v
  PROVE  /\ [[ssid |-> s, password |-> p] EXCEPT !["ssid"] = v]
               = [ssid |-> v, password |-> p]
         /\ [[ssid |-> s, password |-> p] EXCEPT !["password"] = v]
               = [ssid |-> s, password |-> v]
<1>1. [[ssid |-> s, password |-> p] EXCEPT !["ssid"] = v] = [ssid |-> v, password |-> p]
  OBVIOUS
<1>2. [[ssid |-> s, password |-> p] EXCEPT !["password"] = v] = [ssid |-> s, password |-> v]
  OBVIOUS
<1> QED
  BY <1>1, <1>2

LEMMA PostNext ==
  ASSUME Undisturbed
  PROVE  DetailInv /\ [NvsNext]_nvsVars => PostInv'
<1> SUFFICES ASSUME DetailInv, [NvsNext]_nvsVars PROVE PostInv'
  OBVIOUS
<1> USE DEF DetailInv, PostInv, Undisturbed
<1>1. CASE TakeLock
  BY <1>1 DEF TakeLock
<1>2. CASE OpenFails
  BY <1>2 DEF OpenFails, Ends, MayFail, FetchInv, Configs
<1>3. CASE BeginSave \/ BeginErase \/ SaveOpen
  BY <1>3 DEF BeginSave, BeginErase, SaveOpen, Configs, At, Idle
<1>4. CASE \E f \in Fields : SaveSkips(f) \/ SaveWrites(f) \/ SaveWriteFails(f)
  BY <1>4 DEF SaveSkips, SaveWrites, SaveWriteFails, Ends, MayFail, At
<1>5. CASE SaveEnds \/ SaveEndsBadly
  BY <1>5 DEF SaveEnds, SaveEndsBadly, Ends, MayFail, At
<1>6. CASE FetchOpen \/ \E f \in Fields : FetchReads(f)
  BY <1>6 DEF FetchOpen, FetchReads, FetchInv, At, Idle
<1>7. ASSUME NEW f \in Fields, FetchFails(f) PROVE PostInv'
  <2>1. blobs.ssid = Absent
    BY <1>7 DEF FetchFails, MayFail, StoreInv, Whole, At, Fields
  <2>2. f = "ssid"
    BY <1>7, <2>1, NvsAssumption DEF FetchFails, FetchInv, NvsTypeOK, At, Fields
  <2> QED
    BY <1>7, <2>2 DEF FetchFails, FetchInv, Ends, At, Configs
<1>8. CASE FetchEnds
  <2>1. config = FlashPair
    BY <1>8, ReadsAreStored DEF FetchEnds, FetchInv, At
  <2> QED
    BY <1>8, <2>1 DEF FetchEnds, FetchInv, Ends, At, StoreInv, Whole
<1>9. ASSUME NEW net \in Nets, PostBegins(net) PROVE PostInv'
  BY <1>9 DEF PostBegins, nvsTaskVars, Idle
<1>10. CASE PostCopies
  <2>1. posting.net \in Nets /\ posting.at \in {"ssid", "password"}
    BY <1>10 DEF PostCopies, Idle
  <2>2. posting.net = [ssid |-> posting.net.ssid, password |-> posting.net.password]
    BY <2>1, NvsAssumption
  <2>3. CASE posting.at = "ssid"
    <3>1. config' = [config EXCEPT !["ssid"] = posting.net["ssid"]]
      BY <1>10, <2>3 DEF PostCopies
    <3>2. config' = [ssid |-> posting.net.ssid, password |-> Blank]
      <4>1. config = [ssid |-> Blank, password |-> Blank]
        BY <2>3 DEF NoNet
      <4> QED
        BY <3>1, <4>1, CopyField
    <3>3. posting' = [posting EXCEPT !.at = "password"]
      BY <1>10, <2>3 DEF PostCopies
    <3>4. posting'.at = "password" /\ posting'.net = posting.net
      BY <3>3 DEF NvsTypeOK
    <3> QED
      BY <2>1, <3>2, <3>4 DEF Idle
  <2>4. CASE posting.at = "password"
    <3>1. config' = [config EXCEPT !["password"] = posting.net["password"]]
      BY <1>10, <2>4 DEF PostCopies
    <3>2. config' = [ssid |-> posting.net.ssid, password |-> posting.net.password]
      <4>1. config = [ssid |-> posting.net.ssid, password |-> Blank]
        BY <2>4
      <4> QED
        BY <3>1, <4>1, CopyField
    <3> QED
      BY <1>10, <2>1, <2>2, <2>4, <3>2 DEF PostCopies, Idle, Configs
  <2> QED
    BY <2>1, <2>3, <2>4
<1>11. CASE AppLocks \/ AppUnlocks
  BY <1>11 DEF AppLocks, AppUnlocks, nvsTaskVars
<1>12. CASE PowerOff
  BY <1>12 DEF PowerOff, Idle
<1>13. CASE UNCHANGED nvsVars
  BY <1>13 DEF nvsVars, nvsTaskVars
<1> QED
  BY <1>1, <1>2, <1>3, <1>4, <1>5, <1>6, <1>7, <1>8, <1>9, <1>10, <1>11, <1>12, <1>13
     DEF NvsNext, TaskStep, Save, Fetch

LEMMA StartsAsStore == NvsInit => StoreInv
<1> SUFFICES ASSUME NvsInit PROVE StoreInv
  OBVIOUS
<1>1. CASE blobs = EmptyFlash \/ blobs = [EmptyFlash EXCEPT !.settings = "default"]
  BY <1>1 DEF NvsInit, StoreInv, Whole, FlashPair, Stored, EmptyFlash, Fields, Configs, NoNet
<1>2. ASSUME NEW c \in Configs, blobs = Holds(c) PROVE StoreInv
  <2>1. c.ssid # Absent /\ c.password # Absent
        /\ c = [ssid |-> c.ssid, password |-> c.password]
    BY ConfigTypes
  <2>2. FlashPair = c
    BY <1>2, <2>1 DEF FlashPair, Stored, Holds
  <2> QED
    BY <1>2, <2>1, <2>2, NvsAssumption DEF NvsInit, StoreInv, Whole, Holds
<1> QED
  BY <1>1, <1>2 DEF NvsInit

\* The three compare-and-write steps of a save, with nothing failing.
LEMMA SaveStepKeepsStore ==
  ASSUME Undisturbed, DetailInv, NEW f \in Fields, SaveSkips(f) \/ SaveWrites(f)
  PROVE  StoreInv'
<1> USE DEF DetailInv
<1>1. /\ op = "save" /\ op' = "save" /\ config' = config
      /\ step = f /\ step' = After(f) /\ failed = {} /\ failed' = {}
  BY DEF SaveSkips, SaveWrites, At, StoreInv, MayFail, Undisturbed
<1>2. config \in Configs
  BY <1>1 DEF PostInv, SaveInv
<1>3. /\ config.ssid # Absent /\ config.password # Absent
      /\ config.ssid = Blank <=> config = NoNet
      /\ config.password = Blank <=> config = NoNet
  BY <1>2, ConfigTypes
<1>4. ASSUME NEW g \in Fields, g # f PROVE blobs'[g] = blobs[g]
  BY <1>4 DEF SaveSkips, SaveWrites, NvsTypeOK, Fields
<1>5. \/ blobs'[f] = blobs[f] /\ Stored(f) = Wanted(f)
      \/ blobs'[f] = Wanted(f)
  BY DEF SaveSkips, SaveWrites, NvsTypeOK, Fields, MayFail, Undisturbed
<1>6. CASE f = "ssid"
  <2>1. Whole /\ blobs'["password"] = blobs["password"] /\ blobs'["settings"] = blobs["settings"]
    BY <1>1, <1>4, <1>6 DEF StoreInv, Fields
  <2>2. \/ blobs'["ssid"] = blobs["ssid"] /\ Stored("ssid") = config.ssid
        \/ blobs'["ssid"] = config.ssid
    BY <1>5, <1>6 DEF Wanted
  <2>3. blobs.ssid # Absent => blobs'["ssid"] # Absent
    BY <1>3, <2>2
  <2>4. blobs'["password"] = Absent /\ config = NoNet => blobs'["ssid"] = Absent
    <3> SUFFICES ASSUME blobs["password"] = Absent, config = NoNet
                 PROVE  blobs'["ssid"] = Absent
      BY <2>1
    <3>1. blobs["ssid"] = Absent /\ Stored("ssid") = Wanted("ssid")
      BY <2>1, <1>3 DEF Whole, Stored, Wanted
    <3> QED
      BY <1>6, <3>1 DEF SaveSkips, SaveWrites, MayFail, Undisturbed
  <2>5. Mixed'
    BY <1>1, <2>1, <2>3, <2>4 DEF Whole, Mixed
  <2> QED
    BY <1>1, <1>6, <2>5 DEF StoreInv, After
<1>7. CASE f = "password"
  <2>1. Stored("ssid") = config.ssid
    BY <1>1, <1>7 DEF SaveInv, Passed
  <2>2. Replaced'
    <3>1. Mixed /\ blobs'["ssid"] = blobs["ssid"]
      BY <1>1, <1>4, <1>7 DEF StoreInv, Fields
    <3>2. blobs["ssid"] # Absent => blobs'["password"] # Absent
      <4> SUFFICES ASSUME blobs["ssid"] # Absent, blobs'["password"] = Absent
                   PROVE  FALSE
        OBVIOUS
      <4>1. blobs["password"] = Absent /\ config.password = Blank
        BY <1>3, <1>5, <1>7 DEF Wanted, Stored
      <4> QED
        BY <1>3, <3>1, <4>1 DEF Mixed
    <3>3. blobs["ssid"] = Absent => blobs'["password"] = Absent
      <4> SUFFICES ASSUME blobs["ssid"] = Absent PROVE blobs'["password"] = Absent
        OBVIOUS
      <4>1. blobs["password"] = Absent /\ config.ssid = Blank
        BY <2>1, <3>1 DEF Mixed, Stored
      <4>2. Stored("password") = Wanted("password")
        BY <1>3, <4>1 DEF Stored, Wanted
      <4> QED
        BY <1>7, <4>1, <4>2 DEF SaveSkips, SaveWrites, MayFail, Undisturbed
    <3> QED
      BY <3>1, <3>2, <3>3 DEF Replaced
  <2> QED
    BY <1>1, <1>7, <2>2 DEF StoreInv, After
<1>8. CASE f = "settings"
  <2>1. blobs'.settings # Absent
    BY <1>5, <1>8, NvsAssumption DEF Wanted, Stored
  <2>2. Replaced'
    BY <1>1, <1>4, <1>8 DEF StoreInv, Replaced, Fields
  <2> QED
    BY <1>1, <1>8, <2>1, <2>2 DEF StoreInv, After
<1> QED
  BY <1>6, <1>7, <1>8 DEF Fields

LEMMA SavedPair ==
  ASSUME DetailInv, At("save", "commit")
  PROVE  FlashPair = config /\ config \in Configs /\ Whole
<1>1. FlashPair = config
  BY DEF DetailInv, SaveInv, StoreInv, Passed, FlashPair, NvsTypeOK, At
<1>2. config \in Configs
  BY DEF DetailInv, PostInv, SaveInv, At
<1> QED
  BY <1>1, <1>2 DEF DetailInv, StoreInv, Replaced, Whole, At

LEMMA StoreNext ==
  ASSUME Undisturbed
  PROVE  DetailInv /\ [NvsNext]_nvsVars => StoreInv'
<1> SUFFICES ASSUME DetailInv, [NvsNext]_nvsVars PROVE StoreInv'
  OBVIOUS
<1> USE DEF DetailInv
<1>1. CASE UNCHANGED <<blobs, failed, config>> /\ op' # "save"
           /\ (op # "save" \/ step \in {"lock", "open", "ssid"} \/ At("save", "commit"))
  <2>1. Whole
    BY <1>1, SavedPair DEF StoreInv
  <2> QED
    BY <1>1, <2>1 DEF StoreInv, Whole, FlashPair, Stored
<1>2. CASE TakeLock
  BY <1>2 DEF TakeLock, StoreInv, Whole, FlashPair, Stored
<1>3. CASE OpenFails
  BY <1>1, <1>3 DEF OpenFails, Ends
<1>4. CASE BeginSave \/ BeginErase \/ SaveOpen
  <2>1. blobs' = blobs /\ failed' = {} /\ op' = "save" /\ step' \in {"lock", "ssid"} /\ Whole
    BY <1>4 DEF BeginSave, BeginErase, SaveOpen, After, StoreInv, At
  <2> QED
    BY <2>1 DEF StoreInv, Whole, FlashPair, Stored
<1>5. ASSUME NEW f \in Fields, SaveSkips(f) \/ SaveWrites(f) PROVE StoreInv'
  BY <1>5, SaveStepKeepsStore
<1>6. CASE SaveEndsBadly \/ \E f \in Fields : SaveWriteFails(f)
  BY <1>6 DEF SaveEndsBadly, SaveWriteFails, MayFail, Undisturbed
<1>7. CASE SaveEnds
  BY <1>1, <1>7 DEF SaveEnds, Ends
<1>8. CASE Fetch
  <2>1. op = "fetch" /\ op' # "save" /\ UNCHANGED <<blobs, failed>>
    BY <1>8 DEF Fetch, FetchOpen, FetchReads, FetchFails, FetchEnds, Ends, At
  <2> QED
    BY <2>1 DEF StoreInv, Whole, FlashPair, Stored
<1>9. CASE PostCopies \/ \E net \in Nets : PostBegins(net)
  <2>1. op # "save" /\ UNCHANGED <<blobs, nvsTaskVars>>
    BY <1>9 DEF PostCopies, PostBegins, SaveInv, Idle, Undisturbed
  <2> QED
    BY <2>1 DEF StoreInv, Whole, FlashPair, Stored, nvsTaskVars
<1>10. CASE AppLocks \/ AppUnlocks \/ UNCHANGED nvsVars
  <2>1. UNCHANGED <<blobs, nvsTaskVars, config>>
    BY <1>10 DEF AppLocks, AppUnlocks, nvsVars
  <2> QED
    BY <2>1 DEF StoreInv, Whole, Mixed, Replaced, FlashPair, Stored, nvsTaskVars
<1>11. CASE PowerOff
  <2>1. op # "save" /\ op' # "save" /\ blobs' = blobs /\ failed' = {}
    BY <1>11 DEF PowerOff, Undisturbed
  <2> QED
    BY <2>1 DEF StoreInv, Whole, FlashPair, Stored
<1> QED
  BY <1>2, <1>3, <1>4, <1>5, <1>6, <1>7, <1>8, <1>9, <1>10, <1>11
     DEF NvsNext, TaskStep, Save

LEMMA DetailInit == NvsInit => DetailInv
BY NvsTypeInit, FetchInit, PostInit, StartsAsStore DEF DetailInv, SaveInv, NvsInit

LEMMA DetailNext ==
  ASSUME Undisturbed
  PROVE  DetailInv /\ [NvsNext]_nvsVars => DetailInv'
BY NvsTypeNext, FetchNext, SaveNext, PostNext, StoreNext DEF DetailInv, Undisturbed

(* As long as nothing but restarts between saves comes in between, flash   *)
(* holds at rest a network that was chosen, with its own password.         *)
THEOREM SavedNetworksAreWhole ==
  ASSUME Undisturbed
  PROVE  NvsSpec => []SavedIsWhole
<1>1. DetailInv => SavedIsWhole
  BY DEF DetailInv, StoreInv, Whole, SavedIsWhole
<1> QED
  BY <1>1, DetailInit, DetailNext, PTL DEF NvsSpec

SavedNet == IF op = "save" THEN config ELSE FlashPair

LEMMA StepsAsStore ==
  ASSUME Undisturbed, DetailInv, DetailInv', [NvsNext]_nvsVars
  PROVE  [Store!Next]_<<SavedNet, restored>>
<1> USE DEF DetailInv
<1>1. CASE SavedNet' = SavedNet /\ restored' = restored
  BY <1>1
<1>2. CASE TakeLock \/ SaveOpen \/ \E f \in Fields : SaveSkips(f) \/ SaveWrites(f)
  <2>1. op' = op /\ config' = config /\ restored' = restored
        /\ (op # "save" => blobs' = blobs)
    BY <1>2 DEF TakeLock, SaveOpen, SaveSkips, SaveWrites, At
  <2> QED
    BY <1>1, <2>1 DEF SavedNet, FlashPair, Stored
<1>3. CASE SaveEndsBadly \/ \E f \in Fields : SaveWriteFails(f)
  BY <1>3 DEF SaveEndsBadly, SaveWriteFails, MayFail, Undisturbed
<1>4. CASE BeginSave \/ BeginErase
  <2>1. SavedNet' = config' /\ restored' = restored /\ config' \in Configs
    BY <1>4 DEF BeginSave, BeginErase, SavedNet, PostInv, SaveInv
  <2> QED
    BY <2>1 DEF Store!Next, Store!Save, SavedNet
<1>5. CASE SaveEnds
  <2>1. FlashPair = config
    BY <1>5, SavedPair DEF SaveEnds
  <2>2. SavedNet = config /\ SavedNet' = FlashPair /\ restored' = restored
    BY <1>5 DEF SaveEnds, Ends, SavedNet, At, FlashPair, Stored
  <2> QED
    BY <1>1, <2>1, <2>2
<1>6. CASE OpenFails \/ FetchEnds \/ \E f \in Fields : FetchFails(f)
  <2>1. op = "fetch" /\ op' = "none" /\ blobs' = blobs /\ restored = Unknown
    BY <1>6 DEF OpenFails, FetchEnds, FetchFails, Ends, At, MayFail, FetchInv, Undisturbed
  <2>2. restored' = FlashPair
    <3>1. CASE OpenFails
      <4>1. blobs = EmptyFlash /\ restored' = NoNet
        BY <2>1, <3>1 DEF OpenFails, MayFail, Undisturbed
      <4> QED
        BY <4>1 DEF FlashPair, Stored, EmptyFlash, Fields, NoNet
    <3>2. CASE FetchEnds
      <4>1. config = FlashPair
        BY <3>2, ReadsAreStored DEF FetchEnds, FetchInv, At
      <4>2. FlashPair \in Configs
        BY <2>1 DEF StoreInv, Whole
      <4> QED
        BY <3>2, <4>1, <4>2, ConfigTypes DEF FetchEnds
    <3>3. CASE \E f \in Fields : FetchFails(f)
      <4>1. blobs.ssid = Absent /\ blobs.password = Absent /\ restored' = NoNet
        BY <2>1, <3>3 DEF FetchFails, MayFail, Undisturbed, StoreInv, Whole, Fields
      <4> QED
        BY <4>1 DEF FlashPair, Stored, NoNet
    <3> QED
      BY <1>6, <3>1, <3>2, <3>3
  <2>3. SavedNet = FlashPair /\ SavedNet' = SavedNet
    BY <2>1 DEF SavedNet, FlashPair, Stored
  <2> QED
    BY <2>1, <2>2, <2>3 DEF Store!Next, Store!Load, SavedNet
<1>7. CASE FetchOpen \/ \E f \in Fields : FetchReads(f)
  <2>1. op = "fetch" /\ op' = "fetch" /\ blobs' = blobs /\ restored' = restored
    BY <1>7 DEF FetchOpen, FetchReads, At
  <2> QED
    BY <1>1, <2>1 DEF SavedNet, FlashPair, Stored
<1>8. CASE PostCopies \/ \E net \in Nets : PostBegins(net)
  <2>1. op # "save" /\ UNCHANGED <<op, blobs, restored>>
    BY <1>8 DEF PostCopies, PostBegins, SaveInv, Idle, Undisturbed, nvsTaskVars
  <2> QED
    BY <1>1, <2>1 DEF SavedNet, FlashPair, Stored
<1>9. CASE AppLocks \/ AppUnlocks \/ UNCHANGED nvsVars
  <2>1. UNCHANGED <<op, config, blobs, restored>>
    BY <1>9 DEF AppLocks, AppUnlocks, nvsVars, nvsTaskVars
  <2> QED
    BY <1>1, <2>1 DEF SavedNet, FlashPair, Stored
<1>10. CASE PowerOff
  <2>1. SavedNet' = SavedNet /\ restored' = Unknown
    BY <1>10 DEF PowerOff, Undisturbed, SavedNet, FlashPair, Stored
  <2> QED
    BY <2>1 DEF Store!Next, Store!Restart, SavedNet
<1> QED
  BY <1>2, <1>3, <1>4, <1>5, <1>6, <1>7, <1>8, <1>9, <1>10
     DEF NvsNext, TaskStep, Save, Fetch

(* Saving three blobs one by one, and reading them back, implements the    *)
(* store that saves one network as a whole: a save counts from its start,  *)
(* a fetch loads what the last save was given.                             *)
THEOREM ImplementsStore ==
  ASSUME Undisturbed
  PROVE  NvsSpec => StoreSpec
<1>1. NvsInit => Store!Init
  <2> SUFFICES ASSUME NvsInit PROVE Store!Init
    OBVIOUS
  <2>1. FlashPair \in Configs
    BY StartsAsStore DEF StoreInv, Whole, NvsInit
  <2> QED
    BY <2>1 DEF Store!Init, NvsInit
<1>2. DetailInv /\ DetailInv' /\ [NvsNext]_nvsVars => [Store!Next]_<<SavedNet, restored>>
  BY StepsAsStore
<1>3. DetailInv /\ DetailInv' /\ [NvsNext]_nvsVars
        => [Store!Next]_<<IF op = "save" THEN config ELSE FlashPair, restored>>
  BY <1>2 DEF SavedNet
<1> QED
  BY <1>1, <1>3, DetailInit, DetailNext, PTL DEF NvsSpec, StoreSpec, Store!Spec

-----------------------------------------------------------------------------
(* Nimble: the store.                                                      *)

(* A call saves the value or nothing; without failures it saves it.        *)
LEMMA StoreStep ==
  ASSUME StoreTypeOK, NEW k \in Keys, NEW v \in Values, NEW ok \in BOOLEAN,
         NVS_store_key(k, v, ok)
  PROVE  /\ StoreTypeOK'
         /\ flash' = flash \/ flash' = [flash EXCEPT ![k] = v]
         /\ flashErrors'["set"] = 0 =>
              /\ flashErrors["set"] = 0
              /\ ok => flash' = [flash EXCEPT ![k] = v]
         /\ Failures' = {} =>
              /\ Failures = {} /\ flashErrors["set"] = 0
              /\ ok /\ flash' = [flash EXCEPT ![k] = v]
<1>1. ASSUME NEW a \in Accesses, AccessFails(a)
      PROVE  /\ flashErrors' \in [Accesses -> Nat] /\ flashErrors'[a] > 0
             /\ flashErrors' # flashErrors
             /\ \A b \in Accesses : flashErrors'[b] >= flashErrors[b]
             /\ Failures' # {}
  <2>1. /\ flashErrors \in [Accesses -> Nat]
        /\ flashErrors' = [flashErrors EXCEPT ![a] = flashErrors[a] + 1]
    BY <1>1 DEF AccessFails, StoreTypeOK
  <2>2. /\ flashErrors' \in [Accesses -> Nat] /\ flashErrors'[a] > 0
        /\ \A b \in Accesses : flashErrors'[b] >= flashErrors[b]
        /\ flashErrors'[a] # flashErrors[a]
    BY <2>1
  <2> QED
    BY <2>2 DEF Failures
<1>2. /\ "set" \in Accesses /\ "open" \in Accesses /\ "size" \in Accesses
      /\ "commit" \in Accesses
  BY DEF Accesses
<1>3. CASE UNCHANGED flashErrors
  <2>4. ok /\ flash' = [flash EXCEPT ![k] = v]
    BY <1>1, <1>2, <1>3 DEF NVS_store_key
  <2>1. Failures' = Failures
    BY <1>3 DEF Failures
  <2>2. Failures = {} => flashErrors["set"] = 0
    BY <1>2 DEF Failures, StoreTypeOK
  <2>3. StoreTypeOK'
    BY <1>3, <2>4 DEF StoreTypeOK
  <2> QED
    BY <1>3, <2>4, <2>1, <2>2, <2>3
<1>4. CASE ~UNCHANGED flashErrors
  <2>1. PICK a \in Accesses :
          /\ AccessFails(a) /\ (flash' = flash \/ flash' = [flash EXCEPT ![k] = v])
          /\ ok => a = "set"
    BY <1>2, <1>4 DEF NVS_store_key
  <2>2. /\ flashErrors' \in [Accesses -> Nat] /\ flashErrors'[a] > 0 /\ Failures' # {}
        /\ flashErrors'["set"] >= flashErrors["set"]
    BY <1>1, <1>2, <2>1
  <2>3. StoreTypeOK'
    BY <2>1, <2>2 DEF StoreTypeOK
  <2>4. flashErrors["set"] \in Nat
    BY <1>2 DEF StoreTypeOK
  <2> QED
    BY <2>1, <2>2, <2>3, <2>4
<1> QED
  BY <1>3, <1>4

-----------------------------------------------------------------------------
(* Nimble: the types.                                                      *)

Events == (GapEvents \X {0}) \cup ({"WRITE"} \X (Values \cup {Bad}))

LEMMA EventTypes ==
  /\ \A e \in GapEvents : <<e, 0>> \in Events
  /\ \A p \in Values \cup {Bad} : <<"WRITE", p>> \in Events
  BY DEF Events

LEMMA AppendType ==
  ASSUME NEW q \in Seq(Events), NEW e \in Events
  PROVE  Append(q, e) \in Seq(Events)
  BY AppendProperties

FlagsT == /\ synced \in BOOLEAN /\ advertising \in BOOLEAN /\ link \in BOOLEAN
          /\ deaf \in BOOLEAN
TroubleT == troublesLeft \in 0 .. Troubles
HostT == FlagsT /\ TroubleT
TaskT == /\ doing \in {"idle"} \cup Keys /\ packet \in Values \cup {Bad}
         /\ doing # "idle" => packet \in Values
LogT  == number \in 0 .. Packets /\ answered \in 0 .. Packets
Types == StoreTypeOK /\ HostT /\ inbox \in Seq(Events) /\ TaskT /\ LogT

LEMMA TroubleType == TroubleT /\ (Trouble \/ UNCHANGED troublesLeft) => TroubleT'
  BY NimbleAssumption DEF TroubleT, Trouble

LEMMA TypesInit == Init => Types
<1> SUFFICES ASSUME Init PROVE Types
  OBVIOUS
<1>1. StoreTypeOK
  BY DEF Init, StoreInit, StoreTypeOK
<1>2. HostT /\ TaskT /\ LogT
  <2>1. FlagsT /\ TaskT
    BY DEF Init, Booted, FlagsT, TaskT
  <2>2. TroubleT /\ LogT
    BY NimbleAssumption DEF Init, TroubleT, LogT
  <2> QED
    BY <2>1, <2>2 DEF HostT
<1>3. inbox \in Seq(Events)
  BY DEF Init, Booted
<1> QED
  BY <1>1, <1>2, <1>3 DEF Types

(* Events that occur: one, or what a reset of the host brings about.       *)
LEMMA InboxGrows ==
  ASSUME Types, Syncs \/ Resets \/ Connects \/ LosesLink \/ WritesBad \/ Reads
  PROVE  /\ inbox' \in Seq(Events) /\ Len(inbox) \in Nat /\ Len(inbox') \in Nat
         /\ Len(inbox) <= Len(inbox')
         /\ \A i \in 1 .. Len(inbox) : inbox'[i] = inbox[i]
         /\ \A i \in 1 .. Len(inbox') :
              i > Len(inbox) => inbox'[i] = <<"WRITE", Bad>> \/ inbox'[i][1] # "WRITE"
<1>1. ASSUME NEW q \in Seq(Events), NEW e \in Events, e = <<"WRITE", Bad>> \/ e[1] # "WRITE"
      PROVE  /\ Append(q, e) \in Seq(Events) /\ Len(q) \in Nat
             /\ Len(Append(q, e)) = Len(q) + 1
             /\ \A i \in 1 .. Len(q) : Append(q, e)[i] = q[i]
             /\ Append(q, e)[Len(q) + 1] = e
  BY AppendProperties
<1>2. CASE Resets
  <2>1. <<"DISCONNECT", 0>> \in Events /\ <<"ADV_COMPLETE", 0>> \in Events
    BY EventTypes DEF GapEvents
  <2> DEFINE ends  == IF link THEN <<<<"DISCONNECT", 0>>>> ELSE <<>>
             stops == IF advertising THEN <<<<"ADV_COMPLETE", 0>>>> ELSE <<>>
             two   == ends \o stops
  <2>2. /\ ends \in Seq(Events)
        /\ \A i \in 1 .. Len(ends) : ends[i] = <<"DISCONNECT", 0>>
    <3>1. CASE link
      <4>1. ends = <<<<"DISCONNECT", 0>>>>
        BY <3>1
      <4>2. ends \in Seq(Events) /\ Len(ends) = 1 /\ ends[1] = <<"DISCONNECT", 0>>
        BY <2>1, <4>1
      <4> QED
        BY <4>2
    <3>2. CASE ~link
      <4>1. ends = <<>>
        BY <3>2
      <4> QED
        BY <4>1
    <3> QED
      BY <3>1, <3>2
  <2>3. /\ stops \in Seq(Events)
        /\ \A i \in 1 .. Len(stops) : stops[i] = <<"ADV_COMPLETE", 0>>
    <3>1. CASE advertising
      <4>1. stops = <<<<"ADV_COMPLETE", 0>>>>
        BY <3>1
      <4>2. stops \in Seq(Events) /\ Len(stops) = 1 /\ stops[1] = <<"ADV_COMPLETE", 0>>
        BY <2>1, <4>1
      <4> QED
        BY <4>2
    <3>2. CASE ~advertising
      <4>1. stops = <<>>
        BY <3>2
      <4> QED
        BY <4>1
    <3> QED
      BY <3>1, <3>2
  <2>4. inbox' = (inbox \o ends) \o stops /\ inbox \in Seq(Events)
    BY <1>2 DEF Resets, Types
  <2> HIDE DEF ends, stops
  <2> DEFINE first == inbox \o ends
  <2>5. /\ first \in Seq(Events) /\ Len(first) = Len(inbox) + Len(ends)
        /\ Len(inbox) \in Nat /\ Len(ends) \in Nat /\ Len(stops) \in Nat
        /\ \A i \in 1 .. Len(inbox) : first[i] = inbox[i]
        /\ \A i \in 1 .. Len(ends) : first[Len(inbox) + i] = ends[i]
    BY <2>2, <2>3, <2>4, ConcatProperties
  <2> HIDE DEF first
  <2> DEFINE all == first \o stops
  <2>6. /\ all \in Seq(Events) /\ Len(all) = Len(first) + Len(stops)
        /\ \A i \in 1 .. Len(first) : all[i] = first[i]
        /\ \A i \in 1 .. Len(stops) : all[Len(first) + i] = stops[i]
    <3>1. first \in Seq(Events) /\ stops \in Seq(Events)
      BY <2>3, <2>5
    <3> QED
      BY <3>1, ConcatProperties
  <2>9. inbox' = all
    BY <2>4 DEF first
  <2> HIDE DEF all
  <2>7. /\ inbox' \in Seq(Events) /\ Len(inbox') = Len(first) + Len(stops)
        /\ \A i \in 1 .. Len(first) : inbox'[i] = first[i]
        /\ \A i \in 1 .. Len(stops) : inbox'[Len(first) + i] = stops[i]
    BY <2>6, <2>9
  <2>8. ASSUME NEW i \in 1 .. Len(inbox'), i > Len(inbox) PROVE inbox'[i][1] # "WRITE"
    <3>1. CASE i <= Len(first)
      <4>1. i - Len(inbox) \in 1 .. Len(ends) /\ Len(inbox) + (i - Len(inbox)) = i
        BY <2>5, <2>8, <3>1
      <4>2. first[Len(inbox) + (i - Len(inbox))] = ends[i - Len(inbox)]
        BY <2>5, <4>1
      <4>3. inbox'[i] = <<"DISCONNECT", 0>>
        BY <2>2, <2>7, <3>1, <4>1, <4>2
      <4> QED
        BY <4>3
    <3>2. CASE i > Len(first)
      <4>1. i - Len(first) \in 1 .. Len(stops) /\ Len(first) + (i - Len(first)) = i
        BY <2>5, <2>7, <3>2
      <4>2. inbox'[Len(first) + (i - Len(first))] = stops[i - Len(first)]
        BY <2>7, <4>1
      <4>3. inbox'[i] = <<"ADV_COMPLETE", 0>>
        BY <2>3, <4>1, <4>2
      <4> QED
        BY <4>3
    <3> QED
      BY <2>5, <3>1, <3>2
  <2> QED
    BY <2>5, <2>7, <2>8
<1>3. CASE ~Resets
  <2>1. PICK e \in Events : inbox' = Append(inbox, e) /\ (e = <<"WRITE", Bad>> \/ e[1] # "WRITE")
    BY <1>3, EventTypes DEF Syncs, Connects, LosesLink, WritesBad, Reads, Occurs, GapEvents
  <2> QED
    BY <1>1, <2>1 DEF Types
<1> QED
  BY <1>2, <1>3

LEMMA AskedType == Types /\ (Writes \/ WritesBad \/ Reads) => HostT'
<1> SUFFICES ASSUME Types, Writes \/ WritesBad \/ Reads PROVE HostT'
  OBVIOUS
<1>1. FlagsT'
  BY DEF Types, HostT, FlagsT, Writes, WritesBad, Reads, Asks
<1>2. Trouble \/ UNCHANGED troublesLeft
  BY DEF Writes, WritesBad, Reads
<1> QED
  BY <1>1, <1>2, TroubleType DEF Types, HostT

Grows == Syncs \/ Resets \/ Connects \/ LosesLink \/ WritesBad \/ Reads

LEMMA GrowsKeeps == Grows => UNCHANGED <<storeVars, taskVars, logVars>>
  BY DEF Grows, Syncs, Resets, Connects, LosesLink, WritesBad, Reads, Asks, logVars

LEMMA TypesGrows == Types /\ Grows => Types'
<1> SUFFICES ASSUME Types, Grows PROVE Types'
  OBVIOUS
<1>1. inbox' \in Seq(Events)
  BY InboxGrows DEF Grows
<1>2. HostT'
  <2>1. FlagsT'
    BY DEF Types, HostT, FlagsT, Grows, Syncs, Resets, Connects, LosesLink, WritesBad, Reads, Asks
  <2>2. Trouble \/ UNCHANGED troublesLeft
    BY DEF Grows, Syncs, Resets, Connects, LosesLink, WritesBad, Reads
  <2> QED
    BY <2>1, <2>2, TroubleType DEF Types, HostT
<1> QED
  BY <1>1, <1>2, GrowsKeeps
     DEF Types, StoreTypeOK, TaskT, LogT, storeVars, taskVars, logVars

LEMMA TypesWrites == Types /\ Writes => Types'
<1> SUFFICES ASSUME Types, Writes PROVE Types'
  OBVIOUS
<1>1. number' = number + 1 /\ number' \in 1 .. Packets /\ inbox' = Append(inbox, <<"WRITE", number'>>)
  BY NimbleAssumption DEF Writes, Types, LogT
<1>2. <<"WRITE", number'>> \in Events
  BY <1>1, EventTypes, NimbleAssumption
<1>3. inbox' \in Seq(Events)
  BY <1>1, <1>2, AppendType DEF Types
<1> QED
  BY <1>1, <1>3, AskedType DEF Types, StoreTypeOK, TaskT, LogT, storeVars, taskVars, Writes, Asks

LEMMA TypesPowerCut == Types /\ PowerCut => Types'
<1> SUFFICES ASSUME Types, PowerCut PROVE Types'
  OBVIOUS
<1>1. HostT' /\ TaskT' /\ inbox' = <<>>
  <2>1. FlagsT' /\ TaskT' /\ inbox' = <<>> /\ Trouble
    BY DEF PowerCut, FlagsT, TaskT
  <2> QED
    BY <2>1, TroubleType DEF Types, HostT
<1>2. inbox' \in Seq(Events)
  BY <1>1
<1> QED
  BY <1>1, <1>2 DEF Types, StoreTypeOK, LogT, storeVars, logVars, PowerCut

Handled == HandleSync \/ HandleConnect \/ HandleConnectFailed \/ HandleDisconnect
             \/ HandleAdvComplete \/ HandleRead \/ HandleWrite

LEMMA HandledKeeps ==
  Handled => /\ doing = "idle" /\ inbox # <<>> /\ inbox' = Tail(inbox)
             /\ UNCHANGED <<storeVars, logVars>>
  BY DEF Handled, HandleSync, HandleConnect, HandleConnectFailed, HandleDisconnect,
         HandleAdvComplete, HandleRead, HandleWrite, Receive

LEMMA TypesHandled == Types /\ Handled => Types'
<1> SUFFICES ASSUME Types, Handled PROVE Types'
  OBVIOUS
<1>1. inbox' \in Seq(Events)
  BY HandledKeeps, HeadTailProperties DEF Types
<1>2. HostT'
  <2>1. FlagsT'
    BY DEF Types, HostT, FlagsT, Handled, HandleSync, HandleConnect, HandleConnectFailed,
           HandleDisconnect, HandleAdvComplete, HandleRead, HandleWrite, ble_app_advertise
  <2>2. Trouble \/ UNCHANGED troublesLeft
    BY DEF Handled, HandleSync, HandleConnect, HandleConnectFailed, HandleDisconnect,
           HandleAdvComplete, HandleRead, HandleWrite, ble_app_advertise
  <2> QED
    BY <2>1, <2>2, TroubleType DEF Types, HostT
<1>3. TaskT'
  BY NimbleAssumption
     DEF Types, TaskT, Handled, HandleSync, HandleConnect, HandleConnectFailed, HandleDisconnect,
         HandleAdvComplete, HandleRead, HandleWrite, taskVars
<1> QED
  BY <1>1, <1>2, <1>3, HandledKeeps DEF Types, StoreTypeOK, LogT, storeVars, logVars

Saving == SaveSsid \/ SavePass \/ SaveTopic \/ SaveUuid

LEMMA SavingKeeps ==
  ASSUME Types, Saving
  PROVE  /\ doing \in Keys /\ packet \in Values /\ UNCHANGED <<hostVars, packet, number, troublesLeft>>
         /\ \E ok \in BOOLEAN : NVS_store_key(doing, packet, ok)
         /\ doing' \in {"idle"} \cup Keys
         /\ answered' \in {answered, packet}
  BY NimbleAssumption
     DEF Saving, SaveSsid, SavePass, SaveTopic, SaveUuid, Saves, Answers, Types, TaskT

LEMMA TypesSaving == Types /\ Saving => Types'
<1> SUFFICES ASSUME Types, Saving PROVE Types'
  OBVIOUS
<1>1. StoreTypeOK'
  <2>1. PICK ok \in BOOLEAN : NVS_store_key(doing, packet, ok)
    BY SavingKeeps
  <2> QED
    BY <2>1, SavingKeeps, StoreStep DEF Types
<1>2. TaskT' /\ LogT'
  BY SavingKeeps, NimbleAssumption DEF Types, TaskT, LogT
<1> QED
  BY <1>1, <1>2, SavingKeeps DEF Types, HostT, FlagsT, TroubleT, hostVars

LEMMA NextCases == Next <=> Grows \/ Writes \/ PowerCut \/ Handled \/ Saving
  BY DEF Next, HostTask, Environment, Grows, Handled, Saving

LEMMA TypesStep == Types /\ [Next]_vars => Types'
<1>1. Types /\ UNCHANGED vars => Types'
  BY DEF Types, StoreTypeOK, HostT, FlagsT, TroubleT, TaskT, LogT, vars, storeVars, hostVars, taskVars, logVars
<1> QED
  BY <1>1, NextCases, TypesGrows, TypesWrites, TypesPowerCut, TypesHandled, TypesSaving

LEMMA TypesAlways == Spec => []Types
  BY TypesInit, TypesStep, PTL DEF Spec

(* Every variable stays within its type; while a key is being saved, the   *)
(* packet is one that could be parsed.                                     *)
THEOREM TypeCorrect == Spec => []TypeOK
<1>1. Types => TypeOK
  BY DEF Types, HostT, FlagsT, TroubleT, TaskT, LogT, TypeOK, Events
<1> QED
  BY <1>1, TypesAlways, PTL

-----------------------------------------------------------------------------
(* Packets wait in the order they were written, and are newer than what    *)
(* flash holds.                                                            *)

Credentials(q, x) == q[x][1] = "WRITE" /\ q[x][2] \in Values

WaitInv(q) ==
  /\ \A x \in 1 .. Len(q) : Credentials(q, x) =>
       /\ q[x][2] <= number
       /\ \A k \in Keys : flash[k] < q[x][2]
       /\ doing # "idle" => packet < q[x][2]
  /\ \A x, y \in 1 .. Len(q) :
       Credentials(q, x) /\ Credentials(q, y) /\ x < y => q[x][2] < q[y][2]

SavedInv ==
  /\ \A k \in Keys : flash[k] <= number
  /\ doing # "idle" => packet <= number /\ \A k \in Keys : flash[k] <= packet

FreshInv == WaitInv(inbox) /\ SavedInv

LEMMA Numbers ==
  Types => /\ number \in Nat /\ answered \in Nat /\ Packets \in Nat
           /\ \A k \in Keys : flash[k] \in Nat
           /\ packet \in Values => packet \in Nat
           /\ Values \subseteq Nat
  BY NimbleAssumption DEF Types, StoreTypeOK, LogT

LEMMA FreshInit == Init => FreshInv
<1> SUFFICES ASSUME Init PROVE FreshInv
  OBVIOUS
<1>1. Len(inbox) = 0 /\ doing = "idle" /\ number = 0 /\ \A k \in Keys : flash[k] = 0
  BY NimbleAssumption DEF Init, Booted, StoreInit
<1> QED
  BY <1>1 DEF FreshInv, WaitInv, SavedInv

LEMMA FreshGrows == Types /\ FreshInv /\ Grows => FreshInv'
<1> SUFFICES ASSUME Types, FreshInv, Grows PROVE FreshInv'
  OBVIOUS
<1>1. UNCHANGED <<storeVars, taskVars, logVars>>
  BY GrowsKeeps
<1>2. /\ Len(inbox) \in Nat /\ Len(inbox') \in Nat /\ Len(inbox) <= Len(inbox')
      /\ \A x \in 1 .. Len(inbox) : inbox'[x] = inbox[x]
      /\ \A x \in 1 .. Len(inbox') :
           x > Len(inbox) => inbox'[x] = <<"WRITE", Bad>> \/ inbox'[x][1] # "WRITE"
  BY InboxGrows DEF Grows
<1>3. \A x \in 1 .. Len(inbox') :
        Credentials(inbox', x) => /\ x \in 1 .. Len(inbox) /\ inbox'[x] = inbox[x]
                                  /\ Credentials(inbox, x)
  <2> SUFFICES ASSUME NEW x \in 1 .. Len(inbox'), Credentials(inbox', x)
               PROVE  /\ x \in 1 .. Len(inbox) /\ inbox'[x] = inbox[x]
                      /\ Credentials(inbox, x)
    OBVIOUS
  <2>1. inbox'[x][1] = "WRITE" /\ inbox'[x] # <<"WRITE", Bad>>
    BY NimbleAssumption DEF Credentials
  <2>2. x \in 1 .. Len(inbox)
    BY <1>2, <2>1
  <2> QED
    BY <1>2, <2>2 DEF Credentials
<1>4. WaitInv(inbox)'
  BY <1>1, <1>3 DEF FreshInv, WaitInv, storeVars, taskVars, logVars
<1>5. SavedInv'
  BY <1>1 DEF FreshInv, SavedInv, storeVars, taskVars, logVars
<1> QED
  BY <1>4, <1>5 DEF FreshInv

LEMMA FreshWrites == Types /\ FreshInv /\ Writes => FreshInv'
<1> SUFFICES ASSUME Types, FreshInv, Writes PROVE FreshInv'
  OBVIOUS
<1>1. /\ number' = number + 1 /\ number' \in Values /\ number \in Nat
      /\ inbox' = Append(inbox, <<"WRITE", number'>>) /\ UNCHANGED <<storeVars, taskVars>>
  BY NimbleAssumption DEF Writes, Asks, Types, LogT
<1>2. <<"WRITE", number'>> \in Events /\ inbox \in Seq(Events)
  BY <1>1, EventTypes DEF Types
<1>3. /\ Len(inbox) \in Nat /\ Len(inbox') = Len(inbox) + 1
      /\ \A x \in 1 .. Len(inbox) : inbox'[x] = inbox[x]
      /\ inbox'[Len(inbox) + 1] = <<"WRITE", number'>>
  BY <1>1, <1>2, AppendProperties
<1>4. \A x \in 1 .. Len(inbox') :
        \/ x \in 1 .. Len(inbox) /\ inbox'[x] = inbox[x]
        \/ x = Len(inbox) + 1 /\ inbox'[x][2] = number + 1
  BY <1>1, <1>3
<1>5. \A x \in 1 .. Len(inbox) : Credentials(inbox, x) => inbox[x][2] \in Nat
  BY Numbers DEF Credentials
<1>6. ASSUME NEW x \in 1 .. Len(inbox'), Credentials(inbox', x)
      PROVE  /\ inbox'[x][2] <= number'
             /\ \A k \in Keys : flash'[k] < inbox'[x][2]
             /\ doing' # "idle" => packet' < inbox'[x][2]
  <2>1. CASE x \in 1 .. Len(inbox) /\ inbox'[x] = inbox[x]
    <3>1. Credentials(inbox, x)
      BY <1>6, <2>1 DEF Credentials
    <3> QED
      BY <1>1, <1>5, <2>1, <3>1 DEF FreshInv, WaitInv, storeVars, taskVars
  <2>2. CASE inbox'[x][2] = number + 1
    <3>1. \A k \in Keys : flash[k] \in Nat /\ flash[k] <= number
      BY Numbers DEF FreshInv, SavedInv
    <3>2. doing # "idle" => packet \in Nat /\ packet <= number
      BY Numbers DEF FreshInv, SavedInv, Types, TaskT
    <3> QED
      BY <1>1, <2>2, <3>1, <3>2 DEF storeVars, taskVars
  <2> QED
    BY <1>4, <2>1, <2>2
<1>7. ASSUME NEW x \in 1 .. Len(inbox'), NEW y \in 1 .. Len(inbox'), x < y,
             Credentials(inbox', x), Credentials(inbox', y)
      PROVE  inbox'[x][2] < inbox'[y][2]
  <2>1. x \in 1 .. Len(inbox) /\ inbox'[x] = inbox[x]
    BY <1>3, <1>4, <1>7
  <2>2. Credentials(inbox, x) /\ inbox[x][2] <= number /\ inbox[x][2] \in Nat
    BY <1>5, <1>7, <2>1 DEF Credentials, FreshInv, WaitInv
  <2>3. CASE y \in 1 .. Len(inbox) /\ inbox'[y] = inbox[y]
    <3>1. Credentials(inbox, y)
      BY <1>7, <2>3 DEF Credentials
    <3> QED
      BY <1>7, <2>1, <2>2, <2>3, <3>1 DEF FreshInv, WaitInv
  <2>4. CASE inbox'[y][2] = number + 1
    BY <1>1, <2>1, <2>2, <2>4
  <2> QED
    BY <1>4, <2>3, <2>4
<1>8. WaitInv(inbox)'
  BY <1>6, <1>7 DEF WaitInv, Credentials
<1>9. SavedInv'
  <2>1. \A k \in Keys : flash[k] \in Nat
    BY Numbers
  <2>2. doing # "idle" => packet \in Nat
    BY Numbers DEF Types, TaskT
  <2> QED
    BY <1>1, <2>1, <2>2 DEF FreshInv, SavedInv, storeVars, taskVars
<1> QED
  BY <1>8, <1>9 DEF FreshInv

LEMMA FreshPowerCut == Types /\ FreshInv /\ PowerCut => FreshInv'
<1> SUFFICES ASSUME Types, FreshInv, PowerCut PROVE FreshInv'
  OBVIOUS
<1>1. inbox' = <<>> /\ doing' = "idle" /\ UNCHANGED <<storeVars, logVars>>
  BY DEF PowerCut
<1>2. Len(inbox') = 0
  BY <1>1
<1> QED
  BY <1>1, <1>2 DEF FreshInv, WaitInv, SavedInv, storeVars, logVars

LEMMA FreshHandled == Types /\ FreshInv /\ Handled => FreshInv'
<1> SUFFICES ASSUME Types, FreshInv, Handled PROVE FreshInv'
  OBVIOUS
<1>1. /\ doing = "idle" /\ inbox # <<>> /\ inbox' = Tail(inbox) /\ inbox \in Seq(Events)
      /\ UNCHANGED <<storeVars, logVars>>
  BY HandledKeeps DEF Types
<1>2. /\ Len(inbox) \in Nat /\ Len(inbox) >= 1 /\ Len(inbox') = Len(inbox) - 1
      /\ Head(inbox) = inbox[1]
      /\ \A x \in 1 .. Len(inbox') : inbox'[x] = inbox[x + 1]
  BY <1>1, HeadTailProperties, EmptySeq
<1>3. \A x \in 1 .. Len(inbox') :
        /\ x + 1 \in 1 .. Len(inbox) /\ inbox'[x] = inbox[x + 1]
        /\ Credentials(inbox', x) <=> Credentials(inbox, x + 1)
  BY <1>2 DEF Credentials
<1>4. \/ UNCHANGED taskVars
      \/ \E p \in Values : Head(inbox) = <<"WRITE", p>> /\ packet' = p /\ doing' = "ssid"
  BY DEF Handled, HandleSync, HandleConnect, HandleConnectFailed, HandleDisconnect,
         HandleAdvComplete, HandleRead, HandleWrite, Receive
<1>5. \A x, y \in 1 .. Len(inbox') :
        Credentials(inbox', x) /\ Credentials(inbox', y) /\ x < y => inbox'[x][2] < inbox'[y][2]
  <2> SUFFICES ASSUME NEW x \in 1 .. Len(inbox'), NEW y \in 1 .. Len(inbox'), x < y,
                      Credentials(inbox', x), Credentials(inbox', y)
               PROVE  inbox'[x][2] < inbox'[y][2]
    OBVIOUS
  <2>1. x + 1 < y + 1
    OBVIOUS
  <2>2. inbox[x + 1][2] < inbox[y + 1][2]
    BY <1>3, <2>1 DEF FreshInv, WaitInv
  <2> QED
    BY <1>3, <2>2
<1>6. \A x \in 1 .. Len(inbox') : Credentials(inbox', x) =>
        inbox'[x][2] <= number /\ \A k \in Keys : flash[k] < inbox'[x][2]
  BY <1>3 DEF FreshInv, WaitInv
<1>7. CASE UNCHANGED taskVars
  BY <1>1, <1>5, <1>6, <1>7 DEF FreshInv, WaitInv, SavedInv, Credentials, storeVars, taskVars, logVars
<1>8. CASE \E p \in Values : Head(inbox) = <<"WRITE", p>> /\ packet' = p /\ doing' = "ssid"
  <2>1. PICK p \in Values : Head(inbox) = <<"WRITE", p>> /\ packet' = p /\ doing' = "ssid"
    BY <1>8
  <2>2. 1 \in 1 .. Len(inbox) /\ Credentials(inbox, 1) /\ inbox[1][2] = p /\ p \in Nat
    BY <1>2, <2>1, Numbers DEF Credentials
  <2>3. p <= number /\ \A k \in Keys : flash[k] < p
    BY <2>2 DEF FreshInv, WaitInv
  <2>4. ASSUME NEW x \in 1 .. Len(inbox'), Credentials(inbox', x) PROVE p < inbox'[x][2]
    <3>1. 1 < x + 1
      OBVIOUS
    <3> QED
      BY <1>3, <2>2, <2>4, <3>1 DEF FreshInv, WaitInv
  <2>5. WaitInv(inbox)'
    BY <1>1, <1>5, <1>6, <2>1, <2>4 DEF WaitInv, Credentials, storeVars, logVars
  <2>6. \A k \in Keys : flash[k] <= p
    <3>1. \A k \in Keys : flash[k] \in Nat
      BY Numbers
    <3>2. p \in Nat /\ \A k \in Keys : flash[k] < p
      BY <2>2, <2>3
    <3> SUFFICES ASSUME NEW k \in Keys PROVE flash[k] <= p
      OBVIOUS
    <3> QED
      BY <3>1, <3>2
  <2>7. SavedInv'
    BY <1>1, <2>1, <2>3, <2>6 DEF FreshInv, SavedInv, storeVars, logVars
  <2> QED
    BY <2>5, <2>7 DEF FreshInv
<1> QED
  BY <1>4, <1>7, <1>8

LEMMA FreshSaving == Types /\ FreshInv /\ Saving => FreshInv'
<1> SUFFICES ASSUME Types, FreshInv, Saving PROVE FreshInv'
  OBVIOUS
<1>1. /\ doing \in Keys /\ doing # "idle" /\ packet \in Values
      /\ UNCHANGED <<inbox, packet, number>>
  BY SavingKeeps, NimbleAssumption DEF hostVars
<1>2. \A k \in Keys : flash'[k] \in {flash[k], packet}
  <2>1. PICK ok \in BOOLEAN : NVS_store_key(doing, packet, ok)
    BY SavingKeeps
  <2>2. flash' = flash \/ flash' = [flash EXCEPT ![doing] = packet]
    BY <1>1, <2>1, StoreStep DEF Types
  <2> QED
    BY <1>1, <2>2 DEF Types, StoreTypeOK
<1>3. \A k \in Keys : flash'[k] <= packet /\ packet <= number
  BY <1>1, <1>2, Numbers DEF FreshInv, SavedInv
<1>4. \A x \in 1 .. Len(inbox) : Credentials(inbox, x) =>
        packet < inbox[x][2] /\ \A k \in Keys : flash'[k] < inbox[x][2]
  BY <1>1, <1>2 DEF FreshInv, WaitInv
<1>5. WaitInv(inbox)'
  BY <1>1, <1>4 DEF FreshInv, WaitInv, Credentials
<1>6. \A k \in Keys : flash'[k] <= number
  <2>1. \A k \in Keys : flash'[k] \in Nat
    BY <1>1, <1>2, Numbers
  <2> QED
    BY <1>1, <1>3, <2>1, Numbers
<1>7. SavedInv'
  BY <1>1, <1>3, <1>6, NimbleAssumption DEF SavedInv
<1> QED
  BY <1>5, <1>7 DEF FreshInv

LEMMA FreshStep == Types /\ FreshInv /\ [Next]_vars => FreshInv'
<1>1. FreshInv /\ UNCHANGED vars => FreshInv'
  BY DEF FreshInv, WaitInv, SavedInv, Credentials, vars, storeVars, hostVars, taskVars, logVars
<1> QED
  BY <1>1, NextCases, FreshGrows, FreshWrites, FreshPowerCut, FreshHandled, FreshSaving

-----------------------------------------------------------------------------
(* Nimble: the order of the keys.                                          *)

OrderInv ==
  /\ flashErrors["set"] = 0 =>
       /\ flash["ssid"] >= flash["pass"] /\ flash["topic"] >= flash["uuid"]
       /\ doing = "pass" => flash["ssid"] = packet
       /\ doing = "uuid" => flash["topic"] = packet
  /\ Failures = {} =>
       /\ flash["pass"] >= flash["topic"]
       /\ \A k \in Keys : flash[k] >= answered
       /\ doing \in {"topic", "uuid"} => flash["ssid"] = packet /\ flash["pass"] = packet

LEMMA OrderInit == Init => OrderInv
<1> SUFFICES ASSUME Init PROVE OrderInv
  OBVIOUS
<1>1. doing = "idle" /\ answered = 0 /\ \A k \in Keys : flash[k] = 0
  BY NimbleAssumption DEF Init, Booted, StoreInit
<1> QED
  BY <1>1, NimbleAssumption DEF OrderInv

(* Only saving touches the keys, and each packet begins at the first.      *)
LEMMA OrderElsewhere ==
  Types /\ OrderInv /\ (Grows \/ Writes \/ PowerCut \/ Handled \/ UNCHANGED vars) => OrderInv'
<1> SUFFICES ASSUME Types, OrderInv, Grows \/ Writes \/ PowerCut \/ Handled \/ UNCHANGED vars
             PROVE  OrderInv'
  OBVIOUS
<1>1. UNCHANGED <<flash, flashErrors, answered>>
  BY GrowsKeeps, HandledKeeps
     DEF Writes, Asks, PowerCut, storeVars, logVars, vars
<1>2. UNCHANGED taskVars \/ doing' \in {"idle", "ssid"}
  BY GrowsKeeps
     DEF Writes, Asks, PowerCut, vars, Handled, HandleSync, HandleConnect, HandleConnectFailed,
         HandleDisconnect, HandleAdvComplete, HandleRead, HandleWrite
<1>3. Failures' = Failures
  BY <1>1 DEF Failures
<1> QED
  BY <1>1, <1>2, <1>3 DEF OrderInv, taskVars

LEMMA OrderSaving == Types /\ FreshInv /\ OrderInv /\ Saving => OrderInv'
<1> SUFFICES ASSUME Types, FreshInv, OrderInv, Saving PROVE OrderInv'
  OBVIOUS
<1>1. /\ doing \in Keys /\ packet \in Nat /\ packet' = packet /\ answered' \in {answered, packet}
      /\ "ssid" \in Keys /\ "pass" \in Keys /\ "topic" \in Keys /\ "uuid" \in Keys
  BY SavingKeeps, Numbers, NimbleAssumption
<1>2. \A k \in Keys : flash[k] \in Nat /\ flash[k] <= packet
  BY <1>1, Numbers, NimbleAssumption DEF FreshInv, SavedInv
<1>3. PICK ok \in BOOLEAN :
        /\ NVS_store_key(doing, packet, ok)
        /\ \/ doing = "ssid" /\ answered' = answered /\ doing' = IF ok THEN "pass" ELSE "topic"
           \/ doing = "pass" /\ answered' = answered /\ doing' = "topic"
           \/ doing = "topic" /\ ok /\ answered' = answered /\ doing' = "uuid"
           \/ doing = "topic" /\ ~ok /\ doing' = "idle"
           \/ doing = "uuid" /\ doing' = "idle"
  BY DEF Saving, SaveSsid, SavePass, SaveTopic, SaveUuid, Saves, Answers
<1> DEFINE saved == [flash EXCEPT ![doing] = packet]
<1>4. /\ flash' = flash \/ flash' = saved
      /\ flashErrors'["set"] = 0 => flashErrors["set"] = 0 /\ (ok => flash' = saved)
      /\ Failures' = {} =>
           Failures = {} /\ flashErrors["set"] = 0 /\ ok /\ flash' = saved
  <2>1. packet \in Values
    BY SavingKeeps
  <2> QED
    BY <1>1, <1>3, <2>1, StoreStep DEF Types
<1>5. /\ saved[doing] = packet
      /\ \A k \in Keys : k # doing => saved[k] = flash[k]
  BY <1>1 DEF Types, StoreTypeOK
<1> HIDE DEF saved
<1>6. ASSUME flashErrors'["set"] = 0
      PROVE  /\ flash'["ssid"] >= flash'["pass"] /\ flash'["topic"] >= flash'["uuid"]
             /\ doing' = "pass" => flash'["ssid"] = packet'
             /\ doing' = "uuid" => flash'["topic"] = packet'
  <2>1. /\ flash["ssid"] >= flash["pass"] /\ flash["topic"] >= flash["uuid"]
        /\ doing = "pass" => flash["ssid"] = packet
        /\ doing = "uuid" => flash["topic"] = packet
    BY <1>4, <1>6 DEF OrderInv
  <2>2. flash'["ssid"] >= flash'["pass"]
    BY <1>1, <1>2, <1>3, <1>4, <1>5, <2>1
  <2>3. flash'["topic"] >= flash'["uuid"]
    BY <1>1, <1>2, <1>3, <1>4, <1>5, <2>1
  <2>4. doing' = "pass" => flash'["ssid"] = packet'
    BY <1>1, <1>3, <1>4, <1>5, <1>6
  <2>5. doing' = "uuid" => flash'["topic"] = packet'
    BY <1>1, <1>3, <1>4, <1>5, <1>6
  <2> QED
    BY <2>2, <2>3, <2>4, <2>5
<1>7. ASSUME Failures' = {}
      PROVE  /\ flash'["pass"] >= flash'["topic"]
             /\ \A k \in Keys : flash'[k] >= answered'
             /\ doing' \in {"topic", "uuid"} => flash'["ssid"] = packet' /\ flash'["pass"] = packet'
  <2>1. /\ ok /\ flash' = saved
        /\ flash["pass"] >= flash["topic"]
        /\ \A k \in Keys : flash[k] >= answered
        /\ doing \in {"topic", "uuid"} => flash["ssid"] = packet /\ flash["pass"] = packet
        /\ doing = "pass" => flash["ssid"] = packet
        /\ doing = "uuid" => flash["topic"] = packet
    BY <1>4, <1>7 DEF OrderInv
  <2>2. flash'["pass"] >= flash'["topic"]
    BY <1>1, <1>2, <1>5, <2>1
  <2>3. doing' \in {"topic", "uuid"} => flash'["ssid"] = packet' /\ flash'["pass"] = packet'
    BY <1>1, <1>3, <1>5, <2>1
  <2>4. answered \in Nat
    BY Numbers
  <2>5. \A k \in Keys : flash'[k] >= answered
    BY <1>1, <1>2, <1>5, <2>1, <2>4
  <2>6. answered' = answered \/ (doing = "uuid" /\ answered' = packet)
    <3>1. ok
      BY <2>1
    <3>2. answered' = answered \/ doing = "uuid"
      BY <1>3, <3>1
    <3> QED
      BY <1>1, <3>2
  <2>7. ASSUME doing = "uuid", answered' = packet
        PROVE  \A k \in Keys : flash'[k] >= answered'
    <3>1. \A k \in Keys : flash'[k] = packet
      BY <1>1, <1>5, <2>1, <2>7, NimbleAssumption
    <3>2. packet \in Nat
      BY SavingKeeps, Numbers
    <3> QED
      BY <2>7, <3>1, <3>2
  <2>8. \A k \in Keys : flash'[k] >= answered'
    BY <2>5, <2>6, <2>7
  <2> QED
    BY <2>2, <2>3, <2>8
<1> QED
  BY <1>6, <1>7 DEF OrderInv

LEMMA OrderStep == Types /\ FreshInv /\ OrderInv /\ [Next]_vars => OrderInv'
  BY NextCases, OrderElsewhere, OrderSaving

LEMMA OrderAlways == Spec => [](Types /\ FreshInv /\ OrderInv)
<1>1. Types /\ FreshInv /\ OrderInv /\ [Next]_vars => (Types /\ FreshInv /\ OrderInv)'
  BY TypesStep, FreshStep, OrderStep
<1> QED
  BY <1>1, TypesInit, FreshInit, OrderInit, PTL DEF Spec

(* custom_nvs_cred_save: whatever the power cuts and failed accesses, a    *)
(* network's name is as new as its password, and the topic as its id,      *)
(* unless nvs_set_blob has failed.                                         *)
THEOREM KeysInOrder == Spec => []SavedInOrder
<1>1. OrderInv => SavedInOrder
  BY DEF OrderInv, SavedInOrder
<1> QED
  BY <1>1, OrderAlways, PTL

(* What the phone had an answer for stays saved, if flash does not fail.   *)
THEOREM AnswerMeansSaved == Spec => []AnsweredIsSaved
<1>1. OrderInv => AnsweredIsSaved
  BY DEF OrderInv, AnsweredIsSaved
<1> QED
  BY <1>1, OrderAlways, PTL
=============================================================================
