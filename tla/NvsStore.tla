------------------------------ MODULE NvsStore ------------------------------
(***************************************************************************)
(* The credentials of esp32-wifi-manager in flash: fetching them at boot,  *)
(* saving them after a connection, erasing them after a disconnection.     *)
(* The three blobs "ssid", "password" and "settings" are written one after *)
(* the other, under the mutex of nvs_sync.c that the application shares.   *)
(* Each flash access is a step, so that a power cut, a failed access and   *)
(* the web server, which overwrites the configuration without a lock, may  *)
(* come in between.                                                        *)
(***************************************************************************)
EXTENDS Naturals

CONSTANTS
  Ssids, Passwords,  \* what a user may type
  Nets,              \* the networks a user chooses, [ssid, password] records
  Blank,             \* a zeroed field
  Absent,            \* a blob that flash does not hold
  Unknown,           \* no fetch has ended since power-on
  Env                \* what may come in between: EnvKinds

EnvKinds == {"post",      \* a POST is handled during a save
             "restart",   \* the device restarts, but not during a save
             "powercut",  \* ... at any moment
             "ioerror"}   \* a flash access fails

Fields == {"ssid", "password", "settings"}

ASSUME NvsAssumption ==
  /\ Nets \subseteq [ssid : Ssids, password : Passwords]
  /\ Blank \notin Ssids \cup Passwords
  /\ Absent \notin Ssids \cup Passwords \cup {Blank, "default"}
  /\ Blank # "default"
  /\ Env \subseteq EnvKinds

NoNet   == [ssid |-> Blank, password |-> Blank]
Configs == Nets \cup {NoNet}

ASSUME UnknownAssumption ==
  Unknown \notin [ssid : Ssids \cup {Blank}, password : Passwords \cup {Blank}]

VARIABLES
  mutex,     \* who holds nvs_sync_mutex
  op,        \* what the wifi_manager task is doing with the flash
  step,      \* the access it does next
  change,    \* local variable of wifi_manager_save_sta_config
  failed,    \* the blobs this save could not read ("not found" is an answer)
  config,    \* *wifi_manager_config_sta
  posting,   \* the network a POST is copying into config, and its next step
  blobs,     \* the three blobs
  restored   \* the network restored since power-on (NoNet: none)

nvsTaskVars == <<op, step, change, failed>>
nvsVars == <<mutex, nvsTaskVars, config, posting, blobs, restored>>

Idle == [net |-> NoNet, at |-> "idle"]

NvsTypeOK ==
  /\ mutex \in {"free", "wifi_manager", "app"}
  /\ op \in {"none", "save", "fetch"}
  /\ step \in {"lock", "open", "commit"} \cup Fields
  /\ change \in BOOLEAN /\ failed \subseteq Fields
  /\ config \in [ssid : Ssids \cup {Blank}, password : Passwords \cup {Blank}]
  /\ posting \in [net : Configs, at : {"idle", "ssid", "password"}]
  /\ blobs \in [ssid : Ssids \cup {Blank, Absent},
                password : Passwords \cup {Blank, Absent},
                settings : {"default", Absent}]
  /\ restored \in [ssid : Ssids \cup {Blank}, password : Passwords \cup {Blank}]
                    \cup {Unknown}

EmptyFlash == [f \in Fields |-> Absent]
Holds(net) == [ssid |-> net.ssid, password |-> net.password, settings |-> "default"]

(* A device fresh from the factory, one that has saved before, or one that *)
(* has saved only its settings, when a user disconnected from nothing.     *)
NvsInit ==
  /\ mutex = "free" /\ op = "fetch" /\ step = "lock"
  /\ change = FALSE /\ failed = {}
  /\ config = NoNet /\ posting = Idle /\ restored = Unknown
  /\ blobs \in {EmptyFlash, [EmptyFlash EXCEPT !.settings = "default"]}
                 \cup {Holds(c) : c \in Configs}

-----------------------------------------------------------------------------
At(what, s) == op = what /\ step = s

(* nvs_sync_lock(portMAX_DELAY), then nvs_open.  A namespace that does not *)
(* exist can be created (READWRITE), not read (READONLY).                  *)
TakeLock ==
  /\ op # "none" /\ step = "lock"
  /\ mutex = "free"
  /\ mutex' = "wifi_manager"
  /\ step' = "open"
  /\ UNCHANGED <<op, change, failed, config, posting, blobs, restored>>

MutEnds == /\ op' = "none" /\ step' = "lock"
           /\ UNCHANGED mutex

\* nvs_sync_unlock and return
Ends == /\ op' = "none" /\ step' = "lock"
        /\ mutex' = "free"

MayFail == "ioerror" \in Env

OpenFails ==
  /\ op # "none" /\ step = "open"
  /\ MayFail \/ (op = "fetch" /\ blobs = EmptyFlash)
  /\ Ends
  /\ restored' = IF op = "fetch" THEN NoNet ELSE restored
  /\ UNCHANGED <<change, failed, config, posting, blobs>>

-----------------------------------------------------------------------------
(* wifi_manager_save_sta_config                                            *)
Wanted(f) == IF f = "settings" THEN "default" ELSE config[f]

\* A missing blob reads as zeroes.
Stored(f) == IF blobs[f] = Absent THEN Blank ELSE blobs[f]

After(s) == CASE s = "open" -> "ssid"
              [] s = "ssid" -> "password"
              [] s = "password" -> "settings"
              [] s = "settings" -> "commit"

(* A connection has succeeded with the configuration: save it.             *)
BeginSave ==
  /\ op = "none" /\ restored # Unknown
  /\ config # NoNet \/ posting # Idle
  /\ "post" \in Env \/ posting = Idle
  /\ op' = "save" /\ step' = "lock" /\ change' = FALSE /\ failed' = {}
  /\ UNCHANGED <<mutex, config, posting, blobs, restored>>

(* WM_EVENT_STA_DISCONNECTED erases the configuration and saves it.        *)
BeginErase ==
  /\ op = "none" /\ restored # Unknown
  /\ "post" \in Env \/ posting = Idle
  /\ config' = NoNet
  /\ op' = "save" /\ step' = "lock" /\ change' = FALSE /\ failed' = {}
  /\ UNCHANGED <<mutex, posting, blobs, restored>>

SaveOpen ==
  /\ At("save", "open")
  /\ step' = After("open")
  /\ UNCHANGED <<mutex, op, change, failed, config, posting, blobs, restored>>

MutSaveSkips(f) ==
  /\ At("save", f)
  /\ \/ Stored(f) = Wanted(f) /\ UNCHANGED failed
     \/ MayFail /\ failed' = failed \cup {f}
     \/ f = "password" /\ ~change /\ UNCHANGED failed
  /\ step' = After(f)
  /\ UNCHANGED <<mutex, op, change, config, posting, blobs, restored>>

(* A blob that cannot be read is not written: only "not found" counts as   *)
(* different.                                                              *)
SaveSkips(f) ==
  /\ At("save", f)
  /\ \/ Stored(f) = Wanted(f) /\ UNCHANGED failed
     \/ MayFail /\ failed' = failed \cup {f}
  /\ step' = After(f)
  /\ UNCHANGED <<mutex, op, change, config, posting, blobs, restored>>

MutSaveWrites(f) ==
  /\ At("save", f)
  /\ Stored(f) # Wanted(f)
  /\ blobs' = [blobs EXCEPT ![f] = IF f = "password" THEN Blank ELSE Wanted(f)]
  /\ change' = TRUE
  /\ step' = After(f)
  /\ UNCHANGED <<mutex, op, failed, config, posting, restored>>

SaveWrites(f) ==
  /\ At("save", f)
  /\ Stored(f) # Wanted(f)
  /\ blobs' = [blobs EXCEPT ![f] = Wanted(f)]
  /\ change' = TRUE
  /\ step' = After(f)
  /\ UNCHANGED <<mutex, op, failed, config, posting, restored>>

(* A failed write unlocks, and forgets the handle.                         *)
SaveWriteFails(f) ==
  /\ MayFail
  /\ At("save", f)
  /\ Stored(f) # Wanted(f)
  /\ Ends
  /\ UNCHANGED <<change, failed, config, posting, blobs, restored>>

SaveEnds ==
  /\ At("save", "commit")
  /\ change \/ "settings" \notin failed
  /\ Ends
  /\ UNCHANGED <<change, failed, config, posting, blobs, restored>>

(* wifi_manager.c:301 returns before nvs_close and nvs_sync_unlock when the*)
(* commit failed, or the last read when there was nothing to commit.       *)
SaveEndsBadly ==
  /\ At("save", "commit")
  /\ MayFail
  /\ change \/ "settings" \in failed
  /\ op' = "none" /\ step' = "lock"
  /\ UNCHANGED <<mutex, change, failed, config, posting, blobs, restored>>

Save ==
  \/ BeginSave \/ BeginErase \/ SaveOpen
  \/ \E f \in Fields : SaveSkips(f) \/ SaveWrites(f) \/ SaveWriteFails(f)
  \/ SaveEnds \/ SaveEndsBadly

-----------------------------------------------------------------------------
(* wifi_manager_fetch_wifi_sta_config: the configuration is zeroed, then   *)
(* filled blob by blob.                                                    *)
FetchOpen ==
  /\ At("fetch", "open")
  /\ blobs # EmptyFlash
  /\ config' = NoNet
  /\ step' = "ssid"
  /\ UNCHANGED <<mutex, op, change, failed, posting, blobs, restored>>

FetchReads(f) ==
  /\ At("fetch", f) /\ f # "settings"
  /\ blobs[f] # Absent
  /\ config' = [config EXCEPT ![f] = blobs[f]]
  /\ step' = After(f)
  /\ UNCHANGED <<mutex, op, change, failed, posting, blobs, restored>>

MutFetchFails(f) ==
  /\ At("fetch", f)
  /\ blobs[f] = Absent \/ MayFail
  /\ Ends
  /\ restored' = IF config.ssid # Blank THEN config ELSE NoNet
  /\ UNCHANGED <<change, failed, config, posting, blobs>>

FetchFails(f) ==
  /\ At("fetch", f)
  /\ blobs[f] = Absent \/ MayFail
  /\ Ends
  /\ restored' = NoNet
  /\ UNCHANGED <<change, failed, config, posting, blobs>>

FetchEnds ==
  /\ At("fetch", "settings")
  /\ blobs.settings # Absent
  /\ Ends
  /\ restored' = IF config.ssid # Blank THEN config ELSE NoNet
  /\ UNCHANGED <<change, failed, config, posting, blobs>>

Fetch == FetchOpen \/ FetchEnds \/ \E f \in Fields : FetchReads(f) \/ FetchFails(f)

-----------------------------------------------------------------------------
(* POST /connect.json in the web server task: memset, then two memcpy into *)
(* the shared configuration.  Without "post" in Env it never meets a save. *)
PostBegins(net) ==
  /\ restored # Unknown
  /\ posting = Idle
  /\ "post" \in Env \/ op = "none"
  /\ config' = NoNet
  /\ posting' = [net |-> net, at |-> "ssid"]
  /\ UNCHANGED <<mutex, nvsTaskVars, blobs, restored>>

PostCopies ==
  /\ posting.at # "idle"
  /\ config' = [config EXCEPT ![posting.at] = posting.net[posting.at]]
  /\ posting' = IF posting.at = "ssid" THEN [posting EXCEPT !.at = "password"] ELSE Idle
  /\ UNCHANGED <<mutex, nvsTaskVars, blobs, restored>>

(* The application around nvs_sync_lock and nvs_sync_unlock.               *)
AppLocks ==
  /\ mutex = "free" /\ mutex' = "app"
  /\ UNCHANGED <<nvsTaskVars, config, posting, blobs, restored>>

AppUnlocks ==
  /\ mutex = "app" /\ mutex' = "free"
  /\ UNCHANGED <<nvsTaskVars, config, posting, blobs, restored>>

PowerOff ==
  /\ "powercut" \in Env \/ ("restart" \in Env /\ op # "save")
  /\ mutex' = "free" /\ op' = "fetch" /\ step' = "lock"
  /\ change' = FALSE /\ failed' = {}
  /\ config' = NoNet /\ posting' = Idle /\ restored' = Unknown
  /\ UNCHANGED blobs

TaskStep == TakeLock \/ OpenFails \/ Save \/ Fetch

NvsNext ==
  \/ TaskStep
  \/ PostCopies \/ \E net \in Nets : PostBegins(net)
  \/ AppLocks \/ AppUnlocks
  \/ PowerOff

NvsSpec == NvsInit /\ [][NvsNext]_nvsVars

-----------------------------------------------------------------------------
(* Properties.                                                             *)
FlashPair == [ssid |-> Stored("ssid"), password |-> Stored("password")]

(* At rest the task does not hold the mutex, so that the application, which*)
(* waits with portMAX_DELAY, "will almost never wait" (README.md:221).     *)
LockFreeAtRest == op = "none" => mutex # "wifi_manager"

(* What flash holds at rest is a network that a user has chosen, with its  *)
(* own password (README.md:9, "a previously saved network").               *)
SavedIsWhole == op = "none" => FlashPair \in Configs

(* A save that reaches its end, and that could read what flash held,       *)
(* repairs whatever earlier power cuts and failures have left behind,      *)
(* although it writes only the blobs it finds different.                   *)
SaveIsComplete ==
  [][At("save", "commit") /\ op' = "none" /\ failed = {} => FlashPair' = config]_nvsVars

(* A fetch that succeeds has restored what flash holds, both fields of it; *)
(* one that fails half-way reports that there is no network.               *)
RestoreIsFaithful ==
  [][restored = Unknown /\ restored' \notin {Unknown, NoNet} => restored' = FlashPair]_nvsVars

(* Saving, restarting and loading implement the store that saves a network *)
(* as a whole, as long as nothing interferes with a save.                  *)
\* Begun, a save counts as done: the configuration is not touched meanwhile.
Store == INSTANCE CredentialStore
           WITH saved <- IF op = "save" THEN config ELSE FlashPair,
                loaded <- restored
StoreSpec == Store!Spec
=============================================================================
