------------------------------- MODULE KeyStore -------------------------------
(***************************************************************************)
(* NVS_store_key and NVS_read_key, which gatt_server_service_table/nvs.c   *)
(* and esp_nible_test/custom_nvs_cred_save.c share: a key is opened, read, *)
(* set, committed and closed in one call.  A call is one step here, since  *)
(* only its commit changes the flash: a power cut during a call is one     *)
(* before it or after it.  The heap and the handles a failed call keeps    *)
(* are left out.                                                           *)
(***************************************************************************)
EXTENDS Naturals

CONSTANTS
  Keys, Values,
  Unset,        \* a key that flash does not hold; it is read as an empty string
  FlashErrors   \* bound: accesses to flash that fail

ASSUME StoreAssumption == Unset \notin Values /\ FlashErrors \in Nat

VARIABLES
  flash,        \* what the namespace "storage" holds
  flashErrors   \* per access, how often it has failed

storeVars == <<flash, flashErrors>>

Accesses == {"open", "size", "set", "commit", "read"}

StoreTypeOK ==
  /\ flash \in [Keys -> Values \cup {Unset}]
  /\ flashErrors \in [Accesses -> Nat]

StoreInit ==
  /\ flash = [k \in Keys |-> Unset]
  /\ flashErrors = [a \in Accesses |-> 0]

Failures == {a \in Accesses : flashErrors[a] > 0}

AccessFails(a) ==
  /\ flashErrors["open"] + flashErrors["size"] + flashErrors["set"]
       + flashErrors["commit"] + flashErrors["read"] < FlashErrors
  /\ flashErrors' = [flashErrors EXCEPT ![a] = @ + 1]

(* NVS_store_key returns ok.  The result of nvs_set_blob is overwritten by *)
(* that of nvs_commit: a value that could not be set counts as stored.     *)
NVS_store_key(k, v, ok) ==
  \/ ok /\ flash' = [flash EXCEPT ![k] = v] /\ UNCHANGED flashErrors
  \/ ok /\ AccessFails("set") /\ UNCHANGED flash
  \/ ~ok /\ (AccessFails("open") \/ AccessFails("size")) /\ UNCHANGED flash
  \/ ~ok /\ AccessFails("commit") /\ flash' \in {flash, [flash EXCEPT ![k] = v]}

\* NVS_read_key leaves got in the caller's zeroed buffer, whatever it returns.
NVS_read_key(k, got) ==
  \/ got = flash[k] /\ UNCHANGED flashErrors
  \/ got = Unset /\ (AccessFails("open") \/ AccessFails("size") \/ AccessFails("read"))
=============================================================================
