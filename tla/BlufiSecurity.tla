--------------------------- MODULE BlufiSecurity ---------------------------
(***************************************************************************)
(* The key negotiation of the blufi example (blufi/main/blufi_security.c): *)
(* one context per BLE connection, and inside it the buffer that receives  *)
(* the Diffie-Hellman parameters.  All of it runs in the Bluetooth task.   *)
(* Keys are reduced to whether the AES key of the context has been set;    *)
(* heap counts the blocks the file has allocated and not freed.            *)
(***************************************************************************)
EXTENDS Naturals

VARIABLES
  context,   \* blufi_sec is not NULL
  dhParam,   \* blufi_sec->dh_param is not NULL
  keySet,    \* mbedtls_aes_setkey_enc was called on this context
  heap,      \* blocks allocated by malloc and not yet freed
  error      \* last state given to btc_blufi_report_error in this connection

securityVars == <<context, dhParam, keySet, heap, error>>

Errors == {"none", "init_security", "dh_malloc", "dh_param", "read_param",
           "make_public", "calc_md5"}

SecurityTypeOK ==
  /\ context \in BOOLEAN /\ dhParam \in BOOLEAN /\ keySet \in BOOLEAN
  /\ heap \in Nat
  /\ error \in Errors

SecurityStart ==
  /\ context = FALSE /\ dhParam = FALSE /\ keySet = FALSE
  /\ heap = 0 /\ error = "none"

Blocks(held) == IF held THEN 1 ELSE 0

\* blufi_security_init: the new context replaces the pointer whatever it held.
\* A failed malloc leaves it NULL, which the caller does not look at.
SecurityInit ==
  /\ dhParam' = FALSE /\ keySet' = FALSE /\ error' = "none"
  /\ \/ context' = TRUE /\ heap' = heap + 1
     \/ context' = FALSE /\ UNCHANGED heap

MutSecurityDeinit ==
  /\ heap' = heap - Blocks(context)
  /\ context' = FALSE /\ dhParam' = FALSE /\ keySet' = FALSE
  /\ UNCHANGED error

SecurityDeinit ==
  /\ heap' = heap - Blocks(context) - Blocks(context /\ dhParam)
  /\ context' = FALSE /\ dhParam' = FALSE /\ keySet' = FALSE
  /\ UNCHANGED error

\* SEC_TYPE_DH_PARAM_LEN: the buffer of an earlier attempt goes first.
NegotiateLen ==
  /\ context
  /\ UNCHANGED <<context, keySet>>
  /\ \/ dhParam' = TRUE /\ heap' = heap - Blocks(dhParam) + 1 /\ UNCHANGED error
     \/ dhParam' = FALSE /\ heap' = heap - Blocks(dhParam) /\ error' = "dh_malloc"

\* SEC_TYPE_DH_PARAM_DATA: unreadable parameters leave the buffer in place for
\* another attempt, later failures have freed it; only success sets the key.
NegotiateData ==
  /\ context
  /\ UNCHANGED context
  /\ \/ ~dhParam /\ error' = "dh_param" /\ UNCHANGED <<dhParam, keySet, heap>>
     \/ dhParam /\ error' = "read_param" /\ UNCHANGED <<dhParam, keySet, heap>>
     \/ /\ dhParam /\ dhParam' = FALSE /\ heap' = heap - 1
        /\ \/ error' \in {"make_public", "dh_param", "calc_md5"} /\ UNCHANGED keySet
           \/ keySet' = TRUE /\ UNCHANGED error

NegotiateUninitialised ==
  /\ ~context /\ error' = "init_security"
  /\ UNCHANGED <<context, dhParam, keySet, heap>>

Negotiate == NegotiateLen \/ NegotiateData \/ NegotiateUninitialised

\* Every allocated block is held by a pointer of the program: nothing leaks
\* over connections, failed negotiations and repeated ones, and nothing is
\* freed twice.
HeapIsOwned ==
  /\ heap = Blocks(context) + Blocks(dhParam)
  /\ dhParam \/ keySet => context
=============================================================================
