------------------------------- MODULE ApList -------------------------------
(***************************************************************************)
(* The list of access points of esp32-wifi-manager: at the end of a scan   *)
(* the wifi_manager task removes duplicates from the driver's records in   *)
(* place (wifi_manager_filter_unique), writes what is left as json, and    *)
(* the web server sends that to the browsers (GET /ap.json).  Both tasks   *)
(* take the json mutex, one with a timeout; a step is an iteration of a    *)
(* loop.                                                                   *)
(***************************************************************************)
EXTENDS Integers, Sequences

CONSTANTS
  Ssids,   \* names of networks
  Hidden,  \* the empty name: of a hidden network, and of a cleared record
  Auths,   \* authentication modes
  Rssis,   \* signal strengths
  MaxAps   \* MAX_AP_NUM

ASSUME ApAssumption ==
  Hidden \notin Ssids /\ Rssis \subseteq Int /\ Rssis # {} /\ Auths # {} /\ MaxAps \in Nat

VARIABLES
  scan,     \* auxiliary: what the driver found
  records,  \* accessp_records
  num,      \* ap_num
  unique,   \* total_unique
  step,     \* what the wifi_manager task does
  i, j,     \* its loop variables
  free,     \* first_free, or 0
  json,     \* accessp_json: the access points in it, and whether it has its "]"
  mutex     \* who holds wifi_manager_json_mutex

loopVars == <<unique, i, j, free>>
vars == <<scan, records, num, loopVars, step, json, mutex>>

\* Of a record without a name nothing else is looked at.
Cleared == [ssid |-> Hidden, auth |-> CHOOSE a \in Auths : TRUE, rssi |-> CHOOSE r \in Rssis : TRUE]
Aps == [ssid : Ssids, auth : Auths, rssi : Rssis] \cup {Cleared}
Scans == UNION {[1 .. n -> Aps] : n \in 0 .. MaxAps}

Visible(ap) == ap.ssid # Hidden
Same(ap, ap1) == ap.ssid = ap1.ssid /\ ap.auth = ap1.auth

TypeOK ==
  /\ scan \in Scans
  /\ records \in [1 .. Len(scan) -> Aps]
  /\ num \in 0 .. Len(scan) /\ unique \in 0 .. Len(scan) /\ free \in 0 .. Len(scan)
  /\ step \in {"idle", "lock", "dedupe", "compact", "publish"}
  /\ i \in 1 .. Len(scan) + 1 /\ j \in 1 .. Len(scan) + 2
  /\ json \in [aps : Seq(Aps), closed : BOOLEAN]
  /\ mutex \in {"none", "wifi_manager", "httpd"}

Init ==
  /\ scan = <<>> /\ records = <<>> /\ num = 0 /\ unique = 0
  /\ step = "idle" /\ i = 1 /\ j = 1 /\ free = 0
  /\ json = [aps |-> <<>>, closed |-> TRUE]
  /\ mutex = "none"

-----------------------------------------------------------------------------
(* The wifi_manager task *)

\* WM_EVENT_SCAN_DONE: esp_wifi_scan_get_ap_records overwrites the records,
\* which only this task uses, before the mutex is taken.
ScanDone ==
  /\ step = "idle" /\ step' = "lock"
  /\ scan' \in Scans /\ records' = scan' /\ num' = Len(scan')
  /\ unique' = 0 /\ i' = 1 /\ j' = 1 /\ free' = 0
  /\ UNCHANGED <<json, mutex>>

Lock ==
  /\ step = "lock" /\ mutex = "none"
  /\ mutex' = "wifi_manager" /\ step' = "dedupe"
  /\ unique' = num /\ i' = 1 /\ j' = 2
  /\ UNCHANGED <<scan, records, num, free, json>>

\* A second has passed: the list stays as it was.
LockTimesOut ==
  /\ step = "lock" /\ mutex = "httpd"
  /\ step' = "idle"
  /\ UNCHANGED <<scan, records, num, loopVars, json, mutex>>

\* The first access point of a name and mode takes the strongest signal, the
\* others are cleared.
Compare ==
  LET ap == records[i]
      ap1 == records[j]
      stronger == IF ap1.rssi > ap.rssi THEN [ap EXCEPT !.rssi = ap1.rssi] ELSE ap
  IN /\ step = "dedupe" /\ i < num /\ Visible(records[i]) /\ j <= num
     /\ records' = IF Same(ap, ap1) THEN [records EXCEPT ![i] = stronger, ![j] = Cleared]
                   ELSE records
     /\ j' = j + 1
     /\ UNCHANGED <<scan, num, unique, step, i, free, json, mutex>>

NextAp ==
  /\ step = "dedupe" /\ i < num
  /\ ~Visible(records[i]) \/ j > num
  /\ i' = i + 1 /\ j' = i + 2
  /\ UNCHANGED <<scan, records, num, unique, step, free, json, mutex>>

Deduped ==
  /\ step = "dedupe" /\ i >= num
  /\ step' = "compact" /\ i' = 1
  /\ UNCHANGED <<scan, records, num, unique, j, free, json, mutex>>

\* A record without a name is counted out; the first one is to be filled.
SkipCleared ==
  /\ step = "compact" /\ i <= num /\ ~Visible(records[i])
  /\ free' = IF free = 0 THEN i ELSE free
  /\ unique' = unique - 1 /\ i' = i + 1
  /\ UNCHANGED <<scan, records, num, step, j, json, mutex>>

MutNextFree(r) == i

\* The first record without a name, there is at least one
NextFree(r) == CHOOSE k \in 1 .. num : ~Visible(r[k]) /\ \A l \in 1 .. k - 1 : Visible(r[l])

MoveUp ==
  /\ step = "compact" /\ i <= num /\ Visible(records[i])
  /\ IF free = 0 THEN UNCHANGED <<records, free>>
     ELSE /\ records' = [records EXCEPT ![free] = records[i], ![i] = Cleared]
          /\ free' = NextFree(records')
  /\ i' = i + 1
  /\ UNCHANGED <<scan, num, unique, step, j, json, mutex>>

Compacted ==
  /\ step = "compact" /\ i > num
  /\ num' = unique /\ i' = 1
  /\ step' = "publish"
  /\ json' = [aps |-> <<>>, closed |-> FALSE]
  /\ UNCHANGED <<scan, records, unique, j, free, mutex>>

\* wifi_manager_generate_acess_points_json: the last one brings the "]".
WriteAp ==
  /\ step = "publish" /\ i <= num
  /\ json' = [aps |-> Append(json.aps, records[i]), closed |-> i = num]
  /\ i' = i + 1
  /\ UNCHANGED <<scan, records, num, unique, step, j, free, mutex>>

Unlock ==
  /\ step = "publish" /\ i > num
  /\ step' = "idle" /\ mutex' = "none"
  /\ UNCHANGED <<scan, records, num, loopVars, json>>

-----------------------------------------------------------------------------
(* The web server sends the list under the mutex, at the browser's pace.   *)
GetApJson ==
  /\ mutex = "none" /\ mutex' = "httpd"
  /\ UNCHANGED <<scan, records, num, loopVars, step, json>>

Sent ==
  /\ mutex = "httpd" /\ mutex' = "none"
  /\ UNCHANGED <<scan, records, num, loopVars, step, json>>

Next ==
  \/ ScanDone \/ Lock \/ LockTimesOut \/ Compare \/ NextAp \/ Deduped
  \/ SkipCleared \/ MoveUp \/ Compacted \/ WriteAp \/ Unlock
  \/ GetApJson \/ Sent

Spec == Init /\ [][Next]_vars

-----------------------------------------------------------------------------
(* Properties *)

\* The k-th record of scan s is the first of its name and mode.
First(s, k) == Visible(s[k]) /\ \A l \in 1 .. k - 1 : ~Same(s[l], s[k])

\* ap is what the first n records of s say of the network of s[k].
Best(ap, s, k, n) ==
  /\ Same(ap, s[k])
  /\ \E l \in 1 .. n : Same(s[l], s[k]) /\ s[l].rssi = ap.rssi
  /\ \A l \in 1 .. n : Same(s[l], s[k]) => s[l].rssi <= ap.rssi

\* The list has every visible network of s once, in the order of their first
\* records, with its strongest signal.
Lists(list, s) ==
  \E from \in [DOMAIN list -> DOMAIN s] :
    /\ \A x \in DOMAIN list : First(s, from[x]) /\ Best(list[x], s, from[x], Len(s))
    /\ \A x, y \in DOMAIN list : x < y => from[x] < from[y]
    /\ \A k \in DOMAIN s : First(s, k) => \E x \in DOMAIN list : from[x] = k

(* What a browser is sent is one scan's list, whole and without duplicates,*)
(* never a mixture of two scans, whichever task comes first: the task      *)
(* gives the mutex back with a true list, and changes it only under the    *)
(* mutex.  An empty list is sent without its closing bracket.              *)
ServedIsTrue ==
  [][/\ (mutex = "wifi_manager" /\ mutex' # mutex) =>
          Lists(json.aps, scan) /\ (json.aps # <<>> => json.closed)
     /\ json' # json => mutex = "wifi_manager"]_vars
=============================================================================
