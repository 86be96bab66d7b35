---------------------------- MODULE Portal_proofs ----------------------------
(***************************************************************************)
(* What holds of what the portal shows: of the list of access points that  *)
(* ApList makes, and of the page that shows it, PortalPage.  The two share *)
(* no state: the theorems are those of two specifications.                 *)
(*                                                                         *)
(* What browsers are sent is a scan's list, for every length of the list   *)
(* and every scan.  The removal of duplicates is an invariant over pairs   *)
(* of records (Reduced), the compaction one over the records moved so far  *)
(* (Compacts); both are stated of sequences, apart from the state.  Of the *)
(* page, what is proved holds for every set of networks and every number   *)
(* of requests under way.                                                  *)
(***************************************************************************)
EXTENDS ApList, PortalPage, SequenceTheorems, TLAPS

-----------------------------------------------------------------------------
(* Access points                                                           *)

LEMMA ClearedAp == Cleared \in Aps /\ ~Visible(Cleared)
  BY DEF Cleared, Aps, Visible

LEMMA StrengthIsNumber == \A ap \in Aps : ap.rssi \in Int
<1>1. Cleared.rssi \in Int
  BY ApAssumption DEF Cleared
<1> QED
  BY <1>1, ApAssumption DEF Aps

LEMMA SameAps ==
  /\ \A x : Same(x, x)
  /\ \A x, y : Same(x, y) => Same(y, x)
  /\ \A x, y, z : Same(x, y) /\ Same(y, z) => Same(x, z)
  /\ \A x, y : Same(x, y) => (Visible(x) <=> Visible(y))
  BY DEF Same, Visible

Stronger(ap, ap1) == IF ap1.rssi > ap.rssi THEN [ap EXCEPT !.rssi = ap1.rssi] ELSE ap

LEMMA StrongerAp ==
  ASSUME NEW ap \in Aps, NEW ap1 \in Aps, Visible(ap), Visible(ap1)
  PROVE  /\ Stronger(ap, ap1) \in Aps /\ Same(Stronger(ap, ap1), ap)
         /\ Stronger(ap, ap1).rssi \in {ap.rssi, ap1.rssi}
         /\ Stronger(ap, ap1).rssi >= ap.rssi /\ Stronger(ap, ap1).rssi >= ap1.rssi
<1>1. /\ ap \in [ssid : Ssids, auth : Auths, rssi : Rssis]
      /\ ap1 \in [ssid : Ssids, auth : Auths, rssi : Rssis]
  BY ClearedAp DEF Aps
<1>2. ap.rssi \in Int /\ ap1.rssi \in Int
  BY StrengthIsNumber
<1>3. CASE ap1.rssi > ap.rssi
  <2>1. Stronger(ap, ap1) = [ap EXCEPT !.rssi = ap1.rssi]
    BY <1>3 DEF Stronger
  <2>2. /\ [ap EXCEPT !.rssi = ap1.rssi] \in [ssid : Ssids, auth : Auths, rssi : Rssis]
        /\ [ap EXCEPT !.rssi = ap1.rssi].ssid = ap.ssid
        /\ [ap EXCEPT !.rssi = ap1.rssi].auth = ap.auth
        /\ [ap EXCEPT !.rssi = ap1.rssi].rssi = ap1.rssi
    BY <1>1
  <2> QED
    BY <1>2, <1>3, <2>1, <2>2 DEF Aps, Same
<1>4. CASE ~(ap1.rssi > ap.rssi)
  BY <1>2, <1>4, SameAps DEF Stronger
<1> QED
  BY <1>3, <1>4

LEMMA ScanTypes ==
  ASSUME NEW s \in Scans
  PROVE  /\ Len(s) \in Nat /\ DOMAIN s = 1 .. Len(s)
         /\ s \in [1 .. Len(s) -> Aps] /\ s \in Seq(Aps)
<1>1. PICK n \in 0 .. MaxAps : s \in [1 .. n -> Aps]
  BY DEF Scans
<1>2. n \in Nat
  BY ApAssumption
<1>3. s \in Seq(Aps)
  BY <1>1, <1>2, SeqDef
<1> QED
  BY <1>3, LenProperties

-----------------------------------------------------------------------------
(* Removing duplicates: record a is compared with the records from b on.   *)

\* The records that are left when a has been compared up to b.
Left(s, k, a, b) ==
  /\ Visible(s[k])
  /\ \A l \in 1 .. k - 1 : l < a \/ (l = a /\ k < b) => ~Same(s[l], s[k])

Carries(s, r, k, a, b) ==
  IF k < a THEN Best(r[k], s, k, Len(s))
  ELSE IF k = a THEN Best(r[k], s, k, b - 1)
  ELSE r[k] = s[k]

Reduced(s, r, a, b) ==
  \A k \in 1 .. Len(s) :
    /\ Visible(r[k]) <=> Left(s, k, a, b)
    /\ Visible(r[k]) => Carries(s, r, k, a, b)

\* At first every record is as it was found.
LEMMA ReducedFirst ==
  ASSUME NEW s \in Scans
  PROVE  Reduced(s, s, 1, 2)
<1> SUFFICES ASSUME NEW k \in 1 .. Len(s)
             PROVE  /\ Visible(s[k]) <=> Left(s, k, 1, 2)
                    /\ Visible(s[k]) => Carries(s, s, k, 1, 2)
  BY DEF Reduced
<1>1. Len(s) \in Nat /\ s[k] \in Aps
  BY ScanTypes
<1>2. \A l \in 1 .. k - 1 : ~(l < 1 \/ (l = 1 /\ k < 2))
  BY <1>1
<1>3. CASE k = 1
  <2>1. Best(s[1], s, 1, 1)
    BY <1>1, <1>3, SameAps, StrengthIsNumber DEF Best
  <2> QED
    BY <1>2, <1>3, <2>1 DEF Left, Carries
<1>4. CASE k > 1
  BY <1>2, <1>4 DEF Left, Carries
<1> QED
  BY <1>1, <1>3, <1>4

LEMMA ReducedCompare ==
  ASSUME NEW s \in Scans, NEW r \in [1 .. Len(s) -> Aps],
         NEW a \in 1 .. Len(s), NEW b \in a + 1 .. Len(s),
         Visible(r[a]), Reduced(s, r, a, b)
  PROVE  LET q == IF Same(r[a], r[b])
                  THEN [r EXCEPT ![a] = Stronger(r[a], r[b]), ![b] = Cleared] ELSE r
         IN q \in [1 .. Len(s) -> Aps] /\ Reduced(s, q, a, b + 1)
<1> DEFINE q == IF Same(r[a], r[b])
                THEN [r EXCEPT ![a] = Stronger(r[a], r[b]), ![b] = Cleared] ELSE r
<1>1. Len(s) \in Nat /\ \A k \in 1 .. Len(s) : s[k] \in Aps /\ r[k] \in Aps
  BY ScanTypes
<1>2. a < b /\ b \in 1 .. Len(s) /\ a \in Nat /\ b \in Nat /\ a # b
  BY <1>1
<1>3. Best(r[a], s, a, b - 1) /\ Left(s, a, a, b)
  BY DEF Reduced, Carries
<1>4. Visible(r[b]) => r[b] = s[b]
  BY <1>2 DEF Reduced, Carries
<1>5. Same(r[a], s[a])
  BY <1>3 DEF Best
\* A record that was cleared before is not of the network of a.
<1>6. Same(s[a], s[b]) => Same(r[a], r[b])
  <2> SUFFICES ASSUME Same(s[a], s[b]) PROVE Same(r[a], r[b])
    OBVIOUS
  <2>1. Left(s, b, a, b)
    <3>1. \A l \in 1 .. b - 1 : l < a => ~Same(s[l], s[b])
      <4> SUFFICES ASSUME NEW l \in 1 .. b - 1, l < a, Same(s[l], s[b]) PROVE FALSE
        OBVIOUS
      <4>1. l \in 1 .. a - 1
        BY <1>2
      <4>2. Same(s[l], s[a])
        BY SameAps
      <4> QED
        BY <1>3, <4>1, <4>2 DEF Left
    <3>2. Visible(s[b])
      BY <1>3, SameAps DEF Left
    <3> QED
      BY <1>2, <3>1, <3>2 DEF Left
  <2> QED
    BY <1>2, <1>4, <1>5, <2>1, SameAps DEF Reduced
<1>7. Same(r[a], r[b]) => Visible(r[b]) /\ r[b] = s[b] /\ Same(s[a], s[b])
  BY <1>4, <1>5, SameAps
<1>8. q \in [1 .. Len(s) -> Aps]
  BY <1>1, <1>2, <1>7, StrongerAp, ClearedAp
<1>9. \A k \in 1 .. Len(s) : k # a /\ k # b => q[k] = r[k]
  BY <1>1
<1>10. ASSUME NEW k \in 1 .. Len(s), k # a, k # b
       PROVE  /\ Visible(q[k]) <=> Left(s, k, a, b + 1)
              /\ Visible(q[k]) => Carries(s, q, k, a, b + 1)
  <2>1. q[k] = r[k]
    BY <1>9, <1>10
  <2>2. (k < b + 1) <=> (k < b)
    BY <1>2, <1>10
  <2>3. Left(s, k, a, b + 1) <=> Left(s, k, a, b)
    BY <2>2 DEF Left
  <2>4. Carries(s, q, k, a, b + 1) <=> Carries(s, r, k, a, b)
    BY <1>10, <2>1 DEF Carries
  <2> QED
    BY <2>1, <2>3, <2>4 DEF Reduced
<1>11. /\ Visible(q[b]) <=> Left(s, b, a, b + 1)
       /\ Visible(q[b]) => Carries(s, q, b, a, b + 1)
  <2>1. Left(s, b, a, b + 1) <=> (Left(s, b, a, b) /\ ~Same(s[a], s[b]))
    BY <1>2 DEF Left
  <2>2. CASE Same(r[a], r[b])
    <3>1. q[b] = Cleared
      BY <1>2, <2>2
    <3> QED
      BY <1>7, <2>1, <2>2, <3>1, ClearedAp
  <2>3. CASE ~Same(r[a], r[b])
    <3>1. q[b] = r[b]
      BY <2>3
    <3> QED
      BY <1>2, <1>4, <1>6, <2>1, <2>3, <3>1 DEF Reduced, Carries
  <2> QED
    BY <2>2, <2>3
<1>12. /\ Visible(q[a]) <=> Left(s, a, a, b + 1)
       /\ Visible(q[a]) => Carries(s, q, a, a, b + 1)
  <2>1. Left(s, a, a, b + 1)
    BY <1>2, <1>3 DEF Left
  <2>2. Visible(q[a]) /\ Same(q[a], s[a])
    <3>1. CASE Same(r[a], r[b])
      <4>1. q[a] = Stronger(r[a], r[b])
        BY <1>2, <3>1
      <4>2. Same(q[a], r[a])
        BY <1>1, <1>2, <1>7, <3>1, <4>1, StrongerAp
      <4> QED
        BY <1>5, <4>2, SameAps
    <3>2. CASE ~Same(r[a], r[b])
      BY <1>5, <3>2
    <3> QED
      BY <3>1, <3>2
  <2>3. Best(q[a], s, a, b)
    <3>1. \E l \in 1 .. b - 1 : Same(s[l], s[a]) /\ s[l].rssi = r[a].rssi
      BY <1>3 DEF Best
    <3>2. \A l \in 1 .. b - 1 : Same(s[l], s[a]) => s[l].rssi <= r[a].rssi
      BY <1>3 DEF Best
    <3>3. r[a].rssi \in Int /\ \A l \in 1 .. b : s[l].rssi \in Int
      BY <1>1, <1>2, StrengthIsNumber
    <3>4. CASE Same(r[a], r[b])
      <4>1. q[a] = Stronger(r[a], r[b]) /\ r[b] = s[b] /\ Same(s[b], s[a])
        BY <1>2, <1>7, <3>4, SameAps
      <4>2. /\ q[a].rssi \in {r[a].rssi, s[b].rssi}
            /\ q[a].rssi >= r[a].rssi /\ q[a].rssi >= s[b].rssi
        BY <1>2, <1>7, <3>4, <4>1, StrongerAp
      <4>3. \E l \in 1 .. b : Same(s[l], s[a]) /\ s[l].rssi = q[a].rssi
        <5>1. CASE q[a].rssi = s[b].rssi
          BY <1>2, <4>1, <5>1
        <5>2. CASE q[a].rssi = r[a].rssi
          <6>1. PICK l \in 1 .. b - 1 : Same(s[l], s[a]) /\ s[l].rssi = r[a].rssi
            BY <3>1
          <6>2. l \in 1 .. b
            BY <1>2
          <6> QED
            BY <5>2, <6>1, <6>2
        <5> QED
          BY <4>2, <5>1, <5>2
      <4>4. \A l \in 1 .. b : Same(s[l], s[a]) => s[l].rssi <= q[a].rssi
        <5> SUFFICES ASSUME NEW l \in 1 .. b, Same(s[l], s[a]) PROVE s[l].rssi <= q[a].rssi
          OBVIOUS
        <5>1. l = b \/ l \in 1 .. b - 1
          BY <1>2
        <5>2. q[a].rssi \in Int
          BY <3>3, <4>2, <1>2
        <5> QED
          BY <3>2, <3>3, <4>2, <5>1, <5>2
      <4> QED
        BY <2>2, <4>3, <4>4 DEF Best
    <3>5. CASE ~Same(r[a], r[b])
      <4>1. q[a] = r[a] /\ ~Same(s[b], s[a])
        BY <1>6, <3>5, SameAps
      <4>2. 1 .. b = (1 .. b - 1) \cup {b}
        BY <1>2
      <4> QED
        BY <2>2, <3>1, <3>2, <4>1, <4>2 DEF Best
    <3> QED
      BY <3>4, <3>5
  <2>4. (b + 1) - 1 = b
    BY <1>2
  <2> QED
    BY <2>1, <2>2, <2>3, <2>4 DEF Carries
<1> HIDE DEF q
<1>13. Reduced(s, q, a, b + 1)
  BY <1>10, <1>11, <1>12 DEF Reduced
<1> QED
  BY <1>8, <1>13 DEF q

\* On to the next record; one that was cleared is not compared with others.
LEMMA ReducedNext ==
  ASSUME NEW s \in Scans, NEW r \in [1 .. Len(s) -> Aps],
         NEW a \in 1 .. Len(s) - 1, NEW b \in a + 1 .. Len(s) + 1,
         ~Visible(r[a]) \/ b > Len(s), Reduced(s, r, a, b)
  PROVE  Reduced(s, r, a + 1, a + 2)
<1>1. Len(s) \in Nat /\ \A k \in 1 .. Len(s) : s[k] \in Aps /\ r[k] \in Aps
  BY ScanTypes
<1>2. a \in Nat /\ a \in 1 .. Len(s) /\ a < b /\ b \in Nat
  BY <1>1
<1>3. ASSUME NEW k \in 1 .. Len(s) PROVE Left(s, k, a + 1, a + 2) <=> Left(s, k, a, b)
  <2>1. ASSUME NEW l \in 1 .. k - 1, l < a + 1 \/ (l = a + 1 /\ k < a + 2)
        PROVE  l < a \/ l = a
    BY <1>1, <1>2, <2>1
  <2>2. ASSUME NEW l \in 1 .. k - 1, l < a \/ (l = a /\ k < b)
        PROVE  l < a + 1
    BY <1>1, <1>2, <2>2
  <2>3. ASSUME Left(s, k, a, b), a \in 1 .. k - 1, ~(k < b) PROVE ~Same(s[a], s[k])
    <3>1. ~Visible(r[a])
      BY <1>1, <1>2, <2>3
    <3>2. ~Left(s, a, a, b)
      BY <1>2, <3>1 DEF Reduced
    <3>3. CASE ~Visible(s[a])
      BY <2>3, <3>3, SameAps DEF Left
    <3>4. CASE Visible(s[a])
      <4>1. PICK l \in 1 .. a - 1 : Same(s[l], s[a])
        BY <1>2, <3>2, <3>4 DEF Left
      <4>2. l \in 1 .. k - 1 /\ l < a
        BY <1>2, <2>3
      <4>3. ~Same(s[l], s[k])
        BY <2>3, <4>2 DEF Left
      <4> QED
        BY <4>1, <4>3, SameAps
    <3> QED
      BY <3>3, <3>4
  <2>4. Left(s, k, a, b) => Left(s, k, a + 1, a + 2)
    <3> SUFFICES ASSUME Left(s, k, a, b), NEW l \in 1 .. k - 1,
                        l < a + 1 \/ (l = a + 1 /\ k < a + 2)
                 PROVE  ~Same(s[l], s[k])
      BY DEF Left
    <3> QED
      BY <2>1, <2>3 DEF Left
  <2>5. Left(s, k, a + 1, a + 2) => Left(s, k, a, b)
    BY <2>2 DEF Left
  <2> QED
    BY <2>4, <2>5
<1>4. ASSUME NEW k \in 1 .. Len(s), Visible(r[k]), Left(s, k, a, b), Carries(s, r, k, a, b),
             Left(s, k, a + 1, a + 2)
      PROVE  Carries(s, r, k, a + 1, a + 2)
  <2>1. CASE k < a
    <3>1. k < a + 1
      BY <1>2, <2>1
    <3> QED
      BY <1>4, <2>1, <3>1 DEF Carries
  <2>2. CASE k = a
    <3>1. b - 1 = Len(s) /\ k < a + 1 /\ ~(k < a)
      BY <1>1, <1>2, <1>4, <2>2
    <3> QED
      BY <1>4, <2>2, <3>1 DEF Carries
  <2>3. CASE k = a + 1
    <3>1. r[k] = s[k] /\ ~(k < a + 1)
      BY <1>2, <1>4, <2>3 DEF Carries
    <3>2. \A l \in 1 .. k : l = k \/ ~Same(s[l], s[k])
      BY <1>1, <1>4, <2>3 DEF Left
    <3>3. Best(r[k], s, k, k)
      BY <1>1, <3>1, <3>2, SameAps, StrengthIsNumber DEF Best
    <3>4. (a + 2) - 1 = k
      BY <1>2, <2>3
    <3> QED
      BY <2>3, <3>1, <3>3, <3>4 DEF Carries
  <2>4. CASE k > a + 1
    <3>1. ~(k < a) /\ k # a /\ ~(k < a + 1) /\ k # a + 1
      BY <1>2, <2>4
    <3> QED
      BY <1>4, <3>1 DEF Carries
  <2> QED
    BY <1>1, <1>2, <2>1, <2>2, <2>3, <2>4
<1> QED
  BY <1>3, <1>4 DEF Reduced

\* In the end the first record of every network is left, with its best signal.
Unique(s, r) ==
  \A k \in 1 .. Len(s) : /\ Visible(r[k]) <=> First(s, k)
                         /\ Visible(r[k]) => Best(r[k], s, k, Len(s))

LEMMA ReducedLast ==
  ASSUME NEW s \in Scans, NEW r \in [1 .. Len(s) -> Aps], Len(s) > 0,
         Reduced(s, r, Len(s), Len(s) + 1)
  PROVE  Unique(s, r)
<1> SUFFICES ASSUME NEW k \in 1 .. Len(s)
             PROVE  /\ Visible(r[k]) <=> First(s, k)
                    /\ Visible(r[k]) => Best(r[k], s, k, Len(s))
  BY DEF Unique
<1>1. Len(s) \in Nat
  BY ScanTypes
<1>2. Left(s, k, Len(s), Len(s) + 1) <=> First(s, k)
  BY <1>1 DEF Left, First
<1>3. k < Len(s) \/ k = Len(s)
  BY <1>1
<1>4. (Len(s) + 1) - 1 = Len(s)
  BY <1>1
<1> QED
  BY <1>2, <1>3, <1>4 DEF Reduced, Carries

-----------------------------------------------------------------------------
(* Compaction: the records before a have been looked at, m were kept.      *)

Moved(s, r, a, m) ==
  \E from \in [1 .. m -> 1 .. a - 1] :
    /\ \A x \in 1 .. m : First(s, from[x]) /\ Best(r[x], s, from[x], Len(s))
    /\ \A x, y \in 1 .. m : x < y => from[x] < from[y]
    /\ \A k \in 1 .. a - 1 : First(s, k) => \E x \in 1 .. m : from[x] = k

Compacts(s, r, a, m) ==
  /\ m \in 0 .. a - 1
  /\ Moved(s, r, a, m)
  /\ \A x \in 1 .. m : Visible(r[x])
  /\ \A x \in m + 1 .. a - 1 : ~Visible(r[x])
  /\ \A k \in a .. Len(s) : /\ Visible(r[k]) <=> First(s, k)
                            /\ Visible(r[k]) => Best(r[k], s, k, Len(s))

LEMMA CompactsFirst ==
  ASSUME NEW s \in Scans, NEW r, Unique(s, r)
  PROVE  Compacts(s, r, 1, 0)
<1>1. Moved(s, r, 1, 0)
  <2> DEFINE none == [x \in 1 .. 0 |-> 1]
  <2>1. 1 .. 0 = {} /\ 1 .. 1 - 1 = {}
    OBVIOUS
  <2>2. none \in [1 .. 0 -> 1 .. 1 - 1]
    BY <2>1
  <2> HIDE DEF none
  <2> QED
    BY <2>1, <2>2 DEF Moved
<1>2. Len(s) \in Nat
  BY ScanTypes
<1> QED
  BY <1>1, <1>2 DEF Compacts, Unique

LEMMA CompactsSkip ==
  ASSUME NEW s \in Scans, NEW r, NEW a \in 1 .. Len(s), NEW m,
         Compacts(s, r, a, m), ~Visible(r[a])
  PROVE  Compacts(s, r, a + 1, m)
<1>1. Len(s) \in Nat /\ ~First(s, a) /\ m \in 0 .. a - 1
  BY ScanTypes DEF Compacts
<1>2. Moved(s, r, a + 1, m)
  <2>1. PICK from \in [1 .. m -> 1 .. a - 1] :
          /\ \A x \in 1 .. m : First(s, from[x]) /\ Best(r[x], s, from[x], Len(s))
          /\ \A x, y \in 1 .. m : x < y => from[x] < from[y]
          /\ \A k \in 1 .. a - 1 : First(s, k) => \E x \in 1 .. m : from[x] = k
    BY DEF Compacts, Moved
  <2>2. from \in [1 .. m -> 1 .. (a + 1) - 1]
    BY <1>1
  <2>3. \A k \in 1 .. (a + 1) - 1 : First(s, k) => \E x \in 1 .. m : from[x] = k
    BY <1>1, <2>1
  <2> QED
    BY <2>1, <2>2, <2>3 DEF Moved
<1> QED
  BY <1>1, <1>2 DEF Compacts

\* Record a is kept, as record m + 1.
LEMMA CompactsKeep ==
  ASSUME NEW s \in Scans, NEW r, NEW q, NEW a \in 1 .. Len(s), NEW m,
         Compacts(s, r, a, m), Visible(r[a]),
         \A x \in 1 .. m : q[x] = r[x], q[m + 1] = r[a],
         \A x \in m + 2 .. a : ~Visible(q[x]),
         \A k \in a + 1 .. Len(s) : q[k] = r[k]
  PROVE  Compacts(s, q, a + 1, m + 1)
<1>1. /\ Len(s) \in Nat /\ m \in 0 .. a - 1
      /\ First(s, a) /\ Best(r[a], s, a, Len(s))
  BY ScanTypes DEF Compacts
<1>2. Moved(s, q, a + 1, m + 1)
  <2>1. PICK from \in [1 .. m -> 1 .. a - 1] :
          /\ \A x \in 1 .. m : First(s, from[x]) /\ Best(r[x], s, from[x], Len(s))
          /\ \A x, y \in 1 .. m : x < y => from[x] < from[y]
          /\ \A k \in 1 .. a - 1 : First(s, k) => \E x \in 1 .. m : from[x] = k
    BY DEF Compacts, Moved
  <2> DEFINE to == [x \in 1 .. m + 1 |-> IF x = m + 1 THEN a ELSE from[x]]
  <2>2. to \in [1 .. m + 1 -> 1 .. (a + 1) - 1]
    BY <1>1
  <2>3. to[m + 1] = a /\ \A x \in 1 .. m : to[x] = from[x] /\ from[x] < a
    BY <1>1
  <2>4. \A x \in 1 .. m + 1 : x = m + 1 \/ x \in 1 .. m
    BY <1>1
  <2> HIDE DEF to
  <2>5. \A x \in 1 .. m + 1 : First(s, to[x]) /\ Best(q[x], s, to[x], Len(s))
    BY <1>1, <2>1, <2>3, <2>4
  <2>6. \A x, y \in 1 .. m + 1 : x < y => to[x] < to[y]
    <3> SUFFICES ASSUME NEW x \in 1 .. m + 1, NEW y \in 1 .. m + 1, x < y
                 PROVE  to[x] < to[y]
      OBVIOUS
    <3>1. x \in 1 .. m
      BY <1>1
    <3> QED
      BY <2>1, <2>3, <2>4, <3>1
  <2>7. \A k \in 1 .. (a + 1) - 1 : First(s, k) => \E x \in 1 .. m + 1 : to[x] = k
    <3> SUFFICES ASSUME NEW k \in 1 .. (a + 1) - 1, First(s, k)
                 PROVE  \E x \in 1 .. m + 1 : to[x] = k
      OBVIOUS
    <3>1. CASE k = a
      BY <1>1, <2>3, <3>1
    <3>2. CASE k # a
      <4>1. k \in 1 .. a - 1
        BY <3>2
      <4>2. PICK x \in 1 .. m : from[x] = k
        BY <2>1, <4>1
      <4> QED
        BY <1>1, <2>3, <4>2
    <3> QED
      BY <3>1, <3>2
  <2> QED
    BY <2>2, <2>5, <2>6, <2>7 DEF Moved
<1>3. \A x \in 1 .. m + 1 : Visible(q[x])
  BY <1>1 DEF Compacts
<1>4. \A k \in a + 1 .. Len(s) : /\ Visible(q[k]) <=> First(s, k)
                                /\ Visible(q[k]) => Best(q[k], s, k, Len(s))
  BY <1>1 DEF Compacts
<1> QED
  BY <1>1, <1>2, <1>3, <1>4 DEF Compacts

LEMMA CompactsLast ==
  ASSUME NEW s \in Scans, NEW r, NEW m, Compacts(s, r, Len(s) + 1, m),
         NEW list, DOMAIN list = 1 .. m, \A x \in 1 .. m : list[x] = r[x]
  PROVE  Lists(list, s)
<1>1. Len(s) \in Nat /\ DOMAIN s = 1 .. Len(s) /\ (Len(s) + 1) - 1 = Len(s)
  BY ScanTypes
<1>2. PICK from \in [1 .. m -> 1 .. Len(s)] :
        /\ \A x \in 1 .. m : First(s, from[x]) /\ Best(r[x], s, from[x], Len(s))
        /\ \A x, y \in 1 .. m : x < y => from[x] < from[y]
        /\ \A k \in 1 .. Len(s) : First(s, k) => \E x \in 1 .. m : from[x] = k
  BY <1>1 DEF Compacts, Moved
<1>3. from \in [DOMAIN list -> DOMAIN s]
  BY <1>1
<1>4. \A x \in DOMAIN list : First(s, from[x]) /\ Best(list[x], s, from[x], Len(s))
  BY <1>2
<1>5. \A x, y \in DOMAIN list : x < y => from[x] < from[y]
  BY <1>2
<1>6. \A k \in DOMAIN s : First(s, k) => \E x \in DOMAIN list : from[x] = k
  BY <1>1, <1>2
<1> QED
  BY <1>3, <1>4, <1>5, <1>6 DEF Lists

-----------------------------------------------------------------------------
(* The invariant: what the task has made of the scan, at each of its steps *)

LockInv ==
  /\ mutex = "wifi_manager" <=> step \in {"dedupe", "compact", "publish"}
  /\ step = "lock" => num = Len(scan) /\ records = scan /\ free = 0

DedupeInv ==
  step = "dedupe" =>
    /\ num = Len(scan) /\ unique = num /\ free = 0
    /\ num = 0 => i = 1
    /\ num > 0 => i \in 1 .. num /\ j \in i + 1 .. num + 1 /\ Reduced(scan, records, i, j)

CompactInv ==
  step = "compact" =>
    /\ num = Len(scan)
    /\ \E m \in 0 .. i - 1 : /\ Compacts(scan, records, i, m)
                            /\ unique = num - (i - 1 - m)
                            /\ free = IF m = i - 1 THEN 0 ELSE m + 1

PublishInv ==
  step = "publish" =>
    /\ Compacts(scan, records, Len(scan) + 1, num)
    /\ i \in 1 .. num + 1 /\ Len(json.aps) = i - 1
    /\ \A x \in 1 .. i - 1 : json.aps[x] = records[x]
    /\ i > num /\ num > 0 => json.closed

IInv == TypeOK /\ LockInv /\ DedupeInv /\ CompactInv /\ PublishInv

LEMMA NoScan == <<>> \in Scans /\ Len(<<>>) = 0
<1>1. 0 \in 0 .. MaxAps /\ 1 .. 0 = {}
  BY ApAssumption
<1>2. <<>> \in [1 .. 0 -> Aps]
  BY <1>1
<1>3. <<>> \in Scans
  BY <1>1, <1>2 DEF Scans
<1> QED
  BY <1>3

LEMMA InitIInv == Init => IInv
<1> SUFFICES ASSUME Init PROVE IInv
  OBVIOUS
<1>1. <<>> \in Scans /\ Len(scan) = 0 /\ scan = <<>>
  BY NoScan DEF Init
<1>2. records \in [1 .. Len(scan) -> Aps]
  BY <1>1, ScanTypes DEF Init
<1>3. json \in [aps : Seq(Aps), closed : BOOLEAN]
  BY <1>1, ScanTypes DEF Init
<1> QED
  BY <1>1, <1>2, <1>3 DEF Init, IInv, TypeOK, LockInv, DedupeInv, CompactInv, PublishInv

\* What every step uses
LEMMA StateTypes ==
  ASSUME IInv
  PROVE  /\ scan \in Scans /\ Len(scan) \in Nat
         /\ \A k \in 1 .. Len(scan) : scan[k] \in Aps /\ records[k] \in Aps
         /\ num \in Nat /\ i \in Nat /\ j \in Nat /\ free \in Nat /\ unique \in Nat
<1>1. scan \in Scans
  BY DEF IInv, TypeOK
<1> QED
  BY <1>1, ScanTypes DEF IInv, TypeOK

LEMMA ScanDoneStep == ASSUME IInv, ScanDone PROVE IInv'
<1>1. scan' \in Scans /\ Len(scan') \in Nat /\ scan' \in [1 .. Len(scan') -> Aps]
  BY ScanTypes DEF ScanDone
<1>2. TypeOK'
  BY <1>1 DEF ScanDone, IInv, TypeOK
<1>3. LockInv'
  BY DEF ScanDone, IInv, LockInv
<1> QED
  BY <1>2, <1>3 DEF ScanDone, IInv, DedupeInv, CompactInv, PublishInv

LEMMA LockStep == ASSUME IInv, Lock PROVE IInv'
<1>1. /\ scan \in Scans /\ Len(scan) \in Nat
      /\ num = Len(scan) /\ records = scan /\ free = 0
  BY StateTypes DEF Lock, IInv, LockInv
<1>2. TypeOK'
  BY <1>1 DEF Lock, IInv, TypeOK
<1>3. LockInv'
  BY DEF Lock, LockInv
<1>4. Reduced(scan, records, 1, 2)
  BY <1>1, ReducedFirst
<1>5. DedupeInv'
  BY <1>1, <1>4 DEF Lock, DedupeInv
<1> QED
  BY <1>2, <1>3, <1>5 DEF Lock, IInv, CompactInv, PublishInv

LEMMA LockTimesOutStep == ASSUME IInv, LockTimesOut PROVE IInv'
<1>1. TypeOK'
  BY DEF LockTimesOut, IInv, TypeOK, loopVars
<1>2. LockInv'
  BY DEF LockTimesOut, IInv, LockInv
<1> QED
  BY <1>1, <1>2 DEF LockTimesOut, IInv, DedupeInv, CompactInv, PublishInv

LEMMA CompareStep == ASSUME IInv, Compare PROVE IInv'
<1>1. /\ scan \in Scans /\ Len(scan) \in Nat /\ records \in [1 .. Len(scan) -> Aps]
      /\ num = Len(scan) /\ i < num /\ j <= num /\ num > 0
  BY StateTypes DEF Compare, IInv, TypeOK, DedupeInv
<1>2. i \in 1 .. Len(scan) /\ j \in i + 1 .. Len(scan) /\ Reduced(scan, records, i, j)
  BY <1>1 DEF Compare, IInv, DedupeInv
<1>3. records' = IF Same(records[i], records[j])
                 THEN [records EXCEPT ![i] = Stronger(records[i], records[j]), ![j] = Cleared]
                 ELSE records
  BY DEF Compare, Stronger
<1>4. records' \in [1 .. Len(scan) -> Aps] /\ Reduced(scan, records', i, j + 1)
  <2> DEFINE q == IF Same(records[i], records[j])
                  THEN [records EXCEPT ![i] = Stronger(records[i], records[j]), ![j] = Cleared]
                  ELSE records
  <2>1. Visible(records[i])
    BY DEF Compare
  <2>2. q \in [1 .. Len(scan) -> Aps] /\ Reduced(scan, q, i, j + 1)
    BY <1>1, <1>2, <2>1, ReducedCompare
  <2>3. records' = q
    BY <1>3
  <2> HIDE DEF q
  <2> QED
    BY <2>2, <2>3
<1>5. TypeOK'
  <2>1. j' = j + 1 /\ UNCHANGED <<scan, num, unique, step, i, free, json, mutex>>
    BY DEF Compare
  <2>2. j' \in 1 .. Len(scan) + 2
    BY <1>1, <1>2, <2>1
  <2> QED
    BY <1>4, <2>1, <2>2 DEF IInv, TypeOK
<1>6. LockInv'
  BY DEF Compare, IInv, LockInv
<1>7. DedupeInv'
  BY <1>1, <1>2, <1>4 DEF Compare, IInv, DedupeInv
<1> QED
  BY <1>5, <1>6, <1>7 DEF Compare, IInv, CompactInv, PublishInv

LEMMA NextApStep == ASSUME IInv, NextAp PROVE IInv'
<1>1. /\ scan \in Scans /\ Len(scan) \in Nat /\ records \in [1 .. Len(scan) -> Aps]
      /\ num = Len(scan) /\ i < num /\ num > 0
  BY StateTypes DEF NextAp, IInv, TypeOK, DedupeInv
<1>2. /\ i \in 1 .. Len(scan) - 1 /\ j \in i + 1 .. Len(scan) + 1
      /\ Reduced(scan, records, i, j)
  BY <1>1 DEF NextAp, IInv, DedupeInv
<1>3. ~Visible(records[i]) \/ j > Len(scan)
  BY <1>1 DEF NextAp
<1>4. Reduced(scan, records, i + 1, i + 2)
  BY <1>1, <1>2, <1>3, ReducedNext
<1>5. TypeOK'
  BY <1>1, <1>2 DEF NextAp, IInv, TypeOK
<1>6. LockInv'
  BY DEF NextAp, IInv, LockInv
<1>7. DedupeInv'
  BY <1>1, <1>2, <1>4 DEF NextAp, IInv, DedupeInv
<1> QED
  BY <1>5, <1>6, <1>7 DEF NextAp, IInv, CompactInv, PublishInv

LEMMA DedupedStep == ASSUME IInv, Deduped PROVE IInv'
<1>1. /\ scan \in Scans /\ Len(scan) \in Nat /\ records \in [1 .. Len(scan) -> Aps]
      /\ num = Len(scan) /\ unique = num /\ free = 0
  BY StateTypes DEF Deduped, IInv, TypeOK, DedupeInv
<1>2. TypeOK'
  BY <1>1 DEF Deduped, IInv, TypeOK
<1>3. LockInv'
  BY DEF Deduped, IInv, LockInv
<1>4. Unique(scan, records)
  <2>1. CASE num = 0
    BY <1>1, <2>1 DEF Unique
  <2>2. CASE num > 0
    <3>1. i = Len(scan) /\ j = Len(scan) + 1
      BY <1>1, <2>2, StateTypes DEF Deduped, IInv, DedupeInv
    <3>2. Reduced(scan, records, i, j)
      BY <2>2 DEF Deduped, IInv, DedupeInv
    <3> QED
      BY <1>1, <2>2, <3>1, <3>2, ReducedLast
  <2> QED
    BY <1>1, <2>1, <2>2
<1>5. Compacts(scan, records, 1, 0)
  BY <1>1, <1>4, CompactsFirst
<1>6. CompactInv'
  BY <1>1, <1>5 DEF Deduped, CompactInv
<1> QED
  BY <1>2, <1>3, <1>6 DEF Deduped, IInv, DedupeInv, PublishInv

LEMMA SkipClearedStep == ASSUME IInv, SkipCleared PROVE IInv'
<1>1. /\ scan \in Scans /\ Len(scan) \in Nat /\ num = Len(scan)
      /\ i \in 1 .. Len(scan) /\ ~Visible(records[i])
  BY StateTypes DEF SkipCleared, IInv, TypeOK, CompactInv
<1>2. PICK m \in 0 .. i - 1 : /\ Compacts(scan, records, i, m)
                              /\ unique = num - (i - 1 - m)
                              /\ free = IF m = i - 1 THEN 0 ELSE m + 1
  BY DEF SkipCleared, IInv, CompactInv
<1>3. Compacts(scan, records, i + 1, m)
  BY <1>1, <1>2, CompactsSkip
<1>4. /\ m \in 0 .. (i + 1) - 1 /\ m # (i + 1) - 1
      /\ unique' = num - ((i + 1) - 1 - m) /\ free' = m + 1
  BY <1>1, <1>2 DEF SkipCleared
<1>5. TypeOK'
  BY <1>1, <1>4 DEF SkipCleared, IInv, TypeOK
<1>6. LockInv'
  BY DEF SkipCleared, IInv, LockInv
<1>7. CompactInv'
  BY <1>1, <1>3, <1>4 DEF SkipCleared, CompactInv
<1> QED
  BY <1>5, <1>6, <1>7 DEF SkipCleared, IInv, DedupeInv, PublishInv

\* The hole after the records kept so far is the first one.
LEMMA NextFreeIs ==
  ASSUME NEW r, NEW m \in Nat, m + 2 \in 1 .. num, num \in Nat,
         \A x \in 1 .. m + 1 : Visible(r[x]), ~Visible(r[m + 2])
  PROVE  NextFree(r) = m + 2
<1> DEFINE IsNext(k) == ~Visible(r[k]) /\ \A l \in 1 .. k - 1 : Visible(r[l])
<1>1. IsNext(m + 2)
  BY (m + 2) - 1 = m + 1
<1>2. \A k \in 1 .. num : IsNext(k) => k = m + 2
  <2> SUFFICES ASSUME NEW k \in 1 .. num, IsNext(k) PROVE k = m + 2
    OBVIOUS
  <2>1. ~(k < m + 2)
    <3>1. k < m + 2 => k \in 1 .. m + 1
      OBVIOUS
    <3> QED
      BY <3>1
  <2>2. ~(k > m + 2)
    <3>1. k > m + 2 => m + 2 \in 1 .. k - 1
      OBVIOUS
    <3> QED
      BY <3>1
  <2> QED
    BY <2>1, <2>2
<1>3. NextFree(r) = CHOOSE k \in 1 .. num : IsNext(k)
  BY DEF NextFree
<1> HIDE DEF IsNext
<1> QED
  BY <1>1, <1>2, <1>3

LEMMA MoveUpStep == ASSUME IInv, MoveUp PROVE IInv'
<1>1. /\ scan \in Scans /\ Len(scan) \in Nat /\ num = Len(scan)
      /\ i \in 1 .. Len(scan) /\ Visible(records[i])
      /\ records \in [1 .. Len(scan) -> Aps]
  BY StateTypes DEF MoveUp, IInv, TypeOK, CompactInv
<1>2. PICK m \in 0 .. i - 1 : /\ Compacts(scan, records, i, m)
                              /\ unique = num - (i - 1 - m)
                              /\ free = IF m = i - 1 THEN 0 ELSE m + 1
  BY DEF MoveUp, IInv, CompactInv
<1>3. /\ m + 1 \in 0 .. (i + 1) - 1 /\ m \in Nat
      /\ unique' = num - ((i + 1) - 1 - (m + 1))
  BY <1>1, <1>2 DEF MoveUp
<1>4. CASE m = i - 1
  <2>1. records' = records /\ free' = 0
    BY <1>2, <1>4 DEF MoveUp
  <2>2. m + 1 = i /\ m + 2 .. i = {}
    BY <1>1, <1>4
  <2>3. Compacts(scan, records', i + 1, m + 1)
    BY <1>1, <1>2, <2>1, <2>2, CompactsKeep
  <2> QED
    BY <1>1, <1>3, <1>4, <2>1, <2>3
       DEF MoveUp, IInv, TypeOK, LockInv, DedupeInv, CompactInv, PublishInv
<1>5. CASE m # i - 1
  <2>1. /\ free = m + 1 /\ m + 2 \in 1 .. i /\ m + 2 \in 1 .. num
        /\ m + 1 \in 1 .. Len(scan) /\ m + 1 # i /\ m + 1 < i
    BY <1>1, <1>2, <1>5
  <2>2. records' = [records EXCEPT ![m + 1] = records[i], ![i] = Cleared]
    BY <1>3, <2>1 DEF MoveUp
  <2>3. records' \in [1 .. Len(scan) -> Aps]
    BY <1>1, <2>1, <2>2, ClearedAp
  <2>4. \A x \in 1 .. m : records'[x] = records[x]
    BY <1>1, <1>3, <2>1, <2>2
  <2>5. records'[m + 1] = records[i] /\ records'[i] = Cleared
    BY <1>1, <2>1, <2>2
  <2>6. \A x \in m + 2 .. i : ~Visible(records'[x])
    <3> SUFFICES ASSUME NEW x \in m + 2 .. i PROVE ~Visible(records'[x])
      OBVIOUS
    <3>1. CASE x = i
      BY <2>5, <3>1, ClearedAp
    <3>2. CASE x # i
      <4>1. x \in m + 1 .. i - 1 /\ x \in 1 .. Len(scan) /\ x # m + 1
        BY <1>1, <1>3, <3>2
      <4>2. records'[x] = records[x]
        BY <1>1, <2>2, <3>2, <4>1
      <4> QED
        BY <1>2, <4>1, <4>2 DEF Compacts
    <3> QED
      BY <3>1, <3>2
  <2>7. \A k \in i + 1 .. Len(scan) : records'[k] = records[k]
    BY <1>1, <2>1, <2>2
  <2>8. Compacts(scan, records', i + 1, m + 1)
    BY <1>1, <1>2, <2>4, <2>5, <2>6, <2>7, CompactsKeep
  <2>9. free' = m + 2
    <3>1. free' = NextFree(records')
      BY <1>3, <2>1 DEF MoveUp
    <3>2. \A x \in 1 .. m + 1 : Visible(records'[x])
      BY <2>8 DEF Compacts
    <3>3. ~Visible(records'[m + 2])
      BY <1>1, <1>3, <2>1, <2>6
    <3> HIDE <2>2
    <3> QED
      BY <1>1, <1>3, <2>1, <3>1, <3>2, <3>3, NextFreeIs
  <2>10. UNCHANGED <<scan, num, unique, step, j, json, mutex>> /\ i' = i + 1 /\ step = "compact"
    BY DEF MoveUp
  <2>11. free' = IF m + 1 = (i + 1) - 1 THEN 0 ELSE (m + 1) + 1
    BY <1>1, <1>3, <2>1, <2>9
  <2>12. CompactInv'
    BY <1>1, <1>3, <2>8, <2>10, <2>11 DEF CompactInv
  <2>13. TypeOK'
    BY <1>1, <2>1, <2>3, <2>9, <2>10 DEF IInv, TypeOK
  <2> QED
    BY <2>10, <2>12, <2>13 DEF IInv, LockInv, DedupeInv, PublishInv
<1> QED
  BY <1>4, <1>5

LEMMA CompactedStep == ASSUME IInv, Compacted PROVE IInv'
<1>1. /\ scan \in Scans /\ Len(scan) \in Nat /\ num = Len(scan) /\ i = Len(scan) + 1
  BY StateTypes DEF Compacted, IInv, TypeOK, CompactInv
<1>2. PICK m \in 0 .. i - 1 : /\ Compacts(scan, records, i, m)
                              /\ unique = num - (i - 1 - m)
  BY DEF Compacted, IInv, CompactInv
<1>3. num' = m /\ m \in 0 .. Len(scan)
  BY <1>1, <1>2 DEF Compacted
<1>4. json' = [aps |-> <<>>, closed |-> FALSE]
  BY DEF Compacted
<1>5. json'.aps = <<>> /\ Len(json'.aps) = 0 /\ json' \in [aps : Seq(Aps), closed : BOOLEAN]
  BY <1>4, NoScan, ScanTypes
<1>6. TypeOK'
  BY <1>1, <1>3, <1>5 DEF Compacted, IInv, TypeOK
<1>7. LockInv'
  BY DEF Compacted, IInv, LockInv
<1>8. i' = 1 /\ step' = "publish" /\ scan' = scan /\ records' = records
  BY DEF Compacted
<1>9. PublishInv'
  <2>1. ~(i' > num' /\ num' > 0) /\ i' \in 1 .. num' + 1
    BY <1>3, <1>8
  <2>2. Len(json'.aps) = i' - 1 /\ 1 .. i' - 1 = {}
    BY <1>5, <1>8
  <2> QED
    BY <1>1, <1>2, <1>3, <1>8, <2>1, <2>2 DEF PublishInv
<1> QED
  BY <1>6, <1>7, <1>8, <1>9 DEF IInv, DedupeInv, CompactInv

LEMMA WriteApStep == ASSUME IInv, WriteAp PROVE IInv'
<1>1. /\ scan \in Scans /\ Len(scan) \in Nat /\ num \in 0 .. Len(scan)
      /\ i \in 1 .. num /\ records[i] \in Aps /\ json.aps \in Seq(Aps)
      /\ Len(json.aps) = i - 1 /\ i \in Nat
  BY StateTypes DEF WriteAp, IInv, TypeOK, PublishInv
<1>2. /\ json' = [aps |-> Append(json.aps, records[i]), closed |-> i = num]
      /\ i' = i + 1 /\ step' = "publish"
      /\ UNCHANGED <<scan, records, num, unique, step, j, free, mutex>>
  BY DEF WriteAp
<1>3. /\ json'.aps \in Seq(Aps) /\ Len(json'.aps) = i
      /\ \A x \in 1 .. i - 1 : json'.aps[x] = json.aps[x]
      /\ json'.aps[i] = records[i]
  <2>1. json'.aps = Append(json.aps, records[i])
    BY <1>2
  <2>2. Len(json.aps) + 1 = i
    BY <1>1
  <2> QED
    BY <1>1, <2>1, <2>2, AppendProperties
<1>4. json'.closed = (i = num)
  BY <1>2
<1>5. json' \in [aps : Seq(Aps), closed : BOOLEAN]
  BY <1>2, <1>3
<1>6. TypeOK'
  BY <1>1, <1>2, <1>5 DEF IInv, TypeOK
<1>7. LockInv'
  BY <1>2 DEF IInv, LockInv
<1>8. \A x \in 1 .. i : json'.aps[x] = records[x]
  <2>1. \A x \in 1 .. i : x = i \/ x \in 1 .. i - 1
    BY <1>1
  <2>2. \A x \in 1 .. i - 1 : json.aps[x] = records[x]
    BY DEF WriteAp, IInv, PublishInv
  <2> QED
    BY <1>3, <2>1, <2>2
<1>9. PublishInv'
  <2>1. i' \in 1 .. num + 1 /\ i' - 1 = i
    BY <1>1, <1>2
  <2>2. i' > num => json'.closed
    <3>1. i' > num => i = num
      BY <1>1, <1>2
    <3> QED
      BY <1>4, <3>1
  <2>3. Compacts(scan, records, Len(scan) + 1, num)
    BY DEF WriteAp, IInv, PublishInv
  <2> QED
    BY <1>2, <1>3, <1>8, <2>1, <2>2, <2>3 DEF PublishInv
<1> QED
  BY <1>2, <1>6, <1>7, <1>9 DEF IInv, DedupeInv, CompactInv

LEMMA UnlockStep == ASSUME IInv, Unlock PROVE IInv'
<1>1. TypeOK'
  BY DEF Unlock, IInv, TypeOK, loopVars
<1> QED
  BY <1>1 DEF Unlock, IInv, LockInv, DedupeInv, CompactInv, PublishInv

\* What the web server and a stuttering step leave alone
LEMMA HttpdStep ==
  ASSUME IInv, GetApJson \/ Sent \/ UNCHANGED vars
  PROVE  IInv'
<1>1. UNCHANGED <<scan, records, num, unique, step, i, j, free, json>>
  BY DEF GetApJson, Sent, vars, loopVars
<1>2. mutex' \in {"none", "wifi_manager", "httpd"}
  BY DEF GetApJson, Sent, vars, IInv, TypeOK
<1>3. mutex' = "wifi_manager" <=> mutex = "wifi_manager"
  BY DEF GetApJson, Sent, vars
<1>4. TypeOK'
  BY <1>1, <1>2 DEF IInv, TypeOK
<1>5. LockInv'
  BY <1>1, <1>3 DEF IInv, LockInv
<1>6. DedupeInv' /\ CompactInv' /\ PublishInv'
  BY <1>1 DEF IInv, DedupeInv, CompactInv, PublishInv
<1> QED
  BY <1>4, <1>5, <1>6 DEF IInv

LEMMA NextIInv == IInv /\ [Next]_vars => IInv'
<1> SUFFICES ASSUME IInv, [Next]_vars PROVE IInv'
  OBVIOUS
<1> QED
  BY ScanDoneStep, LockStep, LockTimesOutStep, CompareStep, NextApStep, DedupedStep,
     SkipClearedStep, MoveUpStep, CompactedStep, WriteApStep, UnlockStep, HttpdStep
     DEF Next

-----------------------------------------------------------------------------
(* The types hold: no loop leaves the array of records, for every length   *)
(* of the list the driver may report.                                      *)
THEOREM TypeCorrect == Spec => []TypeOK
<1>1. IInv => TypeOK
  BY DEF IInv
<1> QED
  BY InitIInv, NextIInv, <1>1, PTL DEF Spec

(* The task gives the mutex back only with one scan's list, whole, in      *)
(* order and without duplicates, and changes the list only under the       *)
(* mutex.                                                                  *)
THEOREM ServedListIsTrue == Spec => ServedIsTrue
<1>1. ASSUME IInv, [Next]_vars, mutex = "wifi_manager", mutex' # mutex
      PROVE  Lists(json.aps, scan) /\ (json.aps # <<>> => json.closed)
  <2>1. Unlock
    BY <1>1 DEF Next, ScanDone, Lock, LockTimesOut, Compare, NextAp, Deduped, SkipCleared,
                MoveUp, Compacted, WriteAp, GetApJson, Sent, vars
  <2>2. /\ scan \in Scans /\ Len(scan) \in Nat /\ num \in Nat /\ json.aps \in Seq(Aps)
        /\ i \in 1 .. num + 1 /\ i > num
    BY <1>1, <2>1, StateTypes DEF Unlock, IInv, TypeOK, PublishInv
  <2>3. i = num + 1 /\ i - 1 = num
    BY <2>2
  <2>4. /\ Len(json.aps) = num
        /\ Compacts(scan, records, Len(scan) + 1, num)
        /\ \A x \in 1 .. num : json.aps[x] = records[x]
        /\ num > 0 => json.closed
    BY <1>1, <2>1, <2>2, <2>3 DEF Unlock, IInv, PublishInv
  <2>5. DOMAIN json.aps = 1 .. num
    BY <2>2, <2>4, LenProperties
  <2>6. Lists(json.aps, scan)
    BY <2>2, <2>4, <2>5, CompactsLast
  <2>7. json.aps # <<>> => num > 0
    BY <2>2, <2>4, EmptySeq
  <2> QED
    BY <2>4, <2>6, <2>7
<1>2. ASSUME IInv, [Next]_vars, json' # json PROVE mutex = "wifi_manager"
  BY <1>2 DEF Next, ScanDone, Lock, LockTimesOut, Compare, NextAp, Deduped, SkipCleared,
              MoveUp, Compacted, WriteAp, Unlock, GetApJson, Sent, vars, IInv, LockInv
<1>3. IInv /\ [Next]_vars =>
        [/\ (mutex = "wifi_manager" /\ mutex' # mutex) =>
               Lists(json.aps, scan) /\ (json.aps # <<>> => json.closed)
         /\ json' # json => mutex = "wifi_manager"]_vars
  BY <1>1, <1>2
<1> QED
  BY InitIInv, NextIInv, <1>3, PTL DEF Spec, ServedIsTrue

-----------------------------------------------------------------------------
(* The page.                                                               *)

(* What the device says stays a status, and its network a network.         *)
LEMMA VerdictType ==
  ASSUME ssid \in Networks, status \in Statuses, Device!Verdict
  PROVE  ssid' \in Networks /\ status' \in Statuses
  BY DEF Device!Verdict, Device!Connected, Device!Failed, Device!Lost,
         Device!Forget, Device!Says, Networks, Statuses, Codes

(* So does the handler of a POST, which leaves the status to its end.      *)
LEMMA PostType ==
  ASSUME ssid \in Networks, status \in Statuses,
         Device!BeginRequest \/ Device!Write \/ Device!Ask
  PROVE  ssid' \in Networks /\ status' \in Statuses
  BY DEF Device!BeginRequest, Device!Write, Device!Ask, Device!Nothing, Networks,
         Statuses, Codes

(* A slot of a table of requests takes another state.                      *)
LEMMA TableType ==
  ASSUME NEW S, NEW T, NEW table \in [S -> T], NEW s \in S, NEW t \in T
  PROVE  [table EXCEPT ![s] = t] \in [S -> T]
  OBVIOUS

LEMMA SlotTypes ==
  /\ Free \in Calls /\ Free \in Polls /\ Asks \in Polls
  /\ LeaveCall \in Calls
  /\ \A net \in Networks : JoinCall(net) \in Calls
  /\ \A data \in Statuses : [at |-> "answered", data |-> data] \in Polls
  BY DEF Free, Calls, Polls, Asks, LeaveCall, JoinCall, Networks

LEMMA TypeInit == PageInit => PageTypeOK
<1> SUFFICES ASSUME PageInit PROVE PageTypeOK
  OBVIOUS
<1>1. status \in Statuses
  BY DEF PageInit, Statuses, Codes, Device!Nothing, Device!Says, Networks
<1>2. calls \in [1..MaxCalls -> Calls] /\ polls \in [1..MaxPolls -> Polls]
  BY SlotTypes DEF PageInit
<1>3. shown \subseteq Sections /\ selected \in Networks
  BY DEF PageInit, Sections, Networks
<1> QED
  BY <1>1, <1>2, <1>3 DEF PageInit, PageTypeOK

(* The types in groups, each disturbed by few actions.                     *)
ServerOK == ssid \in Networks /\ status \in Statuses
ViewOK   == shown \subseteq Sections /\ selected \in Networks
FlagsOK  == /\ success \in BOOLEAN /\ fail \in BOOLEAN /\ okEnabled \in BOOLEAN
            /\ panel \in BOOLEAN /\ loadPending \in BOOLEAN
            /\ statusPoll \in BOOLEAN /\ leaked \in BOOLEAN /\ died \in BOOLEAN
CallsOK  == calls \in [1..MaxCalls -> Calls]
PollsOK  == polls \in [1..MaxPolls -> Polls]

LEMMA TypeGroups ==
  /\ PageTypeOK <=> ServerOK /\ ViewOK /\ FlagsOK /\ CallsOK /\ PollsOK
  /\ PageTypeOK' <=> ServerOK' /\ ViewOK' /\ FlagsOK' /\ CallsOK' /\ PollsOK'
  BY DEF PageTypeOK, ServerOK, ViewOK, FlagsOK, CallsOK, PollsOK

LEMMA TypeLoadEnds == PageTypeOK /\ LoadEnds => PageTypeOK'
  BY DEF PageTypeOK, LoadEnds, StartCheckStatusInterval, server, view,
           wait

LEMMA TypeUser == PageTypeOK /\ User => PageTypeOK'
<1> SUFFICES ASSUME PageTypeOK, User PROVE PageTypeOK'
  OBVIOUS
<1>1. CASE \/ ClickStatus \/ ClickManual \/ Cancel
           \/ OkDetails \/ OkConnect
           \/ \E net \in Nets : ClickNetwork(net)
  <2> USE DEF ClickStatus, ClickManual, Cancel, OkDetails,
           OkConnect, ClickNetwork
  <2>1. ViewOK'
    BY <1>1 DEF PageTypeOK, ViewOK, Shows, Sections, Networks
  <2>2. UNCHANGED <<server, wait, panel, loadPending, timers, calls, polls>>
    BY <1>1
  <2> QED
    BY <2>1, <2>2 DEF ViewOK, PageTypeOK, server, wait, timers
<1>2. CASE \E c \in 1..MaxCalls : Join(c)
  <2>1. PICK c \in 1..MaxCalls, net \in Nets \cup {selected} : PerformConnect(c, net)
    BY <1>2 DEF Join
  <2>2. net \in Networks
    BY <2>1 DEF PageTypeOK, Networks
  <2>3. CallsOK'
    BY <2>1, <2>2, SlotTypes DEF PerformConnect, Sends, CallsOK, PageTypeOK
  <2>4. ViewOK'
    BY <2>1, <2>2 DEF PerformConnect, Shows, Sections, ViewOK, PageTypeOK
  <2>5. FlagsOK'
    BY <2>1 DEF PerformConnect, StopCheckStatusInterval, FlagsOK, PageTypeOK
  <2>6. ServerOK' /\ PollsOK'
    BY <2>1 DEF PerformConnect, server, ServerOK, PollsOK, PageTypeOK
  <2> QED
    BY <2>3, <2>4, <2>5, <2>6, TypeGroups
<1>3. CASE \E c \in 1..MaxCalls : YesDisconnect(c)
  <2>1. PICK c \in 1..MaxCalls : YesDisconnect(c)
    BY <1>3
  <2>2. CallsOK'
    BY <2>1, SlotTypes DEF YesDisconnect, Sends, CallsOK, PageTypeOK
  <2>3. ViewOK'
    BY <2>1 DEF YesDisconnect, ViewOK, PageTypeOK, Networks
  <2>4. FlagsOK' /\ ServerOK' /\ PollsOK'
    BY <2>1 DEF YesDisconnect, StopCheckStatusInterval, FlagsOK, ServerOK,
             PollsOK,
                server, wait, PageTypeOK
  <2> QED
    BY <2>2, <2>3, <2>4, TypeGroups
<1> QED
  BY <1>1, <1>2, <1>3 DEF User

LEMMA TypeReturns == PageTypeOK /\ Returns => PageTypeOK'
<1> SUFFICES ASSUME PageTypeOK, NEW c \in 1..MaxCalls,
                    JoinReturns(c) \/ LeaveReturns(c) \/ CallRejected(c)
             PROVE  PageTypeOK'
  BY DEF Returns
<1> USE DEF JoinReturns, LeaveReturns, CallRejected
<1>1. CallsOK'
  BY SlotTypes DEF Answered, CallsOK, PageTypeOK
<1>2. ViewOK'
  BY DEF Shows, Sections, view, ViewOK, PageTypeOK
<1>3. FlagsOK'
  BY DEF StartCheckStatusInterval, wait, FlagsOK, PageTypeOK
<1>4. ServerOK' /\ PollsOK'
  BY DEF server, ServerOK, PollsOK, PageTypeOK
<1> QED
  BY <1>1, <1>2, <1>3, <1>4, TypeGroups

LEMMA TypePolling == PageTypeOK /\ Polling => PageTypeOK'
<1> SUFFICES ASSUME PageTypeOK, NEW p \in 1..MaxPolls,
                    Poll(p) \/ PollFails(p) \/ CheckStatus(p)
             PROVE  PageTypeOK'
  BY DEF Polling
<1> USE DEF Poll, PollFails, CheckStatus
<1>1. PollsOK'
  BY SlotTypes DEF PollsOK, PageTypeOK
<1>2. UNCHANGED <<server, view, loadPending, timers, calls>>
  OBVIOUS
<1>3. /\ success' \in BOOLEAN /\ fail' \in BOOLEAN /\ okEnabled' \in BOOLEAN
      /\ panel' \in BOOLEAN
  BY DEF Succeeds, Fails, Elsewhere, Gone, Ignored, wait,
           PageTypeOK
<1> QED
  BY <1>1, <1>2, <1>3 DEF PollsOK, PageTypeOK, server, view, timers

LEMMA MovesType ==
  ASSUME PageTypeOK, NEW c \in 1..MaxCalls, NEW from, NEW to, Moves(c, from, to),
         from # "none", to \in {"sent", "blank", "written", "answered"}
  PROVE  CallsOK' /\ calls'[c] # Free
<1>1. calls[c] \in Calls /\ calls[c] # Free
  BY DEF PageTypeOK, Moves, Free
<1>2. /\ [calls[c] EXCEPT !.at = to] \in Calls
      /\ [calls[c] EXCEPT !.at = to].at = to
  BY <1>1 DEF Calls
<1> QED
  BY <1>1, <1>2 DEF Moves, CallsOK, PageTypeOK, Free

(* What the web server does with a request to connect.json.                *)
Handles(c) ==
  PostConnect(c) \/ PostCopies(c) \/ ConnectAsync(c) \/ ServeInvalid(c) \/ ServeDelete(c)

LEMMA HandlesMoves ==
  ASSUME PageTypeOK, NEW c \in 1..MaxCalls, Handles(c)
  PROVE  /\ CallsOK' /\ calls'[c] # Free
         /\ UNCHANGED <<view, wait, panel, loadPending, timers, polls>>
<1>1. PICK from \in {"sent", "blank", "written"},
           to \in {"blank", "written", "answered"} : Moves(c, from, to)
  BY DEF Handles, PostConnect, PostCopies, ConnectAsync, ServeInvalid, ServeDelete
<1>2. UNCHANGED <<view, wait, panel, loadPending, timers, polls>>
  BY <1>1 DEF Moves
<1> QED
  BY <1>1, <1>2, MovesType

LEMMA ServesCases ==
  Serves => \/ \E p \in 1..MaxPolls : ServeStatus(p)
            \/ \E c \in 1..MaxCalls : Handles(c)
  BY DEF Serves, PostContinues, Handles

LEMMA TypeServes == PageTypeOK /\ Serves => PageTypeOK'
<1> SUFFICES ASSUME PageTypeOK, Serves PROVE PageTypeOK'
  OBVIOUS
<1>1. CASE \E p \in 1..MaxPolls : ServeStatus(p)
  <2>1. PollsOK'
    BY <1>1, SlotTypes DEF ServeStatus, PollsOK, PageTypeOK
  <2> QED
    BY <1>1, <2>1 DEF ServeStatus, PollsOK, PageTypeOK, server, view,
             wait, timers
<1>2. CASE \E c \in 1..MaxCalls : Handles(c)
  <2>1. PICK c \in 1..MaxCalls : Handles(c)
    BY <1>2
  <2>2. ServerOK'
    <3>1. CASE Device!BeginRequest \/ Device!Write \/ Device!Ask
      BY <3>1, PostType DEF ServerOK, PageTypeOK
    <3>2. CASE UNCHANGED server
      BY <3>2 DEF server, ServerOK, PageTypeOK
    <3> QED
      BY <2>1, <3>1, <3>2 DEF Handles, PostConnect, PostCopies, ConnectAsync,
                              ServeInvalid, ServeDelete
  <2> QED
    BY <2>1, <2>2, HandlesMoves
       DEF ServerOK, CallsOK, PageTypeOK, view, wait, timers
<1> QED
  BY <1>1, <1>2, ServesCases

LEMMA TypeNext == PageTypeOK /\ [PageNext]_(pageVars) => PageTypeOK'
<1> SUFFICES ASSUME PageTypeOK, [PageNext]_(pageVars) PROVE PageTypeOK'
  OBVIOUS
<1>1. CASE DeviceStep
  BY <1>1, VerdictType DEF DeviceStep, PageTypeOK, view, wait, timers
<1>2. CASE UNCHANGED pageVars
  BY <1>2 DEF PageTypeOK, pageVars, server, view, wait, timers
<1> QED
  BY <1>1, <1>2, TypeLoadEnds, TypeUser, TypeReturns, TypeServes, TypePolling DEF PageNext

(* Every reachable state of the page and of the requests is well typed.    *)
THEOREM PageTypeCorrect == PageSpec => []PageTypeOK
  BY TypeInit, TypeNext, PTL DEF PageSpec

-----------------------------------------------------------------------------
(* Polling.  It is stopped only by a handler that then awaits its answer,  *)
(* and a handler that ends starts it, or records that it could not.        *)

LEMMA PollingNext ==
  PageTypeOK /\ PollingResumes /\ [PageNext]_(pageVars) => PollingResumes'
<1> SUFFICES ASSUME PageTypeOK, PollingResumes, [PageNext]_(pageVars)
             PROVE  PollingResumes'
  OBVIOUS
<1>1. CASE LoadEnds
  BY <1>1 DEF LoadEnds, StartCheckStatusInterval, PollingResumes
<1>2. CASE \E c \in 1..MaxCalls : Join(c) \/ YesDisconnect(c)
  <2>1. PICK c \in 1..MaxCalls : \E call : call # Free /\ Sends(c, call)
    BY <1>2 DEF Join, PerformConnect, YesDisconnect, JoinCall,
             LeaveCall, Free
  <2>2. calls'[c] # Free
    BY <2>1 DEF Sends, PageTypeOK
  <2> QED
    BY <2>2 DEF Calling, PollingResumes
<1>3. CASE Returns
  <2>1. CASE \E c \in 1..MaxCalls : JoinReturns(c) \/ LeaveReturns(c)
    BY <2>1 DEF JoinReturns, LeaveReturns, StartCheckStatusInterval,
             PollingResumes
  <2>2. CASE \E c \in 1..MaxCalls : CallRejected(c)
    <3>1. died' = ~statusPoll
      BY <2>2 DEF CallRejected
    <3>2. statusPoll' = statusPoll
      BY <2>2 DEF CallRejected
    <3> QED
      BY <3>1, <3>2 DEF PollingResumes, PageTypeOK
  <2> QED
    BY <1>3, <2>1, <2>2 DEF Returns
<1>4. CASE \E c \in 1..MaxCalls : Handles(c)
  BY <1>4, HandlesMoves DEF Calling, PollingResumes
<1>5. CASE UNCHANGED <<loadPending, timers, calls>>
  BY <1>5 DEF PollingResumes, Calling, timers
<1>6. \/ LoadEnds \/ Returns \/ UNCHANGED <<loadPending, timers, calls>>
      \/ \E c \in 1..MaxCalls : Join(c) \/ YesDisconnect(c) \/ Handles(c)
  BY ServesCases DEF PageNext, User, ClickStatus, ClickManual, Cancel,
           OkDetails, OkConnect,
         ClickNetwork, ServeStatus,
         Polling, Poll, PollFails, CheckStatus, DeviceStep,
                  pageVars
<1> QED
  BY <1>1, <1>2, <1>3, <1>4, <1>5, <1>6

(* However many requests are awaited at once, and however their handlers   *)
(* clear and start the interval across each other, polling is on when none *)
(* is awaited any more and none has failed.                                *)
THEOREM PollingAlwaysResumes == PageSpec => []PollingResumes
<1>1. PageInit => PollingResumes
  BY DEF PageInit, PollingResumes
<1> QED
  BY <1>1, TypeInit, TypeNext, PollingNext, PTL DEF PageSpec

=============================================================================
