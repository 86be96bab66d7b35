------------------------------ MODULE CJson_proofs ------------------------------
(***************************************************************************)
(* Proofs about CJson, for any number of items and names: the heap, links  *)
(* and all, is the forest of JsonForest, nothing leaks and nothing is      *)
(* freed twice.                                                            *)
(* The invariant, IInv, is that of CJsonInvariant.                         *)
(***************************************************************************)
EXTENDS CJsonInvariant, SequenceTheorems, FiniteSetTheorems, WellFoundedInduction, TLAPS

-----------------------------------------------------------------------------
(* Sequences and numbers *)

LEMMA InsertAtElements ==
  ASSUME NEW s \in Seq(Items), NEW e \in Items, NEW n \in 1 .. Len(s) + 1
  PROVE  LET t == InsertAt(s, n, e) IN
         /\ t \in Seq(Items) /\ Len(t) = Len(s) + 1
         /\ \A j \in 1 .. Len(s) + 1 : t[j] = IF j < n THEN s[j] ELSE IF j = n THEN e ELSE s[j - 1]
<1> DEFINE l == SubSeq(s, 1, n - 1)
           r == SubSeq(s, n, Len(s))
<1>0. Len(s) \in Nat /\ n \in Nat
  OBVIOUS
<1>1. /\ l \in Seq(Items) /\ Len(l) = n - 1 /\ \A j \in 1 .. n - 1 : l[j] = s[j]
      /\ r \in Seq(Items) /\ Len(r) = Len(s) + 1 - n /\ \A j \in 1 .. Len(s) + 1 - n : r[j] = s[n + j - 1]
  OBVIOUS
<1>2. /\ l \o <<e>> \in Seq(Items) /\ Len(l \o <<e>>) = n
      /\ \A j \in 1 .. n : (l \o <<e>>)[j] = IF j < n THEN s[j] ELSE e
  <2> HIDE DEF l
  <2> QED
    BY <1>1
<1> HIDE DEF l, r
<1>3. /\ (l \o <<e>>) \o r \in Seq(Items) /\ Len((l \o <<e>>) \o r) = Len(s) + 1
      /\ \A j \in 1 .. Len(s) + 1 :
           ((l \o <<e>>) \o r)[j] = IF j <= n THEN (l \o <<e>>)[j] ELSE r[j - n]
  <2> DEFINE m == l \o <<e>>
  <2>1. m \in Seq(Items) /\ Len(m) = n
    BY <1>2
  <2> HIDE DEF m
  <2>4. Len(m) + Len(r) = Len(s) + 1
    BY <1>0, <1>1, <2>1
  <2>2. /\ m \o r \in Seq(Items) /\ Len(m \o r) = Len(m) + Len(r)
        /\ \A j \in 1 .. Len(m) + Len(r) : (m \o r)[j] = IF j <= Len(m) THEN m[j] ELSE r[j - Len(m)]
    BY <1>1, <2>1, ConcatProperties
  <2>3. /\ m \o r \in Seq(Items) /\ Len(m \o r) = Len(s) + 1
        /\ \A j \in 1 .. Len(s) + 1 : (m \o r)[j] = IF j <= n THEN m[j] ELSE r[j - n]
    BY <2>1, <2>2, <2>4
  <2> QED
    BY <2>3 DEF m
<1> QED
  <2>1. InsertAt(s, n, e) = (l \o <<e>>) \o r
    BY DEF InsertAt, l, r
  <2>2. ASSUME NEW j \in 1 .. Len(s) + 1
        PROVE  ((l \o <<e>>) \o r)[j] = IF j < n THEN s[j] ELSE IF j = n THEN e ELSE s[j - 1]
    <3> DEFINE x == ((l \o <<e>>) \o r)[j]
    <3>0. j \in Nat
      BY <1>0
    <3>1. j <= n => x = IF j < n THEN s[j] ELSE e
      BY <1>0, <1>2, <1>3, <3>0
    <3>2. ASSUME j > n PROVE x = s[j - 1]
      <4>1. j - n \in 1 .. Len(s) + 1 - n /\ n + (j - n) - 1 = j - 1
        BY <3>2
      <4> QED
        BY <1>1, <1>3, <3>2, <4>1
    <3> HIDE DEF x
    <3>3. x = IF j < n THEN s[j] ELSE IF j = n THEN e ELSE s[j - 1]
      BY <1>0, <3>0, <3>1, <3>2
    <3> QED
      BY <3>3 DEF x
  <2> QED
    BY <1>3, <2>1, <2>2

\* One of its elements
LEMMA InsertAtElement ==
  ASSUME NEW s \in Seq(Items), NEW e \in Items, NEW n \in 1 .. Len(s) + 1, NEW j \in 1 .. Len(s) + 1
  PROVE  InsertAt(s, n, e)[j] = IF j < n THEN s[j] ELSE IF j = n THEN e ELSE s[j - 1]
BY InsertAtElements

LEMMA RemoveAtElements ==
  ASSUME NEW s \in Seq(Items), NEW n \in 1 .. Len(s)
  PROVE  LET t == RemoveAt(s, n) IN
         /\ t \in Seq(Items) /\ Len(t) = Len(s) - 1
         /\ \A j \in 1 .. Len(s) - 1 : t[j] = IF j < n THEN s[j] ELSE s[j + 1]
<1> DEFINE l == SubSeq(s, 1, n - 1)
           r == SubSeq(s, n + 1, Len(s))
<1>0. Len(s) \in Nat /\ n \in Nat
  OBVIOUS
<1>1. /\ l \in Seq(Items) /\ Len(l) = n - 1 /\ \A j \in 1 .. n - 1 : l[j] = s[j]
      /\ r \in Seq(Items) /\ Len(r) = Len(s) - n /\ \A j \in 1 .. Len(s) - n : r[j] = s[n + j]
  OBVIOUS
<1> HIDE DEF l, r
<1>2. /\ l \o r \in Seq(Items) /\ Len(l \o r) = Len(s) - 1
      /\ \A j \in 1 .. Len(s) - 1 : (l \o r)[j] = IF j < n THEN l[j] ELSE r[j - (n - 1)]
  <2>1. Len(l) + Len(r) = Len(s) - 1 /\ \A j \in Nat : j <= Len(l) <=> j < n
    BY <1>0, <1>1
  <2>2. /\ l \o r \in Seq(Items) /\ Len(l \o r) = Len(l) + Len(r)
        /\ \A j \in 1 .. Len(l) + Len(r) : (l \o r)[j] = IF j <= Len(l) THEN l[j] ELSE r[j - Len(l)]
    BY <1>1, ConcatProperties
  <2>3. Len(l \o r) = Len(s) - 1
    BY <2>1, <2>2
  <2>4. \A j \in 1 .. Len(s) - 1 : (l \o r)[j] = IF j < n THEN l[j] ELSE r[j - (n - 1)]
    BY <1>1, <2>1, <2>2
  <2> QED
    BY <2>2, <2>3, <2>4
<1> QED
  <2>1. RemoveAt(s, n) = l \o r
    BY DEF RemoveAt, l, r
  <2>2. ASSUME NEW j \in 1 .. Len(s) - 1
        PROVE  (l \o r)[j] = IF j < n THEN s[j] ELSE s[j + 1]
    <3> DEFINE x == (l \o r)[j]
    <3>0. j \in Nat
      BY <1>0
    <3>1. j < n => x = s[j]
      BY <1>0, <1>1, <1>2, <3>0
    <3>2. ASSUME j >= n PROVE x = s[j + 1]
      <4>1. j - (n - 1) \in 1 .. Len(s) - n /\ n + (j - (n - 1)) = j + 1
        BY <3>2
      <4> QED
        BY <1>1, <1>2, <3>2, <4>1
    <3> HIDE DEF x
    <3>3. x = IF j < n THEN s[j] ELSE s[j + 1]
      BY <1>0, <3>0, <3>1, <3>2
    <3> QED
      BY <3>3 DEF x
  <2> QED
    BY <1>2, <2>1, <2>2

LEMMA LeastNumber ==
  ASSUME NEW S \in SUBSET Nat, S # {}
  PROVE  \E n \in S : \A m \in S : n <= m
<1> DEFINE T == {1 .. n : n \in S}
<1>1. T \subseteq FiniteSubsetsOf(Nat) /\ T # {}
  <2>1. \A n \in S : IsFiniteSet(1 .. n) /\ 1 .. n \in SUBSET Nat
    BY FS_Interval
  <2> QED
    BY <2>1 DEF FiniteSubsetsOf
<1>2. PICK x \in T : \A y \in T : <<y, x>> \notin StrictSubsetOrdering(Nat)
  <2> HIDE DEF T
  <2> QED
    BY <1>1, FS_StrictSubsetOrderingWellFounded, WFMin
<1>3. PICK n \in S : x = 1 .. n
  OBVIOUS
<1>4. ASSUME NEW m \in S, m < n PROVE FALSE
  <2>1. 1 .. m \subseteq 1 .. n /\ n \in 1 .. n /\ n \notin 1 .. m
    BY <1>4
  <2>2. <<1 .. m, 1 .. n>> \in StrictSubsetOrdering(Nat)
    BY <2>1 DEF StrictSubsetOrdering
  <2> QED
    BY <1>2, <1>3, <2>2
<1> QED
  BY <1>4

LEMMA MinIsLeast ==
  ASSUME NEW S \in SUBSET Nat, S # {}
  PROVE  Min(S) \in S /\ \A m \in S : Min(S) <= m
  BY LeastNumber DEF Min

-----------------------------------------------------------------------------
(* Forests, as JsonForest has them *)

LEMMA TreeFacts ==
  ASSUME NEW F \in ForestT, NEW i \in Items
  PROVE  /\ i \in Forest!Tree(F, i) /\ Forest!Tree(F, i) \subseteq Items
         /\ Down(F, Forest!Tree(F, i))
         /\ \A S \in SUBSET Items : i \in S /\ Down(F, S) => Forest!Tree(F, i) \subseteq S
<1>1. \A S \in SUBSET Items : Down(F, S) <=> \A a \in S : Forest!ToSet(F.kids[a]) \subseteq S
  BY DEF Down, Forest!ToSet
<1>2. Forest!Tree(F, i) = {j \in Items : \A S \in SUBSET Items : i \in S /\ Down(F, S) => j \in S}
  BY <1>1 DEF Forest!Tree
<1>3. \A a \in Items : \A j \in DOMAIN F.kids[a] : F.kids[a][j] \in Items
  BY DEF ForestT
<1> QED
  BY <1>2, <1>3 DEF Down

\* A tree is entered only at its top.
LEMMA NoOtherEntry ==
  ASSUME NEW F, NEW T, IsForest(F, T), NEW i \in F.live
  PROVE  /\ Forest!Tree(F, i) \subseteq F.live
         /\ \A a \in Items : \A j \in DOMAIN F.kids[a] :
              a \notin Forest!Tree(F, i) /\ F.kids[a][j] \in Forest!Tree(F, i) => F.kids[a][j] = i
         /\ \A t \in T : t \in Forest!Tree(F, i) => t = i
<1> DEFINE D == Forest!Tree(F, i)
<1>0. F \in ForestT /\ i \in Items /\ F.live \subseteq Items
  BY DEF IsForest, ForestT
<1>1. /\ i \in D /\ D \subseteq Items /\ Down(F, D)
      /\ \A S \in SUBSET Items : i \in S /\ Down(F, S) => D \subseteq S
  BY <1>0, TreeFacts
<1> HIDE DEF D
<1>2. D \subseteq F.live
  <2>1. Down(F, F.live)
    BY <1>0 DEF IsForest, Down
  <2> QED
    BY <1>0, <1>1, <2>1
<1>3. ASSUME NEW a \in Items, NEW j \in DOMAIN F.kids[a], a \notin D, F.kids[a][j] \in D,
             F.kids[a][j] # i
      PROVE  FALSE
  <2>1. Down(F, D \ {F.kids[a][j]})
    BY <1>1, <1>3 DEF IsForest, Down
  <2> QED
    BY <1>1, <1>3, <2>1
<1>4. ASSUME NEW t \in T, t \in D, t # i
      PROVE  FALSE
  <2>1. Down(F, D \ {t})
    BY <1>1 DEF IsForest, Down
  <2> QED
    BY <1>1, <1>4, <2>1
<1> QED
  BY <1>2, <1>3, <1>4 DEF D

\* No item is below its child.
LEMMA NoCycle ==
  ASSUME NEW F, NEW T, IsForest(F, T), NEW a \in Items, NEW n \in DOMAIN F.kids[a]
  PROVE  a \in F.live /\ F.kids[a][n] \in F.live /\ a \notin Forest!Tree(F, F.kids[a][n])
<1> DEFINE i == F.kids[a][n]
           D == Forest!Tree(F, i)
<1>0. F \in ForestT /\ i \in F.live /\ i \notin T /\ i \in Items /\ F.live \subseteq Items /\ a \in F.live
  BY DEF IsForest, ForestT
<1>1. /\ D \subseteq F.live /\ i \in D
      /\ \A b \in Items : \A j \in DOMAIN F.kids[b] :
           b \notin D /\ F.kids[b][j] \in D => F.kids[b][j] = i
      /\ \A t \in T : t \in D => t = i
  BY <1>0, NoOtherEntry, TreeFacts
<1> HIDE DEF D
<1>2. ASSUME a \in D
      PROVE  FALSE
  <2>1. T \subseteq F.live \ D
    BY <1>0, <1>1 DEF IsForest
  <2>2. Down(F, F.live \ D)
    <3> SUFFICES ASSUME NEW b \in F.live, b \notin D, NEW j \in DOMAIN F.kids[b],
                        F.kids[b][j] \notin F.live \ D
                 PROVE  FALSE
      BY DEF Down
    <3>1. F.kids[b][j] \in D
      BY <1>0 DEF IsForest
    <3>2. F.kids[b][j] = i
      BY <1>0, <1>1, <3>1
    <3> QED
      BY <1>0, <1>2, <3>2 DEF IsForest
  <2>3. F.live \subseteq F.live \ D
    BY <1>0, <2>1, <2>2 DEF IsForest
  <2> QED
    BY <1>0, <1>1, <2>3
<1> QED
  BY <1>0, <1>2 DEF D

\* What is the same below i has the same tree.
LEMMA SameTree ==
  ASSUME NEW F \in ForestT, NEW G \in ForestT, NEW i \in Items,
         \A x \in Forest!Tree(F, i) : G.kids[x] = F.kids[x]
  PROVE  Forest!Tree(G, i) = Forest!Tree(F, i)
<1> DEFINE D == Forest!Tree(F, i)
           E == Forest!Tree(G, i)
<1>1. /\ i \in D /\ D \subseteq Items /\ Down(F, D)
      /\ \A S \in SUBSET Items : i \in S /\ Down(F, S) => D \subseteq S
      /\ i \in E /\ E \subseteq Items /\ Down(G, E)
      /\ \A S \in SUBSET Items : i \in S /\ Down(G, S) => E \subseteq S
  BY TreeFacts
<1>2. \A x \in D : G.kids[x] = F.kids[x]
  OBVIOUS
<1> HIDE DEF D, E
<1>3. Down(G, D)
  BY <1>1, <1>2 DEF Down
<1>4. Down(F, D \cap E)
  BY <1>1, <1>2 DEF Down
<1> QED
  BY <1>1, <1>3, <1>4 DEF D, E

LEMMA OneTree ==
  ASSUME NEW F, NEW i, IsForest(F, {i})
  PROVE  i \in F.live /\ Forest!Tree(F, i) = F.live
<1>1. /\ F \in ForestT /\ i \in Items /\ i \in F.live
      /\ \A S \in SUBSET Items : i \in S /\ Down(F, S) => F.live \subseteq S
  BY DEF IsForest, ForestT
<1>2. /\ i \in Forest!Tree(F, i) /\ Forest!Tree(F, i) \subseteq Items
      /\ Down(F, Forest!Tree(F, i))
  BY <1>1, TreeFacts
<1>3. Forest!Tree(F, i) \subseteq F.live
  BY <1>1, NoOtherEntry
<1> QED
  BY <1>1, <1>2, <1>3

LEMMA BelowIsForest ==
  ASSUME NEW F, NEW T, IsForest(F, T), NEW i \in T
  PROVE  IsForest(Below(F, i), {i})
<1> DEFINE D == Forest!Tree(F, i)
           G == Below(F, i)
<1>0. F \in ForestT /\ i \in F.live /\ i \in Items /\ F.live \subseteq Items
  BY DEF IsForest, ForestT
<1>1. /\ i \in D /\ D \subseteq F.live /\ Down(F, D)
      /\ \A S \in SUBSET Items : i \in S /\ Down(F, S) => D \subseteq S
  BY <1>0, NoOtherEntry, TreeFacts
<1>2. /\ G.live = D /\ G.kids = [x \in Items |-> IF x \in D THEN F.kids[x] ELSE <<>>]
      /\ G = [live |-> D, kids |-> [x \in Items |-> IF x \in D THEN F.kids[x] ELSE <<>>]]
  BY DEF Below
<1> HIDE DEF D, G
<1>3. G \in ForestT
  BY <1>0, <1>1, <1>2 DEF ForestT
<1>4. \A a \in Items : /\ a \notin D => G.kids[a] = <<>>
                       /\ \A j \in DOMAIN G.kids[a] : a \in D /\ j \in DOMAIN F.kids[a] /\ G.kids[a][j] = F.kids[a][j]
  BY <1>2
<1>5. \A S \in SUBSET Items : {i} \subseteq S /\ Down(G, S) => D \subseteq S
  <2> SUFFICES ASSUME NEW S \in SUBSET Items, i \in S, Down(G, S)
               PROVE  D \subseteq S
    OBVIOUS
  <2>1. Down(F, S \cap D)
    BY <1>0, <1>1, <1>2 DEF Down
  <2> QED
    BY <1>1, <2>1
<1>6. \A a \in Items : \A j \in DOMAIN G.kids[a] : G.kids[a][j] \in D /\ G.kids[a][j] # i
  BY <1>1, <1>4 DEF Down, IsForest
<1>7. \A a, b \in Items : \A j \in DOMAIN G.kids[a], k \in DOMAIN G.kids[b] :
       G.kids[a][j] = G.kids[b][k] => a = b /\ j = k
  BY <1>4 DEF IsForest
<1> QED
  BY <1>1, <1>2, <1>3, <1>4, <1>5, <1>6, <1>7 DEF IsForest, G

LEMMA RemainingIsForest ==
  ASSUME NEW F, NEW T, IsForest(F, T), NEW i \in T
  PROVE  IsForest(Remaining(F, i), T \ {i})
<1> DEFINE D == Forest!Tree(F, i)
           G == Remaining(F, i)
<1>0. F \in ForestT /\ i \in F.live /\ i \in Items /\ F.live \subseteq Items
  BY DEF IsForest, ForestT
<1>1. /\ i \in D /\ D \subseteq F.live /\ Down(F, D)
      /\ \A a \in Items : \A j \in DOMAIN F.kids[a] :
           a \notin D /\ F.kids[a][j] \in D => F.kids[a][j] = i
      /\ \A t \in T : t \in D => t = i
  BY <1>0, NoOtherEntry, TreeFacts
<1>2. /\ G.live = F.live \ D /\ G.kids = [x \in Items |-> IF x \in D THEN <<>> ELSE F.kids[x]]
      /\ G = [live |-> F.live \ D, kids |-> [x \in Items |-> IF x \in D THEN <<>> ELSE F.kids[x]]]
  BY DEF Remaining, Forest!Without
<1> HIDE DEF D, G
<1>3. G \in ForestT
  BY <1>0, <1>1, <1>2 DEF ForestT
<1>4. \A a \in Items : \A j \in DOMAIN G.kids[a] :
        a \notin D /\ j \in DOMAIN F.kids[a] /\ G.kids[a][j] = F.kids[a][j]
  BY <1>2
<1>5. \A S \in SUBSET Items : T \ {i} \subseteq S /\ Down(G, S) => G.live \subseteq S
  <2> SUFFICES ASSUME NEW S \in SUBSET Items, T \ {i} \subseteq S, Down(G, S)
               PROVE  F.live \subseteq S \cup D
    BY <1>2
  <2>1. Down(F, S \cup D)
    BY <1>0, <1>1, <1>2 DEF Down
  <2>2. T \subseteq S \cup D /\ S \cup D \in SUBSET Items
    BY <1>0, <1>1
  <2> QED
    BY <2>1, <2>2 DEF IsForest
<1>6. \A a \in Items : \A j \in DOMAIN G.kids[a] : G.kids[a][j] \in G.live /\ G.kids[a][j] \notin T \ {i}
  BY <1>0, <1>1, <1>2, <1>4 DEF IsForest
<1>7. \A a, b \in Items : \A j \in DOMAIN G.kids[a], k \in DOMAIN G.kids[b] :
       G.kids[a][j] = G.kids[b][k] => a = b /\ j = k
  BY <1>4 DEF IsForest
<1>8. T \ {i} \subseteq G.live
  BY <1>1, <1>2 DEF IsForest
<1>9. \A a \in Items : a \notin G.live => G.kids[a] = <<>>
  BY <1>2 DEF IsForest
<1> QED
  BY <1>3, <1>5, <1>6, <1>7, <1>8, <1>9 DEF IsForest, G

\* The elements of a sequence in which one is inserted or removed
LEMMA AttachedKids ==
  ASSUME NEW F \in ForestT, NEW a \in Items, NEW i \in Items, NEW n \in 1 .. Len(F.kids[a]) + 1
  PROVE  LET G == Attached(F, a, n, i)
             s == F.kids[a]
             t == G.kids[a]
         IN /\ G \in ForestT /\ G.live = F.live
            /\ \A b \in Items : b # a => G.kids[b] = F.kids[b]
            /\ s \in Seq(Items) /\ t \in Seq(Items) /\ Len(s) \in Nat /\ Len(t) = Len(s) + 1
            /\ DOMAIN s = 1 .. Len(s) /\ DOMAIN t = 1 .. Len(t)
            /\ \A j \in 1 .. Len(t) : t[j] = IF j < n THEN s[j] ELSE IF j = n THEN i ELSE s[j - 1]
<1>1. F.kids[a] \in Seq(Items) /\ F.kids \in [Items -> Seq(Items)]
  BY DEF ForestT
<1>2. /\ InsertAt(F.kids[a], n, i) \in Seq(Items) /\ Len(InsertAt(F.kids[a], n, i)) = Len(F.kids[a]) + 1
      /\ \A j \in 1 .. Len(F.kids[a]) + 1 :
           InsertAt(F.kids[a], n, i)[j] =
             IF j < n THEN F.kids[a][j] ELSE IF j = n THEN i ELSE F.kids[a][j - 1]
  <2> DEFINE s == F.kids[a]
             u == InsertAt(s, n, i)
  <2>1. s \in Seq(Items)
    BY <1>1
  <2>2. n \in 1 .. Len(s) + 1
    OBVIOUS
  <2>3. u = InsertAt(s, n, i)
    OBVIOUS
  <2> HIDE DEF s, u
  <2>4. u \in Seq(Items) /\ Len(u) = Len(s) + 1
    BY <2>1, <2>2, <2>3, InsertAtElements
  <2>5. ASSUME NEW j \in 1 .. Len(s) + 1
        PROVE  u[j] = IF j < n THEN s[j] ELSE IF j = n THEN i ELSE s[j - 1]
    BY <2>1, <2>2, <2>3, InsertAtElement
  <2> QED
    BY <2>4, <2>5 DEF s, u
<1>3. Attached(F, a, n, i) = [F EXCEPT !.kids = [F.kids EXCEPT ![a] = InsertAt(F.kids[a], n, i)]]
  BY DEF Attached
<1> DEFINE t == InsertAt(F.kids[a], n, i)
<1>4. t \in Seq(Items)
  BY <1>2
<1>5. Attached(F, a, n, i) = [F EXCEPT !.kids = [F.kids EXCEPT ![a] = t]]
  BY <1>3
<1> HIDE DEF t
<1>6. /\ Attached(F, a, n, i).kids = [F.kids EXCEPT ![a] = t]
      /\ Attached(F, a, n, i).live = F.live /\ Attached(F, a, n, i) \in ForestT
  BY <1>1, <1>4, <1>5 DEF ForestT
<1>7. Attached(F, a, n, i).kids[a] = t /\ \A b \in Items : b # a => Attached(F, a, n, i).kids[b] = F.kids[b]
  BY <1>1, <1>6
<1>8. DOMAIN t = 1 .. Len(t) /\ DOMAIN F.kids[a] = 1 .. Len(F.kids[a]) /\ Len(F.kids[a]) \in Nat
  BY <1>1, <1>4
<1>9. /\ Len(t) = Len(F.kids[a]) + 1
      /\ \A j \in 1 .. Len(t) : t[j] = IF j < n THEN F.kids[a][j] ELSE IF j = n THEN i ELSE F.kids[a][j - 1]
  BY <1>2 DEF t
<1> QED
  BY <1>1, <1>4, <1>6, <1>7, <1>8, <1>9

\* The same of a forest that is known by a name
LEMMA AttachedKidsIs ==
  ASSUME NEW F \in ForestT, NEW a \in Items, NEW i \in Items, NEW n \in 1 .. Len(F.kids[a]) + 1,
         NEW G, G = Attached(F, a, n, i)
  PROVE  /\ G \in ForestT
         /\ G.live = F.live
         /\ \A b \in Items : b # a => G.kids[b] = F.kids[b]
         /\ F.kids[a] \in Seq(Items) /\ Len(F.kids[a]) \in Nat /\ DOMAIN F.kids[a] = 1 .. Len(F.kids[a])
         /\ G.kids[a] \in Seq(Items) /\ Len(G.kids[a]) = Len(F.kids[a]) + 1 /\ DOMAIN G.kids[a] = 1 .. Len(G.kids[a])
         /\ \A j \in 1 .. Len(G.kids[a]) : G.kids[a][j] = IF j < n THEN F.kids[a][j] ELSE IF j = n THEN i ELSE F.kids[a][j - 1]
<1> DEFINE H == Attached(F, a, n, i)
<1>1. H \in ForestT
  BY AttachedKids
<1>2. H.live = F.live
  BY AttachedKids
<1>3. \A b \in Items : b # a => H.kids[b] = F.kids[b]
  BY AttachedKids
<1>4. F.kids[a] \in Seq(Items) /\ Len(F.kids[a]) \in Nat /\ DOMAIN F.kids[a] = 1 .. Len(F.kids[a])
  BY AttachedKids
<1>5. H.kids[a] \in Seq(Items) /\ Len(H.kids[a]) = Len(F.kids[a]) + 1 /\ DOMAIN H.kids[a] = 1 .. Len(H.kids[a])
  BY AttachedKids
<1>6. \A j \in 1 .. Len(H.kids[a]) : H.kids[a][j] = IF j < n THEN F.kids[a][j] ELSE IF j = n THEN i ELSE F.kids[a][j - 1]
  BY AttachedKids
<1>7. H = G
  OBVIOUS
<1> HIDE DEF H
<1> QED
  BY <1>1, <1>2, <1>3, <1>4, <1>5, <1>6, <1>7

\* One child of the forest in which a child is added
LEMMA AttachedKid ==
  ASSUME NEW F \in ForestT, NEW a \in Items, NEW i \in Items, NEW n \in 1 .. Len(F.kids[a]) + 1,
         NEW G, G = Attached(F, a, n, i), NEW j \in 1 .. Len(G.kids[a])
  PROVE  G.kids[a][j] = IF j < n THEN F.kids[a][j] ELSE IF j = n THEN i ELSE F.kids[a][j - 1]
BY AttachedKidsIs

LEMMA DetachedKids ==
  ASSUME NEW F \in ForestT, NEW a \in Items, NEW n \in 1 .. Len(F.kids[a])
  PROVE  LET G == Detached(F, a, n)
             s == F.kids[a]
             t == G.kids[a]
         IN /\ G \in ForestT /\ G.live = F.live
            /\ \A b \in Items : b # a => G.kids[b] = F.kids[b]
            /\ s \in Seq(Items) /\ t \in Seq(Items) /\ Len(s) \in Nat /\ Len(t) = Len(s) - 1
            /\ DOMAIN s = 1 .. Len(s) /\ DOMAIN t = 1 .. Len(t)
            /\ \A j \in 1 .. Len(t) : t[j] = IF j < n THEN s[j] ELSE s[j + 1]
<1>1. F.kids[a] \in Seq(Items) /\ F.kids \in [Items -> Seq(Items)]
  BY DEF ForestT
<1>2. /\ RemoveAt(F.kids[a], n) \in Seq(Items) /\ Len(RemoveAt(F.kids[a], n)) = Len(F.kids[a]) - 1
      /\ \A j \in 1 .. Len(F.kids[a]) - 1 :
           RemoveAt(F.kids[a], n)[j] = IF j < n THEN F.kids[a][j] ELSE F.kids[a][j + 1]
  BY <1>1, RemoveAtElements
<1>3. Detached(F, a, n) = [F EXCEPT !.kids = [F.kids EXCEPT ![a] = RemoveAt(F.kids[a], n)]]
  BY DEF Detached
<1> DEFINE t == RemoveAt(F.kids[a], n)
<1>4. t \in Seq(Items)
  BY <1>2
<1>5. Detached(F, a, n) = [F EXCEPT !.kids = [F.kids EXCEPT ![a] = t]]
  BY <1>3
<1> HIDE DEF t
<1>6. /\ Detached(F, a, n).kids = [F.kids EXCEPT ![a] = t]
      /\ Detached(F, a, n).live = F.live /\ Detached(F, a, n) \in ForestT
  BY <1>1, <1>4, <1>5 DEF ForestT
<1>7. Detached(F, a, n).kids[a] = t /\ \A b \in Items : b # a => Detached(F, a, n).kids[b] = F.kids[b]
  BY <1>1, <1>6
<1>8. DOMAIN t = 1 .. Len(t) /\ DOMAIN F.kids[a] = 1 .. Len(F.kids[a]) /\ Len(F.kids[a]) \in Nat
  BY <1>1, <1>4
<1>9. /\ Len(t) = Len(F.kids[a]) - 1
      /\ \A j \in 1 .. Len(t) : t[j] = IF j < n THEN F.kids[a][j] ELSE F.kids[a][j + 1]
  BY <1>2 DEF t
<1> QED
  BY <1>1, <1>4, <1>6, <1>7, <1>8, <1>9

LEMMA AttachedIsForest ==
  ASSUME NEW F, NEW T, IsForest(F, T), NEW i \in T, NEW a \in F.live,
         a \notin Forest!Tree(F, i), NEW n \in 1 .. Len(F.kids[a]) + 1
  PROVE  IsForest(Attached(F, a, n, i), T \ {i})
<1> DEFINE D == Forest!Tree(F, i)
           G == Attached(F, a, n, i)
<1>0. F \in ForestT /\ i \in F.live /\ i \in Items /\ F.live \subseteq Items /\ a \in Items /\ a # i
  BY TreeFacts DEF IsForest, ForestT
<1>1. /\ i \in D /\ D \subseteq F.live /\ Down(F, D)
      /\ \A S \in SUBSET Items : i \in S /\ Down(F, S) => D \subseteq S
  BY <1>0, NoOtherEntry, TreeFacts
<1> DEFINE s == F.kids[a]
           t == G.kids[a]
<1>2. /\ G \in ForestT /\ G.live = F.live
      /\ \A b \in Items : b # a => G.kids[b] = F.kids[b]
      /\ s \in Seq(Items) /\ t \in Seq(Items) /\ Len(s) \in Nat /\ Len(t) = Len(s) + 1
      /\ DOMAIN s = 1 .. Len(s) /\ DOMAIN t = 1 .. Len(t)
      /\ \A j \in 1 .. Len(t) : t[j] = IF j < n THEN s[j] ELSE IF j = n THEN i ELSE s[j - 1]
  BY <1>0, AttachedKids
<1> HIDE DEF D, G
<1>3. /\ \A j \in DOMAIN s : \E k \in DOMAIN t : k # n /\ t[k] = s[j]
      /\ n \in DOMAIN t /\ t[n] = i
      /\ \A k \in DOMAIN t : k # n => (IF k < n THEN k ELSE k - 1) \in DOMAIN s /\ t[k] = s[IF k < n THEN k ELSE k - 1]
  <2>1. ASSUME NEW j \in DOMAIN s
        PROVE  \E k \in DOMAIN t : k # n /\ t[k] = s[j]
    <3>1. CASE j < n
      <4>1. j \in 1 .. Len(t) /\ j # n
        BY <1>2, <3>1
      <4> QED
        BY <1>2, <3>1, <4>1
    <3>2. CASE j >= n
      <4>1. j + 1 \in 1 .. Len(t) /\ j + 1 # n /\ ~(j + 1 < n) /\ (j + 1) - 1 = j
        BY <1>2, <3>2
      <4>2. t[j + 1] = s[j]
        BY <1>2, <4>1
      <4> QED
        BY <1>2, <4>1, <4>2
    <3> QED
      BY <1>2, <3>1, <3>2
  <2>2. n \in DOMAIN t /\ t[n] = i
    BY <1>2
  <2>3. ASSUME NEW k \in DOMAIN t, k # n
        PROVE  (IF k < n THEN k ELSE k - 1) \in DOMAIN s /\ t[k] = s[IF k < n THEN k ELSE k - 1]
    <3>1. k \in 1 .. Len(s) + 1 /\ k \in Nat /\ Len(s) \in Nat /\ n \in Nat
      BY <1>2
    <3>2. CASE k < n
      <4>1. k \in DOMAIN s /\ t[k] = s[k]
        BY <1>2, <3>1, <3>2
      <4> QED
        BY <3>2, <4>1
    <3>3. CASE k > n
      <4>1. ~(k < n) /\ k - 1 \in 1 .. Len(s) /\ t[k] = s[k - 1]
        BY <1>2, <3>1, <3>3
      <4> QED
        BY <1>2, <4>1
    <3> QED
      BY <2>3, <3>1, <3>2, <3>3
  <2> QED
    BY <2>1, <2>2, <2>3
<1>4. \A b \in Items : \A k \in DOMAIN G.kids[b] :
        \/ b = a /\ k = n /\ G.kids[b][k] = i
        \/ /\ b # a \/ k # n
           /\ \E j \in DOMAIN F.kids[b] :
                G.kids[b][k] = F.kids[b][j] /\ j = IF b = a /\ k > n THEN k - 1 ELSE k
  <2> SUFFICES ASSUME NEW b \in Items, NEW k \in DOMAIN G.kids[b], ~(b = a /\ k = n)
               PROVE  \E j \in DOMAIN F.kids[b] :
                        G.kids[b][k] = F.kids[b][j] /\ j = IF b = a /\ k > n THEN k - 1 ELSE k
    BY <1>3
  <2>1. CASE b # a
    BY <1>2, <2>1
  <2>2. CASE b = a
    <3>1. k \in DOMAIN t /\ k # n
      BY <2>2
    <3>2. (IF k < n THEN k ELSE k - 1) = IF k > n THEN k - 1 ELSE k
      BY <1>2, <3>1
    <3> QED
      BY <1>3, <2>2, <3>1, <3>2
  <2> QED
    BY <2>1, <2>2
<1>5. \A S \in SUBSET Items : T \ {i} \subseteq S /\ Down(G, S) => F.live \subseteq S
  <2> SUFFICES ASSUME NEW S \in SUBSET Items, T \ {i} \subseteq S, Down(G, S)
               PROVE  F.live \subseteq S
    OBVIOUS
  <2>1. Down(F, S)
    <3> SUFFICES ASSUME NEW b \in S, NEW j \in DOMAIN F.kids[b]
                 PROVE  F.kids[b][j] \in S
      BY DEF Down
    <3>1. CASE b = a
      <4>1. \A k \in DOMAIN t : t[k] \in S
        BY <3>1 DEF Down
      <4> QED
        BY <1>3, <3>1, <4>1
    <3>2. CASE b # a
      <4>1. G.kids[b] = F.kids[b]
        BY <1>2, <3>2
      <4> QED
        BY <4>1 DEF Down
    <3> QED
      BY <3>1, <3>2
  <2>2. Down(F, S \cup D)
    BY <1>1, <2>1 DEF Down
  <2>3. T \subseteq S \cup D /\ S \cup D \in SUBSET Items
    BY <1>0, <1>1
  <2>4. F.live \subseteq S \cup D
    BY <2>2, <2>3 DEF IsForest
  <2>5. i \in S
    BY <1>3, <2>4 DEF Down, D
  <2> QED
    BY <1>1, <2>1, <2>4, <2>5
<1>6. \A b \in Items : \A k \in DOMAIN G.kids[b] : G.kids[b][k] \in F.live /\ G.kids[b][k] \notin T \ {i}
  BY <1>0, <1>4 DEF IsForest
<1>11. \A b, c \in Items : \A l \in DOMAIN F.kids[b], m \in DOMAIN F.kids[c] :
         F.kids[b][l] = F.kids[c][m] => b = c /\ l = m
  BY DEF IsForest
<1>7. ASSUME NEW b \in Items, NEW c \in Items, NEW j \in DOMAIN G.kids[b], NEW k \in DOMAIN G.kids[c],
             G.kids[b][j] = G.kids[c][k]
      PROVE  b = c /\ j = k
  <2>1. \A d \in Items : \A l \in DOMAIN F.kids[d] : F.kids[d][l] # i
    BY DEF IsForest
  <2>2. CASE b = a /\ j = n
    BY <1>4, <1>7, <2>1, <2>2
  <2>3. CASE c = a /\ k = n
    BY <1>4, <1>7, <2>1, <2>3
  <2>4. CASE ~(b = a /\ j = n) /\ ~(c = a /\ k = n)
    <3>1. PICK l \in DOMAIN F.kids[b] : G.kids[b][j] = F.kids[b][l] /\ l = IF b = a /\ j > n THEN j - 1 ELSE j
      BY <1>4, <2>4
    <3>2. PICK m \in DOMAIN F.kids[c] : G.kids[c][k] = F.kids[c][m] /\ m = IF c = a /\ k > n THEN k - 1 ELSE k
      BY <1>4, <2>4
    <3>3. b = c /\ l = m
      <4>1. F.kids[b][l] = F.kids[c][m]
        BY <1>7, <3>1, <3>2
      <4>2. b \in Items /\ c \in Items
        BY <1>7
      <4> QED
        BY <1>11, <4>1, <4>2
    <3>4. CASE b = a
      <4>1. j \in Int /\ k \in Int /\ n \in Int /\ j # n /\ k # n
        BY <1>2, <2>4, <3>3, <3>4
      <4> QED
        BY <3>1, <3>2, <3>3, <3>4, <4>1
    <3>5. CASE b # a
      BY <3>1, <3>2, <3>3, <3>5
    <3> QED
      BY <3>4, <3>5
  <2> QED
    BY <2>2, <2>3, <2>4
<1>8. T \ {i} \subseteq G.live
  BY <1>2 DEF IsForest
<1>9. \A b \in Items : b \notin G.live => G.kids[b] = <<>>
  BY <1>2 DEF IsForest
<1> QED
  BY <1>2, <1>5, <1>6, <1>7, <1>8, <1>9 DEF IsForest, G

LEMMA DetachedIsForest ==
  ASSUME NEW F, NEW T, IsForest(F, T), NEW a \in F.live, NEW n \in 1 .. Len(F.kids[a])
  PROVE  /\ F.kids[a][n] \in F.live /\ F.kids[a][n] \notin T
         /\ IsForest(Detached(F, a, n), T \cup {F.kids[a][n]})
<1> DEFINE G == Detached(F, a, n)
           i == F.kids[a][n]
<1>0. F \in ForestT /\ F.live \subseteq Items /\ a \in Items
  BY DEF IsForest, ForestT
<1> DEFINE s == F.kids[a]
           t == G.kids[a]
<1>2. /\ G \in ForestT /\ G.live = F.live
      /\ \A b \in Items : b # a => G.kids[b] = F.kids[b]
      /\ s \in Seq(Items) /\ t \in Seq(Items) /\ Len(s) \in Nat /\ Len(t) = Len(s) - 1
      /\ DOMAIN s = 1 .. Len(s) /\ DOMAIN t = 1 .. Len(t)
      /\ \A j \in 1 .. Len(t) : t[j] = IF j < n THEN s[j] ELSE s[j + 1]
  BY <1>0, DetachedKids
<1>1. i \in F.live /\ i \notin T
  BY <1>0, <1>2 DEF IsForest
<1> HIDE DEF G
<1>3. \A j \in DOMAIN s : j # n => \E k \in DOMAIN t : t[k] = s[j]
  <2> SUFFICES ASSUME NEW j \in DOMAIN s, j # n
               PROVE  \E k \in DOMAIN t : t[k] = s[j]
    OBVIOUS
  <2>1. CASE j < n
    <3>1. j \in 1 .. Len(t)
      BY <1>2, <2>1
    <3> QED
      BY <1>2, <2>1, <3>1
  <2>2. CASE j > n
    <3>1. j - 1 \in 1 .. Len(t) /\ ~(j - 1 < n) /\ (j - 1) + 1 = j
      BY <1>2, <2>2
    <3>2. t[j - 1] = s[j]
      BY <1>2, <3>1
    <3> QED
      BY <1>2, <3>1, <3>2
  <2> QED
    BY <1>2, <2>1, <2>2
<1>4. \A b \in Items : \A k \in DOMAIN G.kids[b] : \E j \in DOMAIN F.kids[b] :
        /\ G.kids[b][k] = F.kids[b][j] /\ (b = a => j # n)
        /\ j = IF b = a /\ k >= n THEN k + 1 ELSE k
  <2> SUFFICES ASSUME NEW b \in Items, NEW k \in DOMAIN G.kids[b]
               PROVE  \E j \in DOMAIN F.kids[b] :
                        /\ G.kids[b][k] = F.kids[b][j] /\ (b = a => j # n)
                        /\ j = IF b = a /\ k >= n THEN k + 1 ELSE k
    OBVIOUS
  <2>1. CASE b # a
    BY <1>2, <2>1
  <2>2. CASE b = a
    <3>1. k \in DOMAIN t /\ k \in Nat /\ n \in Nat
      BY <1>2, <2>2, SMTT(30)
    <3>2. (IF k >= n THEN k + 1 ELSE k) \in DOMAIN s
      BY <1>2, <3>1
    <3> QED
      BY <1>2, <2>2, <3>1, <3>2
  <2> QED
    BY <2>1, <2>2
<1>5. \A S \in SUBSET Items : T \cup {i} \subseteq S /\ Down(G, S) => F.live \subseteq S
  <2> SUFFICES ASSUME NEW S \in SUBSET Items, T \cup {i} \subseteq S, Down(G, S)
               PROVE  F.live \subseteq S
    OBVIOUS
  <2>1. Down(F, S)
    <3> SUFFICES ASSUME NEW b \in S, NEW j \in DOMAIN F.kids[b]
                 PROVE  F.kids[b][j] \in S
      BY DEF Down
    <3>1. CASE b = a
      <4>1. \A k \in DOMAIN t : t[k] \in S
        BY <3>1 DEF Down
      <4> QED
        BY <1>3, <3>1, <4>1
    <3>2. CASE b # a
      <4>1. G.kids[b] = F.kids[b]
        BY <1>2, <3>2
      <4> QED
        BY <4>1 DEF Down
    <3> QED
      BY <3>1, <3>2
  <2> QED
    BY <2>1 DEF IsForest
<1>6. \A b \in Items : \A k \in DOMAIN G.kids[b] : G.kids[b][k] \in F.live /\ G.kids[b][k] \notin T \cup {i}
  <2> SUFFICES ASSUME NEW b \in Items, NEW k \in DOMAIN G.kids[b]
               PROVE  G.kids[b][k] \in F.live /\ G.kids[b][k] \notin T \cup {i}
    OBVIOUS
  <2>1. PICK j \in DOMAIN F.kids[b] : G.kids[b][k] = F.kids[b][j] /\ (b = a => j # n)
    BY <1>4
  <2>2. n \in DOMAIN F.kids[a]
    BY <1>2
  <2> QED
    BY <1>0, <2>1, <2>2 DEF IsForest
<1>11. \A b, c \in Items : \A l \in DOMAIN F.kids[b], m \in DOMAIN F.kids[c] :
         F.kids[b][l] = F.kids[c][m] => b = c /\ l = m
  BY DEF IsForest
<1>7. ASSUME NEW b \in Items, NEW c \in Items, NEW j \in DOMAIN G.kids[b], NEW k \in DOMAIN G.kids[c],
             G.kids[b][j] = G.kids[c][k]
      PROVE  b = c /\ j = k
  <2>1. PICK l \in DOMAIN F.kids[b] : G.kids[b][j] = F.kids[b][l] /\ l = IF b = a /\ j >= n THEN j + 1 ELSE j
    BY <1>4
  <2>2. PICK m \in DOMAIN F.kids[c] : G.kids[c][k] = F.kids[c][m] /\ m = IF c = a /\ k >= n THEN k + 1 ELSE k
    BY <1>4
  <2>3. b = c /\ l = m
    <3>1. F.kids[b][l] = F.kids[c][m]
      BY <1>7, <2>1, <2>2
    <3>2. b \in Items /\ c \in Items
      BY <1>7
    <3> QED
      BY <1>11, <3>1, <3>2
  <2>4. CASE b = a
    <3>1. j \in Int /\ k \in Int /\ n \in Int
      BY <1>2, <2>3, <2>4, SMTT(30)
    <3> QED
      BY <2>1, <2>2, <2>3, <2>4, <3>1
  <2>5. CASE b # a
    BY <2>1, <2>2, <2>3, <2>5
  <2> QED
    BY <2>4, <2>5
<1>8. T \cup {i} \subseteq G.live
  BY <1>1, <1>2 DEF IsForest
<1>9. \A b \in Items : b \notin G.live => G.kids[b] = <<>>
  <2>1. G.live = F.live /\ \A b \in Items : b # a => G.kids[b] = F.kids[b]
    BY <1>2
  <2> QED
    BY <2>1 DEF IsForest
<1>10. IsForest(G, T \cup {i})
  BY <1>2, <1>5, <1>6, <1>7, <1>8, <1>9 DEF IsForest
<1> QED
  BY <1>1, <1>10 DEF G

LEMMA BesideIsForest ==
  ASSUME NEW F, NEW T, IsForest(F, T), NEW G, NEW U, IsForest(G, U), F.live \cap G.live = {}
  PROVE  IsForest(Beside(F, G), T \cup U)
<1> DEFINE B == Beside(F, G)
<1>0. F \in ForestT /\ F.live \subseteq Items /\ G \in ForestT /\ G.live \subseteq Items
  BY DEF IsForest, ForestT
<1>1. /\ B.live = F.live \cup G.live
      /\ B.kids = [x \in Items |-> IF x \in F.live THEN F.kids[x] ELSE G.kids[x]]
      /\ B \in ForestT
  BY <1>0 DEF Beside, ForestT
<1> HIDE DEF B
<1>2. \A a \in Items : \A j \in DOMAIN B.kids[a] :
        \/ a \in F.live /\ j \in DOMAIN F.kids[a] /\ B.kids[a][j] = F.kids[a][j] /\ B.kids[a][j] \in F.live
        \/ a \in G.live /\ j \in DOMAIN G.kids[a] /\ B.kids[a][j] = G.kids[a][j] /\ B.kids[a][j] \in G.live
  BY <1>1 DEF IsForest
<1>3. \A a \in Items : a \notin B.live => B.kids[a] = <<>>
  BY <1>1 DEF IsForest
<1>4. \A a \in Items : \A j \in DOMAIN B.kids[a] : B.kids[a][j] \in B.live /\ B.kids[a][j] \notin T \cup U
  <2> SUFFICES ASSUME NEW a \in Items, NEW j \in DOMAIN B.kids[a]
               PROVE  B.kids[a][j] \in B.live /\ B.kids[a][j] \notin T \cup U
    OBVIOUS
  <2>1. CASE a \in F.live /\ j \in DOMAIN F.kids[a] /\ B.kids[a][j] = F.kids[a][j] /\ B.kids[a][j] \in F.live
    BY <1>1, <2>1 DEF IsForest
  <2>2. CASE a \in G.live /\ j \in DOMAIN G.kids[a] /\ B.kids[a][j] = G.kids[a][j] /\ B.kids[a][j] \in G.live
    BY <1>1, <2>2 DEF IsForest
  <2> QED
    BY <1>2, <2>1, <2>2
<1>5. \A a, b \in Items : \A j \in DOMAIN B.kids[a], k \in DOMAIN B.kids[b] :
       B.kids[a][j] = B.kids[b][k] => a = b /\ j = k
  BY <1>2 DEF IsForest
<1>6. \A S \in SUBSET Items : T \cup U \subseteq S /\ Down(B, S) => B.live \subseteq S
  <2> SUFFICES ASSUME NEW S \in SUBSET Items, T \cup U \subseteq S, Down(B, S)
               PROVE  F.live \subseteq S /\ G.live \subseteq S
    BY <1>1
  <2>1. Down(F, S \cap F.live)
    BY <1>0, <1>1 DEF Down, IsForest
  <2>2. Down(G, S \cap G.live)
    BY <1>0, <1>1 DEF Down, IsForest
  <2>3. F.live \subseteq S \cap F.live
    BY <2>1 DEF IsForest
  <2>4. G.live \subseteq S \cap G.live
    BY <2>2 DEF IsForest
  <2> QED
    BY <2>3, <2>4
<1>7. T \cup U \subseteq B.live
  BY <1>1 DEF IsForest
<1> QED
  BY <1>1, <1>3, <1>4, <1>5, <1>6, <1>7 DEF IsForest, B

LEMMA SingleIsForest ==
  ASSUME NEW i \in Items
  PROVE  IsForest(Single(i), {i}) /\ IsForest(Nothing, {})
  BY EmptySeq DEF IsForest, ForestT, Single, Nothing

\* No more children than items
LEMMA KidsBounded ==
  ASSUME NEW F, NEW T, IsForest(F, T), NEW a \in Items
  PROVE  Len(F.kids[a]) \in 0 .. Size
<1>1. F.kids[a] \in Seq(Items)
  BY DEF IsForest, ForestT
<1>2. F.kids[a] \in [1 .. Len(F.kids[a]) -> Items] /\ Len(F.kids[a]) \in Nat
  BY <1>1
<1>3. F.kids[a] \in Injection(1 .. Len(F.kids[a]), Items)
  BY <1>2 DEF IsForest, Injection, IsInjective
<1>4. \A n \in Nat : IsFiniteSet(1 .. n) /\ Cardinality(1 .. n) = n
  BY FS_Interval
<1>5. IsFiniteSet(Items) /\ Cardinality(Items) = Size /\ Cardinality(1 .. Len(F.kids[a])) = Len(F.kids[a])
  BY <1>2, <1>4, HeapAssumption DEF Items
<1>6. Cardinality(1 .. Len(F.kids[a])) <= Cardinality(Items)
  BY <1>3, <1>5, FS_Injection
<1>7. Len(F.kids[a]) <= Size /\ Len(F.kids[a]) \in Nat
  BY <1>2, <1>5, <1>6
<1> DEFINE l == Len(F.kids[a])
<1>8. l <= Size /\ l \in Nat
  BY <1>7
<1> HIDE DEF l
<1>9. Size \in Nat
  BY HeapAssumption
<1>10. l \in 0 .. Size
  BY <1>8, <1>9
<1> QED
  BY <1>10 DEF l

LEMMA ItemsFacts ==
  /\ Size \in Nat /\ Items = 1 .. Size /\ NULL \notin Items /\ 0 .. Size = Items \cup {NULL}
  /\ NULL \in 0 .. Size
<1>1. Size \in Nat
  BY HeapAssumption
<1> QED
  BY <1>1 DEF Items, NULL

LEMMA HeapFacts ==
  ASSUME NEW h \in HeapT
  PROVE  /\ \A x \in Items : /\ h.item[x] \in ItemT
                             /\ h.item[x].next \in 0 .. Size /\ h.item[x].prev \in 0 .. Size
                             /\ h.item[x].child \in 0 .. Size /\ h.item[x].of \in 0 .. Size
                             /\ h.item[x].ref \in BOOLEAN
         /\ Size \in Nat /\ Items = 1 .. Size /\ NULL \notin Items /\ 0 .. Size = Items \cup {NULL}
         /\ h.strings \in Int /\ h.mem \in Nat /\ h.twice \in BOOLEAN
<1>1. Size \in Nat
  BY HeapAssumption
<1>2. Items = 1 .. Size /\ NULL \notin Items /\ 0 .. Size = Items \cup {NULL}
  BY <1>1 DEF Items, NULL
<1>3. \A x \in Items : h.item[x] \in ItemT
  BY DEF HeapT
<1> QED
  BY <1>1, <1>2, <1>3 DEF HeapT, ItemT

LEMMA KidsFacts ==
  ASSUME NEW F, NEW T, IsForest(F, T)
  PROVE  /\ F \in ForestT /\ F.live \subseteq Items /\ T \subseteq F.live
         /\ \A a \in Items :
              /\ F.kids[a] \in Seq(Items) /\ Len(F.kids[a]) \in Nat
              /\ DOMAIN F.kids[a] = 1 .. Len(F.kids[a])
              /\ F.kids[a] # <<>> <=> 1 \in DOMAIN F.kids[a]
              /\ F.kids[a] # <<>> <=> Len(F.kids[a]) \in DOMAIN F.kids[a]
              /\ \A j \in DOMAIN F.kids[a] : /\ a \in F.live /\ F.kids[a][j] \in F.live
                                             /\ F.kids[a][j] \in Items /\ F.kids[a][j] \notin T
<1>1. F \in ForestT /\ F.live \subseteq Items /\ T \subseteq F.live
  BY DEF IsForest, ForestT
<1>2. \A a \in Items : F.kids[a] \in Seq(Items)
  BY <1>1 DEF ForestT
<1>3. \A s \in Seq(Items) : /\ Len(s) \in Nat /\ DOMAIN s = 1 .. Len(s)
                            /\ s # <<>> <=> 1 \in DOMAIN s
                            /\ s # <<>> <=> Len(s) \in DOMAIN s
  OBVIOUS
<1>4. \A a \in Items : \A j \in DOMAIN F.kids[a] :
        a \in F.live /\ F.kids[a][j] \in F.live /\ F.kids[a][j] \in Items /\ F.kids[a][j] \notin T
  <2>1. DOMAIN <<>> = {}
    OBVIOUS
  <2> QED
    BY <1>1, <2>1 DEF IsForest
<1> QED
  BY <1>1, <1>2, <1>3, <1>4

-----------------------------------------------------------------------------
(* A list is what next finds *)

LEMMA ChainIsList ==
  ASSUME NEW h \in HeapT, NEW s \in Seq(Items), Len(s) <= Size,
         \A j \in DOMAIN s : h.item[s[j]].next = IF j = Len(s) THEN NULL ELSE s[j + 1]
  PROVE  Chain(h, IF s = <<>> THEN NULL ELSE s[1]) = s
<1> DEFINE i == IF s = <<>> THEN NULL ELSE s[1]
           Body(f) == [n \in 0 .. Size |->
                         IF n = 0 THEN i
                         ELSE IF f[n - 1] = NULL THEN NULL ELSE h.item[f[n - 1]].next]
           nth == CHOOSE f : f = Body(f)
           e == [n \in 0 .. Size |-> IF n < Len(s) THEN s[n + 1] ELSE NULL]
           found == {n \in 0 .. Size : nth[n] # NULL}
<1>1. Chain(h, i) = [n \in 1 .. Cardinality(found) |-> nth[n - 1]]
  BY DEF Chain
<1>2. /\ Size \in Nat /\ NULL \notin Items /\ Len(s) \in Nat /\ DOMAIN s = 1 .. Len(s)
      /\ \A j \in DOMAIN s : s[j] \in Items
      /\ i = IF Len(s) = 0 THEN NULL ELSE s[1]
  BY HeapFacts
<1> HIDE DEF i
<1>3. \A n \in 0 .. Size : e[n] = Body(e)[n]
  <2> SUFFICES ASSUME NEW n \in 0 .. Size
               PROVE  e[n] = IF n = 0 THEN i
                             ELSE IF e[n - 1] = NULL THEN NULL ELSE h.item[e[n - 1]].next
    OBVIOUS
  <2>1. CASE n = 0
    BY <1>2, <2>1
  <2>2. CASE n > 0 /\ n - 1 < Len(s)
    <3>1. n - 1 \in 0 .. Size /\ n \in DOMAIN s
      BY <1>2, <2>2
    <3>2. e[n - 1] = s[n] /\ s[n] # NULL
      BY <1>2, <2>2, <3>1
    <3>3. h.item[s[n]].next = IF n = Len(s) THEN NULL ELSE s[n + 1]
      BY <3>1
    <3>4. e[n] = IF n < Len(s) THEN s[n + 1] ELSE NULL
      OBVIOUS
    <3>5. n < Len(s) <=> n # Len(s)
      <4>1. n \in Int /\ Len(s) \in Int
        BY <1>2
      <4> QED
        BY <2>2, <4>1
    <3> HIDE DEF e
    <3> QED
      BY <2>2, <3>2, <3>3, <3>4, <3>5
  <2>3. CASE n > 0 /\ ~(n - 1 < Len(s))
    <3>1. n - 1 \in 0 .. Size /\ ~(n < Len(s))
      BY <1>2, <2>3
    <3> QED
      BY <2>3, <3>1
  <2> QED
    BY <1>2, <2>1, <2>2, <2>3
<1>4. e = Body(e)
  BY <1>3, Zenon
<1>5. nth = Body(nth)
  BY <1>4, Zenon
<1> HIDE DEF nth
<1>6. nth = e
  <2> DEFINE D == {n \in 0 .. Size : nth[n] # e[n]}
  <2>1. CASE D # {}
    <3>1. PICK n \in D : \A m \in D : n <= m
      <4>1. D \in SUBSET Nat
        BY <1>2
      <4> HIDE DEF D
      <4> QED
        BY <2>1, <4>1, LeastNumber
    <3>2. n \in 0 .. Size /\ nth[n] = Body(nth)[n] /\ e[n] = Body(e)[n]
      BY <1>4, <1>5, Zenon
    <3>3. CASE n = 0
      BY <3>1, <3>2, <3>3
    <3>4. CASE n > 0
      <4>1. n - 1 \in 0 .. Size /\ ~(n <= n - 1)
        BY <1>2, <3>2, <3>4
      <4>2. nth[n - 1] = e[n - 1]
        BY <3>1, <4>1
      <4>3. Body(nth)[n] = Body(e)[n]
        BY <3>2, <3>4, <4>2
      <4> QED
        BY <3>1, <3>2, <4>3
    <3> QED
      BY <1>2, <3>2, <3>3, <3>4
  <2>2. CASE D = {}
    <3>1. \A n \in 0 .. Size : nth[n] = e[n]
      BY <2>2
    <3>2. nth = [n \in 0 .. Size |-> nth[n]]
      BY <1>5
    <3> HIDE DEF D
    <3> QED
      BY <3>1, <3>2
  <2> QED
    BY <2>1, <2>2
<1>7. found = 0 .. Len(s) - 1
  <2>1. \A n \in 0 .. Size : nth[n] # NULL <=> n < Len(s)
    <3>1. \A n \in 0 .. Size : n < Len(s) => n + 1 \in DOMAIN s
      BY <1>2
    <3> QED
      BY <1>2, <1>6, <3>1
  <2> QED
    BY <1>2, <2>1
<1>8. Cardinality(found) = Len(s)
  <2>1. Len(s) - 1 \in Int /\ (IF 0 > Len(s) - 1 THEN 0 ELSE Len(s) - 1 - 0 + 1) = Len(s)
    BY <1>2
  <2> QED
    <3>1. \A m, n \in Int : Cardinality(m .. n) = IF m > n THEN 0 ELSE n - m + 1
      BY FS_Interval
    <3>2. Cardinality(0 .. Len(s) - 1) = IF 0 > Len(s) - 1 THEN 0 ELSE Len(s) - 1 - 0 + 1
      BY <2>1, <3>1, SMTT(30)
    <3> QED
      BY <1>7, <2>1, <3>2
<1>9. \A n \in 1 .. Len(s) : nth[n - 1] = s[n]
  <2> SUFFICES ASSUME NEW n \in 1 .. Len(s)
               PROVE  nth[n - 1] = s[n]
    OBVIOUS
  <2>1. n - 1 \in 0 .. Size /\ n - 1 < Len(s) /\ (n - 1) + 1 = n
    BY <1>2
  <2> QED
    BY <1>6, <2>1
<1>10. s = [n \in 1 .. Len(s) |-> s[n]]
  BY <1>2
<1>11. Chain(h, i) = [n \in 1 .. Len(s) |-> nth[n - 1]]
  BY <1>1, <1>8
<1>12. Chain(h, i) = s
  BY <1>9, <1>10, <1>11
<1> QED
  BY <1>12 DEF i

-----------------------------------------------------------------------------
(* What the links lead to *)

LEMMA KidsReached ==
  ASSUME NEW h \in HeapT, NEW F, NEW T, NEW C, NEW P, Holds(h, F, T, C, P),
         NEW S \in SUBSET Items, \A x \in S : Leads(h, x) \subseteq S,
         NEW a \in F.live, F.kids[a] # <<>>, F.kids[a][1] \in S
  PROVE  \A j \in DOMAIN F.kids[a] : F.kids[a][j] \in S
<1> DEFINE s == F.kids[a]
           D == {j \in DOMAIN s : s[j] \notin S}
<1>1. /\ Len(s) \in Nat /\ DOMAIN s = 1 .. Len(s) /\ a \in Items
      /\ \A j \in DOMAIN s : s[j] \in Items
  BY KidsFacts DEF Holds
<1>2. \A j \in DOMAIN s : h.item[s[j]].next = IF j = Len(s) THEN NULL ELSE s[j + 1]
  BY DEF Holds, Links
<1> HIDE DEF s
<1>3. SUFFICES ASSUME D # {} PROVE FALSE
  BY DEF s
<1>4. PICK j \in D : \A m \in D : j <= m
  <2>1. D \in SUBSET Nat
    BY <1>1
  <2> HIDE DEF D
  <2> QED
    BY <1>3, <2>1, LeastNumber
<1>5. j # 1
  BY <1>4 DEF s
<1>6. j - 1 \in 1 .. Len(s) /\ j - 1 # Len(s) /\ (j - 1) + 1 = j /\ ~(j <= j - 1)
  BY <1>1, <1>4, <1>5
<1>7. s[j - 1] \in S /\ h.item[s[j - 1]].next = s[j]
  BY <1>1, <1>2, <1>4, <1>6
<1>8. s[j] # NULL
  BY <1>1, <1>4, HeapFacts
<1>9. s[j] \in S
  BY <1>7, <1>8 DEF Leads
<1> QED
  BY <1>4, <1>9

LEMMA ReachedIsLive ==
  ASSUME NEW h \in HeapT, NEW F, NEW T, NEW C, NEW P, Holds(h, F, T, C, P), NEW r \in SUBSET F.live,
         T \subseteq r, \A a \in C \cap F.live : F.kids[a] # <<>> => F.kids[a][1] \in r
  PROVE  Reached(h, r) = F.live
<1>1. IsForest(F, T) /\ Links(h, F, C, P) /\ Tops(h, T)
  BY DEF Holds
<1>2. /\ F.live \subseteq Items /\ T \subseteq F.live
      /\ \A a \in Items :
              /\ F.kids[a] \in Seq(Items) /\ Len(F.kids[a]) \in Nat
              /\ DOMAIN F.kids[a] = 1 .. Len(F.kids[a])
              /\ F.kids[a] # <<>> <=> 1 \in DOMAIN F.kids[a]
              /\ \A j \in DOMAIN F.kids[a] : /\ a \in F.live /\ F.kids[a][j] \in F.live
                                             /\ F.kids[a][j] \in Items /\ F.kids[a][j] \notin T
  BY <1>1, KidsFacts
<1>3. \A a \in F.live : h.item[a].ref \in BOOLEAN
  BY <1>2, HeapFacts
<1>4. ASSUME NEW S \in SUBSET Items, r \subseteq S, \A x \in S : Leads(h, x) \subseteq S
      PROVE  F.live \subseteq S
  <2>1. ASSUME NEW a \in S \cap F.live, F.kids[a] # <<>>
        PROVE  F.kids[a][1] \in S
    <3>1. F.kids[a][1] \in Items /\ F.kids[a][1] # NULL /\ a \in Items
      BY <1>2, <2>1, HeapFacts
    <3>2. CASE a \in C
      BY <1>4, <2>1, <3>2
    <3>3. CASE a \notin C
      <4>1. ~h.item[a].ref /\ h.item[a].child = F.kids[a][1]
        BY <1>1, <1>3, <2>1, <3>3 DEF Links
      <4> QED
        BY <1>4, <3>1, <4>1 DEF Leads, Child
    <3> QED
      BY <3>2, <3>3
  <2>2. Down(F, S \cap F.live)
    <3> SUFFICES ASSUME NEW a \in S \cap F.live, NEW j \in DOMAIN F.kids[a]
                 PROVE  F.kids[a][j] \in S /\ F.kids[a][j] \in F.live
      BY DEF Down
    <3>1. a \in Items /\ F.kids[a] # <<>>
      BY <1>2
    <3>2. F.kids[a][1] \in S
      BY <2>1, <3>1
    <3>3. \A k \in DOMAIN F.kids[a] : F.kids[a][k] \in S
      BY <1>4, <3>1, <3>2, KidsReached
    <3> QED
      BY <1>2, <3>1, <3>3
  <2>3. T \subseteq S \cap F.live /\ S \cap F.live \in SUBSET Items
    BY <1>2, <1>4
  <2>4. F.live \subseteq S \cap F.live
    BY <1>1, <2>2, <2>3 DEF IsForest
  <2> QED
    BY <2>4
<1>5. \A x \in F.live : Leads(h, x) \subseteq F.live
  <2> SUFFICES ASSUME NEW x \in F.live
               PROVE  /\ h.item[x].next # NULL => h.item[x].next \in F.live
                      /\ Child(h, x) # NULL => Child(h, x) \in F.live
    BY DEF Leads
  <2>0. x \in Items
    BY <1>2
  <2>1. Child(h, x) # NULL => Child(h, x) \in F.live
    <3>1. ASSUME Child(h, x) # NULL
          PROVE  Child(h, x) \in F.live
      <4>1. ~h.item[x].ref /\ Child(h, x) = h.item[x].child
        BY <3>1 DEF Child
      <4>2. F.kids[x] # <<>> /\ Child(h, x) = F.kids[x][1]
        BY <1>1, <3>1, <4>1 DEF Links
      <4> QED
        BY <1>2, <2>0, <4>2
    <3> QED
      BY <3>1
  <2>2. CASE x \in T
    BY <1>1, <2>1, <2>2 DEF Tops
  <2>3. CASE x \notin T
    <3>6. PICK a \in F.live : \E j \in DOMAIN F.kids[a] : x = F.kids[a][j]
      <4>1. Down(F, F.live \ {x}) => F.live \subseteq F.live \ {x}
        BY <1>1, <1>2, <2>3 DEF IsForest
      <4> QED
        BY <1>2, <4>1 DEF Down
    <3>1. PICK j \in DOMAIN F.kids[a] : x = F.kids[a][j]
      BY <3>6
    <3>2. a \in Items
      BY <1>2
    <3>3. h.item[x].next = IF j = Len(F.kids[a]) THEN NULL ELSE F.kids[a][j + 1]
      BY <1>1, <3>1 DEF Links
    <3>4. CASE j = Len(F.kids[a])
      BY <2>1, <3>3, <3>4
    <3>5. CASE j # Len(F.kids[a])
      <4>1. j + 1 \in DOMAIN F.kids[a]
        BY <1>2, <3>1, <3>2, <3>5
      <4> QED
        BY <1>2, <2>1, <3>2, <3>3, <3>5, <4>1
    <3> QED
      BY <3>4, <3>5
  <2> QED
    BY <2>2, <2>3
<1>6. Reached(h, r) = {i \in Items : \A S \in SUBSET Items :
                         r \subseteq S /\ (\A x \in S : Leads(h, x) \subseteq S) => i \in S}
  BY DEF Reached
<1>7. F.live \subseteq Reached(h, r)
  BY <1>2, <1>4, <1>6
<1>8. Reached(h, r) \subseteq F.live
  BY <1>2, <1>5, <1>6
<1> QED
  BY <1>7, <1>8

LEMMA TreesAreForest ==
  ASSUME NEW h \in HeapT, NEW F, NEW T, NEW P, Holds(h, F, T, {}, P)
  PROVE  /\ Trees(h, T) = F
         /\ \A a \in F.live : Children(h, a) = F.kids[a]
         /\ \A a \in F.live : ~h.item[a].ref => Chain(h, h.item[a].child) = F.kids[a]
<1>1. IsForest(F, T) /\ Links(h, F, {}, P) /\ Tops(h, T)
  BY DEF Holds
<1>2. /\ F.live \subseteq Items /\ T \subseteq F.live /\ F \in ForestT
      /\ \A a \in Items : F.kids[a] \in Seq(Items)
  BY <1>1, KidsFacts
<1>3. ASSUME NEW a \in F.live
      PROVE  /\ Child(h, a) = IF F.kids[a] = <<>> THEN NULL ELSE F.kids[a][1]
             /\ ~h.item[a].ref => Child(h, a) = h.item[a].child
             /\ Chain(h, Child(h, a)) = F.kids[a]
  <2>1. a \in Items /\ h.item[a].ref \in BOOLEAN
    BY <1>2, HeapFacts
  <2>2. Child(h, a) = IF F.kids[a] = <<>> THEN NULL ELSE F.kids[a][1]
    BY <1>1, <2>1 DEF Links, Child
  <2>3. Len(F.kids[a]) <= Size /\ F.kids[a] \in Seq(Items)
    BY <1>1, <1>2, <2>1, KidsBounded, HeapFacts
  <2>4. \A j \in DOMAIN F.kids[a] :
          h.item[F.kids[a][j]].next = IF j = Len(F.kids[a]) THEN NULL ELSE F.kids[a][j + 1]
    BY <1>1 DEF Links
  <2>5. Chain(h, IF F.kids[a] = <<>> THEN NULL ELSE F.kids[a][1]) = F.kids[a]
    BY <2>3, <2>4, ChainIsList
  <2> QED
    BY <2>2, <2>5 DEF Child
<1>4. Reached(h, T) = F.live
  BY <1>1, <1>2, ReachedIsLive DEF Holds
<1>5. Trees(h, T) = [live |-> F.live,
                     kids |-> [a \in Items |-> IF a \in F.live THEN Children(h, a) ELSE <<>>]]
  BY <1>4 DEF Trees
<1>6. \A a \in F.live : Children(h, a) = F.kids[a]
  BY <1>3 DEF Children
<1>7. \A a \in Items : a \notin F.live => F.kids[a] = <<>>
  BY <1>1 DEF IsForest
<1>8. F = [live |-> F.live, kids |-> [a \in Items |-> F.kids[a]]]
  BY <1>2 DEF ForestT
<1>9. [a \in Items |-> IF a \in F.live THEN Children(h, a) ELSE <<>>] = [a \in Items |-> F.kids[a]]
  BY <1>6, <1>7
<1> QED
  BY <1>3, <1>5, <1>6, <1>8, <1>9

\* The strings that an item owns
Owned(h, x) == One(OwnName(h.item[x])) + One(OwnString(h.item[x]))

SameOwner(g, h, x) ==
  (OwnName(g.item[x]) <=> OwnName(h.item[x])) /\ (OwnString(g.item[x]) <=> OwnString(h.item[x]))

LEMMA ItemsFinite ==
  ASSUME NEW S \in SUBSET Items
  PROVE  IsFiniteSet(S) /\ Cardinality(S) \in Nat
<1>1. Size \in Nat
  BY HeapAssumption
<1>3. \A m, n \in Int : IsFiniteSet(m .. n)
  BY FS_Interval
<1>2. IsFiniteSet(Items)
  BY <1>1, <1>3 DEF Items
<1> QED
  BY <1>2, FS_Subset, FS_CardinalityType

LEMMA StringsNatural ==
  ASSUME NEW h, NEW S \in SUBSET Items
  PROVE  Strings(h, S) \in Nat
<1>1. /\ {i \in S : OwnName(h.item[i])} \in SUBSET Items
      /\ {i \in S : OwnString(h.item[i])} \in SUBSET Items
  OBVIOUS
<1>2. /\ Cardinality({i \in S : OwnName(h.item[i])}) \in Nat
      /\ Cardinality({i \in S : OwnString(h.item[i])}) \in Nat
  BY <1>1, ItemsFinite
<1> QED
  BY <1>2 DEF Strings

LEMMA CountOne ==
  ASSUME NEW A \in SUBSET Items, NEW B \in SUBSET Items, NEW x, A \ {x} = B \ {x}
  PROVE  Cardinality(B) = Cardinality(A) - One(x \in A) + One(x \in B)
<1>1. /\ IsFiniteSet(A) /\ IsFiniteSet(B) /\ Cardinality(A) \in Nat /\ Cardinality(B) \in Nat
  BY ItemsFinite
<1>2. /\ Cardinality(A \ {x}) = IF x \in A THEN Cardinality(A) - 1 ELSE Cardinality(A)
      /\ Cardinality(B \ {x}) = IF x \in B THEN Cardinality(B) - 1 ELSE Cardinality(B)
  BY <1>1, FS_RemoveElement
<1>3. Cardinality(A \ {x}) = Cardinality(B \ {x})
  OBVIOUS
<1> DEFINE a == Cardinality(A)
           b == Cardinality(B)
<1>4. /\ a \in Int /\ b \in Int
      /\ (IF x \in A THEN a - 1 ELSE a) = (IF x \in B THEN b - 1 ELSE b)
  BY <1>1, <1>2, <1>3
<1> HIDE DEF a, b
<1>5. b = a - One(x \in A) + One(x \in B)
  BY <1>4 DEF One
<1> QED
  BY <1>5 DEF a, b

LEMMA CountGone ==
  ASSUME NEW A \in SUBSET Items, NEW D \in SUBSET Items
  PROVE  Cardinality(A \ D) = Cardinality(A) - Cardinality(A \cap D)
  BY ItemsFinite, FS_Difference

LEMMA StringsOfOne ==
  ASSUME NEW g, NEW h, NEW x \in Items, \A y \in Items : y # x => SameOwner(g, h, y)
  PROVE  Strings(g, Items) = Strings(h, Items) - Owned(h, x) + Owned(g, x)
<1> DEFINE N(k) == {i \in Items : OwnName(k.item[i])}
           S(k) == {i \in Items : OwnString(k.item[i])}
<1>1. /\ N(g) \in SUBSET Items /\ N(h) \in SUBSET Items /\ S(g) \in SUBSET Items /\ S(h) \in SUBSET Items
  OBVIOUS
<1>2. N(h) \ {x} = N(g) \ {x} /\ S(h) \ {x} = S(g) \ {x}
  BY DEF SameOwner
<1>3. /\ x \in N(h) <=> OwnName(h.item[x])
      /\ x \in N(g) <=> OwnName(g.item[x])
      /\ x \in S(h) <=> OwnString(h.item[x])
      /\ x \in S(g) <=> OwnString(g.item[x])
  OBVIOUS
<1>4. /\ Strings(h, Items) = Cardinality(N(h)) + Cardinality(S(h))
      /\ Strings(g, Items) = Cardinality(N(g)) + Cardinality(S(g))
  BY DEF Strings
<1> HIDE DEF N, S
<1>5. /\ Cardinality(N(g)) = Cardinality(N(h)) - One(x \in N(h)) + One(x \in N(g))
      /\ Cardinality(S(g)) = Cardinality(S(h)) - One(x \in S(h)) + One(x \in S(g))
  BY <1>1, <1>2, CountOne
<1>6. /\ Cardinality(N(g)) \in Nat /\ Cardinality(N(h)) \in Nat
      /\ Cardinality(S(g)) \in Nat /\ Cardinality(S(h)) \in Nat
  BY <1>1, ItemsFinite
<1>7. /\ Owned(h, x) = One(x \in N(h)) + One(x \in S(h))
      /\ Owned(g, x) = One(x \in N(g)) + One(x \in S(g))
  BY <1>3 DEF Owned, One
<1>8. /\ One(x \in N(h)) \in Int /\ One(x \in S(h)) \in Int
      /\ One(x \in N(g)) \in Int /\ One(x \in S(g)) \in Int
  BY DEF One
<1> QED
  BY <1>4, <1>5, <1>6, <1>7, <1>8

LEMMA StringsOfOthers ==
  ASSUME NEW g, NEW h, NEW D \in SUBSET Items,
         \A y \in Items \ D : SameOwner(g, h, y),
         \A y \in D : ~OwnName(g.item[y]) /\ ~OwnString(g.item[y])
  PROVE  Strings(g, Items) = Strings(h, Items) - Strings(h, D)
<1> DEFINE N(k) == {i \in Items : OwnName(k.item[i])}
           S(k) == {i \in Items : OwnString(k.item[i])}
<1>1. /\ N(h) \in SUBSET Items /\ S(h) \in SUBSET Items
  OBVIOUS
<1>2. N(g) = N(h) \ D /\ S(g) = S(h) \ D
  BY DEF SameOwner
<1>4. /\ Strings(h, Items) = Cardinality(N(h)) + Cardinality(S(h))
      /\ Strings(g, Items) = Cardinality(N(g)) + Cardinality(S(g))
  BY DEF Strings
<1>5. /\ {i \in D : OwnName(h.item[i])} = N(h) \cap D
      /\ {i \in D : OwnString(h.item[i])} = S(h) \cap D
  OBVIOUS
<1> HIDE DEF N, S
<1>6. Strings(h, D) = Cardinality(N(h) \cap D) + Cardinality(S(h) \cap D)
  BY <1>5 DEF Strings
<1>7. /\ Cardinality(N(g)) = Cardinality(N(h)) - Cardinality(N(h) \cap D)
      /\ Cardinality(S(g)) = Cardinality(S(h)) - Cardinality(S(h) \cap D)
  BY <1>1, <1>2, CountGone
<1>8. N(h) \cap D \in SUBSET Items /\ S(h) \cap D \in SUBSET Items
  BY <1>1
<1>9. /\ Cardinality(N(h)) \in Nat /\ Cardinality(S(h)) \in Nat
      /\ Cardinality(N(h) \cap D) \in Nat /\ Cardinality(S(h) \cap D) \in Nat
  BY <1>1, <1>8, ItemsFinite
<1> QED
  BY <1>4, <1>6, <1>7, <1>9

LEMMA StringsSame ==
  ASSUME NEW g, NEW h, NEW S \in SUBSET Items, NEW R \in SUBSET Items,
         \A y \in Items : y \in S /\ OwnName(g.item[y]) <=> y \in R /\ OwnName(h.item[y]),
         \A y \in Items : y \in S /\ OwnString(g.item[y]) <=> y \in R /\ OwnString(h.item[y])
  PROVE  Strings(g, S) = Strings(h, R)
<1>1. /\ {i \in S : OwnName(g.item[i])} = {i \in R : OwnName(h.item[i])}
      /\ {i \in S : OwnString(g.item[i])} = {i \in R : OwnString(h.item[i])}
  OBVIOUS
<1> QED
  BY <1>1 DEF Strings

LEMMA FreeOwnsNothing ==
  ~OwnName(Free) /\ ~OwnString(Free) /\ Free \in ItemT
<1>1. Size \in Nat
  BY HeapAssumption
<1> QED
  BY <1>1 DEF Free, OwnName, OwnString, ItemT, NoName, NULL

-----------------------------------------------------------------------------
(* What cJSON_Delete does to a forest that starts leads to, each item on one way *)

LEMMA OneWay ==
  ASSUME NEW h \in HeapT, NEW F, NEW T, NEW C, NEW P, Holds(h, F, T, C, P),
         NEW starts, Starts(F, T, C, starts)
  PROVE  ~FreedTwice(h, starts, F.live)
<1>1. IsForest(F, T) /\ Links(h, F, C, P) /\ Tops(h, T)
  BY DEF Holds
<1>2. /\ F.live \subseteq Items /\ T \subseteq F.live
      /\ \A a \in Items :
              /\ F.kids[a] \in Seq(Items) /\ Len(F.kids[a]) \in Nat
              /\ DOMAIN F.kids[a] = 1 .. Len(F.kids[a])
              /\ F.kids[a] # <<>> <=> 1 \in DOMAIN F.kids[a]
              /\ \A j \in DOMAIN F.kids[a] : /\ a \in F.live /\ F.kids[a][j] \in F.live
                                             /\ F.kids[a][j] \in Items /\ F.kids[a][j] \notin T
  BY <1>1, KidsFacts
<1>3. \A a, b \in Items : \A j \in DOMAIN F.kids[a], k \in DOMAIN F.kids[b] :
        F.kids[a][j] = F.kids[b][k] => a = b /\ j = k
  BY <1>1 DEF IsForest
<1>4. ASSUME NEW i \in F.live
      PROVE  h.item[i].type # "free" /\ i # NULL /\ i \in Items
  BY <1>1, <1>2, HeapFacts DEF Links
<1>5. ASSUME NEW x \in F.live, h.item[x].next # NULL
      PROVE  \E a \in Items : \E j \in DOMAIN F.kids[a] :
               /\ x = F.kids[a][j] /\ j + 1 \in DOMAIN F.kids[a] /\ h.item[x].next = F.kids[a][j + 1]
  <2>1. x \notin T /\ x \in Items
    BY <1>1, <1>2, <1>5 DEF Tops
  <2>2. PICK a \in F.live : \E j \in DOMAIN F.kids[a] : x = F.kids[a][j]
    <3>1. Down(F, F.live \ {x}) => F.live \subseteq F.live \ {x}
      BY <1>1, <1>2, <2>1 DEF IsForest
    <3> QED
      BY <1>2, <1>5, <3>1 DEF Down
  <2>3. PICK j \in DOMAIN F.kids[a] : x = F.kids[a][j]
    BY <2>2
  <2>4. a \in Items
    BY <1>2
  <2>5. h.item[x].next = IF j = Len(F.kids[a]) THEN NULL ELSE F.kids[a][j + 1]
    BY <1>1, <2>3 DEF Links
  <2>6. j # Len(F.kids[a]) /\ h.item[x].next = F.kids[a][j + 1]
    BY <1>5, <2>5
  <2>7. j + 1 \in DOMAIN F.kids[a]
    BY <1>2, <2>3, <2>4, <2>6
  <2> QED
    BY <2>3, <2>4, <2>6, <2>7
<1>6. ASSUME NEW x \in F.live, Child(h, x) # NULL
      PROVE  x \in Items /\ x \notin C /\ 1 \in DOMAIN F.kids[x] /\ Child(h, x) = F.kids[x][1]
  <2>1. x \in Items /\ ~h.item[x].ref /\ Child(h, x) = h.item[x].child
    BY <1>2, <1>6 DEF Child
  <2>2. x \notin C /\ F.kids[x] # <<>> /\ Child(h, x) = F.kids[x][1]
    BY <1>1, <1>6, <2>1 DEF Links
  <2> QED
    BY <1>2, <2>1, <2>2
<1>7. \A k \in DOMAIN starts : starts[k] # NULL =>
        \/ starts[k] \in T
        \/ \E a \in C \cap F.live : 1 \in DOMAIN F.kids[a] /\ starts[k] = F.kids[a][1]
  BY <1>2 DEF Starts
<1>8. \A k, l \in DOMAIN starts : starts[k] = starts[l] /\ starts[k] # NULL => k = l
  BY DEF Starts
<1>9. ASSUME NEW i \in F.live, NEW v \in WaysTo(h, starts, F.live, i), NEW w \in WaysTo(h, starts, F.live, i)
      PROVE  v = w
  <2>0. i # NULL
    BY <1>4
  <2>1. \A u \in WaysTo(h, starts, F.live, i) :
          \/ \E k \in DOMAIN starts : u = <<"start", k>> /\ starts[k] = i
          \/ \E j \in F.live : u = <<"next", j>> /\ h.item[j].next = i
          \/ \E j \in F.live : u = <<"child", j>> /\ Child(h, j) = i
    BY DEF WaysTo
  <2>2. ASSUME NEW k \in DOMAIN starts, starts[k] = i, NEW j \in F.live, h.item[j].next = i
        PROVE  FALSE
    <3>1. PICK a \in Items : \E m \in DOMAIN F.kids[a] : m + 1 \in DOMAIN F.kids[a] /\ i = F.kids[a][m + 1]
      BY <1>5, <2>0, <2>2
    <3>2. PICK m \in DOMAIN F.kids[a] : m + 1 \in DOMAIN F.kids[a] /\ i = F.kids[a][m + 1]
      BY <3>1
    <3>3. i \notin T /\ m + 1 # 1
      BY <1>2, <3>2
    <3>4. PICK b \in C \cap F.live : 1 \in DOMAIN F.kids[b] /\ i = F.kids[b][1]
      BY <1>7, <2>0, <2>2, <3>3
    <3>5. b \in Items /\ F.kids[a][m + 1] = F.kids[b][1]
      BY <1>2, <3>2, <3>4
    <3>6. m + 1 = 1
      BY <1>3, <3>2, <3>4, <3>5
    <3> QED
      BY <3>3, <3>6
  <2>3. ASSUME NEW k \in DOMAIN starts, starts[k] = i, NEW j \in F.live, Child(h, j) = i
        PROVE  FALSE
    <3>1. j \in Items /\ j \notin C /\ 1 \in DOMAIN F.kids[j] /\ i = F.kids[j][1]
      BY <1>6, <2>0, <2>3
    <3>2. i \notin T
      BY <1>2, <3>1
    <3>3. PICK b \in C \cap F.live : 1 \in DOMAIN F.kids[b] /\ i = F.kids[b][1]
      BY <1>7, <2>0, <2>3, <3>2
    <3> QED
      BY <1>2, <1>3, <3>1, <3>3
  <2>4. ASSUME NEW k \in F.live, h.item[k].next = i, NEW j \in F.live, Child(h, j) = i
        PROVE  FALSE
    <3>1. PICK a \in Items : \E m \in DOMAIN F.kids[a] : m + 1 \in DOMAIN F.kids[a] /\ i = F.kids[a][m + 1]
      BY <1>5, <2>0, <2>4
    <3>2. PICK m \in DOMAIN F.kids[a] : m + 1 \in DOMAIN F.kids[a] /\ i = F.kids[a][m + 1]
      BY <3>1
    <3>3. m + 1 # 1
      BY <1>2, <3>2
    <3>4. j \in Items /\ 1 \in DOMAIN F.kids[j] /\ i = F.kids[j][1]
      BY <1>6, <2>0, <2>4
    <3>5. F.kids[a][m + 1] = F.kids[j][1]
      BY <3>2, <3>4
    <3>6. m + 1 = 1
      BY <1>3, <3>2, <3>4, <3>5
    <3> QED
      BY <3>3, <3>6
  <2>5. ASSUME NEW k \in F.live, h.item[k].next = i, NEW j \in F.live, h.item[j].next = i
        PROVE  k = j
    <3>1. PICK a \in Items : \E m \in DOMAIN F.kids[a] :
            k = F.kids[a][m] /\ m + 1 \in DOMAIN F.kids[a] /\ i = F.kids[a][m + 1]
      BY <1>5, <2>0, <2>5
    <3>2. PICK m \in DOMAIN F.kids[a] :
            k = F.kids[a][m] /\ m + 1 \in DOMAIN F.kids[a] /\ i = F.kids[a][m + 1]
      BY <3>1
    <3>3. PICK b \in Items : \E n \in DOMAIN F.kids[b] :
            j = F.kids[b][n] /\ n + 1 \in DOMAIN F.kids[b] /\ i = F.kids[b][n + 1]
      BY <1>5, <2>0, <2>5
    <3>4. PICK n \in DOMAIN F.kids[b] :
            j = F.kids[b][n] /\ n + 1 \in DOMAIN F.kids[b] /\ i = F.kids[b][n + 1]
      BY <3>3
    <3>5. a = b /\ m + 1 = n + 1
      <4>1. m + 1 \in DOMAIN F.kids[a] /\ n + 1 \in DOMAIN F.kids[b] /\ F.kids[a][m + 1] = F.kids[b][n + 1]
        BY <3>2, <3>4
      <4> QED
        BY <1>3, <4>1, Zenon
    <3>6. m = n
      BY <1>2, <3>2, <3>4, <3>5
    <3> QED
      BY <3>2, <3>4, <3>5, <3>6
  <2>6. ASSUME NEW k \in F.live, Child(h, k) = i, NEW j \in F.live, Child(h, j) = i
        PROVE  k = j
    BY <1>3, <1>6, <2>0, <2>6
  <2>7. ASSUME NEW k \in DOMAIN starts, starts[k] = i, NEW j \in DOMAIN starts, starts[j] = i
        PROVE  k = j
    BY <1>8, <2>0, <2>7
  <2>8. CASE \E k \in DOMAIN starts : v = <<"start", k>> /\ starts[k] = i
    BY <1>9, <2>1, <2>2, <2>3, <2>7, <2>8
  <2>9. CASE \E j \in F.live : v = <<"next", j>> /\ h.item[j].next = i
    BY <1>9, <2>1, <2>2, <2>4, <2>5, <2>9
  <2>10. CASE \E j \in F.live : v = <<"child", j>> /\ Child(h, j) = i
    BY <1>9, <2>1, <2>3, <2>4, <2>6, <2>10
  <2> QED
    BY <1>9, <2>1, <2>8, <2>9, <2>10
<1> QED
  BY <1>4, <1>9 DEF FreedTwice

LEMMA DeletionsOfForest ==
  ASSUME NEW h \in HeapT, NEW F, NEW T, NEW C, NEW P, Holds(h, F, T, C, P),
         NEW starts, Starts(F, T, C, starts)
  PROVE  LET g == Deletions(h, starts) IN
         /\ g \in HeapT /\ g.mem = h.mem /\ g.twice = h.twice
         /\ \A x \in F.live : g.item[x] = Free
         /\ \A x \in Items : x \notin F.live => g.item[x] = h.item[x]
         /\ h.strings = Strings(h, Items) => g.strings = Strings(g, Items)
<1> DEFINE r == ToSet(starts) \ {NULL}
           g == Deletions(h, starts)
           k == [i \in Items |-> IF i \in F.live THEN Free ELSE h.item[i]]
<1>1. Holds(h, F, T, C, P) /\ IsForest(F, T) /\ F.live \subseteq Items
  BY KidsFacts DEF Holds
<1>2. r \in SUBSET F.live
  BY DEF Starts, ToSet
<1>3. T \subseteq r /\ \A a \in C \cap F.live : F.kids[a] # <<>> => F.kids[a][1] \in r
  <2>1. \A x \in F.live : x # NULL
    BY <1>1, HeapFacts
  <2>2. T \subseteq F.live /\ \A a \in F.live : F.kids[a] # <<>> => F.kids[a][1] \in F.live
    BY <1>1, KidsFacts
  <2> QED
    BY <2>1, <2>2 DEF Starts, ToSet
<1> HIDE DEF r
<1>4. Reached(h, r) = F.live
  BY <1>1, <1>2, <1>3, ReachedIsLive
<1>5. ~FreedTwice(h, starts, F.live)
  BY <1>1, OneWay
<1>6. g = [Frees(h, Strings(h, F.live)) EXCEPT
             !.item = [i \in Items |-> IF i \in F.live THEN Free ELSE @[i]],
             !.twice = @ \/ FreedTwice(h, starts, F.live)]
  BY <1>4 DEF Deletions, r
<1> HIDE DEF g
<1>7. h = [item |-> h.item, strings |-> h.strings, mem |-> h.mem, twice |-> h.twice]
  BY DEF HeapT
<1>8. /\ g.item = k
      /\ g.strings = h.strings - Strings(h, F.live) /\ g.mem = h.mem
      /\ g.twice = (h.twice \/ FreedTwice(h, starts, F.live))
      /\ g = [item |-> g.item, strings |-> g.strings, mem |-> g.mem, twice |-> g.twice]
  BY <1>6, <1>7 DEF Frees
<1>9. g.twice = h.twice
  <2>1. h.twice \in BOOLEAN
    BY HeapFacts
  <2> QED
    BY <1>5, <1>8, <2>1
<1>10. k \in [Items -> ItemT]
  BY FreeOwnsNothing, HeapFacts
<1>11. g.strings \in Int
  BY <1>1, <1>8, StringsNatural, HeapFacts
<1>12. g \in HeapT
  BY <1>8, <1>9, <1>10, <1>11, HeapFacts DEF HeapT
<1>13. /\ \A x \in F.live : g.item[x] = Free
       /\ \A x \in Items : x \notin F.live => g.item[x] = h.item[x]
  BY <1>1, <1>8
<1>14. Strings(g, Items) = Strings(h, Items) - Strings(h, F.live)
  <2>1. \A y \in Items \ F.live : SameOwner(g, h, y)
    BY <1>13 DEF SameOwner
  <2>2. \A y \in F.live : ~OwnName(g.item[y]) /\ ~OwnString(g.item[y])
    BY <1>13, FreeOwnsNothing
  <2> QED
    BY <1>1, <2>1, <2>2, StringsOfOthers
<1> QED
  BY <1>8, <1>9, <1>12, <1>13, <1>14 DEF g

\* One tree of several
LEMMA DeleteTree ==
  ASSUME NEW h \in HeapT, NEW F, NEW i, NEW P, Holds(h, F, {i}, {}, P)
  PROVE  Starts(F, {i}, {}, <<i>>)
<1>1. i \in F.live
  BY DEF Holds, IsForest
<1> QED
  BY <1>1 DEF Starts

-----------------------------------------------------------------------------
(* Assignments to the links of an item *)

LEMMA SetNext ==
  ASSUME NEW h \in HeapT, NEW i \in Items, NEW v \in 0 .. Size
  PROVE  LET g == Set(h, i, "next", v) IN
         /\ Relinked(g, h)
         /\ \A x \in Items : /\ g.item[x].next = IF x = i THEN v ELSE h.item[x].next
                             /\ g.item[x].prev = h.item[x].prev
                             /\ g.item[x].child = h.item[x].child
                             /\ x # i => g.item[x] = h.item[x]
<1> DEFINE x == [h.item[i] EXCEPT !.next = v]
<1>1. h.item[i] \in ItemT
  BY DEF HeapT
<1>2. x \in ItemT /\ x.next = v /\ x.prev = h.item[i].prev /\ x.child = h.item[i].child
  BY <1>1 DEF ItemT
<1>3. Set(h, i, "next", v) = [h EXCEPT !.item = [h.item EXCEPT ![i] = x]]
  BY DEF Set
<1> QED
  BY <1>2, <1>3 DEF HeapT, ItemT, SameValue, Relinked

LEMMA SetPrev ==
  ASSUME NEW h \in HeapT, NEW i \in Items, NEW v \in 0 .. Size
  PROVE  LET g == Set(h, i, "prev", v) IN
         /\ Relinked(g, h)
         /\ \A x \in Items : /\ g.item[x].prev = IF x = i THEN v ELSE h.item[x].prev
                             /\ g.item[x].next = h.item[x].next
                             /\ g.item[x].child = h.item[x].child
                             /\ x # i => g.item[x] = h.item[x]
<1> DEFINE x == [h.item[i] EXCEPT !.prev = v]
<1>1. h.item[i] \in ItemT
  BY DEF HeapT
<1>2. x \in ItemT /\ x.prev = v /\ x.next = h.item[i].next /\ x.child = h.item[i].child
  BY <1>1 DEF ItemT
<1>3. Set(h, i, "prev", v) = [h EXCEPT !.item = [h.item EXCEPT ![i] = x]]
  BY DEF Set
<1> QED
  BY <1>2, <1>3 DEF HeapT, ItemT, SameValue, Relinked

LEMMA SetChild ==
  ASSUME NEW h \in HeapT, NEW i \in Items, NEW v \in 0 .. Size
  PROVE  LET g == Set(h, i, "child", v) IN
         /\ Relinked(g, h)
         /\ \A x \in Items : /\ g.item[x].child = IF x = i THEN v ELSE h.item[x].child
                             /\ g.item[x].next = h.item[x].next
                             /\ g.item[x].prev = h.item[x].prev
                             /\ x # i => g.item[x] = h.item[x]
<1> DEFINE x == [h.item[i] EXCEPT !.child = v]
<1>1. h.item[i] \in ItemT
  BY DEF HeapT
<1>2. x \in ItemT /\ x.child = v /\ x.next = h.item[i].next /\ x.prev = h.item[i].prev
  BY <1>1 DEF ItemT
<1>3. Set(h, i, "child", v) = [h EXCEPT !.item = [h.item EXCEPT ![i] = x]]
  BY DEF Set
<1> QED
  BY <1>2, <1>3 DEF HeapT, ItemT, SameValue, Relinked

\* The same of a heap that is known by a name
LEMMA SetPrevIs ==
  ASSUME NEW h \in HeapT, NEW i \in Items, NEW v \in 0 .. Size, NEW g, g = Set(h, i, "prev", v)
  PROVE  /\ Relinked(g, h)
         /\ \A x \in Items : /\ g.item[x].prev = IF x = i THEN v ELSE h.item[x].prev
                             /\ g.item[x].next = h.item[x].next
                             /\ g.item[x].child = h.item[x].child
                             /\ x # i => g.item[x] = h.item[x]
<1> DEFINE k == Set(h, i, "prev", v)
<1>1. /\ Relinked(k, h)
      /\ \A x \in Items : /\ k.item[x].prev = IF x = i THEN v ELSE h.item[x].prev
                          /\ k.item[x].next = h.item[x].next
                          /\ k.item[x].child = h.item[x].child
                          /\ x # i => k.item[x] = h.item[x]
  BY SetPrev
<1>2. k = g
  OBVIOUS
<1> HIDE DEF k
<1> QED
  BY <1>1, <1>2

\* The same of a heap that is known by a name
LEMMA SetChildIs ==
  ASSUME NEW h \in HeapT, NEW i \in Items, NEW v \in 0 .. Size, NEW g, g = Set(h, i, "child", v)
  PROVE  /\ Relinked(g, h)
         /\ \A x \in Items : /\ g.item[x].child = IF x = i THEN v ELSE h.item[x].child
                             /\ g.item[x].next = h.item[x].next
                             /\ g.item[x].prev = h.item[x].prev
                             /\ x # i => g.item[x] = h.item[x]
<1> DEFINE k == Set(h, i, "child", v)
<1>1. /\ Relinked(k, h)
      /\ \A x \in Items : /\ k.item[x].child = IF x = i THEN v ELSE h.item[x].child
                          /\ k.item[x].next = h.item[x].next
                          /\ k.item[x].prev = h.item[x].prev
                          /\ x # i => k.item[x] = h.item[x]
  BY SetChild
<1>2. k = g
  OBVIOUS
<1> HIDE DEF k
<1> QED
  BY <1>1, <1>2

LEMMA RelinkedTwice ==
  ASSUME NEW h, NEW g, NEW k, Relinked(g, h), Relinked(k, g)
  PROVE  Relinked(k, h)
  BY DEF Relinked, SameValue

LEMMA RelinkedOwners ==
  ASSUME NEW h \in HeapT, NEW g, Relinked(g, h)
  PROVE  /\ \A x \in Items : SameOwner(g, h, x)
         /\ Strings(g, Items) = Strings(h, Items)
<1>1. \A x \in Items : SameOwner(g, h, x)
  BY DEF Relinked, SameValue, SameOwner, OwnName, OwnString
<1> QED
  BY <1>1, StringsSame DEF SameOwner

-----------------------------------------------------------------------------
(* One list of a forest changes *)

LEMMA ListOf ==
  ASSUME NEW h \in HeapT, NEW F, NEW T, NEW C, NEW P, Holds(h, F, T, C, P), NEW a \in F.live, ~h.item[a].ref
  PROVE  ChildrenIn(h, a, F.kids[a], a \notin C, a \notin P)
  BY DEF Holds, Links, ChildrenIn, ListIn

LEMMA ListChanged ==
  ASSUME NEW h \in HeapT, NEW F, NEW T, NEW C, NEW P, Holds(h, F, T, C, P),
         NEW g \in HeapT, NEW G, NEW U, NEW D, NEW Q, IsForest(G, U), G.live = F.live,
         NEW a \in F.live, \A b \in Items : b # a => G.kids[b] = F.kids[b],
         \A b \in Items : b # a => (b \in D <=> b \in C) /\ (b \in Q <=> b \in P),
         \A x \in Items : x \in F.live => g.item[x].type # "free" /\ (g.item[x].ref <=> h.item[x].ref),
         \A x \in Items :
           \/ \E j \in DOMAIN F.kids[a] : x = F.kids[a][j]
           \/ \E j \in DOMAIN G.kids[a] : x = G.kids[a][j]
           \/ g.item[x].next = h.item[x].next /\ g.item[x].prev = h.item[x].prev,
         \A x \in Items : x # a => g.item[x].child = h.item[x].child,
         \A u \in U : u \in T \/ g.item[u].next = NULL,
         ChildrenIn(g, a, G.kids[a], a \notin D, a \notin Q)
  PROVE  Holds(g, G, U, D, Q)
<1>1. IsForest(F, T) /\ Links(h, F, C, P) /\ Tops(h, T)
  BY DEF Holds
<1>2. /\ F.live \subseteq Items /\ T \subseteq F.live
      /\ \A b \in Items : \A j \in DOMAIN F.kids[b] : F.kids[b][j] \in Items /\ F.kids[b][j] \notin T
  BY <1>1, KidsFacts
<1>3. /\ U \subseteq G.live
      /\ \A b \in Items : \A j \in DOMAIN G.kids[b] : G.kids[b][j] \notin U
  BY KidsFacts
<1>4. \A b \in F.live : b # a => \A k \in DOMAIN F.kids[b] :
        /\ \A j \in DOMAIN F.kids[a] : F.kids[b][k] # F.kids[a][j]
        /\ \A j \in DOMAIN G.kids[a] : F.kids[b][k] # G.kids[a][j]
  <2>1. \A b \in F.live : b # a => \A k \in DOMAIN F.kids[b], j \in DOMAIN F.kids[a] : F.kids[b][k] # F.kids[a][j]
    BY <1>1, <1>2 DEF IsForest
  <2>2. \A b \in F.live : b # a => \A k \in DOMAIN G.kids[b], j \in DOMAIN G.kids[a] : G.kids[b][k] # G.kids[a][j]
    BY <1>2 DEF IsForest
  <2> QED
    BY <1>2, <2>1, <2>2
<1>5. Tops(g, U)
  <2> SUFFICES ASSUME NEW u \in U, u \in T
               PROVE  g.item[u].next = NULL
    BY DEF Tops
  <2>1. g.item[u].next = h.item[u].next
    BY <1>2, <1>3
  <2> QED
    BY <1>1, <2>1 DEF Tops
<1>6. ASSUME NEW b \in G.live
      PROVE  /\ g.item[b].type # "free"
             /\ g.item[b].ref => G.kids[b] = <<>>
             /\ ~g.item[b].ref =>
                  g.item[b].child = IF b \in D \/ G.kids[b] = <<>> THEN NULL ELSE G.kids[b][1]
             /\ ListIn(g, G.kids[b], b \notin Q)
  <2>1. b \in Items /\ g.item[b].type # "free"
    BY <1>2
  <2>2. CASE b = a
    BY <2>1, <2>2 DEF ChildrenIn
  <2>3. CASE b # a
    <3>1. /\ G.kids[b] = F.kids[b] /\ g.item[b].child = h.item[b].child
          /\ (g.item[b].ref <=> h.item[b].ref) /\ (b \in D <=> b \in C) /\ (b \in Q <=> b \in P)
      BY <2>1, <2>3
    <3>2. \A j \in DOMAIN F.kids[b] : /\ g.item[F.kids[b][j]].next = h.item[F.kids[b][j]].next
                                      /\ g.item[F.kids[b][j]].prev = h.item[F.kids[b][j]].prev
      BY <1>2, <1>4, <2>1, <2>3
    <3>3. ListIn(h, F.kids[b], b \notin P)
      BY <1>1 DEF Links, ListIn
    <3>4. ListIn(g, G.kids[b], b \notin Q)
      BY <3>1, <3>2, <3>3 DEF ListIn
    <3>5. /\ g.item[b].ref => G.kids[b] = <<>>
          /\ ~g.item[b].ref =>
                  g.item[b].child = IF b \in D \/ G.kids[b] = <<>> THEN NULL ELSE G.kids[b][1]
      BY <1>1, <3>1 DEF Links
    <3> QED
      BY <2>1, <3>4, <3>5
  <2> QED
    BY <2>2, <2>3
<1>7. Links(g, G, D, Q)
  BY <1>6 DEF Links, ListIn
<1> QED
  BY <1>5, <1>7 DEF Holds

\* Items that keep their links, and still exist, are a forest as before.
LEMMA ForestKept ==
  ASSUME NEW h \in HeapT, NEW F, NEW T, NEW C, NEW P, Holds(h, F, T, C, P), NEW g,
         \A x \in F.live : /\ g.item[x].type # "free" /\ g.item[x].next = h.item[x].next
                           /\ g.item[x].prev = h.item[x].prev /\ g.item[x].child = h.item[x].child
                           /\ g.item[x].ref = h.item[x].ref
  PROVE  Holds(g, F, T, C, P)
<1>1. IsForest(F, T) /\ Links(h, F, C, P) /\ Tops(h, T)
  BY DEF Holds
<1>2. /\ F.live \subseteq Items /\ T \subseteq F.live
      /\ \A b \in Items : \A j \in DOMAIN F.kids[b] : F.kids[b][j] \in F.live
  BY <1>1, KidsFacts
<1>3. Tops(g, T)
  BY <1>1, <1>2 DEF Tops
<1>4. ASSUME NEW a \in F.live
      PROVE  /\ g.item[a].type # "free"
             /\ g.item[a].ref => F.kids[a] = <<>>
             /\ ~g.item[a].ref =>
                  g.item[a].child = IF a \in C \/ F.kids[a] = <<>> THEN NULL ELSE F.kids[a][1]
             /\ ListIn(g, F.kids[a], a \notin P)
  <2>1. ListIn(h, F.kids[a], a \notin P)
    BY <1>1 DEF Links, ListIn
  <2>2. ListIn(g, F.kids[a], a \notin P)
    BY <1>2, <2>1 DEF ListIn
  <2>3. /\ g.item[a].type # "free" /\ g.item[a].ref = h.item[a].ref
        /\ g.item[a].child = h.item[a].child
    OBVIOUS
  <2> QED
    BY <1>1, <2>2, <2>3 DEF Links
<1>5. Links(g, F, C, P)
  BY <1>4 DEF Links, ListIn
<1> QED
  BY <1>1, <1>3, <1>5 DEF Holds

-----------------------------------------------------------------------------
(* What the functions that link items do to one list *)

LEMMA ListAtFacts ==
  ASSUME NEW a, NEW s, ListAt(a, s)
  PROVE  /\ Len(s) \in Nat /\ DOMAIN s = 1 .. Len(s) /\ a \in Items
         /\ s = <<>> <=> Len(s) = 0
         /\ \A j \in DOMAIN s : s[j] \in Items /\ s[j] # a /\ s[j] # NULL
         /\ \A j, k \in DOMAIN s : s[j] = s[k] => j = k
<1> QED
  BY ItemsFacts DEF ListAt, InList

LEMMA ListOfForest ==
  ASSUME NEW F, NEW T, IsForest(F, T), NEW a \in F.live
  PROVE  ListAt(a, F.kids[a])
<1>1. /\ F.live \subseteq Items /\ F.kids[a] \in Seq(Items)
      /\ \A b \in Items : \A j \in DOMAIN F.kids[b] : F.kids[b][j] \in F.live
  BY KidsFacts
<1>2. a \in Items
  BY <1>1
<1>3. ASSUME NEW j \in DOMAIN F.kids[a], F.kids[a][j] = a PROVE FALSE
  <2>1. a \notin Forest!Tree(F, F.kids[a][j])
    BY <1>2, NoCycle
  <2>2. a \in Forest!Tree(F, a)
    BY <1>2, TreeFacts DEF IsForest
  <2> QED
    BY <1>3, <2>1, <2>2
<1> QED
  BY <1>1, <1>2, <1>3 DEF ListAt, InList, IsForest

LEMMA AddToList ==
  ASSUME NEW h \in HeapT, NEW a, NEW s, ListAt(a, s), NEW i \in Items, i # a, ~InList(s, i),
         h.item[i].next = NULL, ChildrenIn(h, a, s, TRUE, TRUE),
         NEW t \in Seq(Items), Len(t) = Len(s) + 1,
         \A j \in 1 .. Len(t) : t[j] = IF j <= Len(s) THEN s[j] ELSE i
  PROVE  LET added == add_item_to_array(h, a, i) IN
         /\ added.r = TRUE /\ ListStep(added.heap, h, a, s, t)
         /\ ChildrenIn(added.heap, a, t, TRUE, TRUE)
<1>1. /\ Len(s) \in Nat /\ DOMAIN s = 1 .. Len(s) /\ DOMAIN t = 1 .. Len(s) + 1 /\ a \in Items
      /\ s = <<>> <=> Len(s) = 0
      /\ \A j \in DOMAIN s : s[j] \in Items /\ s[j] # a /\ s[j] # NULL /\ s[j] # i
      /\ \A j, k \in DOMAIN s : s[j] = s[k] => j = k
      /\ i # NULL /\ t # <<>> /\ i \in 0 .. Size /\ NULL \in 0 .. Size
  BY ListAtFacts, HeapFacts DEF InList
<1>2. CASE s = <<>>
  <2> DEFINE g1 == Set(h, a, "child", i)
             g2 == Set(g1, i, "prev", i)
             g3 == Set(g2, i, "next", NULL)
  <2>1. add_item_to_array(h, a, i) = Result(g3, TRUE)
    BY <1>1, <1>2 DEF add_item_to_array, ChildrenIn
  <2>2. Relinked(g1, h) /\ \A x \in Items :
          /\ g1.item[x].child = IF x = a THEN i ELSE h.item[x].child
          /\ g1.item[x].next = h.item[x].next /\ g1.item[x].prev = h.item[x].prev
          /\ x # a => g1.item[x] = h.item[x]
    BY <1>1, SetChild
  <2> HIDE DEF g1
  <2>3. Relinked(g2, g1) /\ \A x \in Items :
          /\ g2.item[x].prev = IF x = i THEN i ELSE g1.item[x].prev
          /\ g2.item[x].next = g1.item[x].next /\ g2.item[x].child = g1.item[x].child
          /\ x # i => g2.item[x] = g1.item[x]
    <3>1. g1 \in HeapT
      BY <2>2 DEF Relinked
    <3>2. i \in 0 .. Size
      BY <1>1
    <3>3. g2 = Set(g1, i, "prev", i)
      OBVIOUS
    <3> HIDE DEF g2
    <3> QED
      BY <3>1, <3>2, <3>3, SetPrevIs
  <2> HIDE DEF g2
  <2>4. Relinked(g3, g2) /\ \A x \in Items :
          /\ g3.item[x].next = IF x = i THEN NULL ELSE g2.item[x].next
          /\ g3.item[x].prev = g2.item[x].prev /\ g3.item[x].child = g2.item[x].child
          /\ x # i => g3.item[x] = g2.item[x]
    <3>1. g2 \in HeapT
      BY <2>3 DEF Relinked
    <3>2. NULL \in 0 .. Size
      BY <1>1
    <3> QED
      BY <3>1, <3>2, SetNext
  <2> HIDE DEF g3
  <2>5. t[1] = i /\ Len(t) = 1 /\ DOMAIN t = {1}
    BY <1>1, <1>2
  <2>6. Relinked(g3, h)
    BY <2>2, <2>3, <2>4, RelinkedTwice
  <2>7. ListStep(g3, h, a, s, t)
    BY <2>2, <2>3, <2>4, <2>5, <2>6 DEF ListStep, InList
  <2>8. ~g3.item[a].ref
    BY <1>1, <2>6 DEF ChildrenIn, Relinked, SameValue
  <2>9. ChildrenIn(g3, a, t, TRUE, TRUE)
    BY <1>1, <2>2, <2>3, <2>4, <2>5, <2>8 DEF ChildrenIn, ListIn
  <2>10. add_item_to_array(h, a, i).heap = g3 /\ add_item_to_array(h, a, i).r = TRUE
    BY <2>1 DEF Result
  <2> QED
    BY <2>7, <2>9, <2>10
<1>3. CASE s # <<>>
  <2> DEFINE c == s[1]
             l == s[Len(s)]
             g1 == Set(h, l, "next", i)
             g2 == Set(g1, i, "prev", l)
             g3 == Set(g2, c, "prev", i)
  <2>1. 1 \in DOMAIN s /\ Len(s) \in DOMAIN s
    BY <1>1, <1>3
  <2>2. /\ h.item[a].child = c /\ h.item[c].prev = l
        /\ c \in Items /\ l \in Items /\ c # NULL /\ l # NULL /\ l \in 0 .. Size
        /\ c # i /\ l # i /\ c # a /\ l # a
    BY <1>1, <1>3, <2>1, HeapFacts DEF ChildrenIn, ListIn
  <2>3. add_item_to_array(h, a, i) = Result(g3, TRUE)
    BY <1>1, <2>2 DEF add_item_to_array, suffix_object
  <2> HIDE DEF c, l
  <2>4. Relinked(g1, h) /\ \A x \in Items :
          /\ g1.item[x].next = IF x = l THEN i ELSE h.item[x].next
          /\ g1.item[x].prev = h.item[x].prev /\ g1.item[x].child = h.item[x].child
          /\ x # l => g1.item[x] = h.item[x]
    BY <1>1, <2>2, SetNext
  <2> HIDE DEF g1
  <2>5. Relinked(g2, g1) /\ \A x \in Items :
          /\ g2.item[x].prev = IF x = i THEN l ELSE g1.item[x].prev
          /\ g2.item[x].next = g1.item[x].next /\ g2.item[x].child = g1.item[x].child
          /\ x # i => g2.item[x] = g1.item[x]
    <3>1. g1 \in HeapT
      BY <2>4 DEF Relinked
    <3>2. g2 = Set(g1, i, "prev", l)
      OBVIOUS
    <3>3. l \in 0 .. Size
      BY <2>2
    <3> HIDE DEF g2
    <3> QED
      BY <3>1, <3>2, <3>3, SetPrevIs
  <2> HIDE DEF g2
  <2>6. Relinked(g3, g2) /\ \A x \in Items :
          /\ g3.item[x].prev = IF x = c THEN i ELSE g2.item[x].prev
          /\ g3.item[x].next = g2.item[x].next /\ g3.item[x].child = g2.item[x].child
          /\ x # c => g3.item[x] = g2.item[x]
    <3>1. g2 \in HeapT
      BY <2>5 DEF Relinked
    <3>2. c \in Items /\ i \in 0 .. Size
      BY <1>1, <2>2
    <3>3. g3 = Set(g2, c, "prev", i)
      OBVIOUS
    <3> HIDE DEF g3
    <3> QED
      BY <3>1, <3>2, <3>3, SetPrevIs
  <2> HIDE DEF g3
  <2>7. Relinked(g3, h)
    BY <2>4, <2>5, <2>6, RelinkedTwice
  <2>8. /\ \A j \in DOMAIN s : t[j] = s[j] /\ j \in DOMAIN t
        /\ t[Len(s) + 1] = i /\ Len(s) + 1 \in DOMAIN t
    BY <1>1
  <2>9. InList(s, c) /\ InList(s, l) /\ InList(t, i)
    BY <2>1, <2>8 DEF InList, c, l
  <2>10. ListStep(g3, h, a, s, t)
    <3>1. ASSUME NEW x \in Items
          PROVE  /\ InList(s, x) \/ InList(t, x) \/
                      (g3.item[x].next = h.item[x].next /\ g3.item[x].prev = h.item[x].prev)
                 /\ g3.item[x].child = h.item[x].child
                 /\ InList(s, x) \/ InList(t, x) \/ g3.item[x] = h.item[x]
      <4>1. CASE x = c \/ x = l \/ x = i
        BY <2>4, <2>5, <2>6, <2>9, <4>1
      <4>2. CASE x # c /\ x # l /\ x # i
        BY <2>4, <2>5, <2>6, <4>2
      <4> QED
        BY <4>1, <4>2
    <3> QED
      BY <2>7, <3>1 DEF ListStep
  <2>11. ~g3.item[a].ref
    BY <1>1, <2>7 DEF ChildrenIn, Relinked, SameValue
  <2>12. g3.item[a].child = t[1]
    BY <1>1, <2>1, <2>2, <2>4, <2>5, <2>6, <2>8 DEF c
  <2>13. ASSUME NEW j \in DOMAIN t
         PROVE  /\ g3.item[t[j]].next = IF j = Len(t) THEN NULL ELSE t[j + 1]
                /\ j > 1 => g3.item[t[j]].prev = t[j - 1]
                /\ j = 1 => g3.item[t[j]].prev = t[Len(t)]
    <3>1. CASE j = Len(s) + 1
      <4>1. j > 1 /\ j # 1 /\ j - 1 = Len(s) /\ t[j] = i /\ t[j - 1] = l /\ j = Len(t)
        BY <1>1, <1>3, <2>1, <2>8, <3>1 DEF l
      <4> QED
        BY <2>2, <2>4, <2>5, <2>6, <4>1
    <3>2. CASE j # Len(s) + 1
      <4>1. j \in DOMAIN s /\ t[j] = s[j] /\ j # Len(t) /\ t[j + 1] = IF j = Len(s) THEN i ELSE s[j + 1]
        BY <1>1, <3>2
      <4>2. s[j] \in Items /\ s[j] # i /\ (s[j] = l <=> j = Len(s)) /\ (s[j] = c <=> j = 1)
        BY <1>1, <2>1, <4>1 DEF c, l
      <4>3. /\ h.item[s[j]].next = IF j = Len(s) THEN NULL ELSE s[j + 1]
            /\ j > 1 => h.item[s[j]].prev = s[j - 1]
        BY <4>1 DEF ChildrenIn, ListIn
      <4>4. g3.item[s[j]].next = t[j + 1]
        BY <2>4, <2>5, <2>6, <4>1, <4>2, <4>3
      <4>5. j > 1 => g3.item[s[j]].prev = t[j - 1]
        <5>1. j > 1 => j # 1 /\ t[j - 1] = s[j - 1]
          BY <1>1, <4>1
        <5> QED
          BY <2>4, <2>5, <2>6, <4>2, <4>3, <5>1
      <4>6. j = 1 => g3.item[s[j]].prev = t[Len(t)]
        BY <2>6, <2>8, <4>2
      <4> QED
        BY <4>1, <4>4, <4>5, <4>6
    <3> QED
      BY <3>1, <3>2
  <2>14. ChildrenIn(g3, a, t, TRUE, TRUE)
    BY <1>1, <2>11, <2>12, <2>13 DEF ChildrenIn, ListIn
  <2>15. add_item_to_array(h, a, i).heap = g3 /\ add_item_to_array(h, a, i).r = TRUE
    BY <2>3 DEF Result
  <2> QED
    BY <2>10, <2>14, <2>15
<1> QED
  BY <1>2, <1>3

LEMMA FromRelinked ==
  ASSUME NEW g, NEW h, Relinked(g, h)
  PROVE  g \in HeapT
  BY DEF Relinked

LEMMA RelinkedRef ==
  ASSUME NEW g, NEW h, Relinked(g, h), NEW a \in Items, ~h.item[a].ref
  PROVE  ~g.item[a].ref
  BY DEF Relinked, SameValue

LEMMA InsertInList ==
  ASSUME NEW h \in HeapT, NEW a, NEW s, ListAt(a, s), NEW i \in Items, i # a, ~InList(s, i),
         ChildrenIn(h, a, s, TRUE, TRUE),
         NEW n \in DOMAIN s, NEW which, get_array_item(h, a, which) = s[n],
         NEW t \in Seq(Items), Len(t) = Len(s) + 1,
         \A j \in 1 .. Len(t) : t[j] = IF j < n THEN s[j] ELSE IF j = n THEN i ELSE s[j - 1]
  PROVE  LET inserted == cJSON_InsertItemInArray(h, a, which, i) IN
         /\ inserted.r = TRUE /\ ListStep(inserted.heap, h, a, s, t)
         /\ ChildrenIn(inserted.heap, a, t, TRUE, TRUE)
<1> DEFINE x == s[n]
           b == h.item[x].prev
           g1 == Set(h, i, "next", x)
           g2 == Set(g1, i, "prev", b)
           g3 == Set(g2, x, "prev", i)
           g4 == IF n = 1 THEN Set(g3, a, "child", i) ELSE Set(g3, b, "next", i)
<1>1. /\ Len(s) \in Nat /\ DOMAIN s = 1 .. Len(s) /\ DOMAIN t = 1 .. Len(s) + 1 /\ a \in Items
      /\ \A j \in DOMAIN s : s[j] \in Items /\ s[j] # a /\ s[j] # NULL /\ s[j] # i
      /\ \A j, k \in DOMAIN s : s[j] = s[k] => j = k
      /\ i # NULL /\ t # <<>> /\ i \in 0 .. Size /\ n \in Int
      /\ s # <<>> /\ 1 \in DOMAIN s /\ Len(s) \in DOMAIN s
  BY ListAtFacts, ItemsFacts DEF InList
<1>2. /\ h.item[a].child = s[1]
      /\ \A j \in DOMAIN s :
           /\ h.item[s[j]].next = IF j = Len(s) THEN NULL ELSE s[j + 1]
           /\ j > 1 => h.item[s[j]].prev = s[j - 1]
           /\ j = 1 => h.item[s[j]].prev = s[Len(s)]
  BY <1>1 DEF ChildrenIn, ListIn
<1>3. /\ b = IF n = 1 THEN s[Len(s)] ELSE s[n - 1]
      /\ n # 1 => n - 1 \in DOMAIN s
      /\ x \in Items /\ x # NULL /\ x # i /\ b \in Items /\ b # i /\ x \in 0 .. Size /\ b \in 0 .. Size
      /\ h.item[a].child = x <=> n = 1
  <2>1. n # 1 => n - 1 \in DOMAIN s /\ n > 1
    BY <1>1
  <2>2. b = IF n = 1 THEN s[Len(s)] ELSE s[n - 1]
    BY <1>2, <2>1
  <2>3. x \in Items /\ x # NULL /\ x # i
    BY <1>1
  <2>4. b \in Items /\ b # i
    BY <1>1, <2>1, <2>2
  <2>5. x \in 0 .. Size /\ b \in 0 .. Size
    BY <2>3, <2>4, ItemsFacts
  <2>6. h.item[a].child = x <=> n = 1
    BY <1>1, <1>2
  <2> QED
    BY <2>1, <2>2, <2>3, <2>4, <2>5, <2>6
<1>4. cJSON_InsertItemInArray(h, a, which, i) = Result(g4, TRUE)
  BY <1>1, <1>3 DEF cJSON_InsertItemInArray
<1> HIDE DEF x, b
<1>18. x \in 0 .. Size /\ b \in 0 .. Size
  BY <1>3
<1>5. Relinked(g1, h) /\ \A y \in Items :
        /\ g1.item[y].next = IF y = i THEN x ELSE h.item[y].next
        /\ g1.item[y].prev = h.item[y].prev /\ g1.item[y].child = h.item[y].child
        /\ y # i => g1.item[y] = h.item[y]
  BY <1>18, SetNext
<1> HIDE DEF g1
<1>6. Relinked(g2, g1) /\ \A y \in Items :
        /\ g2.item[y].prev = IF y = i THEN b ELSE g1.item[y].prev
        /\ g2.item[y].next = g1.item[y].next /\ g2.item[y].child = g1.item[y].child
        /\ y # i => g2.item[y] = g1.item[y]
  BY <1>18, <1>5, SetPrev, FromRelinked
<1> HIDE DEF g2
<1>7. Relinked(g3, g2) /\ \A y \in Items :
        /\ g3.item[y].prev = IF y = x THEN i ELSE g2.item[y].prev
        /\ g3.item[y].next = g2.item[y].next /\ g3.item[y].child = g2.item[y].child
        /\ y # x => g3.item[y] = g2.item[y]
  BY <1>1, <1>3, <1>6, SetPrev, FromRelinked
<1> HIDE DEF g3
<1>8. Relinked(g4, g3) /\ \A y \in Items :
        /\ g4.item[y].child = IF n = 1 /\ y = a THEN i ELSE g3.item[y].child
        /\ g4.item[y].next = IF n # 1 /\ y = b THEN i ELSE g3.item[y].next
        /\ g4.item[y].prev = g3.item[y].prev
        /\ y # a /\ y # b => g4.item[y] = g3.item[y]
  <2>1. g3 \in HeapT
    BY <1>7, FromRelinked
  <2>2. CASE n = 1
    BY <1>1, <2>1, <2>2, SetChild
  <2>3. CASE n # 1
    BY <1>1, <1>3, <2>1, <2>3, SetNext
  <2> QED
    BY <2>2, <2>3
<1> HIDE DEF g4
<1>9. Relinked(g4, h)
  BY <1>5, <1>6, <1>7, <1>8, RelinkedTwice
<1>10. InList(s, x) /\ InList(s, b) /\ InList(t, i)
  <2>1. t[n] = i /\ n \in DOMAIN t
    BY <1>1
  <2> QED
    BY <1>1, <1>3, <2>1 DEF InList, x
<1>11. ListStep(g4, h, a, s, t)
  <2>1. ASSUME NEW y \in Items
        PROVE  /\ InList(s, y) \/ InList(t, y) \/
                    (g4.item[y].next = h.item[y].next /\ g4.item[y].prev = h.item[y].prev)
               /\ y # a => g4.item[y].child = h.item[y].child
               /\ InList(s, y) \/ InList(t, y) \/ y = a \/ g4.item[y] = h.item[y]
    <3>1. CASE y = i \/ y = x \/ y = b
      BY <1>5, <1>6, <1>7, <1>8, <1>10, <3>1
    <3>2. CASE y # i /\ y # x /\ y # b
      BY <1>5, <1>6, <1>7, <1>8, <3>2
    <3> QED
      BY <3>1, <3>2
  <2> QED
    BY <1>9, <2>1 DEF ListStep
<1>12. ~g4.item[a].ref
  BY <1>1, <1>9, RelinkedRef DEF ChildrenIn
<1>13. g4.item[a].child = t[1]
  <2>1. t[1] = IF n = 1 THEN i ELSE s[1]
    BY <1>1
  <2> QED
    BY <1>1, <1>2, <1>5, <1>6, <1>7, <1>8, <2>1
<1>14. /\ \A j \in DOMAIN s : j < n => t[j] = s[j] /\ j \in DOMAIN t
       /\ t[n] = i /\ n \in DOMAIN t
       /\ \A j \in DOMAIN s : j >= n => t[j + 1] = s[j] /\ j + 1 \in DOMAIN t
  BY <1>1
<1>15. ASSUME NEW j \in DOMAIN t
       PROVE  /\ g4.item[t[j]].next = IF j = Len(t) THEN NULL ELSE t[j + 1]
              /\ j > 1 => g4.item[t[j]].prev = t[j - 1]
              /\ j = 1 => g4.item[t[j]].prev = t[Len(t)]
  <2>1. CASE j = n
    <3>1. /\ t[j] = i /\ t[j + 1] = x /\ j # Len(t) /\ t[Len(t)] = s[Len(s)]
          /\ j > 1 => t[j - 1] = b
          /\ j = 1 => t[Len(t)] = b
      BY <1>1, <1>3, <1>14, <2>1 DEF x
    <3> QED
      BY <1>3, <1>5, <1>6, <1>7, <1>8, <3>1, SMTT(30)
  <2>2. CASE j < n
    <3>1. /\ j \in DOMAIN s /\ t[j] = s[j] /\ j # Len(t) /\ t[Len(t)] = s[Len(s)]
          /\ t[j + 1] = IF j = n - 1 THEN i ELSE s[j + 1]
          /\ j # Len(s) /\ n # 1
      <4>1. j \in DOMAIN s /\ j \in Int /\ j < Len(s) /\ n # 1 /\ Len(t) = Len(s) + 1
        BY <1>1, <2>2
      <4>2. t[j] = s[j] /\ j # Len(t) /\ j # Len(s)
        BY <1>1, <1>14, <2>2, <4>1
      <4>3. t[Len(t)] = s[Len(s)]
        BY <1>1, <1>14, <4>1
      <4>4. CASE j = n - 1
        <5>1. j + 1 = n
          BY <1>1, <4>4
        <5> QED
          BY <1>14, <4>1, <4>2, <4>3, <4>4, <5>1
      <4>5. CASE j # n - 1
        <5>1. j + 1 < n /\ j + 1 \in DOMAIN s
          BY <1>1, <2>2, <4>1, <4>5
        <5> QED
          BY <1>14, <4>1, <4>2, <4>3, <4>5, <5>1
      <4> QED
        BY <4>4, <4>5
    <3>2. s[j] \in Items /\ s[j] # i /\ s[j] # x /\ (s[j] = b <=> j = n - 1)
      BY <1>1, <1>3, <2>2, <3>1 DEF x
    <3>3. g4.item[s[j]].next = t[j + 1]
      BY <1>2, <1>5, <1>6, <1>7, <1>8, <3>1, <3>2
    <3>4. g4.item[s[j]].prev = h.item[s[j]].prev
      BY <1>5, <1>6, <1>7, <1>8, <3>2
    <3>5. j > 1 => t[j - 1] = s[j - 1] /\ j # 1
      BY <1>1, <2>2, <3>1
    <3> QED
      BY <1>2, <3>1, <3>3, <3>4, <3>5
  <2>3. CASE j > n
    <3>1. /\ j - 1 \in DOMAIN s /\ t[j] = s[j - 1] /\ (j = Len(t) <=> j - 1 = Len(s))
          /\ j # Len(t) => t[j + 1] = s[j]
          /\ j > 1 /\ j # 1 /\ (j - 1) + 1 = j
          /\ t[j - 1] = IF j = n + 1 THEN i ELSE s[j - 2]
      <4>1. /\ j - 1 \in DOMAIN s /\ j \in Int /\ j - 1 >= n /\ (j - 1) + 1 = j
            /\ j > 1 /\ j # 1 /\ (j = Len(t) <=> j - 1 = Len(s))
        BY <1>1, <2>3
      <4>2. t[j] = s[j - 1]
        BY <1>14, <4>1
      <4>3. j # Len(t) => t[j + 1] = s[j]
        <5>1. j # Len(t) => j \in DOMAIN s /\ j >= n
          BY <1>1, <4>1
        <5> QED
          BY <1>14, <5>1
      <4>4. CASE j = n + 1
        <5>1. j - 1 = n
          BY <1>1, <4>4
        <5> QED
          BY <1>14, <4>1, <4>2, <4>3, <4>4, <5>1
      <4>5. CASE j # n + 1
        <5>1. j - 2 >= n /\ j - 2 \in DOMAIN s /\ (j - 2) + 1 = j - 1
          BY <1>1, <2>3, <4>1, <4>5
        <5>2. t[(j - 2) + 1] = s[j - 2]
          BY <1>14, <5>1
        <5> QED
          BY <4>1, <4>2, <4>3, <4>5, <5>1, <5>2
      <4> QED
        BY <4>4, <4>5
    <3>2. s[j - 1] \in Items /\ s[j - 1] # i /\ (s[j - 1] = x <=> j = n + 1)
      BY <1>1, <2>3, <3>1 DEF x
    <3>3. n # 1 => s[j - 1] # b
      <4>1. n # 1 => n - 1 # j - 1
        BY <1>1, <2>3
      <4> QED
        BY <1>1, <1>3, <3>1, <4>1
    <3>4. g4.item[s[j - 1]].next = h.item[s[j - 1]].next
      BY <1>5, <1>6, <1>7, <1>8, <3>2, <3>3
    <3>5. g4.item[s[j - 1]].prev = IF j = n + 1 THEN i ELSE h.item[s[j - 1]].prev
      BY <1>5, <1>6, <1>7, <1>8, <3>2
    <3>6. h.item[s[j - 1]].next = IF j = Len(t) THEN NULL ELSE t[j + 1]
      BY <1>2, <3>1
    <3>7. j # n + 1 => h.item[s[j - 1]].prev = s[j - 2]
      <4>1. j # n + 1 => j - 1 > 1 /\ (j - 1) - 1 = j - 2
        BY <1>1, <2>3
      <4> QED
        BY <1>2, <3>1, <4>1
    <3> QED
      BY <3>1, <3>4, <3>5, <3>6, <3>7
  <2> QED
    BY <1>1, <2>1, <2>2, <2>3
<1>16. ChildrenIn(g4, a, t, TRUE, TRUE)
  BY <1>1, <1>12, <1>13, <1>15 DEF ChildrenIn, ListIn
<1>17. cJSON_InsertItemInArray(h, a, which, i).heap = g4 /\ cJSON_InsertItemInArray(h, a, which, i).r = TRUE
  BY <1>4 DEF Result
<1> QED
  BY <1>11, <1>16, <1>17

LEMMA DetachFromList ==
  ASSUME NEW h \in HeapT, NEW a, NEW s, ListAt(a, s), ChildrenIn(h, a, s, TRUE, TRUE),
         NEW n \in DOMAIN s,
         NEW t \in Seq(Items), Len(t) = Len(s) - 1,
         \A j \in 1 .. Len(t) : t[j] = IF j < n THEN s[j] ELSE s[j + 1]
  PROVE  LET i == s[n]
             detached == cJSON_DetachItemViaPointer(h, a, i)
         IN detached.r = i /\ ListLeft(detached.heap, h, a, s, t, i)
<1> DEFINE i == s[n]
           nx == h.item[i].next
           pv == h.item[i].prev
           g1 == IF n = 1 THEN h ELSE Set(h, pv, "next", nx)
           g2 == IF nx = NULL THEN g1 ELSE Set(g1, nx, "prev", pv)
           g3 == IF n = 1 THEN Set(g2, a, "child", nx)
                 ELSE IF nx = NULL THEN Set(g2, s[1], "prev", pv) ELSE g2
           g4 == Set(g3, i, "prev", NULL)
           g5 == Set(g4, i, "next", NULL)
<1>1. /\ Len(s) \in Nat /\ DOMAIN s = 1 .. Len(s) /\ DOMAIN t = 1 .. Len(s) - 1 /\ a \in Items
      /\ \A j \in DOMAIN s : s[j] \in Items /\ s[j] # a /\ s[j] # NULL
      /\ \A j, k \in DOMAIN s : s[j] = s[k] => j = k
      /\ n \in Int /\ s # <<>> /\ 1 \in DOMAIN s /\ Len(s) \in DOMAIN s
  BY ListAtFacts
<1>2. /\ h.item[a].child = s[1] /\ h \in HeapT
      /\ \A j \in DOMAIN s :
           /\ h.item[s[j]].next = IF j = Len(s) THEN NULL ELSE s[j + 1]
           /\ j > 1 => h.item[s[j]].prev = s[j - 1]
           /\ j = 1 => h.item[s[j]].prev = s[Len(s)]
  BY <1>1 DEF ChildrenIn, ListIn
<1>3. /\ nx = IF n = Len(s) THEN NULL ELSE s[n + 1]
      /\ n # Len(s) => n + 1 \in DOMAIN s /\ nx \in Items /\ nx # NULL
      /\ n # 1 => n - 1 \in DOMAIN s /\ pv = s[n - 1]
      /\ n = 1 => pv = s[Len(s)]
  <2>1. n # 1 => n - 1 \in DOMAIN s /\ n > 1
    BY <1>1
  <2>2. n # Len(s) => n + 1 \in DOMAIN s
    BY <1>1
  <2> QED
    BY <1>1, <1>2, <2>1, <2>2
<1>4. i \in Items /\ i # NULL /\ i # a /\ pv \in Items
  BY <1>1, <1>3
<1>5. nx \in 0 .. Size /\ pv \in 0 .. Size /\ NULL \in 0 .. Size
  BY <1>3, <1>4, ItemsFacts
<1>6. /\ h.item[a].child = i <=> n = 1
      /\ nx = NULL <=> n = Len(s)
      /\ s[1] \in Items /\ s[1] # a
  BY <1>1, <1>2, <1>3
<1> HIDE DEF i, nx, pv
<1>7. Relinked(g1, h) /\ \A y \in Items :
        /\ g1.item[y].next = IF n # 1 /\ y = pv THEN nx ELSE h.item[y].next
        /\ g1.item[y].prev = h.item[y].prev /\ g1.item[y].child = h.item[y].child
        /\ y # pv => g1.item[y] = h.item[y]
  <2>1. CASE n = 1
    BY <2>1 DEF Relinked, SameValue
  <2>2. CASE n # 1
    BY <1>4, <1>5, <2>2, SetNext, SMTT(30)
  <2> QED
    BY <2>1, <2>2
<1>8. Unlinked(h, a, i) = g3
  <2>1. nx = NULL /\ n # 1 => g2.item[a].child = s[1]
    BY <1>1, <1>2, <1>7
  <2>2. /\ g1 = IF h.item[a].child = i THEN h ELSE Set(h, h.item[i].prev, "next", h.item[i].next)
        /\ g2 = IF h.item[i].next = NULL THEN g1 ELSE Set(g1, h.item[i].next, "prev", h.item[i].prev)
    BY <1>6 DEF nx, pv
  <2> HIDE DEF g1, g2
  <2>3. g3 = IF h.item[a].child = i THEN Set(g2, a, "child", h.item[i].next)
             ELSE IF h.item[i].next = NULL THEN Set(g2, g2.item[a].child, "prev", h.item[i].prev)
             ELSE g2
    BY <1>6, <2>1 DEF nx, pv
  <2> QED
    BY <2>2, <2>3 DEF Unlinked
<1> HIDE DEF g1
<1>9. Relinked(g2, g1) /\ \A y \in Items :
        /\ g2.item[y].prev = IF y = nx THEN pv ELSE g1.item[y].prev
        /\ g2.item[y].next = g1.item[y].next /\ g2.item[y].child = g1.item[y].child
        /\ y # nx => g2.item[y] = g1.item[y]
  <2>1. g1 \in HeapT
    BY <1>7, FromRelinked
  <2>2. CASE nx = NULL
    <3>1. Relinked(g1, g1)
      BY <2>1 DEF Relinked, SameValue
    <3>2. NULL \notin Items
      BY ItemsFacts
    <3> QED
      BY <2>2, <3>1, <3>2
  <2>3. CASE nx # NULL
    BY <1>3, <1>5, <2>1, <2>3, SetPrev
  <2> QED
    BY <2>2, <2>3
<1> HIDE DEF g2
<1>10. Relinked(g3, g2) /\ \A y \in Items :
        /\ g3.item[y].child = IF n = 1 /\ y = a THEN nx ELSE g2.item[y].child
        /\ g3.item[y].prev = IF n # 1 /\ nx = NULL /\ y = s[1] THEN pv ELSE g2.item[y].prev
        /\ g3.item[y].next = g2.item[y].next
        /\ y # a /\ y # s[1] => g3.item[y] = g2.item[y]
  <2>1. g2 \in HeapT
    BY <1>9, FromRelinked
  <2>2. CASE n = 1
    BY <1>1, <1>5, <2>1, <2>2, SetChild
  <2>3. CASE n # 1 /\ nx = NULL
    BY <1>5, <1>6, <2>1, <2>3, SetPrev
  <2>4. CASE n # 1 /\ nx # NULL
    BY <2>1, <2>4 DEF Relinked, SameValue
  <2> QED
    BY <2>2, <2>3, <2>4
<1> HIDE DEF g3
<1>11. Relinked(g4, g3) /\ \A y \in Items :
        /\ g4.item[y].prev = IF y = i THEN NULL ELSE g3.item[y].prev
        /\ g4.item[y].next = g3.item[y].next /\ g4.item[y].child = g3.item[y].child
        /\ y # i => g4.item[y] = g3.item[y]
  <2>1. g3 \in HeapT /\ NULL \in 0 .. Size /\ i \in Items
    BY <1>4, <1>5, <1>10, FromRelinked
  <2> QED
    BY <2>1, SetPrev
<1> HIDE DEF g4
<1>12. Relinked(g5, g4) /\ \A y \in Items :
        /\ g5.item[y].next = IF y = i THEN NULL ELSE g4.item[y].next
        /\ g5.item[y].prev = g4.item[y].prev /\ g5.item[y].child = g4.item[y].child
        /\ y # i => g5.item[y] = g4.item[y]
  BY <1>4, <1>5, <1>11, SetNext, FromRelinked
<1>13. cJSON_DetachItemViaPointer(h, a, i) = Result(g5, i)
  BY <1>4, <1>8 DEF cJSON_DetachItemViaPointer, g4
<1> HIDE DEF g5
<1>14. Relinked(g5, h)
  BY <1>7, <1>9, <1>10, <1>11, <1>12, RelinkedTwice
<1>15. /\ InList(s, i) /\ InList(s, pv) /\ InList(s, s[1])
       /\ nx # NULL => InList(s, nx)
  BY <1>1, <1>3, <1>6 DEF InList, i
<1>16. ListStep(g5, h, a, s, t)
  <2>1. ASSUME NEW y \in Items
        PROVE  /\ InList(s, y) \/ InList(t, y) \/
                    (g5.item[y].next = h.item[y].next /\ g5.item[y].prev = h.item[y].prev)
               /\ y # a => g5.item[y].child = h.item[y].child
               /\ InList(s, y) \/ InList(t, y) \/ y = a \/ g5.item[y] = h.item[y]
    <3>0. y # NULL
      BY ItemsFacts
    <3>1. CASE y = i \/ y = pv \/ y = nx \/ y = s[1]
      BY <1>7, <1>9, <1>10, <1>11, <1>12, <1>15, <3>0, <3>1
    <3>2. CASE y # i /\ y # pv /\ y # nx /\ y # s[1]
      BY <1>7, <1>9, <1>10, <1>11, <1>12, <3>2
    <3> QED
      BY <3>1, <3>2
  <2> QED
    BY <1>14, <2>1 DEF ListStep
<1>17. ~g5.item[a].ref
  BY <1>1, <1>14, RelinkedRef DEF ChildrenIn
<1>18. /\ t = <<>> <=> Len(s) = 1
       /\ t # <<>> => t[1] = IF n = 1 THEN s[2] ELSE s[1]
  <2>1. t = <<>> <=> Len(t) = 0
    OBVIOUS
  <2>2. t = <<>> <=> Len(s) = 1
    BY <1>1, <2>1
  <2>3. t # <<>> => 1 \in 1 .. Len(t)
    BY <1>1, <2>2
  <2>4. t # <<>> => t[1] = IF 1 < n THEN s[1] ELSE s[2]
    BY <2>3
  <2>5. 1 < n <=> n # 1
    BY <1>1
  <2> QED
    BY <2>2, <2>4, <2>5
<1>19. g5.item[a].child = IF t = <<>> THEN NULL ELSE t[1]
  <2>1. g5.item[a].child = IF n = 1 THEN nx ELSE s[1]
    BY <1>1, <1>2, <1>7, <1>9, <1>10, <1>11, <1>12
  <2>2. n # 1 => Len(s) # 1
    BY <1>1
  <2> QED
    BY <1>3, <1>18, <2>1, <2>2
<1>20. ASSUME NEW j \in DOMAIN t
       PROVE  /\ g5.item[t[j]].next = IF j = Len(t) THEN NULL ELSE t[j + 1]
              /\ j > 1 => g5.item[t[j]].prev = t[j - 1]
              /\ j = 1 => g5.item[t[j]].prev = t[Len(t)]
  <2> DEFINE m == IF j < n THEN j ELSE j + 1
  <2>1. /\ m \in DOMAIN s /\ m # n /\ t[j] = s[m] /\ j \in Int /\ m \in Int
        /\ Len(t) \in DOMAIN t /\ Len(s) > 1
    BY <1>1
  <2>2. t[Len(t)] = IF n = Len(s) THEN s[Len(s) - 1] ELSE s[Len(s)]
    <3>1. Len(t) = Len(s) - 1 /\ (Len(t) < n <=> n = Len(s)) /\ Len(t) + 1 = Len(s)
      BY <1>1
    <3>2. t[Len(t)] = IF Len(t) < n THEN s[Len(t)] ELSE s[Len(t) + 1]
      BY <1>1, <2>1
    <3> QED
      BY <3>1, <3>2
  <2>3. j # Len(t) => t[j + 1] = IF j + 1 < n THEN s[j + 1] ELSE s[j + 2]
    <3>1. j # Len(t) => j + 1 \in 1 .. Len(t) /\ (j + 1) + 1 = j + 2
      BY <1>1
    <3> QED
      BY <3>1
  <2>4. j > 1 => t[j - 1] = IF j - 1 < n THEN s[j - 1] ELSE s[j]
    <3>1. j > 1 => j - 1 \in 1 .. Len(t) /\ (j - 1) + 1 = j
      BY <1>1
    <3> QED
      BY <3>1
  <2>5. /\ s[m] \in Items /\ s[m] # i /\ s[m] # NULL
        /\ n # 1 => (s[m] = pv <=> m = n - 1)
        /\ n # Len(s) => (s[m] = nx <=> m = n + 1)
        /\ s[m] = s[1] <=> m = 1
    BY <1>1, <1>3, <2>1 DEF i
  <2>6. g5.item[s[m]].next = IF n # 1 /\ m = n - 1 THEN nx ELSE h.item[s[m]].next
    BY <1>7, <1>9, <1>10, <1>11, <1>12, <2>5, SMTT(30)
  <2>7. g5.item[s[m]].prev = IF n # 1 /\ n = Len(s) /\ m = 1 THEN pv
                             ELSE IF n # Len(s) /\ m = n + 1 THEN pv ELSE h.item[s[m]].prev
    BY <1>6, <1>7, <1>9, <1>10, <1>11, <1>12, <2>5, SMTT(30)
  <2>8. /\ h.item[s[m]].next = IF m = Len(s) THEN NULL ELSE s[m + 1]
        /\ m > 1 => h.item[s[m]].prev = s[m - 1]
        /\ m = 1 => h.item[s[m]].prev = s[Len(s)]
    BY <1>2, <2>1
  <2>9. g5.item[t[j]].next = IF j = Len(t) THEN NULL ELSE t[j + 1]
    <3>1. CASE j < n - 1
      <4>1. m = j /\ j # Len(t) /\ j + 1 < n /\ m # Len(s) /\ m # n - 1
        BY <1>1, <2>1, <3>1
      <4> QED
        BY <2>1, <2>3, <2>6, <2>8, <4>1
    <3>2. CASE j = n - 1
      <4>1. m = j /\ n # 1 /\ (j = Len(t) <=> n = Len(s)) /\ ~(j + 1 < n) /\ j + 2 = n + 1
        BY <1>1, <2>1, <3>2
      <4> QED
        BY <1>3, <2>1, <2>3, <2>6, <3>2, <4>1
    <3>3. CASE j > n - 1
      <4>1. m = j + 1 /\ m # n - 1 /\ (j = Len(t) <=> m = Len(s)) /\ ~(j + 1 < n) /\ m + 1 = j + 2
        BY <1>1, <2>1, <3>3
      <4> QED
        BY <2>1, <2>3, <2>6, <2>8, <4>1
    <3> QED
      BY <1>1, <2>1, <3>1, <3>2, <3>3
  <2>10. j > 1 => g5.item[t[j]].prev = t[j - 1]
    <3> SUFFICES ASSUME j > 1
                 PROVE  g5.item[s[m]].prev = t[j - 1]
      BY <2>1
    <3>1. CASE j < n
      <4>1. m = j /\ j - 1 < n /\ m # 1 /\ m > 1 /\ m # n + 1
        BY <1>1, <2>1, <3>1
      <4> QED
        BY <2>4, <2>7, <2>8, <4>1
    <3>2. CASE j = n
      <4>1. m = n + 1 /\ j - 1 < n /\ n # Len(s) /\ n # 1
        BY <1>1, <2>1, <3>2
      <4> QED
        BY <1>3, <2>4, <2>7, <3>2, <4>1
    <3>3. CASE j > n
      <4>1. m = j + 1 /\ ~(j - 1 < n) /\ m > 1 /\ m # 1 /\ m # n + 1 /\ m - 1 = j
        BY <1>1, <2>1, <3>3
      <4> QED
        BY <2>4, <2>7, <2>8, <4>1
    <3> QED
      BY <1>1, <2>1, <3>1, <3>2, <3>3
  <2>11. j = 1 => g5.item[t[j]].prev = t[Len(t)]
    <3> SUFFICES ASSUME j = 1
                 PROVE  g5.item[s[m]].prev = t[Len(t)]
      BY <2>1
    <3>1. CASE n = 1
      <4>1. m = 2 /\ m = n + 1 /\ n # Len(s)
        BY <1>1, <2>1, <3>1
      <4> QED
        BY <1>3, <2>2, <2>7, <3>1, <4>1
    <3>2. CASE n # 1 /\ n = Len(s)
      <4>1. m = 1
        BY <1>1, <2>1, <3>2
      <4> QED
        BY <1>3, <2>2, <2>7, <3>2, <4>1
    <3>3. CASE n # 1 /\ n # Len(s)
      <4>1. m = 1 /\ m # n + 1
        BY <1>1, <2>1, <3>3
      <4> QED
        BY <2>2, <2>7, <2>8, <3>3, <4>1
    <3> QED
      BY <3>1, <3>2, <3>3
  <2> QED
    BY <2>9, <2>10, <2>11
<1>21. ChildrenIn(g5, a, t, TRUE, TRUE)
  BY <1>17, <1>19, <1>20 DEF ChildrenIn, ListIn
<1>22. g5.item[i].next = NULL
  BY <1>4, <1>12
<1>23. /\ cJSON_DetachItemViaPointer(h, a, i).heap = g5
       /\ cJSON_DetachItemViaPointer(h, a, i).r = i
  BY <1>13 DEF Result
<1> QED
  BY <1>16, <1>21, <1>22, <1>23 DEF i, ListLeft

OneChanged(s, t, n, new) ==
  Len(t) = Len(s) /\ \A j \in 1 .. Len(t) : t[j] = IF j = n THEN new ELSE s[j]

LEMMA ReplaceInList ==
  ASSUME NEW h \in HeapT, NEW a, NEW s, ListAt(a, s), ChildrenIn(h, a, s, TRUE, TRUE),
         NEW n \in DOMAIN s, NEW new \in Items, new # a, ~InList(s, new),
         NEW t \in Seq(Items), OneChanged(s, t, n, new)
  PROVE  LET i == s[n]
             g == Set(Set(Replaced(h, a, i, new), i, "next", NULL), i, "prev", NULL)
         IN ListLeft(g, h, a, s, t, i)
<1> DEFINE i == s[n]
           nx == h.item[i].next
           pv == h.item[i].prev
           g1 == Set(h, new, "next", nx)
           g2 == Set(g1, new, "prev", pv)
           g3 == IF nx = NULL THEN g2 ELSE Set(g2, nx, "prev", new)
           g4 == IF n = 1 THEN (IF pv = i THEN Set(g3, new, "prev", new) ELSE g3)
                 ELSE Set(g3, pv, "next", new)
           g5 == IF n = 1 THEN Set(g4, a, "child", new)
                 ELSE IF nx = NULL THEN Set(g4, s[1], "prev", new) ELSE g4
           g6 == Set(g5, i, "next", NULL)
           g7 == Set(g6, i, "prev", NULL)
<1>1. /\ Len(s) \in Nat /\ DOMAIN s = 1 .. Len(s) /\ a \in Items
      /\ \A j \in DOMAIN s : s[j] \in Items /\ s[j] # a /\ s[j] # NULL /\ s[j] # new
      /\ \A j, k \in DOMAIN s : s[j] = s[k] => j = k
      /\ n \in Int /\ s # <<>> /\ 1 \in DOMAIN s /\ Len(s) \in DOMAIN s
  BY ListAtFacts DEF InList
<1>0. /\ Len(t) = Len(s) /\ DOMAIN t = DOMAIN s /\ t # <<>>
      /\ \A j \in DOMAIN s : t[j] = IF j = n THEN new ELSE s[j]
  <2>1. DOMAIN t = DOMAIN s /\ \A j \in DOMAIN s : t[j] = IF j = n THEN new ELSE s[j]
    BY <1>1 DEF OneChanged
  <2>2. t # <<>>
    BY <1>1, <2>1
  <2> QED
    BY <2>1, <2>2 DEF OneChanged
<1>2. /\ h.item[a].child = s[1] /\ h \in HeapT
      /\ \A j \in DOMAIN s :
           /\ h.item[s[j]].next = IF j = Len(s) THEN NULL ELSE s[j + 1]
           /\ j > 1 => h.item[s[j]].prev = s[j - 1]
           /\ j = 1 => h.item[s[j]].prev = s[Len(s)]
  BY <1>1 DEF ChildrenIn, ListIn
<1>3. /\ nx = IF n = Len(s) THEN NULL ELSE s[n + 1]
      /\ n # Len(s) => n + 1 \in DOMAIN s /\ nx \in Items /\ nx # NULL
      /\ n # 1 => n - 1 \in DOMAIN s /\ pv = s[n - 1]
      /\ n = 1 => pv = s[Len(s)]
  <2>1. n # 1 => n - 1 \in DOMAIN s /\ n > 1
    BY <1>1
  <2>2. n # Len(s) => n + 1 \in DOMAIN s
    BY <1>1
  <2> QED
    BY <1>1, <1>2, <2>1, <2>2
<1>4. /\ i \in Items /\ i # NULL /\ i # a /\ i # new /\ pv \in Items /\ pv # new /\ nx # new
      /\ s[1] \in Items /\ s[1] # a /\ s[1] # new
  <2>1. new # NULL
    BY ItemsFacts
  <2> QED
    BY <1>1, <1>3, <2>1
<1>5. nx \in 0 .. Size /\ pv \in 0 .. Size /\ NULL \in 0 .. Size /\ new \in 0 .. Size
  BY <1>3, <1>4, ItemsFacts
<1>6. /\ h.item[a].child = i <=> n = 1
      /\ nx = NULL <=> n = Len(s)
      /\ pv = i <=> Len(s) = 1
      /\ n = 1 /\ pv = i => nx = NULL
  <2>1. pv = i <=> Len(s) = 1
    <3>1. CASE n = 1
      BY <1>1, <1>3, <3>1
    <3>2. CASE n # 1
      <4>1. n - 1 # n /\ Len(s) # 1
        BY <1>1, <3>2
      <4> QED
        BY <1>1, <1>3, <3>2, <4>1
    <3> QED
      BY <3>1, <3>2
  <2> QED
    BY <1>1, <1>2, <1>3, <2>1
<1> HIDE DEF i, nx, pv
<1>7. Relinked(g1, h) /\ \A y \in Items :
        /\ g1.item[y].next = IF y = new THEN nx ELSE h.item[y].next
        /\ g1.item[y].prev = h.item[y].prev /\ g1.item[y].child = h.item[y].child
        /\ y # new => g1.item[y] = h.item[y]
  BY <1>5, SetNext
<1>8. g1 \in HeapT
  BY <1>7, FromRelinked
<1>9. Relinked(g2, g1) /\ \A y \in Items :
        /\ g2.item[y].prev = IF y = new THEN pv ELSE g1.item[y].prev
        /\ g2.item[y].next = g1.item[y].next /\ g2.item[y].child = g1.item[y].child
        /\ y # new => g2.item[y] = g1.item[y]
  <2> HIDE DEF g1
  <2> QED
    BY <1>5, <1>8, SetPrev
<1>10. g2 \in HeapT
  BY <1>9, FromRelinked
<1>11. Replaced(h, a, i, new) = g5
  <2>1. g3 = IF h.item[i].next = NULL THEN Set(Set(h, new, "next", h.item[i].next), new, "prev", h.item[i].prev)
             ELSE Set(Set(Set(h, new, "next", h.item[i].next), new, "prev", h.item[i].prev),
                      h.item[i].next, "prev", new)
    BY DEF nx, pv
  <2>2. g3.item[a].child = s[1]
    <3>1. g2.item[a].child = s[1]
      BY <1>1, <1>2, <1>7, <1>9
    <3> HIDE DEF g2
    <3>2. nx # NULL => Set(g2, nx, "prev", new).item[a].child = g2.item[a].child
      <4> SUFFICES ASSUME nx # NULL
                   PROVE  Set(g2, nx, "prev", new).item[a].child = g2.item[a].child
        OBVIOUS
      <4>1. nx \in Items /\ new \in 0 .. Size /\ a \in Items
        BY <1>1, <1>3, <1>5, <1>6
      <4> QED
        BY <1>10, <4>1, SetPrev
    <3> QED
      BY <3>1, <3>2
  <2> HIDE DEF g3
  <2>3. g5 = IF h.item[a].child = i
             THEN Set(IF h.item[i].prev = i THEN Set(g3, new, "prev", new) ELSE g3, a, "child", new)
             ELSE IF h.item[i].next = NULL
             THEN Set(Set(g3, h.item[i].prev, "next", new), g3.item[a].child, "prev", new)
             ELSE Set(g3, h.item[i].prev, "next", new)
    BY <1>6, <2>2 DEF nx, pv
  <2> HIDE DEF g5
  <2> QED
    BY <2>1, <2>3 DEF Replaced
<1> HIDE DEF g1, g2
<1>12. Relinked(g3, g2) /\ \A y \in Items :
        /\ g3.item[y].prev = IF y = nx THEN new ELSE g2.item[y].prev
        /\ g3.item[y].next = g2.item[y].next /\ g3.item[y].child = g2.item[y].child
        /\ y # nx => g3.item[y] = g2.item[y]
  <2>1. CASE nx = NULL
    <3>1. Relinked(g2, g2)
      BY <1>10 DEF Relinked, SameValue
    <3>2. NULL \notin Items
      BY ItemsFacts
    <3> QED
      BY <2>1, <3>1, <3>2
  <2>2. CASE nx # NULL
    BY <1>3, <1>5, <1>10, <2>2, SetPrev
  <2> QED
    BY <2>1, <2>2
<1>13. g3 \in HeapT
  BY <1>12, FromRelinked
<1> HIDE DEF g3
<1>14. Relinked(g4, g3) /\ \A y \in Items :
        /\ g4.item[y].prev = IF n = 1 /\ pv = i /\ y = new THEN new ELSE g3.item[y].prev
        /\ g4.item[y].next = IF n # 1 /\ y = pv THEN new ELSE g3.item[y].next
        /\ g4.item[y].child = g3.item[y].child
        /\ y # new /\ y # pv => g4.item[y] = g3.item[y]
  <2>1. CASE n = 1 /\ pv = i
    BY <1>5, <1>13, <2>1, SetPrev
  <2>2. CASE n = 1 /\ pv # i
    BY <1>13, <2>2 DEF Relinked, SameValue
  <2>3. CASE n # 1
    BY <1>4, <1>5, <1>13, <2>3, SetNext
  <2> QED
    BY <2>1, <2>2, <2>3
<1>15. g4 \in HeapT
  BY <1>14, FromRelinked
<1> HIDE DEF g4
<1>16. Relinked(g5, g4) /\ \A y \in Items :
        /\ g5.item[y].child = IF n = 1 /\ y = a THEN new ELSE g4.item[y].child
        /\ g5.item[y].prev = IF n # 1 /\ nx = NULL /\ y = s[1] THEN new ELSE g4.item[y].prev
        /\ g5.item[y].next = g4.item[y].next
        /\ y # a /\ y # s[1] => g5.item[y] = g4.item[y]
  <2>2. CASE n = 1
    BY <1>1, <1>5, <1>15, <2>2, SetChild
  <2>3. CASE n # 1 /\ nx = NULL
    <3>1. g5 = Set(g4, s[1], "prev", new)
      BY <2>3
    <3>2. s[1] \in Items /\ new \in 0 .. Size
      BY <1>4, <1>5
    <3> HIDE DEF g5
    <3> QED
      BY <1>4, <1>15, <2>3, <3>1, <3>2, SetPrev
  <2>4. CASE n # 1 /\ nx # NULL
    BY <1>15, <2>4 DEF Relinked, SameValue
  <2> QED
    BY <2>2, <2>3, <2>4
<1>17. g5 \in HeapT
  BY <1>16, FromRelinked
<1> HIDE DEF g5
<1>18. Relinked(g6, g5) /\ \A y \in Items :
        /\ g6.item[y].next = IF y = i THEN NULL ELSE g5.item[y].next
        /\ g6.item[y].prev = g5.item[y].prev /\ g6.item[y].child = g5.item[y].child
        /\ y # i => g6.item[y] = g5.item[y]
  BY <1>4, <1>5, <1>17, SetNext
<1>19. g6 \in HeapT
  BY <1>18, FromRelinked
<1>20. Set(Set(Replaced(h, a, i, new), i, "next", NULL), i, "prev", NULL) = g7
  BY <1>11
<1> HIDE DEF g6
<1>21. Relinked(g7, g6) /\ \A y \in Items :
        /\ g7.item[y].prev = IF y = i THEN NULL ELSE g6.item[y].prev
        /\ g7.item[y].next = g6.item[y].next /\ g7.item[y].child = g6.item[y].child
        /\ y # i => g7.item[y] = g6.item[y]
  BY <1>4, <1>5, <1>19, SetPrev
<1> HIDE DEF g7
<1>22. Relinked(g7, h)
  BY <1>7, <1>9, <1>12, <1>14, <1>16, <1>18, <1>21, RelinkedTwice
<1>23. /\ InList(s, i) /\ InList(s, pv) /\ InList(s, s[1]) /\ InList(t, new)
       /\ nx # NULL => InList(s, nx)
  BY <1>0, <1>1, <1>3 DEF InList, i
<1>24. ListStep(g7, h, a, s, t)
  <2>1. ASSUME NEW y \in Items
        PROVE  /\ InList(s, y) \/ InList(t, y) \/
                    (g7.item[y].next = h.item[y].next /\ g7.item[y].prev = h.item[y].prev)
               /\ y # a => g7.item[y].child = h.item[y].child
               /\ InList(s, y) \/ InList(t, y) \/ y = a \/ g7.item[y] = h.item[y]
    <3>0. y # NULL
      BY ItemsFacts
    <3>1. CASE y = i \/ y = pv \/ y = nx \/ y = s[1] \/ y = new
      BY <1>7, <1>9, <1>12, <1>14, <1>16, <1>18, <1>21, <1>23, <3>0, <3>1
    <3>2. CASE y # i /\ y # pv /\ y # nx /\ y # s[1] /\ y # new
      BY <1>7, <1>9, <1>12, <1>14, <1>16, <1>18, <1>21, <3>2
    <3> QED
      BY <3>1, <3>2
  <2> QED
    BY <1>22, <2>1 DEF ListStep
<1>25. ~g7.item[a].ref
  BY <1>1, <1>22, RelinkedRef DEF ChildrenIn
<1>26. g7.item[a].child = t[1]
  <2>1. g7.item[a].child = IF n = 1 THEN new ELSE s[1]
    BY <1>1, <1>2, <1>7, <1>9, <1>12, <1>14, <1>16, <1>18, <1>21
  <2> QED
    BY <1>0, <1>1, <2>1
<1>27. /\ g7.item[new].next = nx
       /\ g7.item[new].prev = IF n = 1 /\ pv = i THEN new ELSE pv
  BY <1>4, <1>7, <1>9, <1>12, <1>14, <1>16, <1>18, <1>21
<1>28. ASSUME NEW j \in DOMAIN s, j # n
       PROVE  /\ g7.item[s[j]].next = IF n # 1 /\ j = n - 1 THEN new ELSE h.item[s[j]].next
              /\ g7.item[s[j]].prev = IF n # 1 /\ n = Len(s) /\ j = 1 THEN new
                                      ELSE IF n # Len(s) /\ j = n + 1 THEN new ELSE h.item[s[j]].prev
  <2>1. /\ s[j] \in Items /\ s[j] # new /\ s[j] # i /\ s[j] # NULL
        /\ n # 1 => (s[j] = pv <=> j = n - 1)
        /\ n # Len(s) => (s[j] = nx <=> j = n + 1)
        /\ s[j] = s[1] <=> j = 1
    BY <1>1, <1>3, <1>28 DEF i
  <2>2. g7.item[s[j]].next = IF n # 1 /\ j = n - 1 THEN new ELSE h.item[s[j]].next
    BY <1>7, <1>9, <1>12, <1>14, <1>16, <1>18, <1>21, <2>1
  <2>3. g7.item[s[j]].prev = IF n # 1 /\ n = Len(s) /\ j = 1 THEN new
                             ELSE IF n # Len(s) /\ j = n + 1 THEN new ELSE h.item[s[j]].prev
    BY <1>6, <1>7, <1>9, <1>12, <1>14, <1>16, <1>18, <1>21, <2>1
  <2> QED
    BY <2>2, <2>3
<1>29. ASSUME NEW j \in DOMAIN t
       PROVE  /\ g7.item[t[j]].next = IF j = Len(t) THEN NULL ELSE t[j + 1]
              /\ j > 1 => g7.item[t[j]].prev = t[j - 1]
              /\ j = 1 => g7.item[t[j]].prev = t[Len(t)]
  <2>1. /\ j \in DOMAIN s /\ j \in Int
        /\ j # Len(s) => j + 1 \in DOMAIN s
        /\ j > 1 => j - 1 \in DOMAIN s /\ j - 1 # j
        /\ j + 1 # j /\ 1 \in DOMAIN s
    BY <1>0, <1>1
  <2>2. /\ h.item[s[j]].next = IF j = Len(s) THEN NULL ELSE s[j + 1]
        /\ j > 1 => h.item[s[j]].prev = s[j - 1]
        /\ j = 1 => h.item[s[j]].prev = s[Len(s)]
    BY <1>2, <2>1
  <2>3. CASE j = n
    <3>1. t[j] = new /\ (j # Len(s) => t[j + 1] = s[n + 1])
      BY <1>0, <2>1, <2>3
    <3>2. j > 1 => t[j - 1] = s[n - 1] /\ n # 1 /\ ~(n = 1)
      BY <1>0, <1>1, <2>1, <2>3
    <3>3. j = 1 => g7.item[t[j]].prev = t[Len(t)]
      BY <1>0, <1>1, <1>3, <1>6, <1>27, <2>3, <3>1
    <3> QED
      BY <1>0, <1>3, <1>27, <2>3, <3>1, <3>2, <3>3
  <2>4. CASE j # n
    <3>1. t[j] = s[j] /\ (j # Len(s) => t[j + 1] = IF j + 1 = n THEN new ELSE s[j + 1])
      BY <1>0, <2>1, <2>4
    <3>2. j > 1 => t[j - 1] = IF j - 1 = n THEN new ELSE s[j - 1]
      BY <1>0, <2>1
    <3>3. t[Len(t)] = IF n = Len(s) THEN new ELSE s[Len(s)]
      BY <1>0, <1>1
    <3>4. g7.item[s[j]].next = IF j = Len(s) THEN NULL ELSE t[j + 1]
      <4>1. (j + 1 = n <=> j = n - 1) /\ (j + 1 = n => j # Len(s) /\ n # 1)
        BY <1>1, <2>1
      <4> QED
        BY <1>28, <2>1, <2>2, <2>4, <3>1, <4>1
    <3>5. j > 1 => g7.item[s[j]].prev = t[j - 1]
      <4>1. (j - 1 = n <=> j = n + 1) /\ (j - 1 = n => n # Len(s)) /\ (j > 1 => j # 1)
        BY <1>1, <2>1
      <4> QED
        BY <1>28, <2>1, <2>2, <2>4, <3>2, <4>1
    <3>6. j = 1 => g7.item[s[j]].prev = t[Len(t)]
      <4>1. j = 1 => j # n + 1 /\ n # 1
        BY <1>1, <2>4
      <4> QED
        BY <1>28, <2>1, <2>2, <2>4, <3>3, <4>1
    <3> QED
      BY <1>0, <3>1, <3>4, <3>5, <3>6
  <2> QED
    BY <2>3, <2>4
<1>30. ChildrenIn(g7, a, t, TRUE, TRUE)
  BY <1>0, <1>25, <1>26, <1>29 DEF ChildrenIn, ListIn
<1>31. g7.item[i].next = NULL
  BY <1>4, <1>18, <1>21
<1> QED
  BY <1>20, <1>24, <1>30, <1>31 DEF i, ListLeft

\* The item i becomes the last of a list whose first does not know it yet.
LEMMA LinkAfterLast ==
  ASSUME NEW h \in HeapT, NEW a, NEW s, ListAt(a, s), s # <<>>, NEW i \in Items, i # a, ~InList(s, i),
         h.item[i].next = NULL, NEW read \in BOOLEAN, ChildrenIn(h, a, s, read, FALSE),
         NEW t \in Seq(Items), Len(t) = Len(s) + 1,
         \A j \in 1 .. Len(t) : t[j] = IF j <= Len(s) THEN s[j] ELSE i
  PROVE  LET g == suffix_object(h, s[Len(s)], i) IN
         ListStep(g, h, a, s, t) /\ ChildrenIn(g, a, t, read, FALSE)
<1> DEFINE l == s[Len(s)]
           g1 == Set(h, l, "next", i)
           g2 == Set(g1, i, "prev", l)
<1>1. /\ Len(s) \in Nat /\ DOMAIN s = 1 .. Len(s) /\ DOMAIN t = 1 .. Len(s) + 1 /\ a \in Items
      /\ \A j \in DOMAIN s : s[j] \in Items /\ s[j] # a /\ s[j] # NULL /\ s[j] # i
      /\ \A j, k \in DOMAIN s : s[j] = s[k] => j = k
      /\ i # NULL /\ t # <<>> /\ i \in 0 .. Size
      /\ 1 \in DOMAIN s /\ Len(s) \in DOMAIN s
  BY ListAtFacts, ItemsFacts DEF InList
<1>2. l \in Items /\ l # i /\ l # a /\ l # NULL
  BY <1>1
<1>3. l \in 0 .. Size
  BY <1>2, ItemsFacts
<1>4. suffix_object(h, l, i) = g2
  BY DEF suffix_object
<1> HIDE DEF l
<1>5. Relinked(g1, h) /\ \A x \in Items :
          /\ g1.item[x].next = IF x = l THEN i ELSE h.item[x].next
          /\ g1.item[x].prev = h.item[x].prev /\ g1.item[x].child = h.item[x].child
          /\ x # l => g1.item[x] = h.item[x]
  BY <1>1, <1>2, SetNext
<1>6. g1 \in HeapT
  BY <1>5, FromRelinked
<1> HIDE DEF g1
<1>7. Relinked(g2, g1) /\ \A x \in Items :
          /\ g2.item[x].prev = IF x = i THEN l ELSE g1.item[x].prev
          /\ g2.item[x].next = g1.item[x].next /\ g2.item[x].child = g1.item[x].child
          /\ x # i => g2.item[x] = g1.item[x]
  BY <1>3, <1>6, SetPrev
<1> HIDE DEF g2
<1>8. Relinked(g2, h)
  BY <1>5, <1>7, RelinkedTwice
<1>9. /\ \A j \in DOMAIN s : t[j] = s[j] /\ j \in DOMAIN t
      /\ t[Len(s) + 1] = i /\ Len(s) + 1 \in DOMAIN t
  BY <1>1
<1>10. InList(s, l) /\ InList(t, i)
  BY <1>1, <1>9 DEF InList, l
<1>11. ListStep(g2, h, a, s, t)
  <2>1. ASSUME NEW x \in Items
        PROVE  /\ InList(s, x) \/ InList(t, x) \/
                    (g2.item[x].next = h.item[x].next /\ g2.item[x].prev = h.item[x].prev)
               /\ g2.item[x].child = h.item[x].child
               /\ InList(s, x) \/ InList(t, x) \/ g2.item[x] = h.item[x]
    <3>1. CASE x = l \/ x = i
      BY <1>5, <1>7, <1>10, <3>1
    <3>2. CASE x # l /\ x # i
      BY <1>5, <1>7, <3>2
    <3> QED
      BY <3>1, <3>2
  <2> QED
    BY <1>8, <2>1 DEF ListStep
<1>12. ~g2.item[a].ref
  BY <1>1, <1>8, RelinkedRef DEF ChildrenIn
<1>13. g2.item[a].child = IF ~read THEN NULL ELSE t[1]
  <2>1. h.item[a].child = IF ~read THEN NULL ELSE s[1]
    BY DEF ChildrenIn
  <2> QED
    BY <1>1, <1>5, <1>7, <1>9, <2>1
<1>14. ASSUME NEW j \in DOMAIN t
       PROVE  /\ g2.item[t[j]].next = IF j = Len(t) THEN NULL ELSE t[j + 1]
              /\ j > 1 => g2.item[t[j]].prev = t[j - 1]
  <2>1. CASE j = Len(s) + 1
    <3>1. j > 1 /\ j - 1 = Len(s) /\ t[j] = i /\ t[j - 1] = l /\ j = Len(t)
      BY <1>1, <1>9, <2>1 DEF l
    <3> QED
      BY <1>2, <1>5, <1>7, <3>1
  <2>2. CASE j # Len(s) + 1
    <3>1. j \in DOMAIN s /\ t[j] = s[j] /\ j # Len(t) /\ t[j + 1] = IF j = Len(s) THEN i ELSE s[j + 1]
      BY <1>1, <2>2
    <3>2. s[j] \in Items /\ s[j] # i /\ (s[j] = l <=> j = Len(s))
      BY <1>1, <3>1 DEF l
    <3>3. /\ h.item[s[j]].next = IF j = Len(s) THEN NULL ELSE s[j + 1]
          /\ j > 1 => h.item[s[j]].prev = s[j - 1]
      BY <3>1 DEF ChildrenIn, ListIn
    <3>4. g2.item[s[j]].next = t[j + 1]
      BY <1>5, <1>7, <3>1, <3>2, <3>3
    <3>5. j > 1 => t[j - 1] = s[j - 1]
      BY <1>1, <3>1
    <3>6. j > 1 => g2.item[s[j]].prev = t[j - 1]
      BY <1>5, <1>7, <3>2, <3>3, <3>5
    <3> QED
      BY <3>1, <3>4, <3>6
  <2> QED
    BY <2>1, <2>2
<1>15. ChildrenIn(g2, a, t, read, FALSE)
  BY <1>1, <1>12, <1>13, <1>14 DEF ChildrenIn, ListIn
<1> QED
  BY <1>4, <1>11, <1>15 DEF l

LEMMA LongerList ==
  ASSUME NEW h \in HeapT, NEW a, NEW s, ListAt(a, s), NEW i \in Items, i # a, ~InList(s, i),
         h.item[i].next = NULL, ChildrenIn(h, a, s, TRUE, FALSE),
         NEW t \in Seq(Items), Len(t) = Len(s) + 1,
         \A j \in 1 .. Len(t) : t[j] = IF j <= Len(s) THEN s[j] ELSE i
  PROVE  LET g == Longer(h, a, IF s = <<>> THEN NULL ELSE s[Len(s)], i) IN
         ListStep(g, h, a, s, t) /\ ChildrenIn(g, a, t, TRUE, FALSE)
<1>1. CASE s = <<>>
  <2> DEFINE g == Set(h, a, "child", i)
  <2>1. Longer(h, a, IF s = <<>> THEN NULL ELSE s[Len(s)], i) = g
    BY <1>1 DEF Longer
  <2>2. i \in 0 .. Size /\ a \in Items
    BY ItemsFacts DEF ListAt
  <2>3. Relinked(g, h) /\ \A x \in Items :
          /\ g.item[x].child = IF x = a THEN i ELSE h.item[x].child
          /\ g.item[x].next = h.item[x].next /\ g.item[x].prev = h.item[x].prev
          /\ x # a => g.item[x] = h.item[x]
    <3>1. g = Set(h, a, "child", i)
      OBVIOUS
    <3> HIDE DEF g
    <3> QED
      BY <2>2, <3>1, SetChildIs
  <2> HIDE DEF g
  <2>8. Len(s) = 0
    BY <1>1
  <2>9. Len(t) = 1 /\ DOMAIN t = {1} /\ t # <<>>
    <3>1. Len(t) = 1
      BY <2>8
    <3>2. DOMAIN t = 1 .. Len(t) /\ t # <<>>
      BY <3>1
    <3>3. \A j \in Int : j \in 1 .. 1 <=> j = 1
      OBVIOUS
    <3> QED
      BY <3>1, <3>2, <3>3
  <2>10. t[1] = i
    BY <2>8, <2>9
  <2>4. Len(t) = 1 /\ DOMAIN t = {1} /\ t[1] = i /\ t # <<>>
    BY <2>9, <2>10
  <2>5. ListStep(g, h, a, s, t)
    BY <2>3 DEF ListStep
  <2>6. ~g.item[a].ref
    BY <2>2, <2>3, RelinkedRef DEF ChildrenIn
  <2>11. g.item[i].next = NULL /\ g.item[a].child = i
    BY <2>2, <2>3
  <2>7. ChildrenIn(g, a, t, TRUE, FALSE)
    <3>1. ListIn(g, t, FALSE)
      <4>1. \A j \in DOMAIN t : j = 1 /\ ~(j > 1) /\ t[j] = i /\ j = Len(t)
        BY <2>4
      <4>2. \A j \in DOMAIN t : g.item[t[j]].next = IF j = Len(t) THEN NULL ELSE t[j + 1]
        BY <2>11, <4>1
      <4> QED
        BY <4>1, <4>2 DEF ListIn
    <3> QED
      BY <2>4, <2>6, <2>11, <3>1 DEF ChildrenIn
  <2> QED
    BY <2>1, <2>5, <2>7
<1>2. CASE s # <<>>
  <2>1. s[Len(s)] # NULL
    <3>1. s \in Seq(Items)
      BY DEF ListAt
    <3>2. s[Len(s)] \in Items
      BY <1>2, <3>1
    <3> QED
      BY <3>2, ItemsFacts
  <2>2. Longer(h, a, IF s = <<>> THEN NULL ELSE s[Len(s)], i) = suffix_object(h, s[Len(s)], i)
    BY <1>2, <2>1 DEF Longer
  <2> QED
    BY <1>2, <2>2, LinkAfterLast
<1> QED
  BY <1>1, <1>2

LEMMA ClosedList ==
  ASSUME NEW h \in HeapT, NEW a, NEW s, ListAt(a, s), ChildrenIn(h, a, s, TRUE, FALSE)
  PROVE  ListClosed(Closed(h, a, IF s = <<>> THEN NULL ELSE s[Len(s)]), h, a, s)
<1>0. a \in Items /\ s \in Seq(Items) /\ \A j, k \in DOMAIN s : s[j] = s[k] => j = k
  BY DEF ListAt
<1>1. CASE s = <<>>
  <2>1. Closed(h, a, IF s = <<>> THEN NULL ELSE s[Len(s)]) = h
    BY <1>1 DEF Closed, ChildrenIn
  <2>2. ListStep(h, h, a, s, s)
    BY DEF ListStep, Relinked, SameValue
  <2>3. ChildrenIn(h, a, s, TRUE, TRUE)
    BY <1>1 DEF ChildrenIn, ListIn
  <2> QED
    BY <2>1, <2>2, <2>3 DEF ListClosed
<1>2. CASE s # <<>>
  <2> DEFINE c == s[1]
             l == s[Len(s)]
             g == Set(h, c, "prev", l)
  <2>1. /\ Len(s) \in Nat /\ DOMAIN s = 1 .. Len(s) /\ 1 \in DOMAIN s /\ Len(s) \in DOMAIN s
        /\ \A j \in DOMAIN s : s[j] \in Items
    BY <1>0, <1>2
  <2>2. c \in Items /\ l \in 0 .. Size /\ c # NULL
    BY <2>1, ItemsFacts
  <2>3. Closed(h, a, IF s = <<>> THEN NULL ELSE s[Len(s)]) = g
    <3>1. h.item[a].child = c
      BY <1>2 DEF ChildrenIn
    <3> QED
      BY <1>2, <2>2, <3>1 DEF Closed
  <2> HIDE DEF c, l
  <2>4. Relinked(g, h) /\ \A x \in Items :
          /\ g.item[x].prev = IF x = c THEN l ELSE h.item[x].prev
          /\ g.item[x].next = h.item[x].next /\ g.item[x].child = h.item[x].child
          /\ x # c => g.item[x] = h.item[x]
    BY <2>2, SetPrev
  <2> HIDE DEF g
  <2>5. InList(s, c)
    BY <2>1 DEF InList, c
  <2>6. ListStep(g, h, a, s, s)
    BY <2>4, <2>5 DEF ListStep
  <2>7. ~g.item[a].ref
    BY <1>0, <2>4, RelinkedRef DEF ChildrenIn
  <2>8. g.item[a].child = s[1]
    BY <1>0, <1>2, <2>4 DEF ChildrenIn
  <2>9. ASSUME NEW j \in DOMAIN s
        PROVE  /\ g.item[s[j]].next = IF j = Len(s) THEN NULL ELSE s[j + 1]
               /\ j > 1 => g.item[s[j]].prev = s[j - 1]
               /\ j = 1 => g.item[s[j]].prev = s[Len(s)]
    <3>1. /\ h.item[s[j]].next = IF j = Len(s) THEN NULL ELSE s[j + 1]
          /\ j > 1 => h.item[s[j]].prev = s[j - 1]
      BY DEF ChildrenIn, ListIn
    <3>2. s[j] \in Items /\ (s[j] = c <=> j = 1) /\ j \in Int
      BY <1>0, <2>1 DEF c
    <3>3. j > 1 => j # 1
      BY <3>2
    <3> QED
      BY <2>4, <3>1, <3>2, <3>3 DEF l
  <2>10. ChildrenIn(g, a, s, TRUE, TRUE)
    BY <1>2, <2>7, <2>8, <2>9 DEF ChildrenIn, ListIn
  <2> QED
    BY <2>3, <2>4, <2>6, <2>10 DEF ListClosed
<1> QED
  BY <1>1, <1>2

-----------------------------------------------------------------------------
(* What the functions do to a forest *)

LEMMA ForestOfListStep ==
  ASSUME NEW h \in HeapT, NEW F, NEW T, NEW C, NEW P, Holds(h, F, T, C, P),
         NEW G, NEW U, NEW D, NEW Q, IsForest(G, U), G.live = F.live,
         NEW a \in F.live, \A b \in Items : b # a => G.kids[b] = F.kids[b],
         \A b \in Items : b # a => (b \in D <=> b \in C) /\ (b \in Q <=> b \in P),
         NEW g, ListStep(g, h, a, F.kids[a], G.kids[a]),
         ChildrenIn(g, a, G.kids[a], a \notin D, a \notin Q),
         \A u \in U : u \in T \/ g.item[u].next = NULL
  PROVE  ForestStep(g, h, F, a) /\ Holds(g, G, U, D, Q)
<1>1. g \in HeapT /\ Relinked(g, h)
  BY FromRelinked DEF ListStep
<1>2. \A x \in Items : x \in F.live => g.item[x].type # "free" /\ (g.item[x].ref <=> h.item[x].ref)
  BY <1>1 DEF Holds, Links, Relinked, SameValue
<1>3. \A x \in Items :
           \/ \E j \in DOMAIN F.kids[a] : x = F.kids[a][j]
           \/ \E j \in DOMAIN G.kids[a] : x = G.kids[a][j]
           \/ g.item[x].next = h.item[x].next /\ g.item[x].prev = h.item[x].prev
  BY DEF ListStep, InList
<1>4. \A x \in Items : x # a => g.item[x].child = h.item[x].child
  BY DEF ListStep
<1>5. Holds(g, G, U, D, Q)
  BY <1>1, <1>2, <1>3, <1>4, ListChanged
<1>6. a \in Items
  BY KidsFacts DEF Holds
<1>7. \A x \in Items : InList(F.kids[a], x) \/ InList(G.kids[a], x) => x \in F.live
  BY <1>6, KidsFacts DEF Holds, InList
<1>8. \A x \in Items : x \notin F.live => g.item[x] = h.item[x]
  BY <1>7 DEF ListStep
<1> QED
  BY <1>1, <1>4, <1>5, <1>8 DEF ForestStep

SameBut(D, C, a) == \A b \in Items : b # a => (b \in D <=> b \in C)
Outside(a, D) == a \notin D

LEMMA ForestOfListStepRead ==
  ASSUME NEW h \in HeapT, NEW F, NEW T, NEW C, NEW P, Holds(h, F, T, C, P),
         NEW G, NEW U, NEW D, NEW Q, IsForest(G, U), G.live = F.live,
         NEW a \in F.live, \A b \in Items : b # a => G.kids[b] = F.kids[b],
         SameBut(D, C, a), SameBut(Q, P, a),
         NEW g, ListStep(g, h, a, F.kids[a], G.kids[a]),
         NEW read \in BOOLEAN, NEW closed \in BOOLEAN, read = Outside(a, D), closed = Outside(a, Q),
         ChildrenIn(g, a, G.kids[a], read, closed),
         \A u \in U : u \in T \/ g.item[u].next = NULL
  PROVE  ForestStep(g, h, F, a) /\ Holds(g, G, U, D, Q)
<1>1. ChildrenIn(g, a, G.kids[a], a \notin D, a \notin Q)
  BY Zenon DEF Outside
<1> QED
  BY <1>1, ForestOfListStep DEF SameBut

\* The same of a list that is still being read
LEMMA ForestOfUnreadStep ==
  ASSUME NEW h \in HeapT, NEW F, NEW R, NEW T, Holds(h, F, R, T, T),
         NEW G, NEW U, IsForest(G, U), G.live = F.live,
         NEW a \in F.live, a \in T, \A b \in Items : b # a => G.kids[b] = F.kids[b],
         NEW g, ListStep(g, h, a, F.kids[a], G.kids[a]), ChildrenIn(g, a, G.kids[a], FALSE, FALSE),
         \A u \in U : u \in R \/ g.item[u].next = NULL
  PROVE  ForestStep(g, h, F, a) /\ Holds(g, G, U, T, T)
<1>1. ChildrenIn(g, a, G.kids[a], a \notin T, a \notin T)
  <2>1. (a \notin T) = FALSE
    OBVIOUS
  <2> QED
    BY <2>1, Zenon
<1>2. \A b \in Items : b # a => (b \in T <=> b \in T) /\ (b \in T <=> b \in T)
  OBVIOUS
<1> QED
  BY <1>1, <1>2, ForestOfListStep

LEMMA OpenStep ==
  ASSUME NEW h \in HeapT, NEW F, NEW T, NEW P, Holds(h, F, T, {}, P),
         NEW G, NEW U, IsForest(G, U), G.live = F.live,
         NEW a \in F.live, a \in P, \A b \in Items : b # a => G.kids[b] = F.kids[b],
         NEW g, ListStep(g, h, a, F.kids[a], G.kids[a]),
         ChildrenIn(g, a, G.kids[a], TRUE, FALSE),
         \A u \in U : u \in T \/ g.item[u].next = NULL
  PROVE  ForestStep(g, h, F, a) /\ Holds(g, G, U, {}, P)
<1> DEFINE closed == a \notin P
<1>1. Outside(a, {}) = TRUE /\ Outside(a, P) = FALSE
  BY DEF Outside
<1>2. SameBut({}, {}, a) /\ SameBut(P, P, a)
  BY DEF SameBut
<1>3. \A read, c \in BOOLEAN : read = Outside(a, {}) /\ c = Outside(a, P)
                                /\ ChildrenIn(g, a, G.kids[a], read, c)
        => ForestStep(g, h, F, a) /\ Holds(g, G, U, {}, P)
  BY <1>2, ForestOfListStepRead
<1> QED
  BY <1>1, <1>3

LEMMA WholeList ==
  ASSUME NEW h \in HeapT, NEW F, NEW T, Holds(h, F, T, {}, {}), NEW a \in F.live, ~h.item[a].ref
  PROVE  ListAt(a, F.kids[a]) /\ ChildrenIn(h, a, F.kids[a], TRUE, TRUE)
<1>1. IsForest(F, T)
  BY DEF Holds
<1>2. ListAt(a, F.kids[a])
  BY <1>1, ListOfForest
<1>3. ChildrenIn(h, a, F.kids[a], a \notin {}, a \notin {})
  BY ListOf
<1>4. (a \notin {}) = TRUE
  OBVIOUS
<1> QED
  BY <1>2, <1>3, <1>4

LEMMA WholeStep ==
  ASSUME NEW h \in HeapT, NEW F, NEW T, Holds(h, F, T, {}, {}),
         NEW G, NEW U, IsForest(G, U), G.live = F.live,
         NEW a \in F.live, \A b \in Items : b # a => G.kids[b] = F.kids[b],
         NEW g, ListStep(g, h, a, F.kids[a], G.kids[a]),
         ChildrenIn(g, a, G.kids[a], TRUE, TRUE),
         \A u \in U : u \in T \/ g.item[u].next = NULL
  PROVE  ForestStep(g, h, F, a) /\ Holds(g, G, U, {}, {})
<1>1. (a \notin {}) = TRUE
  OBVIOUS
<1>2. ChildrenIn(g, a, G.kids[a], a \notin {}, a \notin {})
  BY <1>1
<1>3. \A b \in Items : b # a => (b \in {} <=> b \in {}) /\ (b \in {} <=> b \in {})
  OBVIOUS
<1> QED
  BY <1>2, <1>3, ForestOfListStep, SMTT(30)

LEMMA AddHolds ==
  ASSUME NEW h \in HeapT, NEW F, NEW T, Holds(h, F, T, {}, {}), NEW i \in T, NEW a \in F.live,
         ~h.item[a].ref, a \notin Forest!Tree(F, i)
  PROVE  LET added == add_item_to_array(h, a, i)
             G == Attached(F, a, Len(F.kids[a]) + 1, i)
         IN /\ added.r = TRUE /\ ForestStep(added.heap, h, F, a)
            /\ Holds(added.heap, G, T \ {i}, {}, {})
<1> DEFINE s == F.kids[a]
           m == Len(s) + 1
           G == Attached(F, a, m, i)
           t == G.kids[a]
           added == add_item_to_array(h, a, i)
<1>1. /\ F \in ForestT /\ i \in Items /\ a \in Items /\ i \in F.live /\ IsForest(F, T)
      /\ Len(s) \in Nat /\ i # a /\ ~InList(s, i)
  <2>1. F \in ForestT /\ i \in Items /\ a \in Items /\ i \in F.live /\ IsForest(F, T)
    BY KidsFacts DEF Holds
  <2>2. Len(s) \in Nat /\ ~InList(s, i)
    BY <2>1, KidsFacts DEF InList
  <2>3. i # a
    BY <2>1, TreeFacts
  <2> QED
    BY <2>1, <2>2, <2>3
<1>2. m \in 1 .. Len(s) + 1
  BY <1>1
<1>10. m = Len(s) + 1
  OBVIOUS
<1> HIDE DEF m
<1>3. IsForest(G, T \ {i})
  BY <1>1, <1>2, AttachedIsForest
<1>4. /\ G.live = F.live /\ \A b \in Items : b # a => G.kids[b] = F.kids[b]
      /\ t \in Seq(Items) /\ Len(t) = Len(s) + 1
      /\ \A j \in 1 .. Len(t) : t[j] = IF j < m THEN s[j] ELSE IF j = m THEN i ELSE s[j - 1]
  BY <1>1, <1>2, AttachedKids
<1> HIDE DEF G
<1>5. \A j \in 1 .. Len(t) : t[j] = IF j <= Len(s) THEN s[j] ELSE i
  <2> SUFFICES ASSUME NEW j \in 1 .. Len(t)
               PROVE  t[j] = IF j <= Len(s) THEN s[j] ELSE i
    OBVIOUS
  <2>1. /\ j < m <=> j <= Len(s)
        /\ ~(j <= Len(s)) => j = m
    BY <1>1, <1>10, <1>4
  <2> QED
    BY <1>4, <2>1
<1>6. ListAt(a, s) /\ ChildrenIn(h, a, s, TRUE, TRUE)
  BY WholeList
<1>9. h.item[i].next = NULL
  BY DEF Holds, Tops
<1>7. /\ added.r = TRUE /\ ListStep(added.heap, h, a, s, t)
      /\ ChildrenIn(added.heap, a, t, TRUE, TRUE)
  BY <1>1, <1>4, <1>5, <1>6, <1>9, AddToList
<1> HIDE DEF added
<1>8. ForestStep(added.heap, h, F, a) /\ Holds(added.heap, G, T \ {i}, {}, {})
  BY <1>3, <1>4, <1>7, WholeStep
<1> QED
  BY <1>7, <1>8 DEF added, G, m

LEMMA InsertHolds ==
  ASSUME NEW h \in HeapT, NEW F, NEW T, Holds(h, F, T, {}, {}), NEW i \in T, NEW a \in F.live,
         ~h.item[a].ref, a \notin Forest!Tree(F, i),
         NEW n \in DOMAIN F.kids[a], NEW which, get_array_item(h, a, which) = F.kids[a][n]
  PROVE  LET inserted == cJSON_InsertItemInArray(h, a, which, i)
             G == Attached(F, a, n, i)
         IN /\ inserted.r = TRUE /\ ForestStep(inserted.heap, h, F, a)
            /\ Holds(inserted.heap, G, T \ {i}, {}, {})
<1> DEFINE G == Attached(F, a, n, i)
           s == F.kids[a]
           t == G.kids[a]
           inserted == cJSON_InsertItemInArray(h, a, which, i)
<1>1. /\ F \in ForestT /\ i \in Items /\ a \in Items /\ i \in F.live /\ IsForest(F, T)
      /\ Len(s) \in Nat /\ i # a /\ ~InList(s, i) /\ DOMAIN s = 1 .. Len(s)
  <2>1. F \in ForestT /\ i \in Items /\ a \in Items /\ i \in F.live /\ IsForest(F, T)
    BY KidsFacts DEF Holds
  <2>2. Len(s) \in Nat /\ ~InList(s, i) /\ DOMAIN s = 1 .. Len(s)
    BY <2>1, KidsFacts DEF InList
  <2>3. i # a
    BY <2>1, TreeFacts
  <2> QED
    BY <2>1, <2>2, <2>3
<1>2. n \in 1 .. Len(s) + 1
  BY <1>1
<1>3. IsForest(G, T \ {i})
  BY <1>1, <1>2, AttachedIsForest
<1>4. /\ G.live = F.live /\ \A b \in Items : b # a => G.kids[b] = F.kids[b]
      /\ t \in Seq(Items) /\ Len(t) = Len(s) + 1
      /\ \A j \in 1 .. Len(t) : t[j] = IF j < n THEN s[j] ELSE IF j = n THEN i ELSE s[j - 1]
  BY <1>1, <1>2, AttachedKids, SMTT(30)
<1> HIDE DEF G
<1>6. ListAt(a, s) /\ ChildrenIn(h, a, s, TRUE, TRUE)
  BY WholeList
<1>9. n \in DOMAIN s /\ get_array_item(h, a, which) = s[n] /\ n \in Int
  BY <1>1
<1>7. /\ inserted.r = TRUE /\ ListStep(inserted.heap, h, a, s, t)
      /\ ChildrenIn(inserted.heap, a, t, TRUE, TRUE)
  <2>1. i \in Items /\ i # a /\ ~InList(s, i)
    BY <1>1
  <2>2. t \in Seq(Items) /\ Len(t) = Len(s) + 1
    BY <1>4
  <2>3. \A j \in 1 .. Len(t) : t[j] = IF j < n THEN s[j] ELSE IF j = n THEN i ELSE s[j - 1]
    BY <1>4
  <2>4. n \in DOMAIN s /\ get_array_item(h, a, which) = s[n]
    BY <1>9
  <2> HIDE DEF s, t
  <2> QED
    BY <1>6, <2>1, <2>2, <2>3, <2>4, InsertInList, ZenonT(30)
<1> HIDE DEF inserted
<1>8. ForestStep(inserted.heap, h, F, a) /\ Holds(inserted.heap, G, T \ {i}, {}, {})
  BY <1>3, <1>4, <1>7, WholeStep
<1> QED
  BY <1>7, <1>8 DEF inserted, G

LEMMA DetachHolds ==
  ASSUME NEW h \in HeapT, NEW F, NEW T, Holds(h, F, T, {}, {}), NEW a \in F.live,
         ~h.item[a].ref, NEW n \in DOMAIN F.kids[a]
  PROVE  LET i == F.kids[a][n]
             detached == cJSON_DetachItemViaPointer(h, a, i)
             G == Detached(F, a, n)
         IN /\ detached.r = i /\ ForestStep(detached.heap, h, F, a)
            /\ Holds(detached.heap, G, T \cup {i}, {}, {})
            /\ i \in F.live /\ i \notin T
<1> DEFINE G == Detached(F, a, n)
           s == F.kids[a]
           t == G.kids[a]
           i == s[n]
           detached == cJSON_DetachItemViaPointer(h, a, i)
<1>1. /\ F \in ForestT /\ a \in Items /\ IsForest(F, T) /\ DOMAIN s = 1 .. Len(s)
  BY KidsFacts DEF Holds
<1>3. IsForest(G, T \cup {i}) /\ i \in F.live /\ i \notin T
  BY <1>1, DetachedIsForest
<1>4. /\ G.live = F.live /\ \A b \in Items : b # a => G.kids[b] = F.kids[b]
      /\ t \in Seq(Items) /\ Len(t) = Len(s) - 1
      /\ \A j \in 1 .. Len(t) : t[j] = IF j < n THEN s[j] ELSE s[j + 1]
  BY <1>1, DetachedKids
<1> HIDE DEF G
<1>6. ListAt(a, s) /\ ChildrenIn(h, a, s, TRUE, TRUE)
  BY WholeList
<1>9. n \in DOMAIN s /\ n \in Int
  BY <1>1
<1>7. /\ detached.r = i /\ ListStep(detached.heap, h, a, s, t)
      /\ ChildrenIn(detached.heap, a, t, TRUE, TRUE) /\ detached.heap.item[i].next = NULL
  <2>1. ListLeft(detached.heap, h, a, s, t, i)
    BY <1>1, <1>4, <1>6, <1>9, DetachFromList
  <2>2. detached.r = i
    BY DEF cJSON_DetachItemViaPointer, Result
  <2> QED
    BY <2>1, <2>2 DEF ListLeft
<1> HIDE DEF detached
<1>8. ForestStep(detached.heap, h, F, a) /\ Holds(detached.heap, G, T \cup {i}, {}, {})
  BY <1>3, <1>4, <1>7, WholeStep
<1> QED
  BY <1>3, <1>7, <1>8 DEF detached, G

\* The same of an item, a heap and a forest that are known by names
LEMMA DetachHoldsIs ==
  ASSUME NEW h \in HeapT, NEW F, NEW T, Holds(h, F, T, {}, {}), NEW a \in F.live,
         ~h.item[a].ref, NEW n \in DOMAIN F.kids[a], NEW i, i = F.kids[a][n],
         NEW detached, detached = cJSON_DetachItemViaPointer(h, a, i), NEW G, G = Detached(F, a, n)
  PROVE  /\ detached.r = i /\ ForestStep(detached.heap, h, F, a)
         /\ Holds(detached.heap, G, T \cup {i}, {}, {})
         /\ i \in F.live /\ i \notin T
<1> DEFINE j == F.kids[a][n]
           d == cJSON_DetachItemViaPointer(h, a, j)
           H == Detached(F, a, n)
<1>1. /\ d.r = j /\ ForestStep(d.heap, h, F, a)
      /\ Holds(d.heap, H, T \cup {j}, {}, {})
      /\ j \in F.live /\ j \notin T
  BY DetachHolds
<1>2. j = i /\ H = G
  OBVIOUS
<1> HIDE DEF j, H
<1>3. d = detached
  BY <1>2
<1> HIDE DEF d
<1> QED
  BY <1>1, <1>2, <1>3

LEMMA SwappedKids ==
  ASSUME NEW F \in ForestT, NEW a \in Items, NEW n \in 1 .. Len(F.kids[a]), NEW new \in Items
  PROVE  LET G == Swapped(F, a, n, new)
             s == F.kids[a]
             t == G.kids[a]
         IN /\ G \in ForestT /\ G.live = F.live
            /\ \A b \in Items : b # a => G.kids[b] = F.kids[b]
            /\ s \in Seq(Items) /\ t \in Seq(Items) /\ Len(s) \in Nat /\ Len(t) = Len(s)
            /\ DOMAIN s = 1 .. Len(s) /\ DOMAIN t = 1 .. Len(t)
            /\ \A j \in 1 .. Len(t) : t[j] = IF j = n THEN new ELSE s[j]
<1> DEFINE G == Swapped(F, a, n, new)
           s == F.kids[a]
           q == [s EXCEPT ![n] = new]
<1>1. /\ F = [live |-> F.live, kids |-> F.kids] /\ F.kids \in [Items -> Seq(Items)] /\ F.live \in SUBSET Items
      /\ s \in Seq(Items)
  BY DEF ForestT
<1>0. G = [F EXCEPT !.kids = [F.kids EXCEPT ![a] = [F.kids[a] EXCEPT ![n] = new]]]
  BY DEF Swapped
<1>9. F.kids[a] = s
  OBVIOUS
<1> HIDE DEF G
<1>2. G = [live |-> F.live, kids |-> [F.kids EXCEPT ![a] = q]]
  BY <1>0, <1>1
<1>3. /\ q \in Seq(Items) /\ Len(q) = Len(s) /\ Len(s) \in Nat /\ DOMAIN s = 1 .. Len(s)
      /\ DOMAIN q = 1 .. Len(q) /\ \A j \in 1 .. Len(q) : q[j] = IF j = n THEN new ELSE s[j]
  <2>1. /\ Len(s) \in Nat /\ DOMAIN s = 1 .. Len(s) /\ s \in [1 .. Len(s) -> Items]
    BY <1>1, LenProperties
  <2>2. q \in [1 .. Len(s) -> Items]
    BY <2>1
  <2>3. q \in Seq(Items) /\ DOMAIN q = 1 .. Len(s)
    BY <2>1, <2>2, IsASeq
  <2>4. Len(q) = Len(s)
    BY <2>1, <2>3, LenProperties
  <2> QED
    BY <1>1, <2>1, <2>3, <2>4
<1> HIDE DEF q
<1>4. /\ G.live = F.live /\ G.kids = [F.kids EXCEPT ![a] = q]
  BY <1>2
<1>5. G.kids[a] = q /\ (\A b \in Items : b # a => G.kids[b] = F.kids[b]) /\ G.kids \in [Items -> Seq(Items)]
  BY <1>1, <1>3, <1>4
<1>6. G \in ForestT
  BY <1>1, <1>2, <1>4, <1>5 DEF ForestT
<1> HIDE DEF G
<1> QED
  BY <1>3, <1>4, <1>5, <1>6, <1>1 DEF G

\* The same of a forest that is known by a name
LEMMA SwappedKidsIs ==
  ASSUME NEW F \in ForestT, NEW a \in Items, NEW new \in Items, NEW n \in 1 .. Len(F.kids[a]),
         NEW G, G = Swapped(F, a, n, new)
  PROVE  /\ G \in ForestT
         /\ G.live = F.live
         /\ \A b \in Items : b # a => G.kids[b] = F.kids[b]
         /\ F.kids[a] \in Seq(Items) /\ Len(F.kids[a]) \in Nat /\ DOMAIN F.kids[a] = 1 .. Len(F.kids[a])
         /\ G.kids[a] \in Seq(Items) /\ Len(G.kids[a]) = Len(F.kids[a]) /\ DOMAIN G.kids[a] = 1 .. Len(G.kids[a])
         /\ \A j \in 1 .. Len(G.kids[a]) : G.kids[a][j] = IF j = n THEN new ELSE F.kids[a][j]
<1> DEFINE H == Swapped(F, a, n, new)
<1>1. H \in ForestT
  BY SwappedKids
<1>2. H.live = F.live
  BY SwappedKids
<1>3. \A b \in Items : b # a => H.kids[b] = F.kids[b]
  BY SwappedKids
<1>4. F.kids[a] \in Seq(Items) /\ Len(F.kids[a]) \in Nat /\ DOMAIN F.kids[a] = 1 .. Len(F.kids[a])
  BY SwappedKids
<1>5. H.kids[a] \in Seq(Items) /\ Len(H.kids[a]) = Len(F.kids[a]) /\ DOMAIN H.kids[a] = 1 .. Len(H.kids[a])
  BY SwappedKids
<1>6. \A j \in 1 .. Len(H.kids[a]) : H.kids[a][j] = IF j = n THEN new ELSE F.kids[a][j]
  BY SwappedKids
<1>7. H = G
  OBVIOUS
<1> HIDE DEF H
<1> QED
  BY <1>1, <1>2, <1>3, <1>4, <1>5, <1>6, <1>7

LEMMA SwappedIsForest ==
  ASSUME NEW F, NEW T, IsForest(F, T), NEW new \in T, NEW a \in F.live,
         a \notin Forest!Tree(F, new), NEW n \in 1 .. Len(F.kids[a])
  PROVE  LET G == Swapped(F, a, n, new)
             i == F.kids[a][n]
         IN IsForest(G, (T \ {new}) \cup {i}) /\ i \in F.live /\ i \notin T
<1> DEFINE G == Swapped(F, a, n, new)
           A == Attached(F, a, n, new)
           k == n + 1
           B == Detached(A, a, k)
           s == F.kids[a]
           t == A.kids[a]
           u == B.kids[a]
           v == G.kids[a]
<1>1. /\ F \in ForestT /\ a \in Items /\ new \in Items /\ Len(s) \in Nat /\ DOMAIN s = 1 .. Len(s)
      /\ F.kids \in [Items -> Seq(Items)] /\ n \in Int
      /\ s[n] \in F.live /\ s[n] \notin T
  BY KidsFacts DEF ForestT
<1>2. n \in 1 .. Len(s) + 1
  BY <1>1
<1>6. k = n + 1
  OBVIOUS
<1> HIDE DEF k
<1>3. IsForest(A, T \ {new})
  BY <1>1, <1>2, AttachedIsForest
<1>4. /\ A \in ForestT /\ A.live = F.live /\ \A b \in Items : b # a => A.kids[b] = F.kids[b]
      /\ Len(t) = Len(s) + 1 /\ DOMAIN t = 1 .. Len(t)
      /\ \A j \in 1 .. Len(t) : t[j] = IF j < n THEN s[j] ELSE IF j = n THEN new ELSE s[j - 1]
  <2>1. A \in ForestT
    BY <1>1, <1>2, AttachedKids
  <2>2. A.live = F.live
    BY <1>1, <1>2, AttachedKids
  <2>3. \A b \in Items : b # a => A.kids[b] = F.kids[b]
    BY <1>1, <1>2, AttachedKids
  <2>4. Len(t) = Len(s) + 1 /\ DOMAIN t = 1 .. Len(t)
    BY <1>1, <1>2, AttachedKids
  <2>5. \A j \in 1 .. Len(t) : t[j] = IF j < n THEN s[j] ELSE IF j = n THEN new ELSE s[j - 1]
    BY <1>1, <1>2, AttachedKids
  <2> QED
    BY <2>1, <2>2, <2>3, <2>4, <2>5
<1> HIDE DEF A
<1>5. k \in 1 .. Len(t) /\ t[k] = s[n]
  <2>1. ~(k < n) /\ k # n /\ k - 1 = n
    BY <1>1, <1>6
  <2>2. k \in 1 .. Len(t)
    BY <1>1, <1>4, <1>6
  <2> QED
    BY <1>4, <2>1, <2>2
<1>7. IsForest(B, (T \ {new}) \cup {s[n]})
  <2>1. a \in A.live
    BY <1>4
  <2>2. IsForest(B, (T \ {new}) \cup {t[k]})
    BY <1>3, <1>5, <2>1, DetachedIsForest
  <2> QED
    BY <1>5, <2>2
<1>8. /\ B \in ForestT /\ B.live = A.live /\ \A b \in Items : b # a => B.kids[b] = A.kids[b]
      /\ u \in Seq(Items) /\ Len(u) = Len(t) - 1
      /\ \A j \in 1 .. Len(u) : u[j] = IF j < k THEN t[j] ELSE t[j + 1]
  <2>1. B \in ForestT
    BY <1>1, <1>4, <1>5, DetachedKids
  <2>2. B.live = A.live
    BY <1>1, <1>4, <1>5, DetachedKids
  <2>3. \A b \in Items : b # a => B.kids[b] = A.kids[b]
    BY <1>1, <1>4, <1>5, DetachedKids
  <2>4. u \in Seq(Items) /\ Len(u) = Len(t) - 1
    BY <1>1, <1>4, <1>5, DetachedKids, ZenonT(30)
  <2>5. \A j \in 1 .. Len(u) : u[j] = IF j < k THEN t[j] ELSE t[j + 1]
    BY <1>1, <1>4, <1>5, DetachedKids, ZenonT(30)
  <2> QED
    BY <2>1, <2>2, <2>3, <2>4, <2>5
<1> HIDE DEF B
<1>9. /\ G \in ForestT /\ G.live = F.live /\ \A b \in Items : b # a => G.kids[b] = F.kids[b]
      /\ v \in Seq(Items) /\ Len(v) = Len(s)
      /\ \A j \in 1 .. Len(v) : v[j] = IF j = n THEN new ELSE s[j]
  <2>1. G = Swapped(F, a, n, new)
    OBVIOUS
  <2> HIDE DEF G
  <2>2. G \in ForestT /\ G.live = F.live /\ \A b \in Items : b # a => G.kids[b] = F.kids[b]
    BY <1>1, <2>1, SwappedKidsIs
  <2>3. v \in Seq(Items) /\ Len(v) = Len(s)
    BY <1>1, <2>1, SwappedKidsIs
  <2>4. \A j \in 1 .. Len(v) : v[j] = IF j = n THEN new ELSE s[j]
    BY <1>1, <2>1, SwappedKidsIs
  <2> QED
    BY <2>2, <2>3, <2>4
<1> HIDE DEF G
<1>10. Len(u) = Len(s) /\ Len(v) = Len(u) /\ Len(t) = Len(s) + 1
  BY <1>1, <1>4, <1>8, <1>9
<1>11. \A j \in 1 .. Len(s) : u[j] = v[j]
  <2> SUFFICES ASSUME NEW j \in 1 .. Len(s)
               PROVE  u[j] = v[j]
    OBVIOUS
  <2>0. j \in Int /\ j \in 1 .. Len(u) /\ j \in 1 .. Len(v)
    BY <1>10
  <2>1. j \in 1 .. Len(t) /\ j + 1 \in 1 .. Len(t)
    BY <1>1, <1>10
  <2>2. v[j] = IF j = n THEN new ELSE s[j]
    BY <1>9, <2>0
  <2>3. CASE j < n
    <3>1. j < k /\ j # n
      BY <1>1, <1>6, <2>0, <2>3
    <3>2. u[j] = t[j] /\ t[j] = s[j]
      BY <1>4, <1>8, <2>0, <2>1, <2>3, <3>1
    <3> QED
      BY <2>2, <3>1, <3>2
  <2>4. CASE j = n
    <3>1. j < k /\ ~(j < n)
      BY <1>1, <1>6, <2>4
    <3>2. u[j] = t[j] /\ t[j] = new
      BY <1>4, <1>8, <2>0, <2>1, <2>4, <3>1
    <3> QED
      BY <2>2, <2>4, <3>2
  <2>5. CASE j > n
    <3>1. ~(j < k) /\ ~(j + 1 < n) /\ j + 1 # n /\ (j + 1) - 1 = j /\ j # n
      BY <1>1, <1>6, <2>0, <2>5
    <3>2. u[j] = t[j + 1] /\ t[j + 1] = s[(j + 1) - 1]
      BY <1>4, <1>8, <2>0, <2>1, <3>1
    <3> QED
      BY <2>2, <3>1, <3>2
  <2> QED
    BY <1>1, <2>0, <2>3, <2>4, <2>5
<1>12. u = v
  <2>1. u \in Seq(Items) /\ v \in Seq(Items) /\ Len(u) = Len(v)
    BY <1>8, <1>9, <1>10
  <2>2. \A j \in 1 .. Len(u) : u[j] = v[j]
    BY <1>10, <1>11
  <2> HIDE DEF u, v
  <2> QED
    BY <2>1, <2>2, SeqEqual
<1>13. G = B
  <2>1. /\ B = [live |-> B.live, kids |-> B.kids] /\ B.kids \in [Items -> Seq(Items)]
        /\ G = [live |-> G.live, kids |-> G.kids] /\ G.kids \in [Items -> Seq(Items)]
    BY <1>8, <1>9 DEF ForestT
  <2>2. \A b \in Items : B.kids[b] = G.kids[b]
    <3> SUFFICES ASSUME NEW b \in Items
                 PROVE  B.kids[b] = G.kids[b]
      OBVIOUS
    <3>1. CASE b = a
      BY <1>12, <3>1
    <3>2. CASE b # a
      BY <1>4, <1>8, <1>9, <3>2
    <3> QED
      BY <3>1, <3>2
  <2>3. B.kids = G.kids
    BY <2>1, <2>2
  <2> QED
    BY <1>4, <1>8, <1>9, <2>1, <2>3
<1> QED
  BY <1>1, <1>7, <1>13 DEF G

LEMMA ReplaceHolds ==
  ASSUME NEW h \in HeapT, NEW F, NEW T, Holds(h, F, T, {}, {}), NEW new \in T, NEW a \in F.live,
         ~h.item[a].ref, a \notin Forest!Tree(F, new), NEW n \in DOMAIN F.kids[a]
  PROVE  LET i == F.kids[a][n]
             g == Set(Set(Replaced(h, a, i, new), i, "next", NULL), i, "prev", NULL)
             G == Swapped(F, a, n, new)
         IN /\ ForestStep(g, h, F, a)
            /\ Holds(g, G, (T \ {new}) \cup {i}, {}, {})
            /\ i \in F.live /\ i \notin T
<1> DEFINE G == Swapped(F, a, n, new)
           s == F.kids[a]
           t == G.kids[a]
           i == s[n]
           g == Set(Set(Replaced(h, a, i, new), i, "next", NULL), i, "prev", NULL)
<1>1. /\ F \in ForestT /\ a \in Items /\ new \in Items /\ IsForest(F, T) /\ new # a /\ ~InList(s, new)
  <2>1. F \in ForestT /\ a \in Items /\ new \in Items /\ IsForest(F, T)
    BY KidsFacts DEF Holds
  <2>2. ~InList(s, new)
    BY <2>1, KidsFacts DEF InList
  <2> QED
    BY <2>1, <2>2, TreeFacts
<1>6. n \in 1 .. Len(s) /\ n \in Int /\ Len(s) \in Nat
  BY <1>1, KidsFacts
<1>2. IsForest(G, (T \ {new}) \cup {i}) /\ i \in F.live /\ i \notin T
  BY <1>1, <1>6, SwappedIsForest
<1>7. /\ G.live = F.live /\ \A b \in Items : b # a => G.kids[b] = F.kids[b]
      /\ t \in Seq(Items) /\ Len(t) = Len(s)
      /\ \A j \in 1 .. Len(t) : t[j] = IF j = n THEN new ELSE s[j]
  <2>1. G.live = F.live
    BY <1>1, <1>6, SwappedKids
  <2>2. \A b \in Items : b # a => G.kids[b] = F.kids[b]
    BY <1>1, <1>6, SwappedKids
  <2>3. t \in Seq(Items) /\ Len(t) = Len(s)
    BY <1>1, <1>6, SwappedKids
  <2>4. \A j \in 1 .. Len(t) : t[j] = IF j = n THEN new ELSE s[j]
    BY <1>1, <1>6, SwappedKids
  <2> QED
    BY <2>1, <2>2, <2>3, <2>4
<1> HIDE DEF G
<1>3. ListAt(a, s) /\ ChildrenIn(h, a, s, TRUE, TRUE)
  BY WholeList
<1>4. /\ ListStep(g, h, a, s, t) /\ ChildrenIn(g, a, t, TRUE, TRUE) /\ g.item[i].next = NULL
  <2>1. ListLeft(g, h, a, s, t, i)
    <3>1. OneChanged(s, t, n, new)
      BY <1>7 DEF OneChanged
    <3> QED
      BY <1>1, <1>7, <1>3, <1>6, <3>1, ReplaceInList
  <2> QED
    BY <2>1 DEF ListLeft
<1> HIDE DEF g
<1>5. ForestStep(g, h, F, a) /\ Holds(g, G, (T \ {new}) \cup {i}, {}, {})
  BY <1>2, <1>7, <1>4, WholeStep
<1> QED
  BY <1>2, <1>5 DEF g, G

-----------------------------------------------------------------------------
(* Lists that are not closed yet *)

\* The list of a, whose first child does not know the last yet, gets longer.
LEMMA LongerHolds ==
  ASSUME NEW h \in HeapT, NEW F, NEW T, NEW P, Holds(h, F, T, {}, P), NEW i \in T, NEW a \in F.live,
         ~h.item[a].ref, a \notin Forest!Tree(F, i), a \in P, NEW last,
         last = IF F.kids[a] = <<>> THEN NULL ELSE F.kids[a][Len(F.kids[a])]
  PROVE  LET g == Longer(h, a, last, i)
             G == Attached(F, a, Len(F.kids[a]) + 1, i)
         IN ForestStep(g, h, F, a) /\ Holds(g, G, T \ {i}, {}, P)
<1> DEFINE s == F.kids[a]
           m == Len(s) + 1
           G == Attached(F, a, m, i)
           t == G.kids[a]
           g == Longer(h, a, last, i)
<1>1. /\ F \in ForestT /\ i \in Items /\ a \in Items /\ i \in F.live /\ IsForest(F, T)
      /\ Len(s) \in Nat /\ i # a /\ ~InList(s, i)
  <2>1. F \in ForestT /\ i \in Items /\ a \in Items /\ i \in F.live /\ IsForest(F, T)
    BY KidsFacts DEF Holds
  <2>2. Len(s) \in Nat /\ ~InList(s, i)
    BY <2>1, KidsFacts DEF InList
  <2>3. i # a
    BY <2>1, TreeFacts
  <2> QED
    BY <2>1, <2>2, <2>3
<1>2. m \in 1 .. Len(s) + 1
  BY <1>1
<1>10. m = Len(s) + 1
  OBVIOUS
<1> HIDE DEF m
<1>3. IsForest(G, T \ {i})
  BY <1>1, <1>2, AttachedIsForest
<1>4. /\ G.live = F.live /\ \A b \in Items : b # a => G.kids[b] = F.kids[b]
      /\ t \in Seq(Items) /\ Len(t) = Len(s) + 1
      /\ \A j \in 1 .. Len(t) : t[j] = IF j < m THEN s[j] ELSE IF j = m THEN i ELSE s[j - 1]
  BY <1>1, <1>2, AttachedKids
<1> HIDE DEF G
<1>5. \A j \in 1 .. Len(t) : t[j] = IF j <= Len(s) THEN s[j] ELSE i
  <2> SUFFICES ASSUME NEW j \in 1 .. Len(t)
               PROVE  t[j] = IF j <= Len(s) THEN s[j] ELSE i
    OBVIOUS
  <2>1. /\ j < m <=> j <= Len(s)
        /\ ~(j <= Len(s)) => j = m
    BY <1>1, <1>10, <1>4
  <2> QED
    BY <1>4, <2>1
<1>6. ListAt(a, s)
  BY <1>1, ListOfForest
<1>7. ChildrenIn(h, a, s, TRUE, FALSE)
  <2>1. ChildrenIn(h, a, s, a \notin {}, a \notin P)
    BY ListOf
  <2>2. (a \notin {}) = TRUE /\ (a \notin P) = FALSE
    OBVIOUS
  <2> QED
    BY <2>1, <2>2
<1>9. h.item[i].next = NULL
  BY DEF Holds, Tops
<1>11. ListStep(g, h, a, s, t) /\ ChildrenIn(g, a, t, TRUE, FALSE)
  <2>1. last = IF s = <<>> THEN NULL ELSE s[Len(s)]
    OBVIOUS
  <2>2. g = Longer(h, a, IF s = <<>> THEN NULL ELSE s[Len(s)], i)
    BY <2>1
  <2> HIDE DEF g
  <2> QED
    BY <1>1, <1>4, <1>5, <1>6, <1>7, <1>9, <2>2, LongerList
<1> HIDE DEF g
<1>12. ForestStep(g, h, F, a) /\ Holds(g, G, T \ {i}, {}, P)
  <2> DEFINE U == T \ {i}
  <2>1. \A u \in U : u \in T \/ g.item[u].next = NULL
    OBVIOUS
  <2>2. IsForest(G, U)
    BY <1>3
  <2>3. G.live = F.live /\ \A b \in Items : b # a => G.kids[b] = F.kids[b]
    BY <1>4
  <2>4. ListStep(g, h, a, F.kids[a], G.kids[a]) /\ ChildrenIn(g, a, G.kids[a], TRUE, FALSE)
    BY <1>11
  <2> HIDE DEF U
  <2>5. ForestStep(g, h, F, a) /\ Holds(g, G, U, {}, P)
    BY <2>1, <2>2, <2>3, <2>4, OpenStep
  <2> QED
    BY <2>5 DEF U
<1> QED
  BY <1>12, <1>10 DEF g, G

\* The list of a is closed.
LEMMA ClosedHolds ==
  ASSUME NEW h \in HeapT, NEW F, NEW T, NEW P, Holds(h, F, T, {}, P), NEW a \in F.live,
         ~h.item[a].ref, a \in P, NEW last,
         last = IF F.kids[a] = <<>> THEN NULL ELSE F.kids[a][Len(F.kids[a])]
  PROVE  LET g == Closed(h, a, last) IN
         /\ ForestStep(g, h, F, a) /\ Holds(g, F, T, {}, P \ {a})
         /\ \A x \in Items : g.item[x].next = h.item[x].next /\ g.item[x].child = h.item[x].child
<1> DEFINE s == F.kids[a]
           g == Closed(h, a, last)
<1>1. IsForest(F, T)
  BY DEF Holds
<1>2. ListAt(a, s)
  BY <1>1, ListOfForest
<1>3. ChildrenIn(h, a, s, TRUE, FALSE)
  <2>1. ChildrenIn(h, a, s, a \notin {}, a \notin P)
    BY ListOf
  <2>2. (a \notin {}) = TRUE /\ (a \notin P) = FALSE
    OBVIOUS
  <2> QED
    BY <2>1, <2>2
<1>4. /\ ListStep(g, h, a, s, s) /\ ChildrenIn(g, a, s, TRUE, TRUE)
      /\ \A x \in Items : g.item[x].next = h.item[x].next /\ g.item[x].child = h.item[x].child
  <2>1. last = IF s = <<>> THEN NULL ELSE s[Len(s)]
    OBVIOUS
  <2>2. g = Closed(h, a, IF s = <<>> THEN NULL ELSE s[Len(s)])
    BY <2>1
  <2> HIDE DEF g
  <2> QED
    <3>1. ListClosed(g, h, a, s)
      BY <1>2, <1>3, <2>2, ClosedList
    <3> QED
      BY <3>1 DEF ListClosed
<1> HIDE DEF g
<1>5. ForestStep(g, h, F, a) /\ Holds(g, F, T, {}, P \ {a})
  <2>1. TRUE = Outside(a, {}) /\ TRUE = Outside(a, P \ {a})
    BY DEF Outside
  <2>2. ChildrenIn(g, a, F.kids[a], TRUE, TRUE)
    BY <1>4
  <2>3. SameBut({}, {}, a) /\ SameBut(P \ {a}, P, a)
    BY DEF SameBut
  <2>4. \A u \in T : u \in T \/ g.item[u].next = NULL
    OBVIOUS
  <2>5. F.live = F.live /\ \A b \in Items : b # a => F.kids[b] = F.kids[b]
    OBVIOUS
  <2> QED
    BY <1>1, <1>4, <2>1, <2>2, <2>3, <2>4, <2>5, ForestOfListStepRead
<1> QED
  BY <1>4, <1>5 DEF g

-----------------------------------------------------------------------------
(* The caller's trees in the heap *)

LEMMA LiveItems ==
  ASSUME NEW h, NEW F, NEW T, NEW C, NEW P, Holds(h, F, T, C, P)
  PROVE  /\ IsForest(F, T) /\ F.live \subseteq Items /\ T \subseteq F.live
         /\ \A x \in F.live : h.item[x].type # "free"
<1>1. IsForest(F, T)
  BY DEF Holds
<1> QED
  BY <1>1, KidsFacts DEF Holds, Links

LEMMA CallerKept ==
  ASSUME NEW h \in HeapT, NEW F, NEW R, Caller(h, F, R), NEW g, \A x \in F.live : SameLinks(g, h, x)
  PROVE  Caller(g, F, R)
<1>1. Holds(h, F, R, {}, {}) /\ Refs(h, F)
  BY DEF Caller
<1>2. Holds(g, F, R, {}, {})
  BY <1>1, ForestKept DEF SameLinks
<1>3. Refs(g, F)
  BY <1>1 DEF Refs, SameLinks
<1> QED
  BY <1>2, <1>3 DEF Caller

\* What the two sides agree on where there are children is as good.
LEMMA HoldsAgree ==
  ASSUME NEW h, NEW F, NEW T, NEW C, NEW P, Holds(h, F, T, C, P), NEW D, NEW Q,
         \A a \in F.live : F.kids[a] # <<>> => (a \in D <=> a \in C) /\ (a \in Q <=> a \in P)
  PROVE  Holds(h, F, T, D, Q)
<1>1. IsForest(F, T) /\ Links(h, F, C, P) /\ Tops(h, T)
  BY DEF Holds
<1>2. Links(h, F, D, Q)
  <2> SUFFICES ASSUME NEW a \in F.live
               PROVE  /\ h.item[a].type # "free"
                      /\ h.item[a].ref => F.kids[a] = <<>>
                      /\ ~h.item[a].ref =>
                           h.item[a].child = IF a \in D \/ F.kids[a] = <<>> THEN NULL ELSE F.kids[a][1]
                      /\ \A j \in DOMAIN F.kids[a] :
                           /\ h.item[F.kids[a][j]].next = IF j = Len(F.kids[a]) THEN NULL ELSE F.kids[a][j + 1]
                           /\ j > 1 => h.item[F.kids[a][j]].prev = F.kids[a][j - 1]
                           /\ j = 1 /\ a \notin Q => h.item[F.kids[a][j]].prev = F.kids[a][Len(F.kids[a])]
    BY DEF Links
  <2>1. /\ h.item[a].type # "free"
        /\ h.item[a].ref => F.kids[a] = <<>>
        /\ ~h.item[a].ref =>
             h.item[a].child = IF a \in C \/ F.kids[a] = <<>> THEN NULL ELSE F.kids[a][1]
        /\ \A j \in DOMAIN F.kids[a] :
             /\ h.item[F.kids[a][j]].next = IF j = Len(F.kids[a]) THEN NULL ELSE F.kids[a][j + 1]
             /\ j > 1 => h.item[F.kids[a][j]].prev = F.kids[a][j - 1]
             /\ j = 1 /\ a \notin P => h.item[F.kids[a][j]].prev = F.kids[a][Len(F.kids[a])]
    BY <1>1 DEF Links
  <2>2. CASE F.kids[a] = <<>>
    BY <2>1, <2>2
  <2>3. CASE F.kids[a] # <<>>
    BY <2>1, <2>3
  <2> QED
    BY <2>2, <2>3
<1> QED
  BY <1>1, <1>2 DEF Holds

\* Two forests of different items
LEMMA JoinHolds ==
  ASSUME NEW h \in HeapT, NEW F, NEW T, NEW C, NEW P, Holds(h, F, T, C, P),
         NEW G, NEW U, NEW D, NEW Q, Holds(h, G, U, D, Q), F.live \cap G.live = {},
         NEW E, NEW V,
         \A a \in F.live : (a \in E <=> a \in C) /\ (a \in V <=> a \in P),
         \A a \in G.live : (a \in E <=> a \in D) /\ (a \in V <=> a \in Q)
  PROVE  Holds(h, Beside(F, G), T \cup U, E, V)
<1> DEFINE B == Beside(F, G)
<1>1. IsForest(F, T) /\ Links(h, F, C, P) /\ Tops(h, T) /\ IsForest(G, U) /\ Links(h, G, D, Q) /\ Tops(h, U)
  BY DEF Holds
<1>2. IsForest(B, T \cup U)
  BY <1>1, BesideIsForest
<1>3. F.live \subseteq Items /\ G.live \subseteq Items
  BY <1>1, KidsFacts
<1>4. /\ B.live = F.live \cup G.live
      /\ \A a \in F.live : B.kids[a] = F.kids[a]
      /\ \A a \in G.live : B.kids[a] = G.kids[a]
  BY <1>3 DEF Beside
<1> HIDE DEF B
<1>5. Links(h, B, E, V)
  <2> SUFFICES ASSUME NEW a \in B.live
               PROVE  /\ h.item[a].type # "free"
                      /\ h.item[a].ref => B.kids[a] = <<>>
                      /\ ~h.item[a].ref =>
                           h.item[a].child = IF a \in E \/ B.kids[a] = <<>> THEN NULL ELSE B.kids[a][1]
                      /\ \A j \in DOMAIN B.kids[a] :
                           /\ h.item[B.kids[a][j]].next = IF j = Len(B.kids[a]) THEN NULL ELSE B.kids[a][j + 1]
                           /\ j > 1 => h.item[B.kids[a][j]].prev = B.kids[a][j - 1]
                           /\ j = 1 /\ a \notin V => h.item[B.kids[a][j]].prev = B.kids[a][Len(B.kids[a])]
    BY DEF Links
  <2>1. CASE a \in F.live
    <3>1. B.kids[a] = F.kids[a] /\ (a \in E <=> a \in C) /\ (a \in V <=> a \in P)
      BY <1>4, <2>1, SMTT(30)
    <3> QED
      BY <1>1, <2>1, <3>1 DEF Links
  <2>2. CASE a \in G.live
    <3>1. B.kids[a] = G.kids[a] /\ (a \in E <=> a \in D) /\ (a \in V <=> a \in Q)
      BY <1>4, <2>2
    <3> QED
      BY <1>1, <2>2, <3>1 DEF Links
  <2> QED
    BY <1>4, <2>1, <2>2
<1>6. Tops(h, T \cup U)
  BY <1>1 DEF Tops
<1> QED
  BY <1>2, <1>5, <1>6 DEF Holds, B

-----------------------------------------------------------------------------
(* New items *)

LEMMA FreshHolds ==
  ASSUME NEW g, NEW h, NEW r, Fresh(g, h, r)
  PROVE  Holds(g, Single(r), {r}, {}, {}) /\ Single(r).live = {r} /\ \A x \in Items : Single(r).kids[x] = <<>>
<1>1. r \in Items /\ Single(r).live = {r} /\ \A x \in Items : Single(r).kids[x] = <<>>
  BY DEF Single, Fresh
<1>2. IsForest(Single(r), {r})
  BY <1>1, SingleIsForest
<1>3. DOMAIN Single(r).kids[r] = {}
  <2>1. Single(r).kids[r] = <<>>
    BY <1>1
  <2> QED
    BY <2>1
<1>4. Links(g, Single(r), {}, {})
  BY <1>1, <1>3 DEF Links, Fresh
<1>5. Tops(g, {r})
  BY DEF Tops, Fresh
<1> QED
  BY <1>1, <1>2, <1>4, <1>5 DEF Holds

\* Other items stay as they are.
LEMMA FreshKeeps ==
  ASSUME NEW h \in HeapT, NEW F, NEW T, NEW C, NEW P, Holds(h, F, T, C, P), NEW g, NEW r, Fresh(g, h, r)
  PROVE  r \notin F.live /\ Holds(g, F, T, C, P)
<1>1. F.live \subseteq Items /\ \A x \in F.live : h.item[x].type # "free"
  BY LiveItems
<1>2. r \notin F.live
  BY <1>1 DEF Fresh
<1>3. \A x \in F.live : g.item[x] = h.item[x]
  BY <1>1, <1>2 DEF Fresh
<1> QED
  BY <1>1, <1>2, <1>3, ForestKept

LEMMA CallerGrows ==
  ASSUME NEW h \in HeapT, NEW F, NEW R, Caller(h, F, R), NEW g, NEW r, Fresh(g, h, r),
         g.item[r].ref => /\ g.item[r].of \in F.live /\ ~h.item[g.item[r].of].ref
                          /\ g.item[r].child = h.item[g.item[r].of].child
  PROVE  Caller(g, Beside(F, Single(r)), R \cup {r}) /\ r \notin F.live
<1>1. Holds(h, F, R, {}, {}) /\ Refs(h, F)
  BY DEF Caller
<1>2. r \notin F.live /\ Holds(g, F, R, {}, {}) /\ g \in HeapT
  BY <1>1, FreshKeeps DEF Fresh
<1>3. Holds(g, Single(r), {r}, {}, {}) /\ Single(r).live = {r}
  BY FreshHolds
<1>4. Holds(g, Beside(F, Single(r)), R \cup {r}, {}, {})
  <2>1. F.live \cap Single(r).live = {}
    BY <1>2, <1>3
  <2> QED
    BY <1>2, <1>3, <2>1, JoinHolds
<1>5. Beside(F, Single(r)).live = F.live \cup {r}
  BY <1>3 DEF Beside
<1>6. F.live \subseteq Items
  BY <1>1, LiveItems
<1>7. \A x \in F.live : g.item[x] = h.item[x] /\ x # r
  BY <1>2, <1>6 DEF Fresh
<1>8. Refs(g, Beside(F, Single(r)))
  <2> SUFFICES ASSUME NEW q \in F.live \cup {r}
               PROVE  IF g.item[q].ref
                      THEN /\ g.item[q].of \in F.live \cup {r} /\ ~g.item[g.item[q].of].ref
                           /\ g.item[q].child = g.item[g.item[q].of].child
                      ELSE g.item[q].of = NULL
    BY <1>5 DEF Refs
  <2>1. CASE q \in F.live
    BY <1>1, <1>7, <2>1 DEF Refs
  <2>2. CASE q = r
    BY <1>7, <2>2 DEF Fresh
  <2> QED
    BY <2>1, <2>2
<1> QED
  BY <1>2, <1>4, <1>8 DEF Caller

-----------------------------------------------------------------------------
(* Links that change *)

LEMMA CallerStep ==
  ASSUME NEW h \in HeapT, NEW F, NEW R, Caller(h, F, R), NEW g, NEW a \in F.live, ForestStep(g, h, F, a),
         NEW G, NEW U, Holds(g, G, U, {}, {}), G.live = F.live,
         ~h.item[a].ref, \A r \in F.live : h.item[r].of # a
  PROVE  Caller(g, G, U)
<1>1. Holds(h, F, R, {}, {}) /\ Refs(h, F)
  BY DEF Caller
<1>2. F.live \subseteq Items
  BY <1>1, LiveItems
<1>3. \A x \in F.live : g.item[x].ref = h.item[x].ref /\ g.item[x].of = h.item[x].of
  BY <1>2 DEF ForestStep, Relinked, SameValue
<1>4. \A x \in F.live : x # a => g.item[x].child = h.item[x].child
  BY <1>2 DEF ForestStep
<1>5. Refs(g, G)
  <2> SUFFICES ASSUME NEW q \in F.live
               PROVE  IF g.item[q].ref
                      THEN /\ g.item[q].of \in F.live /\ ~g.item[g.item[q].of].ref
                           /\ g.item[q].child = g.item[g.item[q].of].child
                      ELSE g.item[q].of = NULL
    BY DEF Refs
  <2>1. CASE h.item[q].ref
    <3>1. /\ h.item[q].of \in F.live /\ ~h.item[h.item[q].of].ref
          /\ h.item[q].child = h.item[h.item[q].of].child
          /\ h.item[q].of # a /\ q # a
      BY <1>1, <2>1 DEF Refs
    <3> QED
      BY <1>3, <1>4, <2>1, <3>1
  <2>2. CASE ~h.item[q].ref
    BY <1>1, <1>3, <2>2 DEF Refs
  <2> QED
    BY <2>1, <2>2
<1> QED
  BY <1>5 DEF Caller

LEMMA SaneRelinked ==
  ASSUME NEW h, Sane(h), NEW g, NEW F, NEW a, ForestStep(g, h, F, a), \A x \in F.live : h.item[x].type # "free"
  PROVE  Sane(g) /\ Live(g) = Live(h)
<1>1. h \in HeapT /\ Relinked(g, h)
  BY DEF Sane, ForestStep
<1>2. Strings(g, Items) = Strings(h, Items)
  BY <1>1, RelinkedOwners
<1>3. g \in HeapT /\ g.strings = h.strings /\ g.twice = h.twice /\ \A x \in Items : g.item[x].type = h.item[x].type
  BY <1>1 DEF Relinked, SameValue
<1>4. \A x \in Items : g.item[x].type = "free" => g.item[x] = Free
  BY <1>3 DEF ForestStep, Sane
<1> QED
  BY <1>2, <1>3, <1>4 DEF Sane, Live

-----------------------------------------------------------------------------
(* A root is deleted *)

LEMMA BelowHolds ==
  ASSUME NEW h, NEW F, NEW T, NEW P, Holds(h, F, T, {}, P), NEW i \in T
  PROVE  /\ Holds(h, Below(F, i), {i}, {}, P) /\ Holds(h, Remaining(F, i), T \ {i}, {}, P)
         /\ Below(F, i).live = Forest!Tree(F, i) /\ Forest!Tree(F, i) \subseteq F.live
         /\ Remaining(F, i).live = F.live \ Forest!Tree(F, i)
<1> DEFINE tree == Forest!Tree(F, i)
           B == Below(F, i)
           G == Remaining(F, i)
<1>1. /\ IsForest(F, T) /\ Links(h, F, {}, P) /\ Tops(h, T) /\ F \in ForestT /\ F.live \subseteq Items
      /\ i \in F.live /\ i \in Items
  <2>1. IsForest(F, T)
    BY DEF Holds
  <2> QED
    BY <2>1, KidsFacts DEF Holds
<1>2. IsForest(B, {i}) /\ IsForest(G, T \ {i})
  BY <1>1, BelowIsForest, RemainingIsForest
<1>3. tree \subseteq F.live
  BY <1>1, NoOtherEntry
<1>4. /\ B.live = tree /\ \A a \in Items : B.kids[a] = IF a \in tree THEN F.kids[a] ELSE <<>>
      /\ G.live = F.live \ tree /\ \A a \in Items : G.kids[a] = IF a \in tree THEN <<>> ELSE F.kids[a]
  BY DEF Below, Remaining, Forest!Without
<1> HIDE DEF B, G, tree
<1>5. \A a \in tree : a \in F.live /\ B.kids[a] = F.kids[a]
  BY <1>1, <1>3, <1>4
<1>6. \A a \in F.live \ tree : G.kids[a] = F.kids[a]
  BY <1>1, <1>4
<1>7. Links(h, B, {}, P)
  <2> SUFFICES ASSUME NEW a \in tree
               PROVE  /\ h.item[a].type # "free"
                      /\ h.item[a].ref => B.kids[a] = <<>>
                      /\ ~h.item[a].ref =>
                           h.item[a].child = IF a \in {} \/ B.kids[a] = <<>> THEN NULL ELSE B.kids[a][1]
                      /\ \A j \in DOMAIN B.kids[a] :
                           /\ h.item[B.kids[a][j]].next = IF j = Len(B.kids[a]) THEN NULL ELSE B.kids[a][j + 1]
                           /\ j > 1 => h.item[B.kids[a][j]].prev = B.kids[a][j - 1]
                           /\ j = 1 /\ a \notin P => h.item[B.kids[a][j]].prev = B.kids[a][Len(B.kids[a])]
    BY <1>4 DEF Links
  <2>1. a \in F.live /\ B.kids[a] = F.kids[a]
    BY <1>5
  <2> QED
    BY <1>1, <2>1 DEF Links
<1>8. Links(h, G, {}, P)
  <2> SUFFICES ASSUME NEW a \in F.live \ tree
               PROVE  /\ h.item[a].type # "free"
                      /\ h.item[a].ref => G.kids[a] = <<>>
                      /\ ~h.item[a].ref =>
                           h.item[a].child = IF a \in {} \/ G.kids[a] = <<>> THEN NULL ELSE G.kids[a][1]
                      /\ \A j \in DOMAIN G.kids[a] :
                           /\ h.item[G.kids[a][j]].next = IF j = Len(G.kids[a]) THEN NULL ELSE G.kids[a][j + 1]
                           /\ j > 1 => h.item[G.kids[a][j]].prev = G.kids[a][j - 1]
                           /\ j = 1 /\ a \notin P => h.item[G.kids[a][j]].prev = G.kids[a][Len(G.kids[a])]
    BY <1>4 DEF Links
  <2>1. a \in F.live /\ G.kids[a] = F.kids[a]
    BY <1>6
  <2> QED
    BY <1>1, <2>1 DEF Links
<1>9. Tops(h, {i}) /\ Tops(h, T \ {i})
  BY <1>1 DEF Tops
<1> QED
  BY <1>2, <1>3, <1>4, <1>7, <1>8, <1>9 DEF Holds, B, G, tree

\* A tree is deleted that nothing else shares.
DeletedFrom(g, h, tree) ==
  /\ Sane(g) /\ g.mem = h.mem
  /\ \A x \in Items : g.item[x] = IF x \in tree THEN Free ELSE h.item[x]
  /\ Live(g) = Live(h) \ tree

LEMMA Deleted ==
  ASSUME NEW h, Sane(h), NEW F, NEW T, NEW C, NEW P, Holds(h, F, T, C, P),
         NEW starts, Starts(F, T, C, starts)
  PROVE  DeletedFrom(Deletions(h, starts), h, F.live)
<1> DEFINE g == Deletions(h, starts)
<1>1. h \in HeapT /\ F.live \subseteq Items
  BY LiveItems DEF Sane
<1>2. /\ g \in HeapT /\ g.mem = h.mem /\ g.twice = h.twice
      /\ \A x \in F.live : g.item[x] = Free
      /\ \A x \in Items : x \notin F.live => g.item[x] = h.item[x]
      /\ h.strings = Strings(h, Items) => g.strings = Strings(g, Items)
  BY <1>1, DeletionsOfForest
<1> HIDE DEF g
<1>3. Sane(g)
  BY <1>2 DEF Sane
<1>4. \A x \in Items : g.item[x] = IF x \in F.live THEN Free ELSE h.item[x]
  BY <1>2
<1>5. Live(g) = Live(h) \ F.live
  BY <1>1, <1>4 DEF Live, Free
<1> QED
  BY <1>2, <1>3, <1>4, <1>5 DEF DeletedFrom, g

LEMMA CallerDeletes ==
  ASSUME NEW h, Sane(h), NEW F, NEW R, Caller(h, F, R), NEW i \in R,
         \A r \in F.live : h.item[r].of \in Forest!Tree(F, i) => r \in Forest!Tree(F, i)
  PROVE  LET g == cJSON_Delete(h, i) IN
         /\ DeletedFrom(g, h, Forest!Tree(F, i)) /\ Forest!Tree(F, i) \subseteq F.live
         /\ Caller(g, Remaining(F, i), R \ {i})
         /\ Remaining(F, i).live = F.live \ Forest!Tree(F, i)
<1> DEFINE g == cJSON_Delete(h, i)
           tree == Forest!Tree(F, i)
           G == Remaining(F, i)
<1>1. Holds(h, F, R, {}, {}) /\ Refs(h, F) /\ h \in HeapT
  BY DEF Caller, Sane
<1>2. /\ Holds(h, Below(F, i), {i}, {}, {}) /\ Holds(h, G, R \ {i}, {}, {})
      /\ Below(F, i).live = tree /\ tree \subseteq F.live /\ G.live = F.live \ tree
  <2>1. Holds(h, Below(F, i), {i}, {}, {})
    BY <1>1, BelowHolds
  <2>2. Holds(h, G, R \ {i}, {}, {})
    BY <1>1, BelowHolds
  <2>3. Below(F, i).live = tree /\ tree \subseteq F.live
    <3>1. IsForest(F, R) /\ i \in F.live
      BY <1>1, LiveItems
    <3> QED
      BY <3>1, NoOtherEntry DEF Below
  <2>4. G.live = F.live \ tree
    BY DEF Remaining, Forest!Without
  <2> QED
    BY <2>1, <2>2, <2>3, <2>4
<1>3. Starts(Below(F, i), {i}, {}, <<i>>)
  BY <1>1, <1>2, DeleteTree
<1>4. DeletedFrom(g, h, tree)
  BY <1>2, <1>3, Deleted DEF cJSON_Delete
<1> HIDE DEF g, G
<1>5. F.live \subseteq Items
  BY <1>1, LiveItems
<1>6. \A x \in G.live : g.item[x] = h.item[x] /\ h.item[x].type # "free"
  BY <1>1, <1>2, <1>4, <1>5, LiveItems DEF DeletedFrom
<1>7. Holds(g, G, R \ {i}, {}, {})
  BY <1>1, <1>2, <1>6, ForestKept
<1>8. Refs(g, G)
  <2> SUFFICES ASSUME NEW q \in G.live
               PROVE  IF g.item[q].ref
                      THEN /\ g.item[q].of \in G.live /\ ~g.item[g.item[q].of].ref
                           /\ g.item[q].child = g.item[g.item[q].of].child
                      ELSE g.item[q].of = NULL
    BY DEF Refs
  <2>1. q \in F.live /\ q \notin tree /\ g.item[q] = h.item[q]
    BY <1>2, <1>6
  <2>2. CASE h.item[q].ref
    <3>1. /\ h.item[q].of \in F.live /\ ~h.item[h.item[q].of].ref
          /\ h.item[q].child = h.item[h.item[q].of].child
      BY <1>1, <2>1, <2>2 DEF Refs
    <3>2. h.item[q].of \in G.live
      BY <1>2, <2>1, <3>1
    <3>3. g.item[h.item[q].of] = h.item[h.item[q].of] /\ g.item[q].ref /\ g.item[q].of = h.item[q].of
      BY <1>6, <2>1, <2>2, <3>2
    <3> QED
      BY <2>1, <3>1, <3>2, <3>3
  <2>3. CASE ~h.item[q].ref
    BY <1>1, <2>1, <2>3 DEF Refs
  <2> QED
    BY <2>2, <2>3
<1> QED
  BY <1>2, <1>4, <1>7, <1>8 DEF Caller, g, G

-----------------------------------------------------------------------------
(* The steps of JsonForest *)

LEMMA TopsAreRoots ==
  ASSUME NEW F, NEW T, IsForest(F, T)
  PROVE  T \subseteq Forest!Roots(F)
<1>1. F.live \subseteq Items /\ \A a \in Items : \A j \in DOMAIN F.kids[a] : F.kids[a][j] \notin T
  BY KidsFacts
<1>2. T \subseteq F.live
  BY DEF IsForest
<1> QED
  BY <1>1, <1>2 DEF Forest!Roots, Forest!ToSet

LEMMA GrowStep ==
  ASSUME NEW F, NEW T, IsForest(F, T), NEW W, NEW i, IsForest(W, {i}), F.live \cap W.live = {}
  PROVE  Forest!Grow(F, Beside(F, W))
<1> DEFINE G == Beside(F, W)
<1>1. /\ F \in ForestT /\ W \in ForestT /\ F.live \subseteq Items /\ W.live \subseteq Items
      /\ i \in W.live /\ i \in Items
  BY KidsFacts
<1>2. /\ G.live = F.live \cup W.live
      /\ \A x \in F.live : G.kids[x] = F.kids[x]
      /\ \A x \in W.live : G.kids[x] = W.kids[x]
  BY <1>1 DEF Beside
<1>3. G \in ForestT
  <2>1. IsForest(G, T \cup {i})
    BY BesideIsForest
  <2> QED
    BY <2>1 DEF IsForest
<1> HIDE DEF G
<1>4. Forest!Tree(W, i) = W.live
  BY OneTree
<1>5. Forest!Tree(G, i) = W.live
  BY <1>1, <1>2, <1>3, <1>4, SameTree
<1>6. G.live \ F.live = W.live
  BY <1>2
<1>7. i \in G.live \ F.live
  BY <1>1, <1>6
<1> QED
  BY <1>1, <1>2, <1>5, <1>6, <1>7 DEF Forest!Grow, G

\* The item i comes to a, whatever holds of it.
LEMMA AttachedNewChild ==
  ASSUME NEW F, NEW T, IsForest(F, T), NEW i \in Items, \A a \in Items : \A j \in DOMAIN F.kids[a] : F.kids[a][j] # i,
         NEW a \in F.live, NEW n \in 1 .. Len(F.kids[a]) + 1
  PROVE  /\ i \in Forest!NewChildren(F, Attached(F, a, n, i), a)
         /\ Attached(F, a, n, i) = [live |-> F.live, kids |-> [F.kids EXCEPT ![a] = Forest!InsertAt(F.kids[a], n, i)]]
<1> DEFINE G == Attached(F, a, n, i)
           t == G.kids[a]
<1>1. F \in ForestT /\ a \in Items /\ Len(F.kids[a]) \in Nat
  BY KidsFacts
<1>2. /\ Len(t) = Len(F.kids[a]) + 1 /\ DOMAIN t = 1 .. Len(t)
      /\ \A j \in 1 .. Len(t) : t[j] = IF j < n THEN F.kids[a][j] ELSE IF j = n THEN i ELSE F.kids[a][j - 1]
  BY <1>1, AttachedKids
<1>3. F = [live |-> F.live, kids |-> F.kids] /\ F.kids \in [Items -> Seq(Items)]
  BY <1>1 DEF ForestT
<1>4. InsertAt(F.kids[a], n, i) = Forest!InsertAt(F.kids[a], n, i)
  BY DEF InsertAt, Forest!InsertAt
<1>5. G = [F EXCEPT !.kids = [F.kids EXCEPT ![a] = Forest!InsertAt(F.kids[a], n, i)]]
  BY <1>4 DEF Attached
<1>6. G = [live |-> F.live, kids |-> [F.kids EXCEPT ![a] = Forest!InsertAt(F.kids[a], n, i)]]
  BY <1>3, <1>5
<1> HIDE DEF G
<1>7. n \in DOMAIN t /\ t[n] = i
  BY <1>1, <1>2
<1>8. i \in Forest!NewChildren(F, G, a)
  BY <1>1, <1>7 DEF Forest!NewChildren, Forest!ToSet
<1> QED
  BY <1>6, <1>8 DEF G

LEMMA AttachStep ==
  ASSUME NEW F, NEW T, IsForest(F, T), NEW i \in T, NEW a \in F.live, a \notin Forest!Tree(F, i),
         NEW n \in 1 .. Len(F.kids[a]) + 1
  PROVE  Forest!Attach(F, Attached(F, a, n, i))
<1>1. i \in Forest!Roots(F) /\ i \in F.live /\ i \in Items
  BY TopsAreRoots, KidsFacts
<1>2. \A b \in Items : \A j \in DOMAIN F.kids[b] : F.kids[b][j] # i
  BY KidsFacts
<1> DEFINE G == Attached(F, a, n, i)
<1>3. /\ i \in Forest!NewChildren(F, G, a)
      /\ G = [live |-> F.live, kids |-> [F.kids EXCEPT ![a] = Forest!InsertAt(F.kids[a], n, i)]]
  BY <1>1, <1>2, AttachedNewChild
<1> HIDE DEF G
<1>4. F.live \cup {i} = F.live
  BY <1>1
<1> QED
  BY <1>1, <1>3, <1>4 DEF Forest!Attach, G

\* A new item becomes a child at once.
LEMMA AttachNewStep ==
  ASSUME NEW F, NEW T, IsForest(F, T), NEW i \in Items, i \notin F.live, NEW a \in F.live,
         NEW n \in 1 .. Len(F.kids[a]) + 1
  PROVE  /\ Forest!Attach(F, Attached(Beside(F, Single(i)), a, n, i))
         /\ a \notin Forest!Tree(Beside(F, Single(i)), i) /\ Beside(F, Single(i)).kids[a] = F.kids[a]
<1> DEFINE B == Beside(F, Single(i))
           G == Attached(B, a, n, i)
<1>1. /\ F \in ForestT /\ F.live \subseteq Items /\ a \in Items
      /\ \A x \in Items : x \notin F.live => F.kids[x] = <<>>
      /\ \A b \in Items : \A j \in DOMAIN F.kids[b] : F.kids[b][j] \in F.live
      /\ F.kids \in [Items -> Seq(Items)] /\ F = [live |-> F.live, kids |-> F.kids]
  BY KidsFacts DEF IsForest, ForestT
<1>2. B.live = F.live \cup {i} /\ B.kids = F.kids
  <2>1. \A x \in Items : (IF x \in F.live THEN F.kids[x] ELSE Single(i).kids[x]) = F.kids[x]
    BY <1>1 DEF Single
  <2>2. B.kids = [x \in Items |-> F.kids[x]]
    BY <2>1 DEF Beside
  <2> QED
    BY <1>1, <2>2 DEF Beside, Single
<1>3. IsForest(B, T \cup {i})
  <2>1. IsForest(Single(i), {i}) /\ F.live \cap Single(i).live = {}
    BY SingleIsForest DEF Single
  <2> QED
    BY <2>1, BesideIsForest
<1> HIDE DEF B
<1>4. \A b \in Items : \A j \in DOMAIN B.kids[b] : B.kids[b][j] # i
  BY <1>1, <1>2
<1>5. /\ i \in Forest!NewChildren(B, G, a)
      /\ G = [live |-> F.live \cup {i}, kids |-> [F.kids EXCEPT ![a] = Forest!InsertAt(F.kids[a], n, i)]]
  BY <1>2, <1>3, <1>4, AttachedNewChild
<1> HIDE DEF G
<1>6. i \in Forest!NewChildren(F, G, a)
  BY <1>2, <1>5 DEF Forest!NewChildren
<1>7. F.kids[i] = <<>>
  BY <1>1
<1>8. \A H \in ForestT : H.kids[i] = <<>> => Forest!Tree(H, i) = {i}
  <2> SUFFICES ASSUME NEW H \in ForestT, H.kids[i] = <<>>
               PROVE  Forest!Tree(H, i) = {i}
    OBVIOUS
  <2>1. Down(H, {i})
    BY DEF Down
  <2> QED
    BY <2>1, TreeFacts
<1>9. Forest!Tree(F, i) = {i} /\ Forest!Tree(B, i) = {i}
  <2>1. B \in ForestT
    BY <1>3 DEF IsForest
  <2> QED
    BY <1>1, <1>2, <1>7, <1>8, <2>1
<1>10. a \notin {i}
  OBVIOUS
<1> QED
  BY <1>2, <1>5, <1>6, <1>7, <1>9, <1>10 DEF Forest!Attach, G, B

LEMMA DetachStep ==
  ASSUME NEW F, NEW T, IsForest(F, T), NEW a \in F.live, NEW n \in DOMAIN F.kids[a]
  PROVE  Forest!Detach(F, Detached(F, a, n))
<1>1. RemoveAt(F.kids[a], n) = Forest!RemoveAt(F.kids[a], n)
  BY DEF RemoveAt, Forest!RemoveAt
<1>2. Detached(F, a, n) = [F EXCEPT !.kids = [F.kids EXCEPT ![a] = Forest!RemoveAt(F.kids[a], n)]]
  BY <1>1 DEF Detached
<1> QED
  BY <1>2 DEF Forest!Detach

LEMMA DeleteStep ==
  ASSUME NEW F, NEW T, IsForest(F, T), NEW i \in T
  PROVE  Forest!Delete(F, Remaining(F, i))
BY TopsAreRoots DEF Forest!Delete, Remaining

\* A child is detached and deleted.
LEMMA DeleteChildStep ==
  ASSUME NEW F, NEW T, IsForest(F, T), NEW a \in F.live, NEW n \in 1 .. Len(F.kids[a])
  PROVE  LET i == F.kids[a][n]
             D == Detached(F, a, n)
         IN Forest!Tree(D, i) = Forest!Tree(F, i) /\ Forest!Delete(F, Remaining(D, i))
<1> DEFINE i == F.kids[a][n]
           D == Detached(F, a, n)
<1>1. F \in ForestT /\ a \in Items /\ n \in DOMAIN F.kids[a] /\ i \in Items
  BY KidsFacts
<1>2. D \in ForestT /\ D.live = F.live /\ \A b \in Items : b # a => D.kids[b] = F.kids[b]
  BY <1>1, DetachedKids
<1>3. D.kids = [F.kids EXCEPT ![a] = Forest!RemoveAt(F.kids[a], n)]
  <2>1. RemoveAt(F.kids[a], n) = Forest!RemoveAt(F.kids[a], n)
    BY DEF RemoveAt, Forest!RemoveAt
  <2>2. D = [F EXCEPT !.kids = [F.kids EXCEPT ![a] = Forest!RemoveAt(F.kids[a], n)]]
    BY <2>1 DEF Detached
  <2>3. F = [live |-> F.live, kids |-> F.kids]
    BY <1>1 DEF ForestT
  <2> QED
    BY <2>2, <2>3
<1>4. a \notin Forest!Tree(F, i) /\ Forest!Tree(F, i) \subseteq Items
  BY <1>1, NoCycle, TreeFacts
<1> HIDE DEF D
<1>5. Forest!Tree(D, i) = Forest!Tree(F, i)
  BY <1>1, <1>2, <1>4, SameTree
<1>6. Remaining(D, i) = Forest!Without(F, [F.kids EXCEPT ![a] = Forest!RemoveAt(F.kids[a], n)], Forest!Tree(F, i))
  BY <1>2, <1>3, <1>5 DEF Remaining, Forest!Without
<1> QED
  BY <1>1, <1>5, <1>6 DEF Forest!Delete, D

\* The place of a child is taken by a root, and the child is deleted.
LEMMA ReplaceStep ==
  ASSUME NEW F, NEW T, IsForest(F, T), NEW a \in F.live, NEW n \in 1 .. Len(F.kids[a]),
         NEW new \in T, a \notin Forest!Tree(F, new)
  PROVE  LET i == F.kids[a][n]
             S == Swapped(F, a, n, new)
         IN Forest!Tree(S, i) = Forest!Tree(F, i) /\ Forest!Replace(F, Remaining(S, i))
<1> DEFINE i == F.kids[a][n]
           S == Swapped(F, a, n, new)
           G == Remaining(S, i)
<1>1. /\ F \in ForestT /\ a \in Items /\ n \in DOMAIN F.kids[a] /\ i \in Items /\ new \in Items
      /\ \A j \in DOMAIN F.kids[a] : F.kids[a][j] # new
      /\ new \in Forest!Roots(F)
  BY KidsFacts, TopsAreRoots
<1>0. n \in 1 .. Len(F.kids[a]) /\ n \in Int /\ Len(F.kids[a]) \in Nat
  BY <1>1, KidsFacts
<1>2. /\ S \in ForestT /\ S.live = F.live /\ \A b \in Items : b # a => S.kids[b] = F.kids[b]
      /\ DOMAIN S.kids[a] = DOMAIN F.kids[a] /\ S.kids[a][n] = new
  <2>1. S \in ForestT
    BY <1>1, SwappedKids
  <2>2. S.live = F.live
    BY <1>1, SwappedKids
  <2>3. \A b \in Items : b # a => S.kids[b] = F.kids[b]
    BY <1>1, SwappedKids
  <2>4. Len(S.kids[a]) = Len(F.kids[a]) /\ DOMAIN S.kids[a] = 1 .. Len(S.kids[a]) /\ DOMAIN F.kids[a] = 1 .. Len(F.kids[a])
    BY <1>1, SwappedKids
  <2>5. \A j \in 1 .. Len(S.kids[a]) : S.kids[a][j] = IF j = n THEN new ELSE F.kids[a][j]
    BY <1>0, <1>1, SwappedKids
  <2> QED
    BY <1>1, <2>1, <2>2, <2>3, <2>4, <2>5
<1>3. S.kids = [F.kids EXCEPT ![a] = [F.kids[a] EXCEPT ![n] = new]]
  <2>1. S = [F EXCEPT !.kids = [F.kids EXCEPT ![a] = [F.kids[a] EXCEPT ![n] = new]]]
    BY DEF Swapped
  <2>2. F = [live |-> F.live, kids |-> F.kids]
    BY <1>1 DEF ForestT
  <2> QED
    BY <2>1, <2>2
<1>4. a \notin Forest!Tree(F, i) /\ Forest!Tree(F, i) \subseteq Items
  BY <1>1, NoCycle, TreeFacts
<1> HIDE DEF S
<1>5. Forest!Tree(S, i) = Forest!Tree(F, i)
  BY <1>1, <1>2, <1>4, SameTree
<1>6. G = Forest!Without(F, [F.kids EXCEPT ![a] = [F.kids[a] EXCEPT ![n] = new]], Forest!Tree(F, i))
  BY <1>2, <1>3, <1>5 DEF Remaining, Forest!Without
<1>7. G.kids[a] = S.kids[a]
  BY <1>1, <1>4, <1>5 DEF Remaining, Forest!Without
<1> HIDE DEF G
<1>8. new \in Forest!NewChildren(F, G, a)
  BY <1>1, <1>2, <1>7 DEF Forest!NewChildren, Forest!ToSet
<1>9. [F.kids EXCEPT ![a][n] = new] = [F.kids EXCEPT ![a] = [F.kids[a] EXCEPT ![n] = new]]
  OBVIOUS
<1> QED
  BY <1>1, <1>5, <1>6, <1>8, <1>9 DEF Forest!Replace, S, G

-----------------------------------------------------------------------------
(* One item gets another value *)

Own(x) == One(OwnName(x)) + One(OwnString(x))
Put(h, i, x, s, m) ==
  [item |-> [h.item EXCEPT ![i] = x], strings |-> s, mem |-> m, twice |-> h.twice]

\* The items, strings and faults of a heap; what malloc has left does not matter.
AsBefore(g, h) ==
  /\ g \in HeapT /\ g.item = h.item /\ g.strings = h.strings /\ g.twice = h.twice

LEMMA PutFacts ==
  ASSUME NEW h \in HeapT, NEW i \in Items, NEW x \in ItemT, NEW s \in Int, NEW m \in Nat
  PROVE  LET g == Put(h, i, x, s, m) IN
         /\ g \in HeapT /\ g.item[i] = x /\ g.strings = s /\ g.mem = m /\ g.twice = h.twice
         /\ \A y \in Items : y # i => g.item[y] = h.item[y]
BY DEF HeapT, Put

LEMMA PutSane ==
  ASSUME NEW h, Sane(h), NEW i \in Items, NEW x \in ItemT, NEW s \in Int, NEW m \in Nat,
         x.type # "free", s = h.strings - Own(h.item[i]) + Own(x)
  PROVE  Sane(Put(h, i, x, s, m))
<1> DEFINE g == Put(h, i, x, s, m)
<1>1. h \in HeapT /\ h.strings = Strings(h, Items) /\ ~h.twice
  BY DEF Sane
<1>2. /\ g \in HeapT /\ g.item[i] = x /\ g.strings = s /\ g.twice = h.twice
      /\ \A y \in Items : y # i => g.item[y] = h.item[y]
  BY <1>1, PutFacts
<1> HIDE DEF g
<1>3. Strings(g, Items) = Strings(h, Items) - Owned(h, i) + Owned(g, i)
  <2>1. \A y \in Items : y # i => SameOwner(g, h, y)
    BY <1>2 DEF SameOwner
  <2> QED
    BY <2>1, StringsOfOne
<1>4. Owned(h, i) = Own(h.item[i]) /\ Owned(g, i) = Own(x)
  BY <1>2 DEF Owned, Own
<1>5. g.strings = Strings(g, Items)
  BY <1>1, <1>2, <1>3, <1>4
<1>6. \A y \in Items : g.item[y].type = "free" => g.item[y] = Free
  BY <1>2 DEF Sane
<1> QED
  BY <1>1, <1>2, <1>5, <1>6 DEF Sane, g

LEMMA SameSane ==
  ASSUME NEW h, Sane(h), NEW g, AsBefore(g, h)
  PROVE  Sane(g)
<1>1. Strings(g, Items) = Strings(h, Items)
  BY DEF AsBefore, Strings
<1> QED
  BY <1>1 DEF Sane, AsBefore

LEMMA SetMem ==
  ASSUME NEW h \in HeapT, NEW m \in Nat
  PROVE  AsBefore([h EXCEPT !.mem = m], h)
BY DEF AsBefore, HeapT

LEMMA PutType ==
  ASSUME NEW h \in HeapT, NEW i \in Items, NEW x \in ItemT, NEW s \in Int, NEW m \in Nat,
         NEW v \in Types \cup {"free", "new"}
  PROVE  /\ [x EXCEPT !.type = v] \in ItemT
         /\ Set(Put(h, i, x, s, m), i, "type", v) = Put(h, i, [x EXCEPT !.type = v], s, m)
<1> DEFINE g == Put(h, i, x, s, m)
           y == [x EXCEPT !.type = v]
<1>1. /\ g = [item |-> g.item, strings |-> s, mem |-> m, twice |-> h.twice] /\ g.item = [h.item EXCEPT ![i] = x]
      /\ g.item \in [Items -> ItemT] /\ g.item[i] = x
  BY DEF Put, HeapT
<1>2. y \in ItemT
  BY DEF ItemT
<1>3. [g.item EXCEPT ![i] = y] = [h.item EXCEPT ![i] = y]
  <2> HIDE DEF g, y
  <2> QED
    BY <1>1 DEF HeapT
<1>4. Put(h, i, y, s, m) = [item |-> [h.item EXCEPT ![i] = y], strings |-> s, mem |-> m, twice |-> h.twice]
  BY DEF Put
<1> HIDE DEF g
<1>5. Set(g, i, "type", v) = [g EXCEPT !.item = [g.item EXCEPT ![i] = y]]
  BY <1>1 DEF Set
<1> HIDE DEF y
<1>6. Set(g, i, "type", v) = Put(h, i, y, s, m)
  BY <1>1, <1>3, <1>4, <1>5
<1> QED
  BY <1>2, <1>6 DEF g, y

LEMMA PutString ==
  ASSUME NEW h \in HeapT, NEW i \in Items, NEW x \in ItemT, NEW s \in Int, NEW m \in Nat,
         NEW v \in BOOLEAN
  PROVE  /\ [x EXCEPT !.string = v] \in ItemT
         /\ Set(Put(h, i, x, s, m), i, "string", v) = Put(h, i, [x EXCEPT !.string = v], s, m)
<1> DEFINE g == Put(h, i, x, s, m)
           y == [x EXCEPT !.string = v]
<1>1. /\ g = [item |-> g.item, strings |-> s, mem |-> m, twice |-> h.twice] /\ g.item = [h.item EXCEPT ![i] = x]
      /\ g.item \in [Items -> ItemT] /\ g.item[i] = x
  BY DEF Put, HeapT
<1>2. y \in ItemT
  BY DEF ItemT
<1>3. [g.item EXCEPT ![i] = y] = [h.item EXCEPT ![i] = y]
  <2> HIDE DEF g, y
  <2> QED
    BY <1>1 DEF HeapT
<1>4. Put(h, i, y, s, m) = [item |-> [h.item EXCEPT ![i] = y], strings |-> s, mem |-> m, twice |-> h.twice]
  BY DEF Put
<1> HIDE DEF g
<1>5. Set(g, i, "string", v) = [g EXCEPT !.item = [g.item EXCEPT ![i] = y]]
  BY <1>1 DEF Set
<1> HIDE DEF y
<1>6. Set(g, i, "string", v) = Put(h, i, y, s, m)
  BY <1>1, <1>3, <1>4, <1>5
<1> QED
  BY <1>2, <1>6 DEF g, y

LEMMA PutName ==
  ASSUME NEW h \in HeapT, NEW i \in Items, NEW x \in ItemT, NEW s \in Int, NEW m \in Nat,
         NEW v \in Names \cup {NoName}
  PROVE  /\ [x EXCEPT !.name = v] \in ItemT
         /\ Set(Put(h, i, x, s, m), i, "name", v) = Put(h, i, [x EXCEPT !.name = v], s, m)
<1> DEFINE g == Put(h, i, x, s, m)
           y == [x EXCEPT !.name = v]
<1>1. /\ g = [item |-> g.item, strings |-> s, mem |-> m, twice |-> h.twice] /\ g.item = [h.item EXCEPT ![i] = x]
      /\ g.item \in [Items -> ItemT] /\ g.item[i] = x
  BY DEF Put, HeapT
<1>2. y \in ItemT
  BY DEF ItemT
<1>3. [g.item EXCEPT ![i] = y] = [h.item EXCEPT ![i] = y]
  <2> HIDE DEF g, y
  <2> QED
    BY <1>1 DEF HeapT
<1>4. Put(h, i, y, s, m) = [item |-> [h.item EXCEPT ![i] = y], strings |-> s, mem |-> m, twice |-> h.twice]
  BY DEF Put
<1> HIDE DEF g
<1>5. Set(g, i, "name", v) = [g EXCEPT !.item = [g.item EXCEPT ![i] = y]]
  BY <1>1 DEF Set
<1> HIDE DEF y
<1>6. Set(g, i, "name", v) = Put(h, i, y, s, m)
  BY <1>1, <1>3, <1>4, <1>5
<1> QED
  BY <1>2, <1>6 DEF g, y

LEMMA PutConst ==
  ASSUME NEW h \in HeapT, NEW i \in Items, NEW x \in ItemT, NEW s \in Int, NEW m \in Nat,
         NEW v \in BOOLEAN
  PROVE  /\ [x EXCEPT !.const = v] \in ItemT
         /\ Set(Put(h, i, x, s, m), i, "const", v) = Put(h, i, [x EXCEPT !.const = v], s, m)
<1> DEFINE g == Put(h, i, x, s, m)
           y == [x EXCEPT !.const = v]
<1>1. /\ g = [item |-> g.item, strings |-> s, mem |-> m, twice |-> h.twice] /\ g.item = [h.item EXCEPT ![i] = x]
      /\ g.item \in [Items -> ItemT] /\ g.item[i] = x
  BY DEF Put, HeapT
<1>2. y \in ItemT
  BY DEF ItemT
<1>3. [g.item EXCEPT ![i] = y] = [h.item EXCEPT ![i] = y]
  <2> HIDE DEF g, y
  <2> QED
    BY <1>1 DEF HeapT
<1>4. Put(h, i, y, s, m) = [item |-> [h.item EXCEPT ![i] = y], strings |-> s, mem |-> m, twice |-> h.twice]
  BY DEF Put
<1> HIDE DEF g
<1>5. Set(g, i, "const", v) = [g EXCEPT !.item = [g.item EXCEPT ![i] = y]]
  BY <1>1 DEF Set
<1> HIDE DEF y
<1>6. Set(g, i, "const", v) = Put(h, i, y, s, m)
  BY <1>1, <1>3, <1>4, <1>5
<1> QED
  BY <1>2, <1>6 DEF g, y

\* An item as it is, put in its place
LEMMA PutItself ==
  ASSUME NEW h \in HeapT, NEW i \in Items
  PROVE  h = Put(h, i, h.item[i], h.strings, h.mem) /\ h.item[i] \in ItemT
BY DEF HeapT, Put

-----------------------------------------------------------------------------
(* Allocations *)

LEMMA StringAllocated ==
  ASSUME NEW h \in HeapT, NEW i \in Items, NEW x \in ItemT, NEW s \in Int, NEW m \in Nat
  PROVE  LET copy == cJSON_strdup(Put(h, i, x, s, m)) IN
         /\ copy.r \in BOOLEAN
         /\ copy.r => m # 0 /\ copy.heap = Put(h, i, x, s + 1, m - 1)
         /\ ~copy.r => copy.heap = Put(h, i, x, s, m)
BY DEF Put, cJSON_strdup, Result

\* The result new is an item of the type, or there is none.
IsNew(new, h, type) ==
  \/ new.r = NULL /\ AsBefore(new.heap, h)
  \/ /\ new.r \in Items /\ h.mem # 0 /\ h.item[new.r] = Free
     /\ new.heap = Put(h, new.r, [Free EXCEPT !.type = type], h.strings, h.mem - 1)

LEMMA ItemAllocated ==
  ASSUME NEW h, Sane(h)
  PROVE  IsNew(cJSON_New_Item(h), h, "new")
<1> DEFINE unused == Items \ Live(h)
           none == h.mem = 0 \/ unused = {}
<1>1. h \in HeapT
  BY DEF Sane
<1>2. CASE none
  <2>1. cJSON_New_Item(h) = Result([h EXCEPT !.mem = 0], NULL)
    BY <1>2 DEF cJSON_New_Item
  <2>2. AsBefore([h EXCEPT !.mem = 0], h)
    BY <1>1, SetMem
  <2> QED
    BY <2>1, <2>2 DEF Result, IsNew
<1>3. CASE ~none
  <2> DEFINE r == Min(unused)
  <2>1. r \in unused
    <3>1. unused \in SUBSET Nat
      BY ItemsFacts
    <3> QED
      BY <1>3, <3>1, MinIsLeast
  <2>2. h.item[r] = Free
    BY <2>1 DEF Sane, Live
  <2>3. cJSON_New_Item(h) = Result([h EXCEPT !.mem = @ - 1, !.item[r] = [Free EXCEPT !.type = "new"]], r)
    BY <1>3 DEF cJSON_New_Item
  <2> HIDE DEF r
  <2>4. [h EXCEPT !.mem = @ - 1, !.item[r] = [Free EXCEPT !.type = "new"]]
          = Put(h, r, [Free EXCEPT !.type = "new"], h.strings, h.mem - 1)
    <3> DEFINE x == [Free EXCEPT !.type = "new"]
    <3> HIDE DEF x
    <3>1. h = [item |-> h.item, strings |-> h.strings, mem |-> h.mem, twice |-> h.twice]
      BY <1>1 DEF HeapT
    <3>2. [h EXCEPT !.mem = @ - 1, !.item[r] = x] = Put(h, r, x, h.strings, h.mem - 1)
      <4> DEFINE m == h.mem - 1
                 k == [h EXCEPT !.mem = m]
      <4>1. [h EXCEPT !.mem = @ - 1, !.item[r] = x] = [k EXCEPT !.item = [k.item EXCEPT ![r] = x]]
        OBVIOUS
      <4> HIDE DEF m
      <4>2. k = [item |-> h.item, strings |-> h.strings, mem |-> m, twice |-> h.twice]
        BY <3>1
      <4> HIDE DEF k
      <4>3. k.item = h.item
        BY <4>2
      <4>4. [k EXCEPT !.item = [k.item EXCEPT ![r] = x]]
              = [item |-> [h.item EXCEPT ![r] = x], strings |-> h.strings, mem |-> m, twice |-> h.twice]
        BY <4>2, <4>3
      <4> QED
        BY <4>1, <4>4 DEF Put, m
    <3> QED
      BY <3>2 DEF x
  <2> QED
    BY <1>3, <2>1, <2>2, <2>3, <2>4 DEF Result, IsNew
<1> QED
  BY <1>2, <1>3

\* What the new item is made of does not lead anywhere.
LEMMA PutFresh ==
  ASSUME NEW h, Sane(h), NEW r \in Items, h.item[r] = Free, NEW x \in ItemT, NEW m \in Nat, NEW s \in Int,
         x.type # "free", x.next = NULL, x.prev = NULL, ~x.ref => x.child = NULL /\ x.of = NULL,
         s = h.strings + Own(x)
  PROVE  Fresh(Put(h, r, x, s, m), h, r) /\ Sane(Put(h, r, x, s, m))
<1>1. h \in HeapT
  BY DEF Sane
<1>2. Own(h.item[r]) = 0 /\ h.strings \in Int
  BY <1>1, FreeOwnsNothing, HeapFacts DEF Own, One
<1>3. Own(x) \in Int
  BY DEF Own, One
<1>4. Sane(Put(h, r, x, s, m))
  BY <1>2, <1>3, PutSane
<1>5. LET g == Put(h, r, x, s, m) IN
      /\ g \in HeapT /\ g.item[r] = x /\ \A y \in Items : y # r => g.item[y] = h.item[y]
  BY <1>1, PutFacts
<1>6. h.item[r].type = "free"
  BY DEF Free
<1> QED
  BY <1>4, <1>5, <1>6 DEF Fresh

LEMMA FreshDeleted ==
  ASSUME NEW h, Sane(h), NEW g, Sane(g), NEW r, Fresh(g, h, r)
  PROVE  Sane(cJSON_Delete(g, r)) /\ cJSON_Delete(g, r).item = h.item
<1> DEFINE k == cJSON_Delete(g, r)
<1>1. /\ Holds(g, Single(r), {r}, {}, {}) /\ Single(r).live = {r} /\ g \in HeapT /\ h \in HeapT /\ r \in Items
      /\ h.item[r] = Free
  BY FreshHolds DEF Fresh, Sane
<1>2. Starts(Single(r), {r}, {}, <<r>>)
  BY <1>1, DeleteTree
<1>3. DeletedFrom(k, g, {r})
  <2>1. DeletedFrom(Deletions(g, <<r>>), g, Single(r).live)
    BY <1>1, <1>2, Deleted
  <2> QED
    BY <1>1, <2>1 DEF cJSON_Delete
<1> HIDE DEF k
<1>4. k \in HeapT
  BY <1>3 DEF DeletedFrom, Sane
<1>5. \A x \in Items : k.item[x] = h.item[x]
  BY <1>1, <1>3 DEF DeletedFrom, Fresh
<1>6. k.item = h.item
  BY <1>1, <1>4, <1>5 DEF HeapT
<1> QED
  BY <1>3, <1>6 DEF DeletedFrom, k

MadeItem(res, h) == Made(res, h) /\ (res.r # NULL => ~res.heap.item[res.r].ref)

LEMMA ItemOfType ==
  ASSUME NEW type \in Types \cup {"new"}
  PROVE  LET x == [Free EXCEPT !.type = type] IN
         /\ x \in ItemT /\ x.type = type /\ x.type # "free" /\ Own(x) = 0
         /\ x.next = NULL /\ x.prev = NULL /\ x.child = NULL /\ x.of = NULL /\ ~x.ref
         /\ x.name = NoName /\ x.string = FALSE /\ x.const = FALSE
<1>1. Free \in ItemT
  BY FreeOwnsNothing
<1>2. [Free EXCEPT !.type = type] \in ItemT
  BY <1>1 DEF ItemT
<1>3. LET x == [Free EXCEPT !.type = type] IN
      /\ x.type = type /\ x.next = NULL /\ x.prev = NULL /\ x.child = NULL /\ x.of = NULL
      /\ x.ref = FALSE /\ x.name = NoName /\ x.string = FALSE /\ x.const = FALSE
  BY DEF Free
<1>4. type # "free"
  BY DEF Types
<1> QED
  BY <1>2, <1>3, <1>4 DEF Own, One, OwnName, OwnString

LEMMA IsNewMade ==
  ASSUME NEW h, Sane(h), NEW type \in Types \cup {"new"}, NEW new, IsNew(new, h, type)
  PROVE  MadeItem(new, h)
<1>1. CASE new.r = NULL /\ AsBefore(new.heap, h)
  <2>1. Sane(new.heap) /\ new.heap.item = h.item
    BY <1>1, SameSane DEF AsBefore
  <2> QED
    BY <1>1, <2>1 DEF MadeItem, Made
<1>2. CASE /\ new.r \in Items /\ h.mem # 0 /\ h.item[new.r] = Free
           /\ new.heap = Put(h, new.r, [Free EXCEPT !.type = type], h.strings, h.mem - 1)
  <2> DEFINE x == [Free EXCEPT !.type = type]
             m == h.mem - 1
             g == Put(h, new.r, x, h.strings, m)
  <2>1. h \in HeapT /\ h.strings \in Int /\ h.mem \in Nat /\ new.r # NULL
    BY <1>2, HeapFacts DEF Sane
  <2>2. m \in Nat
    BY <1>2, <2>1
  <2>3. /\ x \in ItemT /\ x.type # "free" /\ Own(x) = 0
        /\ x.next = NULL /\ x.prev = NULL /\ x.child = NULL /\ x.of = NULL /\ ~x.ref
    BY ItemOfType
  <2> HIDE DEF x, m
  <2>4. h.strings = h.strings + Own(x)
    BY <2>1, <2>3
  <2>5. Fresh(g, h, new.r) /\ Sane(g)
    BY <1>2, <2>1, <2>2, <2>3, <2>4, PutFresh
  <2>6. g.item[new.r] = x
    BY <1>2, <2>1, <2>2, <2>3, PutFacts
  <2>7. new.heap = g
    BY <1>2 DEF x, m
  <2> HIDE DEF g
  <2> QED
    BY <2>1, <2>3, <2>5, <2>6, <2>7 DEF MadeItem, Made
<1> QED
  BY <1>1, <1>2 DEF IsNew

LEMMA BasicIsNew ==
  ASSUME NEW h, Sane(h), NEW type \in Types \cup {"new"}
  PROVE  IsNew(CreateBasic(h, type), h, type)
<1> DEFINE new == cJSON_New_Item(h)
<1>1. IsNew(new, h, "new")
  BY ItemAllocated
<1> HIDE DEF new
<1>2. CASE new.r = NULL
  <2>1. AsBefore(new.heap, h)
    BY <1>1, <1>2, ItemsFacts DEF IsNew
  <2>2. CreateBasic(h, type) = new
    BY <1>2 DEF CreateBasic, new
  <2> QED
    BY <1>2, <2>1, <2>2 DEF IsNew
<1>3. CASE new.r # NULL
  <2> DEFINE m == h.mem - 1
             x == [Free EXCEPT !.type = "new"]
             g == Put(h, new.r, x, h.strings, m)
  <2>1. /\ new.r \in Items /\ h.mem # 0 /\ h.item[new.r] = Free
        /\ new.heap = g
    BY <1>1, <1>3 DEF IsNew
  <2>2. h \in HeapT /\ h.strings \in Int /\ h.mem \in Nat
    BY HeapFacts DEF Sane
  <2>3. m \in Nat
    BY <2>1, <2>2
  <2>4. x \in ItemT
    BY ItemOfType
  <2>5. [x EXCEPT !.type = type] = [Free EXCEPT !.type = type]
    BY DEF Free
  <2> HIDE DEF x, m
  <2>6. Set(g, new.r, "type", type) = Put(h, new.r, [x EXCEPT !.type = type], h.strings, m)
    BY <2>1, <2>2, <2>3, <2>4, PutType
  <2>7. CreateBasic(h, type) = Result(Set(new.heap, new.r, "type", type), new.r)
    BY <1>3 DEF CreateBasic, new
  <2>8. /\ CreateBasic(h, type).r = new.r
        /\ CreateBasic(h, type).heap = Put(h, new.r, [Free EXCEPT !.type = type], h.strings, m)
    BY <2>1, <2>5, <2>6, <2>7 DEF Result
  <2>9. /\ CreateBasic(h, type).r = new.r
        /\ CreateBasic(h, type).heap = Put(h, new.r, [Free EXCEPT !.type = type], h.strings, h.mem - 1)
    BY <2>8 DEF m
  <2> HIDE DEF g
  <2> QED
    BY <2>1, <2>9 DEF IsNew
<1> QED
  BY <1>2, <1>3

LEMMA CreateMade ==
  ASSUME NEW h, Sane(h), NEW type \in Types
  PROVE  MadeItem(Create(h, type), h)
<1>1. CASE type # "string"
  <2>1. Create(h, type) = CreateBasic(h, type)
    BY <1>1 DEF Create
  <2>2. IsNew(CreateBasic(h, type), h, type)
    BY BasicIsNew
  <2> QED
    BY <2>1, <2>2, IsNewMade
<1>2. CASE type = "string"
  <2> DEFINE new == CreateBasic(h, "string")
             copy == cJSON_strdup(new.heap)
             res == cJSON_CreateString(h)
  <2>1. IsNew(new, h, "string") /\ MadeItem(new, h)
    <3>1. "string" \in Types
      BY DEF Types
    <3> QED
      BY <3>1, BasicIsNew, IsNewMade
  <2>2. res = IF new.r = NULL THEN new
              ELSE IF copy.r THEN Result(Set(copy.heap, new.r, "string", TRUE), new.r)
              ELSE Result(cJSON_Delete(new.heap, new.r), NULL)
    BY DEF cJSON_CreateString
  <2>3. Create(h, type) = res
    BY <1>2 DEF Create
  <2> HIDE DEF res, new
  <2>4. CASE new.r = NULL
    BY <2>1, <2>2, <2>3, <2>4
  <2>5. CASE new.r # NULL
    <3> DEFINE n == new.r
               x == [Free EXCEPT !.type = "string"]
               m == h.mem - 1
               k == m - 1
               s == h.strings + 1
               g == Put(h, n, x, h.strings, m)
               y == [x EXCEPT !.string = TRUE]
    <3>1. n \in Items /\ h.mem # 0 /\ h.item[n] = Free /\ new.heap = g /\ n # NULL
      BY <2>1, <2>5 DEF IsNew
    <3>2. h \in HeapT /\ h.strings \in Int /\ h.mem \in Nat
      BY HeapFacts DEF Sane
    <3>3. m \in Nat /\ s \in Int
      BY <3>1, <3>2
    <3>4. x \in ItemT
      BY ItemOfType DEF Types
    <3>5. y \in ItemT /\ y.type # "free" /\ Own(y) = 1
          /\ y.next = NULL /\ y.prev = NULL /\ y.child = NULL /\ y.of = NULL /\ ~y.ref
      <4>1. y \in ItemT
        BY <3>4 DEF ItemT
      <4>2. /\ y.type = "string" /\ y.next = NULL /\ y.prev = NULL /\ y.child = NULL /\ y.of = NULL
            /\ y.ref = FALSE /\ y.name = NoName /\ y.string = TRUE /\ y.const = FALSE
        BY DEF Free
      <4> QED
        BY <4>1, <4>2 DEF Own, One, OwnName, OwnString
    <3>6. /\ copy.r \in BOOLEAN /\ copy.r => m # 0 /\ copy.heap = Put(h, n, x, h.strings + 1, m - 1)
      <4> HIDE DEF x, m
      <4> QED
        BY <3>1, <3>2, <3>3, <3>4, StringAllocated
    <3> HIDE DEF g
    <3>7. CASE ~copy.r
      <4>1. res.heap = cJSON_Delete(new.heap, n) /\ res.r = NULL
        BY <2>2, <2>5, <3>7 DEF Result
      <4>2. Sane(new.heap) /\ Fresh(new.heap, h, n)
        BY <2>1, <2>5 DEF MadeItem, Made
      <4>3. Sane(res.heap) /\ res.heap.item = h.item
        BY <4>1, <4>2, FreshDeleted
      <4> QED
        BY <2>3, <4>1, <4>3 DEF MadeItem, Made
    <3>8. CASE copy.r
      <4>1. k \in Nat
        <5> HIDE DEF m
        <5> QED
          BY <3>3, <3>6, <3>8
      <4>2. res = Result(Set(copy.heap, n, "string", TRUE), n)
        BY <2>2, <2>5, <3>8
      <4> HIDE DEF n, x, copy
      <4>3. copy.heap = Put(h, n, x, s, k)
        BY <3>6, <3>8
      <4> HIDE DEF s, k, m
      <4>4. Set(copy.heap, n, "string", TRUE) = Put(h, n, y, s, k)
        <5>1. \A v \in BOOLEAN : Set(Put(h, n, x, s, k), n, "string", v) = Put(h, n, [x EXCEPT !.string = v], s, k)
          BY <3>1, <3>2, <3>3, <3>4, <4>1, PutString
        <5>2. Set(Put(h, n, x, s, k), n, "string", TRUE) = Put(h, n, [x EXCEPT !.string = TRUE], s, k)
          BY <5>1
        <5> QED
          BY <4>3, <5>2
      <4> HIDE DEF y
      <4>5. s = h.strings + Own(y)
        BY <3>5 DEF s
      <4>6. Fresh(Put(h, n, y, s, k), h, n) /\ Sane(Put(h, n, y, s, k))
        BY <3>1, <3>3, <3>5, <4>1, <4>5, PutFresh
      <4>7. Put(h, n, y, s, k).item[n] = y
        BY <3>1, <3>2, <3>3, <3>5, <4>1, PutFacts
      <4>8. res.heap = Put(h, n, y, s, k) /\ res.r = n
        BY <4>2, <4>4 DEF Result
      <4> QED
        BY <2>3, <3>1, <3>5, <4>6, <4>7, <4>8 DEF MadeItem, Made
    <3> QED
      BY <3>6, <3>7, <3>8
  <2> QED
    BY <2>4, <2>5
<1> QED
  BY <1>1, <1>2

\* A string is allocated for the item i, if it needs one.
GetsString(copy, h, i, x, s, b) ==
  copy.r \in BOOLEAN /\ (copy.r => \E k \in Nat : copy.heap = Put(h, i, x, s + One(b), k))

LEMMA StringMaybe ==
  ASSUME NEW h \in HeapT, NEW i \in Items, NEW x \in ItemT, NEW s \in Int, NEW m \in Nat
  PROVE  \A b \in BOOLEAN :
           LET g == Put(h, i, x, s, m) IN
           GetsString(IF b THEN cJSON_strdup(g) ELSE Result(g, TRUE), h, i, x, s, b)
<1> SUFFICES ASSUME NEW b \in BOOLEAN
             PROVE  LET g == Put(h, i, x, s, m) IN
                    GetsString(IF b THEN cJSON_strdup(g) ELSE Result(g, TRUE), h, i, x, s, b)
  OBVIOUS
<1> DEFINE g == Put(h, i, x, s, m)
           copy == IF b THEN cJSON_strdup(g) ELSE Result(g, TRUE)
<1>1. CASE b
  <2>1. /\ cJSON_strdup(g).r \in BOOLEAN
        /\ cJSON_strdup(g).r => m # 0 /\ cJSON_strdup(g).heap = Put(h, i, x, s + 1, m - 1)
    BY StringAllocated
  <2>2. m # 0 => m - 1 \in Nat
    OBVIOUS
  <2>3. One(b) = 1
    BY <1>1 DEF One
  <2>4. copy = cJSON_strdup(g)
    BY <1>1
  <2> HIDE DEF g, copy
  <2> QED
    BY <2>1, <2>2, <2>3, <2>4 DEF g, copy, GetsString
<1>2. CASE ~b
  <2>1. copy.heap = g /\ copy.r = TRUE
    BY <1>2 DEF Result
  <2>2. s + One(b) = s
    BY <1>2 DEF One
  <2> HIDE DEF copy
  <2> QED
    BY <2>1, <2>2 DEF copy, GetsString
<1> QED
  BY <1>1, <1>2

LEMMA CopyMade ==
  ASSUME NEW h, Sane(h), NEW i \in Items, h.item[i].type # "free"
  PROVE  MadeItem(CopyItem(h, i), h)
<1> DEFINE x == h.item[i]
           new == CreateBasic(h, x.type)
           n == new.r
           copy1 == IF x.string THEN cJSON_strdup(new.heap) ELSE Result(new.heap, TRUE)
           h1 == [copy1.heap EXCEPT !.item[n].string = x.string, !.item[n].const = x.const]
           copy2 == IF OwnName(x) THEN cJSON_strdup(h1) ELSE Result(h1, TRUE)
           h2 == Set(copy2.heap, n, "name", x.name)
           res == CopyItem(h, i)
           x0 == [Free EXCEPT !.type = x.type]
           x1 == [[x0 EXCEPT !.string = x.string] EXCEPT !.const = x.const]
           x2 == [x1 EXCEPT !.name = x.name]
           m0 == h.mem - 1
           s1 == h.strings + One(x.string)
           s2 == s1 + One(OwnName(x))
<1>1. /\ res = IF n = NULL THEN new
               ELSE IF ~copy1.r THEN Result(cJSON_Delete(new.heap, n), NULL)
               ELSE IF ~copy2.r THEN Result(cJSON_Delete(h1, n), NULL)
               ELSE Result(h2, n)
  BY DEF CopyItem
<1> HIDE DEF res
<1>2. /\ h \in HeapT /\ h.strings \in Int /\ h.mem \in Nat /\ x \in ItemT
      /\ x.type \in Types \cup {"new"} /\ x.string \in BOOLEAN /\ x.const \in BOOLEAN
      /\ x.name \in Names \cup {NoName}
  BY HeapFacts DEF Sane, ItemT
<1>3. IsNew(new, h, x.type) /\ MadeItem(new, h)
  BY <1>2, BasicIsNew, IsNewMade
<1> HIDE DEF new
<1>4. CASE n = NULL
  <2>1. res = new
    BY <1>1, <1>4
  <2> QED
    BY <1>3, <2>1 DEF res
<1>5. CASE n # NULL
  <2>1. /\ n \in Items /\ h.mem # 0 /\ h.item[n] = Free
        /\ new.heap = Put(h, n, x0, h.strings, m0)
    BY <1>3, <1>5 DEF IsNew
  <2>2. m0 \in Nat
    BY <1>2, <2>1
  <2>3. /\ x0 \in ItemT /\ x0.type = x.type /\ x.type # "free"
        /\ x0.next = NULL /\ x0.prev = NULL /\ x0.child = NULL /\ x0.of = NULL /\ x0.ref = FALSE
        /\ x0.name = NoName
    <3>1. x0 \in ItemT
      BY <1>2, ItemOfType
    <3>2. /\ x0.type = x.type /\ x0.next = NULL /\ x0.prev = NULL /\ x0.child = NULL /\ x0.of = NULL
          /\ x0.ref = FALSE /\ x0.name = NoName
      BY DEF Free
    <3> QED
      BY <3>1, <3>2
  <2>4. /\ x1 \in ItemT /\ x1.type = x.type
        /\ x1.next = NULL /\ x1.prev = NULL /\ x1.child = NULL /\ x1.of = NULL /\ x1.ref = FALSE
        /\ x1.name = NoName /\ x1.string = x.string /\ x1.const = x.const
    <3> HIDE DEF x, x0
    <3> QED
      BY <1>2, <2>3 DEF ItemT
  <2>5. /\ x2 \in ItemT /\ x2.type = x.type
        /\ x2.next = NULL /\ x2.prev = NULL /\ x2.child = NULL /\ x2.of = NULL /\ x2.ref = FALSE
        /\ x2.name = x.name /\ x2.string = x.string /\ x2.const = x.const
    <3> HIDE DEF x, x1
    <3> QED
      BY <1>2, <2>4 DEF ItemT
  <2>6. Own(x1) = One(x.string) /\ Own(x2) = One(x.string) + One(OwnName(x))
    <3> HIDE DEF x, x1, x2
    <3> QED
      BY <2>4, <2>5 DEF Own, One, OwnName, OwnString
  <2>7. One(x.string) \in Int /\ One(OwnName(x)) \in Int
    BY DEF One
  <2> HIDE DEF n, m0, x, x0, x1, x2
  <2>8. CASE ~copy1.r
    <3>1. res.heap = cJSON_Delete(new.heap, n) /\ res.r = NULL
      BY <1>1, <1>5, <2>8 DEF Result
    <3>2. Sane(new.heap) /\ Fresh(new.heap, h, n)
      BY <1>3, <1>5 DEF MadeItem, Made, n
    <3>3. Sane(res.heap) /\ res.heap.item = h.item
      BY <3>1, <3>2, FreshDeleted
    <3> QED
      BY <3>1, <3>3 DEF MadeItem, Made, res
  <2>9. CASE copy1.r
    <3>1. \E k \in Nat : copy1.heap = Put(h, n, x0, s1, k)
      <4>1. GetsString(copy1, h, n, x0, h.strings, x.string)
        <5>1. \A b \in BOOLEAN :
                LET g == Put(h, n, x0, h.strings, m0) IN
                GetsString(IF b THEN cJSON_strdup(g) ELSE Result(g, TRUE), h, n, x0, h.strings, b)
          BY <1>2, <2>1, <2>2, <2>3, StringMaybe
        <5> QED
          BY <1>2, <2>1, <5>1
      <4> HIDE DEF copy1
      <4> QED
        BY <2>9, <4>1 DEF GetsString, s1
    <3>2. PICK k \in Nat : copy1.heap = Put(h, n, x0, s1, k)
      BY <3>1
    <3>3. s1 \in Int /\ s2 \in Int
      BY <1>2, <2>7
    <3>4. h1 = Put(h, n, x1, s1, k)
      <4> HIDE DEF copy1, s1
      <4> DEFINE y == [x0 EXCEPT !.string = x.string]
      <4>1. h1 = Set(Set(copy1.heap, n, "string", x.string), n, "const", x.const)
        BY DEF Set
      <4>2. y \in ItemT /\ Set(Put(h, n, x0, s1, k), n, "string", x.string) = Put(h, n, y, s1, k)
        BY <1>2, <2>1, <2>3, <3>3, PutString
      <4>3. x1 = [y EXCEPT !.const = x.const]
        BY DEF x1
      <4> HIDE DEF y
      <4>4. Set(Put(h, n, y, s1, k), n, "const", x.const) = Put(h, n, x1, s1, k)
        BY <1>2, <2>1, <3>3, <4>2, <4>3, PutConst
      <4> QED
        BY <3>2, <4>1, <4>2, <4>4
    <3>5. Fresh(h1, h, n) /\ Sane(h1)
      <4>1. s1 = h.strings + Own(x1)
        BY <2>6
      <4> HIDE DEF h1, s1
      <4>2. x1.type # "free"
        BY <2>3, <2>4, SMTT(30)
      <4> QED
        BY <2>1, <2>4, <3>3, <3>4, <4>1, <4>2, PutFresh
    <3>8. GetsString(copy2, h, n, x1, s1, OwnName(x))
      <4>1. \A b \in BOOLEAN :
              LET g == Put(h, n, x1, s1, k) IN
              GetsString(IF b THEN cJSON_strdup(g) ELSE Result(g, TRUE), h, n, x1, s1, b)
        <5> HIDE DEF s1
        <5> QED
          BY <1>2, <2>1, <2>4, <3>3, StringMaybe
      <4>2. OwnName(x) \in BOOLEAN
        BY <1>2 DEF OwnName
      <4> HIDE DEF s1
      <4> QED
        BY <3>4, <4>1, <4>2
    <3> HIDE DEF h1, copy1
    <3>6. CASE ~copy2.r
      <4>1. res.heap = cJSON_Delete(h1, n) /\ res.r = NULL
        BY <1>1, <1>5, <2>9, <3>6 DEF Result
      <4>2. Sane(res.heap) /\ res.heap.item = h.item
        BY <3>5, <4>1, FreshDeleted
      <4> QED
        BY <4>1, <4>2 DEF MadeItem, Made, res
    <3>7. CASE copy2.r
      <4>1. \E l \in Nat : copy2.heap = Put(h, n, x1, s2, l)
        BY <3>7, <3>8 DEF GetsString, s2
      <4>2. PICK l \in Nat : copy2.heap = Put(h, n, x1, s2, l)
        BY <4>1
      <4> HIDE DEF copy2, s2
      <4>3. h2 = Put(h, n, x2, s2, l)
        <5>1. Set(Put(h, n, x1, s2, l), n, "name", x.name) = Put(h, n, [x1 EXCEPT !.name = x.name], s2, l)
          BY <1>2, <2>1, <2>4, <3>3, PutName
        <5> QED
          BY <4>2, <5>1 DEF x2
      <4>4. s2 = h.strings + Own(x2)
        BY <1>2, <2>6, <2>7 DEF s2
      <4>5. x2.type # "free"
        BY <2>3, <2>5
      <4>6. Fresh(Put(h, n, x2, s2, l), h, n) /\ Sane(Put(h, n, x2, s2, l))
        BY <2>1, <2>5, <3>3, <4>4, <4>5, PutFresh
      <4>7. Put(h, n, x2, s2, l).item[n] = x2
        BY <1>2, <2>1, <2>5, <3>3, PutFacts
      <4>8. res.heap = Put(h, n, x2, s2, l) /\ res.r = n
        BY <1>1, <1>5, <2>9, <3>7, <4>3 DEF Result
      <4>9. MadeItem(res, h)
        BY <2>5, <1>5, <4>6, <4>7, <4>8 DEF MadeItem, Made
      <4> QED
        BY <4>9 DEF res
    <3> QED
      BY <3>6, <3>7
  <2> QED
    BY <2>8, <2>9
<1> QED
  BY <1>4, <1>5

-----------------------------------------------------------------------------
(* Calls that change no link *)

LEMMA AlikeKeeps ==
  ASSUME NEW h, Sane(h), NEW g, Alike(g, h)
  PROVE  /\ Live(g) = Live(h)
         /\ \A F, T, C, P : Holds(h, F, T, C, P) => Holds(g, F, T, C, P)
         /\ \A F, R : Caller(h, F, R) => Caller(g, F, R)
<1>1. Live(g) = Live(h)
  BY DEF Alike, Live
<1>2. ASSUME NEW F, NEW T, NEW C, NEW P, Holds(h, F, T, C, P)
      PROVE  \A x \in F.live : SameLinks(g, h, x)
  <2>1. F.live \subseteq Items /\ \A x \in F.live : h.item[x].type # "free"
    BY <1>2, LiveItems
  <2> QED
    BY <2>1 DEF Alike, SameLinks
<1>3. ASSUME NEW F, NEW T, NEW C, NEW P, Holds(h, F, T, C, P)
      PROVE  Holds(g, F, T, C, P)
  <2>1. \A x \in F.live : SameLinks(g, h, x)
    BY <1>2, <1>3
  <2> QED
    BY <1>3, <2>1, ForestKept DEF SameLinks, Sane
<1>4. ASSUME NEW F, NEW R, Caller(h, F, R)
      PROVE  Caller(g, F, R)
  <2>1. Holds(h, F, R, {}, {}) /\ h \in HeapT
    BY <1>4 DEF Caller, Sane
  <2>2. \A x \in F.live : SameLinks(g, h, x)
    BY <1>2, <2>1
  <2> QED
    BY <1>4, <2>1, <2>2, CallerKept
<1> QED
  BY <1>1, <1>3, <1>4

LEMMA AlikePut ==
  ASSUME NEW h, Sane(h), NEW i \in Items, h.item[i].type # "free", NEW x \in ItemT, NEW s \in Int, NEW m \in Nat,
         x.type # "free", x.next = h.item[i].next, x.prev = h.item[i].prev, x.child = h.item[i].child,
         x.ref = h.item[i].ref, x.of = h.item[i].of,
         s = h.strings - Own(h.item[i]) + Own(x)
  PROVE  Alike(Put(h, i, x, s, m), h)
<1> DEFINE g == Put(h, i, x, s, m)
<1>1. Sane(g)
  BY PutSane
<1>2. g.item[i] = x /\ \A y \in Items : y # i => g.item[y] = h.item[y]
  BY PutFacts DEF Sane
<1> HIDE DEF g
<1>3. Alike(g, h)
  BY <1>1, <1>2 DEF Alike
<1> QED
  BY <1>3 DEF g

LEMMA AlikeAgain ==
  ASSUME NEW f, NEW g, NEW h, Alike(f, g), Alike(g, h)
  PROVE  Alike(f, h)
BY DEF Alike

LEMMA AlikeAsBefore ==
  ASSUME NEW h, Sane(h), NEW g, AsBefore(g, h)
  PROVE  Alike(g, h)
BY SameSane DEF AsBefore, Alike

LEMMA AlikeSettled ==
  ASSUME NEW h, Sane(h)
  PROVE  \A m \in Nat : Alike([h EXCEPT !.mem = m], h) /\ Sane([h EXCEPT !.mem = m])
<1> TAKE m \in Nat
<1>1. AsBefore([h EXCEPT !.mem = m], h)
  BY SetMem DEF Sane
<1> QED
  BY <1>1, AlikeAsBefore, SameSane

-----------------------------------------------------------------------------
(* Names *)

NamedAs(x, name, const) == [[x EXCEPT !.name = name] EXCEPT !.const = const]

LEMMA Renamed ==
  ASSUME NEW h, Sane(h), NEW i \in Items, h.item[i].type # "free", NEW m \in Nat, NEW s \in Int,
         NEW name \in Names \cup {NoName}, NEW const \in BOOLEAN, NEW y,
         y = NamedAs(h.item[i], name, const),
         s = h.strings - One(OwnName(h.item[i])) + One(name # NoName /\ ~const)
  PROVE  Alike(Put(h, i, y, s, m), h)
<1> DEFINE x == h.item[i]
<1>1. x \in ItemT /\ h.strings \in Int
  BY HeapFacts DEF Sane
<1>2. y \in ItemT /\ y.name = name /\ y.const = const
  BY <1>1 DEF ItemT, NamedAs
<1>3. /\ y.type = x.type /\ y.next = x.next /\ y.prev = x.prev /\ y.child = x.child
      /\ y.ref = x.ref /\ y.of = x.of /\ y.string = x.string
  BY <1>1 DEF ItemT, NamedAs
<1>4. Own(y) = One(name # NoName /\ ~const) + One(OwnString(x))
  BY <1>2, <1>3 DEF Own, OwnName, OwnString
<1>5. Own(x) = One(OwnName(x)) + One(OwnString(x))
  BY DEF Own
<1>6. One(OwnString(x)) \in Int /\ One(OwnName(x)) \in Int /\ One(name # NoName /\ ~const) \in Int
  BY DEF One
<1>7. s = h.strings - Own(x) + Own(y)
  BY <1>1, <1>4, <1>5, <1>6
<1> QED
  BY <1>2, <1>3, <1>7, AlikePut

LEMMA NamedPut ==
  ASSUME NEW h \in HeapT, NEW i \in Items, NEW x \in ItemT, NEW s \in Int, NEW m \in Nat,
         NEW name \in Names \cup {NoName}, NEW const \in BOOLEAN,
         NEW y, y = NamedAs(x, name, const), NEW t, t = s - One(OwnName(x))
  PROVE  Named(Put(h, i, x, s, m), i, name, const) = Put(h, i, y, t, m)
<1> DEFINE g == Put(h, i, x, s, m)
           f == Frees(g, One(OwnName(g.item[i])))
<1>1. One(OwnName(x)) \in Int
  BY DEF One
<1>2. g.item[i] = x /\ g \in HeapT
  BY PutFacts
<1>3. f = Put(h, i, x, t, m)
  BY <1>2 DEF Frees, Put
<1>4. Named(g, i, name, const) = Set(Set(f, i, "name", name), i, "const", const)
  BY DEF Named, Set
<1>5. t \in Int
  BY <1>1
<1> HIDE DEF f, g
<1>6. /\ [x EXCEPT !.name = name] \in ItemT
      /\ Set(Put(h, i, x, t, m), i, "name", name) = Put(h, i, [x EXCEPT !.name = name], t, m)
  BY <1>5, PutName
<1> DEFINE z == [x EXCEPT !.name = name]
<1>7. z \in ItemT /\ y = [z EXCEPT !.const = const]
  BY <1>6 DEF NamedAs
<1>8. Set(Put(h, i, x, t, m), i, "name", name) = Put(h, i, z, t, m)
  BY <1>6
<1> HIDE DEF z
<1>9. Set(Put(h, i, z, t, m), i, "const", const) = Put(h, i, [z EXCEPT !.const = const], t, m)
  BY <1>5, <1>7, PutConst
<1> QED
  BY <1>3, <1>4, <1>7, <1>8, <1>9 DEF g

\* An item takes a name of its own, once there is memory for it, or a constant one.
LEMMA NamedAlike ==
  ASSUME NEW h, Sane(h), NEW i \in Items, h.item[i].type # "free", NEW name \in Names
  PROVE  /\ Alike(Named(h, i, name, TRUE), h)
         /\ Alike(Named(h, i, NoName, h.item[i].const), h)
         /\ LET copy == cJSON_strdup(h) IN
            /\ copy.r \in BOOLEAN
            /\ copy.r => Alike(Named(copy.heap, i, name, FALSE), h)
            /\ ~copy.r => copy.heap = h
<1> DEFINE x == h.item[i]
           copy == cJSON_strdup(h)
<1>1. /\ h \in HeapT /\ h.strings \in Int /\ h.mem \in Nat /\ x \in ItemT /\ x.const \in BOOLEAN
  BY HeapFacts DEF Sane, ItemT
<1>9. h = Put(h, i, x, h.strings, h.mem)
  BY <1>1, PutItself
<1>2. name # NoName
  BY HeapAssumption DEF NoName
<1>3. One(OwnName(x)) \in Int
  BY DEF One
<1>4. One(name # NoName /\ ~TRUE) = 0 /\ One(NoName # NoName /\ ~x.const) = 0 /\ One(name # NoName /\ ~FALSE) = 1
  BY <1>2 DEF One
<1>5. ASSUME NEW n \in Names \cup {NoName}, NEW const \in BOOLEAN, One(n # NoName /\ ~const) = 0
      PROVE  Alike(Named(h, i, n, const), h)
  <2> DEFINE y == NamedAs(x, n, const)
             s == h.strings - One(OwnName(x))
  <2>1. Named(h, i, n, const) = Put(h, i, y, s, h.mem)
    <3> DEFINE t == h.strings
               m == h.mem
    <3>1. y = NamedAs(x, n, const) /\ s = t - One(OwnName(x)) /\ t \in Int /\ m \in Nat
      BY <1>1
    <3> HIDE DEF x, y, s, t, m
    <3>2. \A c \in BOOLEAN :
            y = NamedAs(x, n, c) => Named(Put(h, i, x, t, m), i, n, c) = Put(h, i, y, s, m)
      BY <1>1, <3>1, NamedPut
    <3>3. Named(Put(h, i, x, h.strings, h.mem), i, n, const) = Put(h, i, y, s, h.mem)
      BY <3>1, <3>2 DEF t, m
    <3> QED
      BY <1>9, <3>3
  <2>2. s \in Int /\ s = h.strings - One(OwnName(x)) + One(n # NoName /\ ~const)
    BY <1>1, <1>3, <1>5
  <2>3. y = NamedAs(h.item[i], n, const)
    OBVIOUS
  <2> HIDE DEF y, s
  <2>4. Alike(Put(h, i, y, s, h.mem), h)
    <3>1. s = h.strings - One(OwnName(h.item[i])) + One(n # NoName /\ ~const)
      BY <2>2
    <3> HIDE DEF x
    <3> QED
      BY <1>1, <2>2, <2>3, <3>1, Renamed
  <2> QED
    BY <2>1, <2>4
<1>6. Alike(Named(h, i, name, TRUE), h) /\ Alike(Named(h, i, NoName, h.item[i].const), h)
  <2>1. Alike(Named(h, i, name, TRUE), h)
    BY <1>4, <1>5
  <2>2. Alike(Named(h, i, NoName, x.const), h)
    BY <1>1, <1>4, <1>5
  <2> QED
    BY <2>1, <2>2
<1>7. /\ copy.r \in BOOLEAN
      /\ copy.r => h.mem # 0 /\ copy.heap = Put(h, i, x, h.strings + 1, h.mem - 1)
      /\ ~copy.r => copy.heap = h
  <2>1. LET c == cJSON_strdup(Put(h, i, x, h.strings, h.mem)) IN
        /\ c.r \in BOOLEAN
        /\ c.r => h.mem # 0 /\ c.heap = Put(h, i, x, h.strings + 1, h.mem - 1)
        /\ ~c.r => c.heap = Put(h, i, x, h.strings, h.mem)
    BY <1>1, StringAllocated
  <2> QED
    BY <1>9, <2>1
<1>8. ASSUME copy.r
      PROVE  Alike(Named(copy.heap, i, name, FALSE), h)
  <2> DEFINE y == NamedAs(x, name, FALSE)
             t == h.strings + 1
             s == t - One(OwnName(x))
             m == h.mem - 1
  <2>1. copy.heap = Put(h, i, x, t, m) /\ h.mem # 0
    BY <1>7, <1>8
  <2>2. m \in Nat /\ t \in Int
    BY <1>1, <2>1
  <2>3. s \in Int /\ s = h.strings - One(OwnName(h.item[i])) + One(name # NoName /\ ~FALSE)
    BY <1>1, <1>3, <1>4
  <2>4. y = NamedAs(h.item[i], name, FALSE)
    OBVIOUS
  <2>5. \A c \in BOOLEAN :
          y = NamedAs(x, name, c) =>
          Named(Put(h, i, x, t, m), i, name, c) = Put(h, i, y, s, m)
    <3>1. s = t - One(OwnName(x))
      OBVIOUS
    <3> HIDE DEF x, y, s, t, m
    <3> QED
      BY <1>1, <2>2, <3>1, NamedPut
  <2>6. Named(copy.heap, i, name, FALSE) = Put(h, i, y, s, m)
    <3> HIDE DEF s, t, m
    <3> QED
      BY <2>1, <2>5
  <2> HIDE DEF x, y, s, m, t, copy
  <2>7. \A c \in BOOLEAN :
          /\ y = NamedAs(h.item[i], name, c)
          /\ s = h.strings - One(OwnName(h.item[i])) + One(name # NoName /\ ~c)
          => Alike(Put(h, i, y, s, m), h)
    BY <2>2, <2>3, Renamed
  <2>8. Alike(Put(h, i, y, s, m), h)
    BY <2>3, <2>4, <2>7
  <2> QED
    BY <2>6, <2>8
<1> QED
  BY <1>6, <1>7, <1>8

-----------------------------------------------------------------------------
(* References *)

RefItem(res, h, i) ==
  /\ Made(res, h)
  /\ res.r # NULL => /\ res.heap.item[res.r].ref = TRUE /\ res.heap.item[res.r].of = Shared(h, i)
                     /\ res.heap.item[res.r].child = h.item[i].child

LEMMA PutAgain ==
  ASSUME NEW h \in HeapT, NEW i \in Items, NEW x \in ItemT, NEW y \in ItemT, NEW s \in Int, NEW m \in Nat
  PROVE  [Put(h, i, x, s, m) EXCEPT !.item[i] = y] = Put(h, i, y, s, m)
<1> DEFINE g == Put(h, i, x, s, m)
<1>1. g.item = [h.item EXCEPT ![i] = x] /\ g.strings = s /\ g.mem = m /\ g.twice = h.twice
  BY DEF Put
<1>2. [g EXCEPT !.item[i] = y] = [item |-> [g.item EXCEPT ![i] = y], strings |-> g.strings,
                                  mem |-> g.mem, twice |-> g.twice]
  BY DEF Put
<1> HIDE DEF g
<1>3. [g.item EXCEPT ![i] = y] = [h.item EXCEPT ![i] = y]
  BY <1>1 DEF HeapT
<1> QED
  BY <1>1, <1>2, <1>3 DEF Put, g

RefOf(h, i) == [h.item[i] EXCEPT !.next = NULL, !.prev = NULL, !.name = NoName, !.ref = TRUE,
                                 !.of = Shared(h, i)]

LEMMA RefOfFacts ==
  ASSUME NEW h, Sane(h), NEW i \in Items, h.item[i].type # "free"
  PROVE  LET y == RefOf(h, i) IN
         /\ y \in ItemT /\ y.type # "free" /\ y.next = NULL /\ y.prev = NULL /\ y.name = NoName
         /\ y.ref = TRUE /\ y.of = Shared(h, i) /\ y.child = h.item[i].child /\ Own(y) = 0
<1> DEFINE x == h.item[i]
           y == RefOf(h, i)
           of == Shared(h, i)
<1>1. x \in ItemT /\ NULL \in 0 .. Size /\ i \in 0 .. Size /\ x.of \in 0 .. Size
  BY HeapFacts, ItemsFacts DEF Sane
<1>2. of \in 0 .. Size
  BY <1>1 DEF Shared
<1>3. y = [x EXCEPT !.next = NULL, !.prev = NULL, !.name = NoName, !.ref = TRUE, !.of = of]
  BY DEF RefOf
<1>4. x.type # "free"
  OBVIOUS
<1> HIDE DEF x, y, of
<1>5. /\ y \in ItemT /\ y.type # "free" /\ y.next = NULL /\ y.prev = NULL /\ y.name = NoName
      /\ y.ref = TRUE /\ y.of = of /\ y.child = x.child
  BY <1>1, <1>2, <1>3, <1>4 DEF ItemT
<1>6. Own(y) = 0
  BY <1>5 DEF Own, OwnName, OwnString, One
<1> QED
  BY <1>5, <1>6 DEF x, y, of

\* An item that shares what i has is in the heap, whether its name is constant or not.
LEMMA RefPut ==
  ASSUME NEW h, Sane(h), NEW i \in Items, NEW r \in Items, h.item[r] = Free, h.mem # 0,
         NEW y \in ItemT, y.type # "free", y.next = NULL, y.prev = NULL, y.ref = TRUE, y.of = Shared(h, i),
         y.child = h.item[i].child, Own(y) = 0, NEW res,
         res.r = r, res.heap = Put(h, r, y, h.strings, h.mem - 1)
  PROVE  RefItem(res, h, i)
<1> DEFINE s == h.strings
           m == h.mem - 1
<1>1. h \in HeapT /\ s \in Int /\ m \in Nat /\ r # NULL
  BY HeapFacts DEF Sane
<1>2. s = h.strings + Own(y)
  BY <1>1
<1> HIDE DEF s, m
<1>3. Fresh(Put(h, r, y, s, m), h, r) /\ Sane(Put(h, r, y, s, m))
  BY <1>1, <1>2, PutFresh
<1>4. Put(h, r, y, s, m).item[r] = y
  BY <1>1, PutFacts
<1>5. res.heap = Put(h, r, y, s, m)
  BY DEF s, m
<1> QED
  BY <1>1, <1>3, <1>4, <1>5 DEF RefItem, Made

LEMMA RefMade ==
  ASSUME NEW h, Sane(h), NEW i \in Items, h.item[i].type # "free"
  PROVE  LET new == create_reference(h, i) IN
         /\ RefItem(new, h, i)
         /\ RefItem([new EXCEPT !.heap = IF new.r = NULL THEN @ ELSE Set(@, new.r, "const", FALSE)], h, i)
<1> DEFINE new == cJSON_New_Item(h)
           x == h.item[i]
           y == RefOf(h, i)
           z == [y EXCEPT !.const = FALSE]
           res == create_reference(h, i)
           res2 == [res EXCEPT !.heap = IF res.r = NULL THEN @ ELSE Set(@, res.r, "const", FALSE)]
<1>1. res = IF new.r = NULL THEN new
            ELSE Result([new.heap EXCEPT !.item[new.r] = y], new.r)
  BY DEF create_reference, RefOf, Shared
<1>2. IsNew(new, h, "new") /\ Sane(h) /\ h \in HeapT
  BY ItemAllocated DEF Sane
<1>3. /\ y \in ItemT /\ y.type # "free" /\ y.next = NULL /\ y.prev = NULL /\ y.name = NoName
      /\ y.ref = TRUE /\ y.of = Shared(h, i) /\ y.child = h.item[i].child /\ Own(y) = 0
  BY RefOfFacts
<1> HIDE DEF y
<1>4. /\ z \in ItemT /\ z.type # "free" /\ z.next = NULL /\ z.prev = NULL /\ z.name = NoName
      /\ z.ref = TRUE /\ z.of = Shared(h, i) /\ z.child = h.item[i].child
  BY <1>3 DEF ItemT
<1>5. Own(z) = 0
  BY <1>4 DEF Own, OwnName, OwnString, One
<1>6. CASE new.r = NULL
  <2>1. res = new /\ MadeItem(new, h)
    BY <1>1, <1>2, <1>6, IsNewMade
  <2>2. Made(new, h)
    BY <2>1 DEF MadeItem
  <2> HIDE DEF new
  <2>3. res2.r = NULL /\ res2.heap = new.heap
    <3>1. res.r = NULL
      BY <1>6, <2>1
    <3>2. res2 = [res EXCEPT !.heap = res.heap]
      BY <3>1
    <3>3. res.heap = new.heap
      BY <2>1
    <3>4. res2.r = res.r /\ res2.heap = new.heap
      <4>1. new = Result(new.heap, new.r)
        BY DEF new, cJSON_New_Item, Result
      <4> HIDE DEF res
      <4> QED
        BY <2>1, <3>2, <4>1 DEF Result
    <3> QED
      BY <3>1, <3>4
  <2> HIDE DEF res, res2
  <2> QED
    BY <1>6, <2>1, <2>2, <2>3 DEF RefItem, Made, res, res2
<1>7. CASE new.r # NULL
  <2> DEFINE r == new.r
             s == h.strings
             m == h.mem - 1
             x0 == [Free EXCEPT !.type = "new"]
  <2>1. /\ r \in Items /\ h.mem # 0 /\ h.item[r] = Free
        /\ new.heap = Put(h, r, x0, s, m)
    BY <1>2, <1>7 DEF IsNew
  <2>2. s \in Int /\ m \in Nat
    BY <1>2, <2>1, HeapFacts
  <2>3. x0 \in ItemT
    BY ItemOfType
  <2> HIDE DEF x0, s, m, new
  <2>4. res.heap = Put(h, r, y, s, m) /\ res.r = r
    <3>1. [Put(h, r, x0, s, m) EXCEPT !.item[r] = y] = Put(h, r, y, s, m)
      BY <1>2, <1>3, <2>1, <2>2, <2>3, PutAgain
    <3>2. res = Result([new.heap EXCEPT !.item[r] = y], r)
      BY <1>1, <1>7
    <3> QED
      BY <2>1, <3>1, <3>2 DEF Result
  <2>5. res = Result(Put(h, r, y, s, m), r)
    BY <1>1, <1>7, <2>4 DEF Result
  <2> HIDE DEF res, r
  <2>6. res2.heap = Put(h, r, z, s, m) /\ res2.r = r
    <3>1. \A c \in BOOLEAN : Set(Put(h, r, y, s, m), r, "const", c) = Put(h, r, [y EXCEPT !.const = c], s, m)
      BY <1>2, <1>3, <2>1, <2>2, PutConst
    <3>2. Set(Put(h, r, y, s, m), r, "const", FALSE) = Put(h, r, z, s, m)
      BY <3>1
    <3>3. r # NULL
      BY <1>7 DEF r
    <3> HIDE DEF z
    <3> QED
      BY <2>5, <3>2, <3>3 DEF Result
  <2> HIDE DEF res2, z
  <2>7. RefItem(res, h, i)
    <3>1. res.heap = Put(h, r, y, h.strings, h.mem - 1)
      BY <2>4 DEF s, m
    <3> QED
      BY <1>3, <2>1, <2>4, <3>1, RefPut
  <2>8. RefItem(res2, h, i)
    <3>1. res2.heap = Put(h, r, z, h.strings, h.mem - 1)
      BY <2>6 DEF s, m
    <3> QED
      BY <1>4, <1>5, <2>1, <2>6, <3>1, RefPut
  <2> QED
    BY <2>7, <2>8 DEF res2, res
<1> QED
  BY <1>6, <1>7

LEMMA RefGrows ==
  ASSUME NEW h, Sane(h), NEW F, NEW R, Caller(h, F, R), NEW i \in F.live, NEW res, RefItem(res, h, i), res.r # NULL
  PROVE  /\ Caller(res.heap, Beside(F, Single(res.r)), R \cup {res.r}) /\ res.r \notin F.live
         /\ Sane(res.heap) /\ Fresh(res.heap, h, res.r)
<1> DEFINE g == res.heap
           r == res.r
<1>1. Sane(g) /\ Fresh(g, h, r) /\ h \in HeapT
  BY DEF RefItem, Made, Sane
<1>2. g.item[r].ref = TRUE /\ g.item[r].of = Shared(h, i) /\ g.item[r].child = h.item[i].child
  BY DEF RefItem
<1>3. F.live \subseteq Items /\ Refs(h, F) /\ NULL \notin Items
  BY LiveItems, ItemsFacts, SMTT(30) DEF Caller
<1>4. /\ g.item[r].of \in F.live /\ ~h.item[g.item[r].of].ref
      /\ g.item[r].child = h.item[g.item[r].of].child
  <2>1. CASE h.item[i].ref
    <3>1. h.item[i].of \in F.live /\ ~h.item[h.item[i].of].ref /\ h.item[i].child = h.item[h.item[i].of].child
      BY <1>3, <2>1 DEF Refs
    <3>2. Shared(h, i) = h.item[i].of
      BY <1>3, <3>1 DEF Shared
    <3> HIDE DEF g, r
    <3> QED
      BY <1>2, <3>1, <3>2
  <2>2. CASE ~h.item[i].ref
    <3>1. Shared(h, i) = i
      BY <1>3, <2>2, SMTT(30) DEF Refs, Shared
    <3> HIDE DEF g, r
    <3> QED
      BY <1>2, <2>2, <3>1
  <2> QED
    BY <2>1, <2>2
<1>5. Caller(g, Beside(F, Single(r)), R \cup {r}) /\ r \notin F.live
  <2> HIDE DEF g, r
  <2> QED
    BY <1>1, <1>4, CallerGrows
<1> QED
  BY <1>1, <1>5

-----------------------------------------------------------------------------
(* The invariant *)

LEMMA NothingFacts ==
  /\ Nothing.live = {} /\ \A x \in Items : Nothing.kids[x] = <<>>
  /\ \A h : Holds(h, Nothing, {}, {}, {}) /\ Work(h, Nothing, {}, {}, {}) /\ Refs(h, Nothing)
<1>1. Nothing.live = {} /\ \A x \in Items : Nothing.kids[x] = <<>>
  BY DEF Nothing
<1>2. IsForest(Nothing, {})
  <2>1. Nothing \in ForestT
    BY DEF Nothing, ForestT
  <2>2. \A x \in Items : DOMAIN Nothing.kids[x] = {}
    BY <1>1
  <2> QED
    BY <1>1, <2>1, <2>2 DEF IsForest
<1>3. ASSUME NEW h
      PROVE  Holds(h, Nothing, {}, {}, {}) /\ Work(h, Nothing, {}, {}, {}) /\ Refs(h, Nothing)
  BY <1>1, <1>2 DEF Holds, Links, Tops, Work, Refs
<1> QED
  BY <1>1, <1>3

LEMMA InitIInv ==
  ASSUME Init
  PROVE  IInv
<1>1. trees = Nothing
  BY DEF Init, Nothing
<1>2. heap \in HeapT /\ heap.strings = 0 /\ heap.mem = 0 /\ ~heap.twice /\ \A x \in Items : heap.item[x] = Free
  <2>1. heap.item \in [Items -> ItemT]
    BY FreeOwnsNothing DEF Init
  <2> QED
    BY <2>1 DEF Init, HeapT
<1>3. Sane(heap)
  <2>1. Strings(heap, Items) = 0
    <3>1. {i \in Items : OwnName(heap.item[i])} = {} /\ {i \in Items : OwnString(heap.item[i])} = {}
      BY <1>2, FreeOwnsNothing
    <3> QED
      BY <3>1, FS_EmptySet DEF Strings
  <2> QED
    BY <1>2, <2>1 DEF Sane
<1>4. Caller(heap, trees, roots)
  BY <1>1, NothingFacts DEF Caller, Init
<1>5. Parted(heap, trees, lost, Nothing)
  <2>1. Live(heap) = {}
    BY <1>2 DEF Live, Free
  <2> QED
    BY <1>1, <2>1, NothingFacts DEF Parted, Init
<1>6. InCall(heap, trees, Nothing, calls, target, at)
  BY ItemsFacts DEF InCall, Init
<1> QED
  BY <1>2, <1>3, <1>4, <1>5, <1>6 DEF IInv, Sound, Init

-----------------------------------------------------------------------------
(* What the invariant says *)

LEMMA SoundFacts ==
  ASSUME NEW h, NEW F, NEW R, NEW L, NEW W, Sound(h, F, R, L, W)
  PROVE  /\ Sane(h) /\ h \in HeapT /\ h.mem = 0 /\ Caller(h, F, R) /\ Holds(h, F, R, {}, {}) /\ Refs(h, F)
         /\ F.live \subseteq Items /\ R \subseteq F.live /\ L \subseteq Items
         /\ \A x \in F.live : h.item[x].type # "free"
         /\ Parted(h, F, L, W)
<1>1. Sane(h) /\ h.mem = 0 /\ Caller(h, F, R) /\ L \subseteq Items /\ Parted(h, F, L, W)
  BY DEF Sound
<1>2. Holds(h, F, R, {}, {}) /\ Refs(h, F) /\ h \in HeapT
  BY <1>1 DEF Caller, Sane
<1> QED
  BY <1>1, <1>2, LiveItems

\* A step that leaves a sound heap is one of the forest.
LEMMA StepDone ==
  ASSUME NEW G, NEW W, Sound(heap', G, roots', lost', W), InCall(heap', G, W, calls', target', at'), Noted,
         G = trees \/ StepOf(trees, G)
  PROVE  IInv' /\ [Forest!Step(trees, trees')]_trees
<1>1. heap' \in HeapT /\ Holds(heap', G, roots', {}, {})
  BY SoundFacts
<1>2. Trees(heap', roots') = G
  BY <1>1, TreesAreForest
<1>3. trees' = G
  BY <1>2 DEF Noted
<1>4. IInv'
  BY <1>3 DEF IInv
<1>5. trees' = trees \/ Forest!Step(trees, trees')
  BY <1>3 DEF Forest!Step, StepOf
<1> QED
  BY <1>4, <1>5

\* A call of the caller that leaves the heap g, but for the memory
LEMMA CallDone ==
  ASSUME NEW G, NEW g, Sane(g), Caller(g, G, roots'), lost' \subseteq Items,
         G.live \cap lost' = {}, Live(g) = G.live \cup lost',
         heap' = [g EXCEPT !.mem = 0], at = "none", calls = <<>>, target \in 0 .. Size,
         UNCHANGED parseVars, Noted, G = trees \/ StepOf(trees, G)
  PROVE  IInv' /\ [Forest!Step(trees, trees')]_trees
<1>1. Alike(heap', g) /\ Sane(heap') /\ heap'.mem = 0
  <2>1. 0 \in Nat
    OBVIOUS
  <2>2. Alike([g EXCEPT !.mem = 0], g) /\ Sane([g EXCEPT !.mem = 0])
    BY <2>1, AlikeSettled
  <2>3. [g EXCEPT !.mem = 0].mem = 0
    BY DEF Sane, HeapT
  <2> QED
    BY <2>2, <2>3
<1>2. Caller(heap', G, roots') /\ Live(heap') = Live(g)
  BY <1>1, AlikeKeeps
<1>3. Parted(heap', G, lost', Nothing)
  BY <1>2, NothingFacts DEF Parted
<1>4. Sound(heap', G, roots', lost', Nothing)
  BY <1>1, <1>2, <1>3 DEF Sound
<1>5. InCall(heap', G, Nothing, calls', target', at')
  BY DEF InCall, parseVars
<1> QED
  BY <1>4, <1>5, StepDone

-----------------------------------------------------------------------------
(* Calls of the caller *)

LEMMA IdleNow ==
  ASSUME IInv, at = "none"
  PROVE  Idle
<1>1. PICK W : Sound(heap, trees, roots, lost, W) /\ InCall(heap, trees, W, calls, target, at)
  BY DEF IInv
<1>2. W = Nothing /\ calls = <<>> /\ target \in 0 .. Size
  BY <1>1 DEF InCall
<1>3. /\ Sane(heap) /\ heap \in HeapT /\ heap.mem = 0 /\ Caller(heap, trees, roots)
      /\ trees.live \subseteq Items /\ roots \subseteq trees.live /\ lost \subseteq Items
      /\ \A x \in trees.live : heap.item[x].type # "free"
      /\ Parted(heap, trees, lost, W)
  BY <1>1, SoundFacts
<1>4. trees.live \cap lost = {} /\ Live(heap) = trees.live \cup lost
  BY <1>2, <1>3, NothingFacts DEF Parted
<1>5. Alike(heap, heap)
  BY <1>3 DEF Alike
<1> QED
  BY <1>2, <1>3, <1>4, <1>5 DEF Idle, Ready

LEMMA GivenReady ==
  ASSUME Idle, NEW n \in Nat
  PROVE  \A h \in Given(n) : Ready(h)
<1> TAKE h \in Given(n)
<1>1. PICK m \in 0 .. n : h = [heap EXCEPT !.mem = m]
  BY DEF Given
<1>2. m \in Nat /\ Sane(heap) /\ Caller(heap, trees, roots) /\ Live(heap) = trees.live \cup lost
  BY DEF Idle, Ready
<1>3. Alike(h, heap) /\ Sane(h)
  BY <1>1, <1>2, AlikeSettled
<1>4. h.item = heap.item
  BY <1>1 DEF Idle, HeapT
<1>5. Caller(h, trees, roots) /\ Live(h) = Live(heap)
  BY <1>2, <1>3, AlikeKeeps
<1> QED
  BY <1>2, <1>3, <1>4, <1>5 DEF Ready

LEMMA ReadyFacts ==
  ASSUME Idle, NEW h, Ready(h)
  PROVE  /\ Sane(h) /\ h \in HeapT /\ Caller(h, trees, roots) /\ Holds(h, trees, roots, {}, {})
         /\ IsForest(trees, roots) /\ \A x \in trees.live : h.item[x].type # "free"
         /\ Live(h) = trees.live \cup lost /\ h.item = heap.item
<1>1. Sane(h) /\ Caller(h, trees, roots) /\ Live(h) = trees.live \cup lost /\ h.item = heap.item
  BY DEF Ready
<1>2. Holds(h, trees, roots, {}, {}) /\ h \in HeapT
  BY <1>1 DEF Caller, Sane
<1> QED
  BY <1>1, <1>2, LiveItems

LEMMA FreshLive ==
  ASSUME NEW g, NEW h, NEW r, Fresh(g, h, r)
  PROVE  Live(g) = Live(h) \cup {r} /\ r \notin Live(h) /\ r \in Items /\ r # NULL
<1>1. r # NULL
  BY ItemsFacts DEF Fresh
<1> QED
  BY <1>1 DEF Fresh, Live

\* Nothing of the caller's trees has changed.
LEMMA CallKeeps ==
  ASSUME Idle, NEW res, Alike(res.heap, heap), Call(res), roots' = roots, lost' = lost, Noted
  PROVE  IInv' /\ [Forest!Step(trees, trees')]_trees
<1> DEFINE g == res.heap
<1>1. Sane(g) /\ heap' = [g EXCEPT !.mem = 0] /\ at = "none" /\ UNCHANGED parseVars
  BY DEF Alike, Call
<1>2. Sane(heap) /\ Caller(heap, trees, roots) /\ Live(heap) = trees.live \cup lost
  BY ReadyFacts DEF Idle
<1>3. Caller(g, trees, roots) /\ Live(g) = Live(heap)
  BY <1>2, AlikeKeeps
<1> HIDE DEF g
<1> QED
  BY <1>1, <1>2, <1>3, CallDone DEF Idle

LEMMA SameItems ==
  ASSUME NEW g, Sane(g), NEW h, g.item = h.item
  PROVE  Alike(g, h)
BY DEF Alike

\* A new item is a tree of its own.
LEMMA NewGained ==
  ASSUME Idle, NEW h, Ready(h), NEW res, Made(res, h), Call(res), Gained(res.r),
         res.r # NULL => Caller(res.heap, Beside(trees, Single(res.r)), roots \cup {res.r})
  PROVE  IInv' /\ [Forest!Step(trees, trees')]_trees
<1>1. h.item = heap.item /\ IsForest(trees, roots) /\ Live(h) = trees.live \cup lost
  BY ReadyFacts
<1>2. Sane(res.heap) /\ lost' = lost /\ roots' = roots \cup ({res.r} \ {NULL}) /\ Noted
  BY DEF Made, Gained
<1>3. CASE res.r = NULL
  <2>1. res.heap.item = heap.item /\ roots' = roots
    BY <1>1, <1>2, <1>3 DEF Made
  <2>2. Alike(res.heap, heap)
    BY <1>2, <2>1, SameItems
  <2> QED
    BY <1>2, <2>1, <2>2, CallKeeps
<1>4. CASE res.r # NULL
  <2> DEFINE r == res.r
             g == res.heap
             G == Beside(trees, Single(r))
  <2>1. Fresh(g, h, r) /\ roots' = roots \cup {r}
    BY <1>2, <1>4 DEF Made
  <2>2. Live(g) = Live(h) \cup {r} /\ r \notin Live(h) /\ r \in Items
    BY <2>1, FreshLive
  <2>3. G.live = trees.live \cup {r}
    BY DEF Beside, Single
  <2>4. IsForest(Single(r), {r}) /\ trees.live \cap Single(r).live = {}
    BY <1>1, <2>2, SingleIsForest DEF Single
  <2>5. Forest!Grow(trees, G)
    <3> HIDE DEF r
    <3> QED
      BY <1>1, <2>4, GrowStep
  <2>6. Caller(g, G, roots')
    BY <1>4, <2>1
  <2>7. G.live \cap lost' = {} /\ Live(g) = G.live \cup lost'
    BY <1>1, <1>2, <2>2, <2>3 DEF Idle
  <2>8. heap' = [g EXCEPT !.mem = 0] /\ at = "none" /\ UNCHANGED parseVars
    BY DEF Call
  <2>9. G = trees \/ StepOf(trees, G)
    BY <2>5 DEF StepOf
  <2> HIDE DEF r, g, G
  <2>10. Sane(g)
    BY <1>2 DEF g
  <2> QED
    BY <1>2, <2>6, <2>7, <2>8, <2>9, <2>10, CallDone DEF Idle
<1> QED
  BY <1>3, <1>4

LEMMA ItemGained ==
  ASSUME Idle, NEW h, Ready(h), NEW res, MadeItem(res, h), Call(res), Gained(res.r)
  PROVE  IInv' /\ [Forest!Step(trees, trees')]_trees
<1>1. Made(res, h) /\ h \in HeapT /\ Caller(h, trees, roots)
  BY ReadyFacts DEF MadeItem
<1>2. res.r # NULL => Caller(res.heap, Beside(trees, Single(res.r)), roots \cup {res.r})
  <2> HAVE res.r # NULL
  <2>1. Fresh(res.heap, h, res.r) /\ ~res.heap.item[res.r].ref
    BY DEF MadeItem, Made
  <2> QED
    BY <1>1, <2>1, CallerGrows
<1> QED
  BY <1>1, <1>2, NewGained

LEMMA CreateItemStep ==
  ASSUME IInv, CreateItem
  PROVE  IInv' /\ [Forest!Step(trees, trees')]_trees
<1>1. PICK h \in Given(2), type \in Types : Call(Create(h, type)) /\ Gained(Create(h, type).r)
  BY DEF CreateItem
<1>2. Idle /\ Ready(h) /\ Sane(h)
  BY <1>1, IdleNow, GivenReady, ReadyFacts DEF Call
<1>3. MadeItem(Create(h, type), h)
  BY <1>2, CreateMade
<1> QED
  BY <1>1, <1>2, <1>3, ItemGained

LEMMA DuplicateItemStep ==
  ASSUME IInv, DuplicateItem
  PROVE  IInv' /\ [Forest!Step(trees, trees')]_trees
<1>1. PICK i \in Known, h \in Given(3) : Call(CopyItem(h, i)) /\ Gained(CopyItem(h, i).r)
  BY DEF DuplicateItem
<1>2. Idle /\ Ready(h) /\ Sane(h) /\ i \in Items /\ h.item[i].type # "free"
  BY <1>1, IdleNow, GivenReady, ReadyFacts DEF Call, Known, Idle
<1>3. MadeItem(CopyItem(h, i), h)
  BY <1>2, CopyMade
<1> QED
  BY <1>1, <1>2, <1>3, ItemGained

LEMMA CreateReferenceStep ==
  ASSUME IInv, CreateReference
  PROVE  IInv' /\ [Forest!Step(trees, trees')]_trees
<1>1. PICK h \in Given(1), i \in Known :
        LET new == create_reference(h, i) IN
        /\ Call([new EXCEPT !.heap = IF new.r = NULL THEN @ ELSE Set(@, new.r, "const", FALSE)])
        /\ Gained(new.r)
  BY DEF CreateReference
<1> DEFINE new == create_reference(h, i)
           res == [new EXCEPT !.heap = IF new.r = NULL THEN @ ELSE Set(@, new.r, "const", FALSE)]
<1>2. Idle /\ Ready(h) /\ Sane(h) /\ i \in Items /\ h.item[i].type # "free" /\ Caller(h, trees, roots) /\ i \in trees.live
  BY <1>1, IdleNow, GivenReady, ReadyFacts DEF Call, Known, Idle
<1>3. RefItem(res, h, i)
  BY <1>2, RefMade
<1>4. res.r = new.r
  <2>1. new = Result(new.heap, new.r)
    BY DEF create_reference, cJSON_New_Item, Result
  <2> HIDE DEF new
  <2> QED
    BY <2>1 DEF Result
<1>5. Call(res) /\ Gained(res.r)
  BY <1>1, <1>4
<1> HIDE DEF res, new
<1>6. res.r # NULL => Caller(res.heap, Beside(trees, Single(res.r)), roots \cup {res.r})
  BY <1>2, <1>3, RefGrows
<1>7. Made(res, h)
  BY <1>3 DEF RefItem
<1> QED
  BY <1>2, <1>5, <1>6, <1>7, NewGained

-----------------------------------------------------------------------------
(* Items that are placed *)

LEMMA AttachedLive ==
  ASSUME NEW F, NEW T, IsForest(F, T), NEW a, NEW n, NEW i
  PROVE  Attached(F, a, n, i).live = F.live
BY DEF Attached, IsForest, ForestT

LEMMA AddCaller ==
  ASSUME NEW k, Sane(k), NEW F, NEW R, Caller(k, F, R), NEW a, MayGrow(k, F, a), NEW i \in R, a \notin Forest!Tree(F, i),
         NEW n, n = Len(F.kids[a]) + 1
  PROVE  Became(add_item_to_array(k, a, i), k, Attached(F, a, n, i), R \ {i})
<1> DEFINE added == add_item_to_array(k, a, i)
           G == Attached(F, a, n, i)
           g == added.heap
<1>1. Holds(k, F, R, {}, {}) /\ k \in HeapT /\ Refs(k, F) /\ \A x \in F.live : k.item[x].type # "free"
  BY LiveItems DEF Caller, Sane
<1>0. a \in F.live /\ ~k.item[a].ref /\ \A r \in F.live : k.item[r].of # a
  BY DEF MayGrow
<1>2. added.r = TRUE /\ ForestStep(g, k, F, a) /\ Holds(g, G, R \ {i}, {}, {})
  BY <1>0, <1>1, AddHolds
<1>3. G.live = F.live
  BY <1>1, LiveItems, AttachedLive
<1> HIDE DEF added, G, g
<1>4. Sane(g) /\ Live(g) = Live(k)
  BY <1>0, <1>1, <1>2, SaneRelinked
<1>5. Caller(g, G, R \ {i})
  BY <1>0, <1>1, <1>2, <1>3, CallerStep
<1> QED
  BY <1>2, <1>3, <1>4, <1>5 DEF added, G, g, Became

LEMMA ContainerFacts ==
  ASSUME Idle, NEW a, Container(a), NEW k, Alike(k, heap)
  PROVE  /\ a \in trees.live /\ a \in Items /\ ~k.item[a].ref /\ MayGrow(k, trees, a)
         /\ Sane(k) /\ Caller(k, trees, roots) /\ Live(k) = trees.live \cup lost
         /\ Holds(k, trees, roots, {}, {}) /\ k \in HeapT /\ Sane(heap)
<1>1. Sane(heap) /\ Caller(heap, trees, roots) /\ Live(heap) = trees.live \cup lost
  BY ReadyFacts DEF Idle
<1>2. Caller(k, trees, roots) /\ Live(k) = Live(heap) /\ Sane(k)
  BY <1>1, AlikeKeeps DEF Alike
<1>3. Holds(k, trees, roots, {}, {}) /\ k \in HeapT
  BY <1>2 DEF Caller, Sane
<1>4. a \in trees.live /\ ~heap.item[a].ref /\ a \in Items
  BY DEF Container, Known, Item, Idle
<1>5. \A r \in trees.live : heap.item[r].of # a
  BY <1>1 DEF Container, Shares, Item, Idle
<1>6. ~k.item[a].ref /\ \A r \in trees.live : k.item[r].of # a
  BY <1>4, <1>5 DEF Alike, Idle
<1> QED
  BY <1>1, <1>2, <1>3, <1>4, <1>6 DEF MayGrow

\* A root has become a child.
LEMMA RootPlaced ==
  ASSUME Idle, NEW k, Alike(k, heap), NEW a, Container(a), NEW i \in roots, a \notin Tree(i),
         NEW res, res = add_item_to_array(k, a, i), Call(res), Placed(i, res.r)
  PROVE  IInv' /\ [Forest!Step(trees, trees')]_trees
<1> DEFINE n == Len(trees.kids[a]) + 1
           G == Attached(trees, a, n, i)
           g == res.heap
<1>1. /\ a \in trees.live /\ MayGrow(k, trees, a)
      /\ Sane(k) /\ Caller(k, trees, roots) /\ Live(k) = trees.live \cup lost /\ a \in Items
      /\ Holds(k, trees, roots, {}, {})
  BY ContainerFacts
<1>2. a \notin Forest!Tree(trees, i)
  BY DEF Tree
<1>3. /\ res.r = TRUE /\ Sane(g) /\ Live(g) = Live(k) /\ Caller(g, G, roots \ {i}) /\ G.live = trees.live
  <2>1. n = Len(trees.kids[a]) + 1
    OBVIOUS
  <2> HIDE DEF n
  <2>2. Became(add_item_to_array(k, a, i), k, G, roots \ {i}) /\ G.live = trees.live
    <3>1. /\ Sane(k) /\ Caller(k, trees, roots) /\ MayGrow(k, trees, a) /\ i \in roots
          /\ a \notin Forest!Tree(trees, i)
      BY <1>1, <1>2
    <3> HIDE DEF G
    <3>2. Became(add_item_to_array(k, a, i), k, Attached(trees, a, n, i), roots \ {i})
      BY <2>1, <3>1, AddCaller
    <3>3. Attached(trees, a, n, i).live = trees.live
      BY <1>1, LiveItems, AttachedLive
    <3> QED
      BY <3>2, <3>3 DEF G
  <2> QED
    BY <2>2 DEF Became
<1>4. Forest!Attach(trees, G)
  <2>1. IsForest(trees, roots)
    BY <1>1, LiveItems
  <2>2. n \in 1 .. Len(trees.kids[a]) + 1
    <3>1. Len(trees.kids[a]) \in Nat
      BY <1>1, <2>1, KidsFacts
    <3> QED
      BY <3>1
  <2> HIDE DEF n
  <2> QED
    BY <1>1, <1>2, <2>1, <2>2, AttachStep
<1>5. /\ roots' = roots \ {i} /\ lost' = lost /\ Noted
      /\ heap' = [g EXCEPT !.mem = 0] /\ at = "none" /\ UNCHANGED parseVars
  BY <1>3 DEF Placed, Call
<1>6. G = trees \/ StepOf(trees, G)
  BY <1>4 DEF StepOf
<1> HIDE DEF G, g
<1> QED
  BY <1>1, <1>3, <1>5, <1>6, CallDone DEF Idle

LEMMA AddItemToArrayStep ==
  ASSUME IInv, AddItemToArray
  PROVE  IInv' /\ [Forest!Step(trees, trees')]_trees
<1>1. PICK a \in Items, i \in roots :
        /\ Container(a) /\ Placeable(i, a) /\ Call(add_item_to_array(heap, a, i))
        /\ Placed(i, add_item_to_array(heap, a, i).r)
  BY DEF AddItemToArray
<1>2. Idle /\ Alike(heap, heap)
  BY <1>1, IdleNow DEF Call, Idle, Ready
<1>3. CASE a = i
  <2>1. add_item_to_array(heap, a, i) = Result(heap, FALSE)
    BY <1>3 DEF add_item_to_array
  <2>2. Call(Result(heap, FALSE)) /\ roots' = roots /\ lost' = lost /\ Noted
    BY <1>1, <2>1 DEF Placed, Result
  <2>3. Result(heap, FALSE).heap = heap
    BY DEF Result
  <2> QED
    BY <1>2, <2>2, <2>3, CallKeeps
<1>4. CASE a # i
  <2>1. a \notin Tree(i)
    BY <1>1, <1>4 DEF Placeable
  <2> QED
    BY <1>1, <1>2, <2>1, RootPlaced
<1> QED
  BY <1>3, <1>4

LEMMA AddItemToObjectStep ==
  ASSUME IInv, AddItemToObject
  PROVE  IInv' /\ [Forest!Step(trees, trees')]_trees
<1>1. PICK h \in Given(1), o \in Items, i \in roots, name \in Names, const \in BOOLEAN :
        /\ Container(o) /\ Placeable(i, o) /\ Call(add_item_to_object(h, o, name, i, const))
        /\ Placed(i, add_item_to_object(h, o, name, i, const).r)
  BY DEF AddItemToObject
<1> DEFINE res == add_item_to_object(h, o, name, i, const)
           copy == cJSON_strdup(h)
<1>2. Idle /\ Ready(h) /\ Sane(h) /\ i \in Items /\ h.item[i].type # "free" /\ i # NULL
  BY <1>1, IdleNow, GivenReady, ReadyFacts, ItemsFacts DEF Call, Idle
<1>3. /\ Alike(Named(h, i, name, TRUE), h)
      /\ copy.r \in BOOLEAN
      /\ copy.r => Alike(Named(copy.heap, i, name, FALSE), h)
      /\ ~copy.r => copy.heap = h
  BY <1>2, NamedAlike
<1>4. Alike(h, heap)
  BY <1>2 DEF Ready
<1>5. ASSUME res = Result(h, FALSE)
      PROVE  IInv' /\ [Forest!Step(trees, trees')]_trees
  <2>1. res.heap = h /\ res.r = FALSE
    BY <1>5 DEF Result
  <2>2. roots' = roots /\ lost' = lost /\ Noted
    BY <1>1, <2>1 DEF Placed
  <2> HIDE DEF res
  <2>3. Call(res)
    BY <1>1 DEF res
  <2> QED
    BY <1>2, <1>4, <2>1, <2>2, <2>3, CallKeeps
<1>6. CASE o = i
  BY <1>5, <1>6 DEF add_item_to_object
<1>7. ASSUME o # i, NEW k, Alike(k, h), res = add_item_to_array(k, o, i)
      PROVE  IInv' /\ [Forest!Step(trees, trees')]_trees
  <2>1. Alike(k, heap)
    BY <1>4, <1>7, AlikeAgain
  <2>2. o \notin Tree(i)
    BY <1>1, <1>7 DEF Placeable
  <2> HIDE DEF res
  <2>3. Call(res) /\ Placed(i, res.r)
    BY <1>1 DEF res
  <2> QED
    BY <1>1, <1>2, <1>7, <2>1, <2>2, <2>3, RootPlaced
<1>8. CASE o # i /\ const
  <2>1. res = add_item_to_array(Named(h, i, name, TRUE), o, i)
    BY <1>2, <1>8 DEF add_item_to_object
  <2> HIDE DEF res
  <2> QED
    BY <1>3, <1>7, <1>8, <2>1
<1>9. CASE o # i /\ ~const /\ ~copy.r
  <2>1. res = Result(h, FALSE)
    BY <1>2, <1>3, <1>9 DEF add_item_to_object
  <2> QED
    BY <1>5, <2>1
<1>10. CASE o # i /\ ~const /\ copy.r
  <2>1. res = add_item_to_array(Named(copy.heap, i, name, FALSE), o, i)
    BY <1>2, <1>10 DEF add_item_to_object
  <2> HIDE DEF res, copy
  <2> QED
    BY <1>3, <1>7, <1>10, <2>1
<1> QED
  BY <1>3, <1>6, <1>8, <1>9, <1>10

LEMMA CallOutcome ==
  ASSUME Idle, NEW res, Call(res), Outcome(res.heap, roots', lost'), Noted
  PROVE  IInv' /\ [Forest!Step(trees, trees')]_trees
<1> DEFINE g == res.heap
<1>1. heap' = [g EXCEPT !.mem = 0] /\ at = "none" /\ UNCHANGED parseVars
  BY DEF Call
<1> HIDE DEF g
<1>2. Sane(g) /\ lost' \subseteq Items
  BY DEF Outcome, g
<1>3. PICK G : /\ Caller(g, G, roots') /\ (G = trees \/ StepOf(trees, G))
               /\ G.live \cap lost' = {} /\ Live(g) = G.live \cup lost'
  BY DEF Outcome, g
<1> QED
  BY <1>1, <1>2, <1>3, CallDone DEF Idle

-----------------------------------------------------------------------------
(* New items that are placed *)

LEMMA FreshOneMore ==
  ASSUME Idle, NEW h, Ready(h), NEW g, Sane(g), NEW r, Fresh(g, h, r),
         Caller(g, Beside(trees, Single(r)), roots \cup {r})
  PROVE  OneMore(g, r)
<1>1. Live(h) = trees.live \cup lost /\ h.item = heap.item /\ trees.live \subseteq Items
  BY ReadyFacts DEF Idle
<1>2. Live(g) = Live(h) \cup {r} /\ r \notin Live(h) /\ r \in Items /\ r # NULL
  BY FreshLive
<1>3. \A x \in trees.live : g.item[x] = heap.item[x]
  BY <1>1, <1>2 DEF Fresh
<1> QED
  BY <1>1, <1>2, <1>3 DEF OneMore

LEMMA NewAdded ==
  ASSUME Idle, NEW g, NEW r, OneMore(g, r), NEW k, Alike(k, g), NEW a, Container(a), g.item[r].of # a
  PROVE  /\ add_item_to_array(k, a, r).r = TRUE
         /\ Outcome(add_item_to_array(k, a, r).heap, roots, lost)
<1> DEFINE B == Beside(trees, Single(r))
           R == roots \cup {r}
           n == Len(B.kids[a]) + 1
           G == Attached(B, a, n, r)
           res == add_item_to_array(k, a, r)
<1>1. /\ Sane(g) /\ r \in Items /\ r \notin trees.live /\ r \notin lost /\ r # NULL
      /\ Caller(g, B, R) /\ Live(g) = trees.live \cup lost \cup {r}
      /\ \A x \in trees.live : g.item[x] = heap.item[x]
  BY DEF OneMore
<1>2. Alike(heap, heap) /\ roots \subseteq trees.live /\ lost \subseteq Items /\ trees.live \cap lost = {}
  BY DEF Idle, Ready
<1>3. /\ a \in trees.live /\ a \in Items /\ MayGrow(heap, trees, a)
      /\ Holds(heap, trees, roots, {}, {})
  BY <1>2, ContainerFacts
<1>4. IsForest(trees, roots)
  BY <1>3, LiveItems
<1>5. B.live = trees.live \cup {r}
  BY DEF Beside, Single
<1>6. Caller(k, B, R) /\ Live(k) = Live(g) /\ Sane(k)
  BY <1>1, AlikeKeeps DEF Alike
<1>7. MayGrow(k, B, a)
  <2>1. a \in B.live
    BY <1>3, <1>5
  <2>2. ~g.item[a].ref /\ \A x \in B.live : g.item[x].of # a
    BY <1>1, <1>3, <1>5 DEF MayGrow
  <2>3. B.live \subseteq Items
    BY <1>1, <1>5, <1>4, LiveItems DEF IsForest, ForestT
  <2> HIDE DEF B
  <2> QED
    BY <1>3, <2>1, <2>2, <2>3 DEF MayGrow, Alike
<1>8. B.kids[a] = trees.kids[a] /\ Len(trees.kids[a]) \in Nat
  BY <1>3, <1>4, KidsFacts DEF Beside
<1>9. n \in 1 .. Len(trees.kids[a]) + 1
  BY <1>8
<1>10. n = Len(B.kids[a]) + 1
  OBVIOUS
<1> HIDE DEF n
<1>11. Forest!Attach(trees, G)
  BY <1>1, <1>3, <1>4, <1>9, AttachNewStep
<1>12. a \notin Forest!Tree(B, r)
  BY <1>1, <1>3, <1>4, <1>9, AttachNewStep
<1>13. r \in R /\ R \ {r} = roots
  BY <1>1, <1>2
<1> HIDE DEF B, R
<1>14. Became(res, k, G, R \ {r})
  BY <1>6, <1>7, <1>10, <1>12, <1>13, AddCaller
<1>15. G.live = B.live
  <2>1. Holds(k, B, R, {}, {})
    BY <1>6 DEF Caller
  <2>2. IsForest(B, R)
    BY <2>1, LiveItems
  <2> QED
    BY <2>2, AttachedLive
<1> HIDE DEF G, res
<1>16. res.r = TRUE /\ Sane(res.heap) /\ Live(res.heap) = Live(k) /\ Caller(res.heap, G, roots)
  BY <1>13, <1>14 DEF Became
<1>17. G.live \cap lost = {} /\ Live(res.heap) = G.live \cup lost
  BY <1>1, <1>2, <1>5, <1>6, <1>15, <1>16
<1>18. StepOf(trees, G)
  BY <1>11 DEF StepOf
<1> QED
  BY <1>2, <1>16, <1>17, <1>18 DEF Outcome, res

\* A reference to an item of the caller
LEMMA RefOneMore ==
  ASSUME Idle, NEW h, Ready(h), NEW i \in trees.live, NEW new, RefItem(new, h, i), new.r # NULL
  PROVE  /\ OneMore(new.heap, new.r) /\ new.heap.item[new.r].of = Shared(heap, i)
<1>1. /\ Sane(h) /\ Caller(h, trees, roots) /\ h.item = heap.item
  BY ReadyFacts
<1>2. /\ Caller(new.heap, Beside(trees, Single(new.r)), roots \cup {new.r})
      /\ Sane(new.heap) /\ Fresh(new.heap, h, new.r)
  BY <1>1, RefGrows
<1>3. OneMore(new.heap, new.r)
  BY <1>2, FreshOneMore
<1>4. new.heap.item[new.r].of = Shared(heap, i)
  BY <1>1 DEF RefItem, Shared
<1> QED
  BY <1>3, <1>4

LEMMA NotOfContainer ==
  ASSUME Idle, NEW a, Container(a), NEW i \in trees.live, i # a
  PROVE  Shared(heap, i) # a
<1>1. Alike(heap, heap)
  BY DEF Idle, Ready
<1>2. MayGrow(heap, trees, a)
  BY <1>1, ContainerFacts
<1> QED
  BY <1>2 DEF MayGrow, Shared

LEMMA UnchangedOutcome ==
  ASSUME Idle, NEW g, Alike(g, heap)
  PROVE  Outcome(g, roots, lost)
<1>1. Sane(heap) /\ Caller(heap, trees, roots) /\ Live(heap) = trees.live \cup lost
  BY ReadyFacts DEF Idle
<1>2. Caller(g, trees, roots) /\ Live(g) = Live(heap) /\ Sane(g)
  BY <1>1, AlikeKeeps DEF Alike
<1> QED
  BY <1>1, <1>2 DEF Outcome, Idle

LEMMA AddItemReferenceToArrayStep ==
  ASSUME IInv, AddItemReferenceToArray
  PROVE  IInv' /\ [Forest!Step(trees, trees')]_trees
<1>1. PICK h \in Given(1), a \in Items, i \in Known :
        LET new == create_reference(h, i) IN
        /\ Container(a) /\ i # a
        /\ Call(add_item_to_array(new.heap, a, new.r)) /\ Kept
  BY DEF AddItemReferenceToArray
<1> DEFINE new == create_reference(h, i)
           res == add_item_to_array(new.heap, a, new.r)
<1>2. Idle /\ Ready(h) /\ Sane(h) /\ i \in Items /\ h.item[i].type # "free" /\ i \in trees.live /\ h.item = heap.item
  BY <1>1, IdleNow, GivenReady, ReadyFacts DEF Call, Known, Idle
<1>3. RefItem(new, h, i)
  BY <1>2, RefMade
<1>4. Container(a) /\ i # a /\ Call(res) /\ roots' = roots /\ lost' = lost /\ Noted
  BY <1>1 DEF Kept
<1> HIDE DEF new
<1>5. Outcome(res.heap, roots, lost)
  <2>1. CASE new.r = NULL
    <3>1. res = Result(new.heap, FALSE)
      BY <2>1 DEF add_item_to_array
    <3>2. Sane(new.heap) /\ new.heap.item = heap.item
      BY <1>2, <1>3, <2>1 DEF RefItem, Made
    <3>3. res.heap = new.heap
      BY <3>1 DEF Result
    <3> QED
      BY <1>2, <3>2, <3>3, SameItems, UnchangedOutcome
  <2>2. CASE new.r # NULL
    <3>1. OneMore(new.heap, new.r) /\ new.heap.item[new.r].of # a
      BY <1>2, <1>3, <1>4, <2>2, RefOneMore, NotOfContainer
    <3>2. Alike(new.heap, new.heap)
      BY <3>1 DEF OneMore, Alike
    <3> QED
      BY <1>2, <1>4, <3>1, <3>2, NewAdded
  <2> QED
    BY <2>1, <2>2
<1> HIDE DEF res
<1> QED
  BY <1>2, <1>4, <1>5, CallOutcome

-----------------------------------------------------------------------------
(* add_item_to_object for a new item *)

\* A new item is placed, or there is no memory for its name.
PlacedOrNot(added, g) ==
  \/ added.r = TRUE /\ Outcome(added.heap, roots, lost)
  \/ added.r = FALSE /\ added.heap = g

LEMMA NewNamed ==
  ASSUME Idle, NEW g, NEW r, OneMore(g, r), NEW o, Container(o), g.item[r].of # o, NEW name \in Names
  PROVE  PlacedOrNot(add_item_to_object(g, o, name, r, FALSE), g)
<1> DEFINE added == add_item_to_object(g, o, name, r, FALSE)
           copy == cJSON_strdup(g)
<1>1. Sane(g) /\ r \in Items /\ r # NULL /\ r \notin trees.live /\ Live(g) = trees.live \cup lost \cup {r}
  BY DEF OneMore
<1>2. g.item[r].type # "free"
  BY <1>1 DEF Live
<1>3. /\ copy.r \in BOOLEAN
      /\ copy.r => Alike(Named(copy.heap, r, name, FALSE), g)
      /\ ~copy.r => copy.heap = g
  BY <1>1, <1>2, NamedAlike
<1>4. o # r
  BY <1>1 DEF Container, Known
<1>5. CASE ~copy.r
  <2>1. added = Result(g, FALSE)
    BY <1>1, <1>3, <1>4, <1>5 DEF add_item_to_object
  <2> HIDE DEF added
  <2>2. added.r = FALSE /\ added.heap = g
    BY <2>1 DEF Result
  <2> QED
    BY <2>2 DEF added, PlacedOrNot
<1>6. CASE copy.r
  <2>1. added = add_item_to_array(Named(copy.heap, r, name, FALSE), o, r)
    BY <1>1, <1>4, <1>6 DEF add_item_to_object
  <2>2. Alike(Named(copy.heap, r, name, FALSE), g)
    BY <1>3, <1>6
  <2> DEFINE k == Named(copy.heap, r, name, FALSE)
  <2>3. Alike(k, g) /\ added = add_item_to_array(k, o, r)
    BY <2>1, <2>2
  <2> HIDE DEF k, added
  <2>4. added.r = TRUE /\ Outcome(added.heap, roots, lost)
    BY <2>3, NewAdded
  <2> QED
    BY <2>4 DEF added, PlacedOrNot
<1> QED
  BY <1>3, <1>5, <1>6

LEMMA LostOutcome ==
  ASSUME Idle, NEW g, NEW r, OneMore(g, r)
  PROVE  Outcome(g, roots, lost \cup {r})
<1>1. /\ Sane(g) /\ r \in Items /\ r \notin trees.live /\ Live(g) = trees.live \cup lost \cup {r}
      /\ \A x \in trees.live : g.item[x] = heap.item[x]
  BY DEF OneMore
<1>2. heap \in HeapT /\ Caller(heap, trees, roots) /\ \A x \in trees.live : heap.item[x].type # "free"
  BY ReadyFacts DEF Idle
<1>3. \A x \in trees.live : SameLinks(g, heap, x)
  BY <1>1, <1>2 DEF SameLinks
<1>4. Caller(g, trees, roots)
  BY <1>2, <1>3, CallerKept
<1>5. trees.live \cap (lost \cup {r}) = {} /\ Live(g) = trees.live \cup (lost \cup {r})
      /\ lost \cup {r} \subseteq Items
  BY <1>1 DEF Idle
<1> QED
  BY <1>1, <1>4, <1>5 DEF Outcome

LEMMA AddItemReferenceToObjectStep ==
  ASSUME IInv, AddItemReferenceToObject
  PROVE  IInv' /\ [Forest!Step(trees, trees')]_trees
<1>1. PICK h \in Given(2), o \in Items, i \in Known, name \in Names :
        LET new == create_reference(h, i)
            added == add_item_to_object(new.heap, o, name, new.r, FALSE)
        IN /\ Container(o) /\ i # o /\ Call(added)
           /\ lost' = IF added.r THEN lost ELSE lost \cup ({new.r} \ {NULL})
           /\ UNCHANGED roots /\ Noted
  BY DEF AddItemReferenceToObject
<1> DEFINE new == create_reference(h, i)
           res == add_item_to_object(new.heap, o, name, new.r, FALSE)
<1>2. Idle /\ Ready(h) /\ Sane(h) /\ i \in Items /\ h.item[i].type # "free" /\ i \in trees.live /\ h.item = heap.item
  BY <1>1, IdleNow, GivenReady, ReadyFacts DEF Call, Known, Idle
<1>3. RefItem(new, h, i)
  BY <1>2, RefMade
<1>4. /\ Container(o) /\ i # o /\ Call(res) /\ roots' = roots /\ Noted
      /\ lost' = IF res.r THEN lost ELSE lost \cup ({new.r} \ {NULL})
  BY <1>1
<1> HIDE DEF new
<1>5. Outcome(res.heap, roots, lost')
  <2>1. CASE new.r = NULL
    <3>1. res = Result(new.heap, FALSE)
      BY <2>1 DEF add_item_to_object
    <3>2. Sane(new.heap) /\ new.heap.item = heap.item
      BY <1>2, <1>3, <2>1 DEF RefItem, Made
    <3> HIDE DEF res
    <3>3. res.heap = new.heap /\ lost' = lost
      BY <1>4, <2>1, <3>1 DEF Result
    <3> QED
      BY <1>2, <3>2, <3>3, SameItems, UnchangedOutcome
  <2>2. CASE new.r # NULL
    <3>1. OneMore(new.heap, new.r) /\ new.heap.item[new.r].of # o
      BY <1>2, <1>3, <1>4, <2>2, RefOneMore, NotOfContainer
    <3>2. PlacedOrNot(res, new.heap)
      BY <1>1, <1>2, <1>4, <3>1, NewNamed
    <3> HIDE DEF res
    <3>3. CASE res.r = TRUE /\ Outcome(res.heap, roots, lost)
      BY <1>4, <3>3
    <3>4. CASE res.r = FALSE /\ res.heap = new.heap
      <4>1. lost' = lost \cup {new.r}
        BY <1>4, <2>2, <3>4
      <4> QED
        BY <1>2, <3>1, <3>4, <4>1, LostOutcome
    <3> QED
      BY <3>2, <3>3, <3>4 DEF PlacedOrNot
  <2> QED
    BY <2>1, <2>2
<1> HIDE DEF res
<1> QED
  BY <1>2, <1>4, <1>5, CallOutcome

\* free(NULL) of a tree
LEMMA NothingDeleted ==
  ASSUME NEW h, Sane(h)
  PROVE  Sane(cJSON_Delete(h, NULL)) /\ cJSON_Delete(h, NULL).item = h.item
<1> DEFINE g == cJSON_Delete(h, NULL)
<1>1. Starts(Nothing, {}, {}, <<NULL>>)
  BY NothingFacts DEF Starts
<1>2. DeletedFrom(Deletions(h, <<NULL>>), h, {})
  BY <1>1, NothingFacts, Deleted
<1>3. DeletedFrom(g, h, {})
  BY <1>2 DEF cJSON_Delete
<1> HIDE DEF g
<1>4. Sane(g) /\ \A x \in Items : g.item[x] = h.item[x]
  BY <1>3 DEF DeletedFrom
<1>5. g.item = h.item
  BY <1>4 DEF Sane, HeapT
<1> QED
  BY <1>4, <1>5 DEF g

LEMMA AddNewStep ==
  ASSUME IInv, AddNew
  PROVE  IInv' /\ [Forest!Step(trees, trees')]_trees
<1>1. PICK h \in Given(3), o \in Items, name \in Names, type \in Types :
        Container(o) /\ Call(AddNewToObject(h, o, name, type)) /\ Kept
  BY DEF AddNew
<1> DEFINE new == Create(h, type)
           added == add_item_to_object(new.heap, o, name, new.r, FALSE)
           res == AddNewToObject(h, o, name, type)
<1>2. Idle /\ Ready(h) /\ Sane(h) /\ h \in HeapT /\ Caller(h, trees, roots) /\ h.item = heap.item
  BY <1>1, IdleNow, GivenReady, ReadyFacts DEF Call
<1>3. MadeItem(new, h)
  BY <1>2, CreateMade
<1>4. /\ Container(o) /\ Call(res) /\ roots' = roots /\ lost' = lost /\ Noted
      /\ res = IF added.r THEN Result(added.heap, new.r)
               ELSE Result(cJSON_Delete(added.heap, new.r), NULL)
  BY <1>1 DEF Kept, AddNewToObject
<1> HIDE DEF new, res
<1>5. ASSUME NEW g, Sane(g), g.item = h.item, res.heap = g
      PROVE  Outcome(res.heap, roots, lost)
  BY <1>2, <1>5, SameItems, UnchangedOutcome
<1>6. CASE new.r = NULL
  <2>1. added = Result(new.heap, FALSE)
    BY <1>6 DEF add_item_to_object
  <2> HIDE DEF added
  <2>2. Sane(new.heap) /\ new.heap.item = h.item
    BY <1>3, <1>6 DEF MadeItem, Made
  <2>3. added.heap = new.heap /\ added.r = FALSE
    BY <2>1 DEF Result
  <2>4. Sane(cJSON_Delete(new.heap, NULL)) /\ cJSON_Delete(new.heap, NULL).item = h.item
    BY <2>2, NothingDeleted
  <2>5. res.heap = cJSON_Delete(new.heap, NULL)
    BY <1>4, <1>6, <2>3 DEF Result
  <2>6. Outcome(res.heap, roots, lost)
    BY <1>5, <2>4, <2>5
  <2> QED
    BY <1>2, <1>4, <2>6, CallOutcome
<1>7. CASE new.r # NULL
  <2>1. Fresh(new.heap, h, new.r) /\ ~new.heap.item[new.r].ref /\ Sane(new.heap)
    BY <1>3, <1>7 DEF MadeItem, Made
  <2>2. Caller(new.heap, Beside(trees, Single(new.r)), roots \cup {new.r})
    BY <1>2, <2>1, CallerGrows
  <2>3. OneMore(new.heap, new.r)
    BY <1>2, <2>1, <2>2, FreshOneMore
  <2>4. new.heap.item[new.r].of # o
    <3>1. new.heap.item[new.r].of = NULL /\ o # NULL
      BY <1>1, <2>1, ItemsFacts DEF Fresh
    <3> QED
      BY <3>1
  <2>5. PlacedOrNot(added, new.heap)
    BY <1>1, <1>2, <1>4, <2>3, <2>4, NewNamed
  <2> HIDE DEF added
  <2>6. Outcome(res.heap, roots, lost)
    <3>1. CASE added.r = TRUE /\ Outcome(added.heap, roots, lost)
      BY <1>4, <3>1 DEF Result
    <3>2. CASE added.r = FALSE /\ added.heap = new.heap
      <4>1. res.heap = cJSON_Delete(new.heap, new.r)
        BY <1>4, <3>2 DEF Result
      <4>2. Sane(cJSON_Delete(new.heap, new.r)) /\ cJSON_Delete(new.heap, new.r).item = h.item
        BY <1>2, <2>1, FreshDeleted
      <4> QED
        BY <1>5, <4>1, <4>2
    <3> QED
      BY <2>5, <3>1, <3>2 DEF PlacedOrNot
  <2> QED
    BY <1>2, <1>4, <2>6, CallOutcome
<1> QED
  BY <1>6, <1>7

-----------------------------------------------------------------------------
(* Finding items *)

\* A child, or none
MemberOrNull(a, i) == i = NULL \/ \E n \in DOMAIN trees.kids[a] : i = trees.kids[a][n]

LEMMA MembersAre ==
  ASSUME Idle, NEW k, Alike(k, heap), NEW a, Container(a)
  PROVE  Chain(k, k.item[a].child) = trees.kids[a] /\ trees.kids[a] \in Seq(Items)
<1>1. Holds(k, trees, roots, {}, {}) /\ k \in HeapT /\ a \in trees.live /\ ~k.item[a].ref /\ a \in Items
  BY ContainerFacts
<1>2. trees.kids[a] \in Seq(Items)
  BY <1>1, LiveItems, KidsFacts
<1> QED
  BY <1>1, <1>2, TreesAreForest

LEMMA Found ==
  ASSUME Idle, NEW k, Alike(k, heap), NEW a, Container(a)
  PROVE  /\ \A index \in Nat : MemberOrNull(a, get_array_item(k, a, index))
         /\ \A name, case : MemberOrNull(a, get_object_item(k, a, name, case))
         /\ Indexes(a) \subseteq Nat
<1> DEFINE s == trees.kids[a]
<1>1. Chain(k, k.item[a].child) = s /\ s \in Seq(Items)
  BY MembersAre
<1>2. Len(s) \in Nat /\ DOMAIN s = 1 .. Len(s)
  BY <1>1
<1>3. ASSUME NEW index \in Nat
      PROVE  MemberOrNull(a, get_array_item(k, a, index))
  <2>1. get_array_item(k, a, index) = IF index < Len(s) THEN s[index + 1] ELSE NULL
    BY <1>1 DEF get_array_item, cJSON_GetArraySize
  <2>2. index < Len(s) => index + 1 \in DOMAIN s
    BY <1>2
  <2> QED
    BY <2>1, <2>2 DEF MemberOrNull
<1>4. ASSUME NEW name, NEW case
      PROVE  MemberOrNull(a, get_object_item(k, a, name, case))
  <2> DEFINE ends == {n \in DOMAIN s :
                        k.item[s[n]].name \in {name} \cup (IF case THEN {NoName} ELSE {})}
             found == get_object_item(k, a, name, case)
  <2>1. found = IF ends = {} \/ k.item[s[Min(ends)]].name # name THEN NULL ELSE s[Min(ends)]
    BY <1>1 DEF get_object_item
  <2>2. ends \subseteq Nat /\ ends \subseteq DOMAIN s
    BY <1>2
  <2> HIDE DEF ends, s, found
  <2>3. ends # {} => Min(ends) \in DOMAIN s
    BY <2>2, MinIsLeast
  <2> QED
    BY <2>1, <2>3 DEF MemberOrNull, found, s
<1>5. Indexes(a) \subseteq Nat
  <2>1. Alike(heap, heap)
    BY DEF Idle, Ready
  <2>2. Chain(heap, heap.item[a].child) = s
    BY <2>1, MembersAre
  <2>3. Indexes(a) = 0 .. Len(s)
    BY <2>2 DEF Indexes, cJSON_GetArraySize
  <2> QED
    BY <1>2, <2>3
<1> QED
  BY <1>3, <1>4, <1>5

LEMMA MembersFound ==
  ASSUME Idle, NEW a, Container(a), NEW i \in Members(a)
  PROVE  MemberOrNull(a, i)
<1>1. Alike(heap, heap)
  BY DEF Idle, Ready
<1>2. /\ \A index \in Nat : MemberOrNull(a, get_array_item(heap, a, index))
      /\ \A name, case : MemberOrNull(a, get_object_item(heap, a, name, case))
      /\ Indexes(a) \subseteq Nat
  BY <1>1, Found
<1>3. CASE i \in {get_array_item(heap, a, index) : index \in Indexes(a)}
  BY <1>2, <1>3
<1>4. CASE i \in {get_object_item(heap, a, name, case) : name \in Names, case \in BOOLEAN}
  BY <1>2, <1>4
<1> QED
  BY <1>3, <1>4 DEF Members

-----------------------------------------------------------------------------
(* Items that are detached *)

\* A child that was found, and what is known of its list
LEMMA KidFacts ==
  ASSUME Idle, NEW a, Container(a), NEW n \in DOMAIN trees.kids[a]
  PROVE  /\ a \in trees.live /\ a \in Items /\ trees.kids[a][n] \in trees.live /\ trees.kids[a][n] \in Items
         /\ trees.kids[a][n] # NULL /\ trees.kids[a][n] \notin roots /\ n \in 1 .. Len(trees.kids[a])
         /\ IsForest(trees, roots) /\ trees \in ForestT
<1>1. Alike(heap, heap)
  BY DEF Idle, Ready
<1>2. a \in trees.live /\ a \in Items /\ Holds(heap, trees, roots, {}, {})
  BY <1>1, ContainerFacts
<1>3. IsForest(trees, roots)
  BY <1>2, LiveItems
<1>4. trees \in ForestT
  BY <1>3 DEF IsForest
<1> DEFINE s == trees.kids[a]
<1>5. DOMAIN s = 1 .. Len(s) /\ \A j \in DOMAIN s : s[j] \in trees.live /\ s[j] \in Items /\ s[j] \notin roots
  BY <1>2, <1>3, KidsFacts
<1>6. s[n] \in trees.live /\ s[n] \in Items /\ s[n] \notin roots /\ n \in 1 .. Len(s)
  <2> HIDE DEF s
  <2> QED
    BY <1>5 DEF s
<1> HIDE DEF s
<1>7. s[n] # NULL
  BY <1>6, ItemsFacts, Zenon
<1> QED
  BY <1>2, <1>3, <1>4, <1>6, <1>7 DEF s

LEMMA DetachedCaller ==
  ASSUME Idle, NEW a, Container(a), NEW n \in DOMAIN trees.kids[a]
  PROVE  LET i == trees.kids[a][n]
             detached == cJSON_DetachItemViaPointer(heap, a, i)
             D == Detached(trees, a, n)
         IN /\ detached.r = i /\ Sane(detached.heap) /\ Live(detached.heap) = Live(heap)
            /\ Caller(detached.heap, D, roots \cup {i}) /\ D.live = trees.live
            /\ \A x \in Items : detached.heap.item[x].of = heap.item[x].of
<1> DEFINE i == trees.kids[a][n]
           detached == cJSON_DetachItemViaPointer(heap, a, i)
           D == Detached(trees, a, n)
           g == detached.heap
<1>1. Alike(heap, heap)
  BY DEF Idle, Ready
<1>2. /\ a \in trees.live /\ ~heap.item[a].ref /\ Holds(heap, trees, roots, {}, {}) /\ heap \in HeapT
      /\ Sane(heap) /\ Caller(heap, trees, roots) /\ MayGrow(heap, trees, a)
      /\ \A x \in trees.live : heap.item[x].type # "free"
  BY <1>1, ContainerFacts DEF Idle
<1>3. /\ detached.r = i /\ ForestStep(g, heap, trees, a) /\ Holds(g, D, roots \cup {i}, {}, {})
  <2>1. i = trees.kids[a][n] /\ detached = cJSON_DetachItemViaPointer(heap, a, i)
        /\ D = Detached(trees, a, n) /\ g = detached.heap
    OBVIOUS
  <2> HIDE DEF i, detached, D, g
  <2> QED
    BY <1>2, <2>1, DetachHoldsIs
<1>4. D.live = trees.live
  <2>1. trees \in ForestT
    BY KidFacts
  <2> QED
    BY <2>1 DEF Detached, ForestT
<1> HIDE DEF g, D, detached, i
<1>5. Sane(g) /\ Live(g) = Live(heap)
  BY <1>2, <1>3, SaneRelinked
<1>6. Caller(g, D, roots \cup {i})
  BY <1>2, <1>3, <1>4, CallerStep DEF MayGrow
<1>7. \A x \in Items : g.item[x].of = heap.item[x].of
  BY <1>3 DEF ForestStep, Relinked, SameValue
<1> QED
  BY <1>3, <1>4, <1>5, <1>6, <1>7, Zenon DEF g, D, detached, i

LEMMA NothingFound ==
  ASSUME Idle, NEW a
  PROVE  /\ cJSON_DetachItemViaPointer(heap, a, NULL).r = NULL
         /\ cJSON_DetachItemViaPointer(heap, a, NULL).heap = heap
         /\ Outcome(heap, roots, lost)
<1>1. Alike(heap, heap)
  BY DEF Idle, Ready
<1> QED
  BY <1>1, UnchangedOutcome DEF cJSON_DetachItemViaPointer, Result

LEMMA DetachItemStep ==
  ASSUME IInv, DetachItem
  PROVE  IInv' /\ [Forest!Step(trees, trees')]_trees
<1>1. PICK a \in Items : /\ Container(a)
                         /\ \E i \in Members(a) :
                              LET detached == cJSON_DetachItemViaPointer(heap, a, i) IN
                              Call(detached) /\ Gained(detached.r)
  BY DEF DetachItem
<1>2. PICK i \in Members(a) : /\ Call(cJSON_DetachItemViaPointer(heap, a, i))
                              /\ Gained(cJSON_DetachItemViaPointer(heap, a, i).r)
  BY <1>1
<1>3. Idle
  BY <1>2, IdleNow DEF Call
<1>4. MemberOrNull(a, i)
  BY <1>1, <1>3, MembersFound
<1> DEFINE res == cJSON_DetachItemViaPointer(heap, a, i)
<1>5. Call(res) /\ roots' = roots \cup ({res.r} \ {NULL}) /\ lost' = lost /\ Noted
  BY <1>2 DEF Gained
<1>6. CASE i = NULL
  <2>1. res.r = NULL /\ Outcome(res.heap, roots, lost)
    BY <1>3, <1>6, NothingFound
  <2> HIDE DEF res
  <2>2. roots' = roots
    BY <1>5, <2>1
  <2> QED
    BY <1>3, <1>5, <2>1, <2>2, CallOutcome
<1>7. ASSUME NEW n \in DOMAIN trees.kids[a], i = trees.kids[a][n]
      PROVE  IInv' /\ [Forest!Step(trees, trees')]_trees
  <2> DEFINE D == Detached(trees, a, n)
  <2>1. /\ res.r = i /\ Sane(res.heap) /\ Live(res.heap) = Live(heap)
        /\ Caller(res.heap, D, roots \cup {i}) /\ D.live = trees.live
    BY <1>1, <1>3, <1>7, DetachedCaller
  <2>2. Forest!Detach(trees, D) /\ i # NULL
    BY <1>1, <1>3, <1>7, KidFacts, DetachStep
  <2> HIDE DEF res, D
  <2>3. roots' = roots \cup {i}
    BY <1>5, <2>1, <2>2
  <2>4. Live(heap) = trees.live \cup lost /\ lost \subseteq Items /\ trees.live \cap lost = {}
    BY <1>3 DEF Idle, Ready
  <2>5. Outcome(res.heap, roots', lost')
    BY <1>5, <2>1, <2>2, <2>3, <2>4 DEF Outcome, StepOf
  <2> QED
    BY <1>3, <1>5, <2>5, CallOutcome
<1> QED
  BY <1>4, <1>6, <1>7 DEF MemberOrNull

-----------------------------------------------------------------------------
(* Items that are deleted *)

LEMMA TreeDeleted ==
  ASSUME Idle, NEW g, Sane(g), NEW D, NEW U, Caller(g, D, U), D.live = trees.live, Live(g) = Live(heap),
         \A x \in Items : g.item[x].of = heap.item[x].of,
         NEW i \in U, Forest!Tree(D, i) = Forest!Tree(trees, i), Deletable(Tree(i)),
         StepOf(trees, Remaining(D, i))
  PROVE  Outcome(cJSON_Delete(g, i), U \ {i}, lost)
<1> DEFINE tree == Forest!Tree(trees, i)
           G == Remaining(D, i)
           k == cJSON_Delete(g, i)
<1>1. Live(heap) = trees.live \cup lost /\ trees.live \cap lost = {} /\ trees.live \subseteq Items /\ lost \subseteq Items
  BY DEF Idle, Ready
<1>2. \A r \in D.live : g.item[r].of \in tree => r \in tree
  <2>1. \A r \in Live(heap) \ (tree \cup lost) : heap.item[r].of \notin tree
    BY DEF Deletable, Shares, Tree, Item
  <2> HIDE DEF tree
  <2> QED
    BY <1>1, <2>1
<1>3. /\ DeletedFrom(k, g, tree) /\ tree \subseteq D.live /\ Caller(k, G, U \ {i})
      /\ G.live = D.live \ tree
  <2>1. \A r \in D.live : g.item[r].of \in Forest!Tree(D, i) => r \in Forest!Tree(D, i)
    BY <1>2
  <2>2. LET f == cJSON_Delete(g, i) IN
         /\ DeletedFrom(f, g, Forest!Tree(D, i)) /\ Forest!Tree(D, i) \subseteq D.live
         /\ Caller(f, Remaining(D, i), U \ {i})
         /\ Remaining(D, i).live = D.live \ Forest!Tree(D, i)
    BY <2>1, CallerDeletes
  <2> QED
    BY <2>2
<1> HIDE DEF tree, k, G
<1>4. Sane(k) /\ Live(k) = Live(g) \ tree
  BY <1>3 DEF DeletedFrom
<1>5. G.live \cap lost = {} /\ Live(k) = G.live \cup lost
  BY <1>1, <1>3, <1>4
<1> QED
  BY <1>1, <1>3, <1>4, <1>5 DEF Outcome, k, G

LEMMA DeleteItemFromStep ==
  ASSUME IInv, DeleteItemFrom
  PROVE  IInv' /\ [Forest!Step(trees, trees')]_trees
<1>1. PICK a \in Items : /\ Container(a)
                         /\ \E i \in Members(a) :
                              LET detached == cJSON_DetachItemViaPointer(heap, a, i) IN
                              /\ i # NULL => Deletable(Tree(i))
                              /\ Call(Result(cJSON_Delete(detached.heap, detached.r), NULL)) /\ Kept
  BY DEF DeleteItemFrom
<1>2. PICK i \in Members(a) :
        LET detached == cJSON_DetachItemViaPointer(heap, a, i) IN
        /\ i # NULL => Deletable(Tree(i))
        /\ Call(Result(cJSON_Delete(detached.heap, detached.r), NULL)) /\ Kept
  BY <1>1
<1>3. Idle
  BY <1>2, IdleNow DEF Call
<1>4. MemberOrNull(a, i)
  BY <1>1, <1>3, MembersFound
<1> DEFINE det == cJSON_DetachItemViaPointer(heap, a, i)
           res == Result(cJSON_Delete(det.heap, det.r), NULL)
<1>5. Call(res) /\ roots' = roots /\ lost' = lost /\ Noted /\ (i # NULL => Deletable(Tree(i)))
  BY <1>2 DEF Kept
<1>6. res.heap = cJSON_Delete(det.heap, det.r)
  BY DEF Result
<1>7. CASE i = NULL
  <2>1. det.r = NULL /\ det.heap = heap
    BY <1>3, <1>7, NothingFound
  <2> HIDE DEF res, det
  <2>2. res.heap = cJSON_Delete(heap, NULL)
    BY <1>6, <2>1
  <2>3. Sane(heap)
    BY <1>3 DEF Idle, Ready
  <2>4. Sane(res.heap) /\ res.heap.item = heap.item
    BY <2>2, <2>3, NothingDeleted
  <2>5. Outcome(res.heap, roots', lost')
    BY <1>3, <1>5, <2>4, SameItems, UnchangedOutcome
  <2> QED
    BY <1>3, <1>5, <2>5, CallOutcome
<1>8. ASSUME NEW n \in DOMAIN trees.kids[a], i = trees.kids[a][n]
      PROVE  IInv' /\ [Forest!Step(trees, trees')]_trees
  <2> DEFINE D == Detached(trees, a, n)
             U == roots \cup {i}
  <2>1. /\ det.r = i /\ Sane(det.heap) /\ Live(det.heap) = Live(heap)
        /\ Caller(det.heap, D, roots \cup {i}) /\ D.live = trees.live
        /\ \A x \in Items : det.heap.item[x].of = heap.item[x].of
    BY <1>1, <1>3, <1>8, DetachedCaller, SMTT(30)
  <2>2. /\ a \in trees.live /\ IsForest(trees, roots) /\ n \in 1 .. Len(trees.kids[a])
        /\ i \notin roots /\ i # NULL
    BY <1>1, <1>3, <1>8, KidFacts
  <2>3. Forest!Tree(D, i) = Forest!Tree(trees, i) /\ Forest!Delete(trees, Remaining(D, i))
    <3>1. LET j == trees.kids[a][n]
              E == Detached(trees, a, n)
          IN Forest!Tree(E, j) = Forest!Tree(trees, j) /\ Forest!Delete(trees, Remaining(E, j))
      BY <2>2, DeleteChildStep
    <3> QED
      BY <1>8, <3>1
  <2> HIDE DEF det, D
  <2>4. StepOf(trees, Remaining(D, i)) /\ i \in U /\ U \ {i} = roots
    BY <2>2, <2>3 DEF StepOf
  <2> HIDE DEF U
  <2>5. Caller(det.heap, D, U)
    BY <2>1 DEF U
  <2>6. Outcome(cJSON_Delete(det.heap, i), U \ {i}, lost)
    BY <1>3, <1>5, <2>1, <2>2, <2>3, <2>4, <2>5, TreeDeleted
  <2>7. Outcome(res.heap, roots', lost')
    BY <1>5, <1>6, <2>1, <2>4, <2>6
  <2> HIDE DEF res
  <2> QED
    BY <1>3, <1>5, <2>7, CallOutcome
<1> QED
  BY <1>4, <1>7, <1>8 DEF MemberOrNull

LEMMA DeleteRootStep ==
  ASSUME IInv, Delete
  PROVE  IInv' /\ [Forest!Step(trees, trees')]_trees
<1>1. PICK i \in roots : /\ Deletable(Tree(i))
                         /\ Call(Result(cJSON_Delete(heap, i), NULL))
                         /\ roots' = roots \ {i} /\ UNCHANGED lost /\ Noted
  BY DEF Delete
<1> DEFINE res == Result(cJSON_Delete(heap, i), NULL)
<1>2. Idle
  BY <1>1, IdleNow DEF Call
<1>3. Sane(heap) /\ Caller(heap, trees, roots) /\ IsForest(trees, roots)
  BY <1>2, ReadyFacts DEF Idle
<1>4. StepOf(trees, Remaining(trees, i))
  BY <1>3, DeleteStep DEF StepOf
<1>5. Outcome(cJSON_Delete(heap, i), roots \ {i}, lost)
  BY <1>1, <1>2, <1>3, <1>4, TreeDeleted
<1>6. res.heap = cJSON_Delete(heap, i)
  BY DEF Result
<1>7. Outcome(res.heap, roots', lost')
  BY <1>1, <1>5, <1>6
<1> HIDE DEF res
<1> QED
  BY <1>1, <1>2, <1>7, CallOutcome DEF res

-----------------------------------------------------------------------------
(* Items that are inserted *)

LEMMA InsertItemStep ==
  ASSUME IInv, InsertItem
  PROVE  IInv' /\ [Forest!Step(trees, trees')]_trees
<1>1. PICK a \in Known, i \in roots :
        /\ Container(a) /\ a # i /\ Placeable(i, a)
        /\ \E which \in Indexes(a) :
             LET inserted == cJSON_InsertItemInArray(heap, a, which, i) IN
             Call(inserted) /\ Placed(i, inserted.r)
  BY DEF InsertItem
<1>2. PICK which \in Indexes(a) :
        LET inserted == cJSON_InsertItemInArray(heap, a, which, i) IN
        Call(inserted) /\ Placed(i, inserted.r)
  BY <1>1
<1> DEFINE res == cJSON_InsertItemInArray(heap, a, which, i)
           after == get_array_item(heap, a, which)
<1>3. Idle /\ Alike(heap, heap)
  BY <1>2, IdleNow DEF Call, Idle, Ready
<1>4. a \notin Tree(i) /\ a \notin Forest!Tree(trees, i) /\ Call(res) /\ Placed(i, res.r)
  BY <1>1, <1>2 DEF Placeable, Tree
<1>5. MemberOrNull(a, after)
  <2>1. which \in Nat /\ \A index \in Nat : MemberOrNull(a, get_array_item(heap, a, index))
    BY <1>1, <1>3, Found
  <2> QED
    BY <2>1
<1>6. CASE after = NULL
  <2>1. res = add_item_to_array(heap, a, i)
    BY <1>6 DEF cJSON_InsertItemInArray
  <2> HIDE DEF res
  <2> QED
    BY <1>1, <1>3, <1>4, <2>1, RootPlaced
<1>7. ASSUME NEW n \in DOMAIN trees.kids[a], after = trees.kids[a][n]
      PROVE  IInv' /\ [Forest!Step(trees, trees')]_trees
  <2> DEFINE G == Attached(trees, a, n, i)
             g == res.heap
  <2>1. /\ a \in trees.live /\ MayGrow(heap, trees, a) /\ Holds(heap, trees, roots, {}, {}) /\ heap \in HeapT
        /\ Sane(heap) /\ Caller(heap, trees, roots) /\ ~heap.item[a].ref
        /\ \A x \in trees.live : heap.item[x].type # "free"
    BY <1>1, <1>3, ContainerFacts DEF Idle
  <2>2. /\ IsForest(trees, roots) /\ n \in 1 .. Len(trees.kids[a])
    BY <1>1, <1>3, <1>7, KidFacts
  <2>3. /\ res.r = TRUE /\ ForestStep(g, heap, trees, a) /\ Holds(g, G, roots \ {i}, {}, {})
    <3>1. \A m \in DOMAIN trees.kids[a] : \A w :
            get_array_item(heap, a, w) = trees.kids[a][m] =>
            LET inserted == cJSON_InsertItemInArray(heap, a, w, i)
                E == Attached(trees, a, m, i)
            IN /\ inserted.r = TRUE /\ ForestStep(inserted.heap, heap, trees, a)
               /\ Holds(inserted.heap, E, roots \ {i}, {}, {})
      BY <1>4, <2>1, InsertHolds
    <3> QED
      BY <1>7, <3>1
  <2>4. G.live = trees.live
    BY <2>2, AttachedLive
  <2>5. StepOf(trees, G)
    <3>1. n \in 1 .. Len(trees.kids[a]) + 1
      <4>1. Len(trees.kids[a]) \in Nat
        BY <2>1, <2>2, KidsFacts, LiveItems
      <4> QED
        BY <2>2, <4>1
    <3> QED
      BY <1>4, <2>1, <2>2, <3>1, AttachStep DEF StepOf
  <2> HIDE DEF res, G, g
  <2>6. Sane(g) /\ Live(g) = Live(heap)
    BY <2>1, <2>3, SaneRelinked
  <2>7. Caller(g, G, roots \ {i})
    BY <2>1, <2>3, <2>4, CallerStep DEF MayGrow
  <2>8. roots' = roots \ {i} /\ lost' = lost /\ Noted
    BY <1>4, <2>3 DEF Placed
  <2>9. Outcome(g, roots', lost')
    BY <1>3, <2>4, <2>5, <2>6, <2>7, <2>8 DEF Outcome, Idle, Ready
  <2> QED
    BY <1>3, <1>4, <2>8, <2>9, CallOutcome DEF g
<1> QED
  BY <1>5, <1>6, <1>7 DEF MemberOrNull

-----------------------------------------------------------------------------
(* Items that are replaced *)

LEMMA SwappedCaller ==
  ASSUME Idle, NEW k, Alike(k, heap), NEW a, Container(a), NEW new \in roots, a \notin Tree(new),
         NEW n \in DOMAIN trees.kids[a], NEW i, i = trees.kids[a][n],
         NEW g, g = Set(Set(Replaced(k, a, i, new), i, "next", NULL), i, "prev", NULL),
         NEW S, S = Swapped(trees, a, n, new)
  PROVE  /\ Sane(g) /\ Live(g) = Live(heap) /\ Caller(g, S, (roots \ {new}) \cup {i})
         /\ S.live = trees.live
         /\ \A x \in Items : g.item[x].of = heap.item[x].of
<1>1. /\ a \in trees.live /\ ~k.item[a].ref /\ Holds(k, trees, roots, {}, {}) /\ k \in HeapT
      /\ Sane(k) /\ Caller(k, trees, roots) /\ MayGrow(k, trees, a) /\ Live(k) = trees.live \cup lost
      /\ Sane(heap)
  BY ContainerFacts
<1>2. Live(k) = Live(heap) /\ \A x \in Items : k.item[x].of = heap.item[x].of
  BY <1>1, AlikeKeeps DEF Alike
<1>3. a \notin Forest!Tree(trees, new)
  BY DEF Tree
<1>4. \A x \in trees.live : k.item[x].type # "free"
  BY <1>1, LiveItems
<1>5. /\ ForestStep(g, k, trees, a) /\ Holds(g, S, (roots \ {new}) \cup {i}, {}, {})
  <2>1. \A m \in DOMAIN trees.kids[a] :
          LET j == trees.kids[a][m]
              f == Set(Set(Replaced(k, a, j, new), j, "next", NULL), j, "prev", NULL)
              G == Swapped(trees, a, m, new)
          IN /\ ForestStep(f, k, trees, a)
             /\ Holds(f, G, (roots \ {new}) \cup {j}, {}, {})
    BY <1>1, <1>3, ReplaceHolds
  <2> QED
    BY <2>1
<1>6. S.live = trees.live
  <2>1. trees \in ForestT
    BY KidFacts
  <2> QED
    BY <2>1 DEF Swapped, ForestT
<1>7. Sane(g) /\ Live(g) = Live(k)
  BY <1>1, <1>4, <1>5, SaneRelinked
<1>8. Caller(g, S, (roots \ {new}) \cup {i})
  <2>1. k \in HeapT /\ Caller(k, trees, roots) /\ a \in trees.live
    BY <1>1
  <2>2. ~k.item[a].ref /\ \A x \in trees.live : k.item[x].of # a
    BY <1>1 DEF MayGrow
  <2> QED
    BY <1>5, <1>6, <2>1, <2>2, CallerStep
<1>9. \A x \in Items : g.item[x].of = k.item[x].of
  BY <1>5, Zenon DEF ForestStep, Relinked, SameValue
<1> QED
  BY <1>2, <1>6, <1>7, <1>8, <1>9, Zenon

LEMMA ReplacedOutcome ==
  ASSUME Idle, NEW k, Alike(k, heap), NEW a, Container(a), NEW new \in roots, a \notin Tree(new),
         NEW n \in DOMAIN trees.kids[a], NEW i, i = trees.kids[a][n], Deletable(Tree(i))
  PROVE  /\ cJSON_ReplaceItemViaPointer(k, a, i, new).r = TRUE
         /\ Outcome(cJSON_ReplaceItemViaPointer(k, a, i, new).heap, roots \ {new}, lost)
<1> DEFINE g == Set(Set(Replaced(k, a, i, new), i, "next", NULL), i, "prev", NULL)
           S == Swapped(trees, a, n, new)
           U == (roots \ {new}) \cup {i}
           res == cJSON_ReplaceItemViaPointer(k, a, i, new)
<1>1. /\ Sane(g) /\ Live(g) = Live(heap) /\ Caller(g, S, U)
      /\ S.live = trees.live
      /\ \A x \in Items : g.item[x].of = heap.item[x].of
  <2>1. /\ g = Set(Set(Replaced(k, a, i, new), i, "next", NULL), i, "prev", NULL)
        /\ S = Swapped(trees, a, n, new)
    OBVIOUS
  <2> HIDE DEF g, S
  <2> QED
    BY <2>1, SwappedCaller DEF U
<1>2. /\ a \in trees.live /\ IsForest(trees, roots) /\ n \in 1 .. Len(trees.kids[a])
      /\ i \notin roots /\ i # NULL
  BY KidFacts
<1>3. Forest!Tree(S, i) = Forest!Tree(trees, i) /\ Forest!Replace(trees, Remaining(S, i))
  <2>1. a \notin Forest!Tree(trees, new)
    BY DEF Tree
  <2>2. LET j == trees.kids[a][n]
            G == Swapped(trees, a, n, new)
        IN Forest!Tree(G, j) = Forest!Tree(trees, j) /\ Forest!Replace(trees, Remaining(G, j))
    BY <1>2, <2>1, ReplaceStep
  <2> QED
    BY <2>2
<1>4. res = Result(cJSON_Delete(g, i), TRUE)
  BY <1>2 DEF cJSON_ReplaceItemViaPointer
<1>5. i \in U /\ U \ {i} = roots \ {new}
  BY <1>2
<1> HIDE DEF g, S, U, res
<1>6. StepOf(trees, Remaining(S, i))
  BY <1>3 DEF StepOf
<1>7. Outcome(cJSON_Delete(g, i), U \ {i}, lost)
  BY <1>1, <1>3, <1>5, <1>6, TreeDeleted
<1>8. res.r = TRUE /\ res.heap = cJSON_Delete(g, i)
  BY <1>4 DEF Result
<1> QED
  BY <1>5, <1>7, <1>8 DEF res

\* The item is found, or not.
LEMMA ReplaceOutcome ==
  ASSUME Idle, NEW k, Alike(k, heap), NEW a, Container(a), NEW new \in roots, a \notin Tree(new),
         NEW i, MemberOrNull(a, i), i # NULL => Deletable(Tree(i)),
         NEW res, res = cJSON_ReplaceItemViaPointer(k, a, i, new), Call(res), Placed(new, res.r)
  PROVE  IInv' /\ [Forest!Step(trees, trees')]_trees
<1>1. CASE i = NULL
  <2>1. res = Result(k, FALSE)
    BY <1>1 DEF cJSON_ReplaceItemViaPointer
  <2>2. res.r = FALSE /\ res.heap = k
    BY <2>1 DEF Result
  <2>3. roots' = roots /\ lost' = lost /\ Noted
    BY <2>2 DEF Placed
  <2> QED
    BY <2>2, <2>3, CallKeeps
<1>2. ASSUME NEW n \in DOMAIN trees.kids[a], i = trees.kids[a][n]
      PROVE  IInv' /\ [Forest!Step(trees, trees')]_trees
  <2>1. i # NULL
    BY <1>2, KidFacts
  <2>2. res.r = TRUE /\ Outcome(res.heap, roots \ {new}, lost)
    BY <1>2, <2>1, ReplacedOutcome
  <2>3. roots' = roots \ {new} /\ lost' = lost /\ Noted
    BY <2>2 DEF Placed
  <2> QED
    BY <2>2, <2>3, CallOutcome
<1> QED
  BY <1>1, <1>2 DEF MemberOrNull

LEMMA ReplaceItemInArrayStep ==
  ASSUME IInv, ReplaceItemInArray
  PROVE  IInv' /\ [Forest!Step(trees, trees')]_trees
<1>1. PICK a \in Known, new \in roots :
        /\ Container(a) /\ a # new /\ Placeable(new, a)
        /\ \E which \in Indexes(a) :
             LET i == get_array_item(heap, a, which)
                 replaced == cJSON_ReplaceItemViaPointer(heap, a, i, new)
             IN /\ i # NULL => Deletable(Tree(i))
                /\ Call(replaced) /\ Placed(new, replaced.r)
  BY DEF ReplaceItemInArray
<1>2. PICK which \in Indexes(a) :
        LET i == get_array_item(heap, a, which)
            replaced == cJSON_ReplaceItemViaPointer(heap, a, i, new)
        IN /\ i # NULL => Deletable(Tree(i))
           /\ Call(replaced) /\ Placed(new, replaced.r)
  BY <1>1
<1> DEFINE i == get_array_item(heap, a, which)
           res == cJSON_ReplaceItemViaPointer(heap, a, i, new)
<1>3. Idle /\ Alike(heap, heap)
  BY <1>2, IdleNow DEF Call, Idle, Ready
<1>4. MemberOrNull(a, i)
  <2>1. which \in Nat /\ \A index \in Nat : MemberOrNull(a, get_array_item(heap, a, index))
    BY <1>1, <1>3, Found
  <2> QED
    BY <2>1
<1>5. Call(res) /\ Placed(new, res.r) /\ (i # NULL => Deletable(Tree(i))) /\ a \notin Tree(new)
  BY <1>1, <1>2 DEF Placeable
<1>6. res = cJSON_ReplaceItemViaPointer(heap, a, i, new)
  OBVIOUS
<1> HIDE DEF i, res
<1> QED
  BY <1>1, <1>3, <1>4, <1>5, <1>6, ReplaceOutcome

-----------------------------------------------------------------------------
(* replace_item_in_object: the new name is given first *)

\* Only the item i may differ.
Elsewhere(g, h, i) == \A x \in Items : x # i => g.item[x] = h.item[x]

LEMMA NamedElsewhere ==
  ASSUME NEW h \in HeapT, NEW i \in Items, NEW name, NEW const
  PROVE  Elsewhere(Named(h, i, name, const), h, i)
<1> DEFINE g == Named(h, i, name, const)
<1>1. g.item = [h.item EXCEPT ![i] = [[@ EXCEPT !.name = name] EXCEPT !.const = const]]
  BY DEF Named, Frees, HeapT
<1> QED
  BY <1>1 DEF Elsewhere, HeapT

LEMMA NamedTwice ==
  ASSUME NEW h \in HeapT, NEW i \in Items, ~OwnName(h.item[i]), NEW name, NEW const
  PROVE  Set(Set(h, i, "name", name), i, "const", const) = Named(h, i, name, const)
<1>1. Frees(h, One(OwnName(h.item[i]))) = h
  <2>1. One(OwnName(h.item[i])) = 0 /\ h.strings \in Int
    BY DEF One, HeapT
  <2>2. h.strings - 0 = h.strings
    BY <2>1
  <2>3. [h EXCEPT !.strings = h.strings] = h
    BY DEF HeapT
  <2>4. Frees(h, 0) = [h EXCEPT !.strings = h.strings - 0]
    BY DEF Frees
  <2> QED
    BY <2>1, <2>2, <2>3, <2>4
<1> QED
  BY <1>1 DEF Named, Set

LEMMA SameMember ==
  ASSUME Idle, NEW k, Alike(k, heap), NEW a, Container(a), NEW new \in roots, Elsewhere(k, heap, new),
         NEW name, NEW case
  PROVE  get_object_item(k, a, name, case) = get_object_item(heap, a, name, case)
<1> DEFINE s == trees.kids[a]
<1>1. Alike(heap, heap)
  BY DEF Idle, Ready
<1>2. Chain(k, k.item[a].child) = s /\ Chain(heap, heap.item[a].child) = s
  BY <1>1, MembersAre
<1>3. \A n \in DOMAIN s : k.item[s[n]].name = heap.item[s[n]].name
  <2> TAKE n \in DOMAIN s
  <2>1. s[n] \in Items /\ s[n] \notin roots
    BY KidFacts
  <2> QED
    BY <2>1 DEF Elsewhere
<1> DEFINE ends(h) == {n \in DOMAIN s :
                         h.item[s[n]].name \in {name} \cup (IF case THEN {NoName} ELSE {})}
<1>4. ends(k) = ends(heap) /\ ends(heap) \subseteq DOMAIN s
  BY <1>3
<1>5. /\ get_object_item(k, a, name, case) =
           IF ends(k) = {} \/ k.item[s[Min(ends(k))]].name # name THEN NULL ELSE s[Min(ends(k))]
      /\ get_object_item(heap, a, name, case) =
           IF ends(heap) = {} \/ heap.item[s[Min(ends(heap))]].name # name THEN NULL ELSE s[Min(ends(heap))]
  BY <1>2 DEF get_object_item
<1>6. s \in Seq(Items) /\ DOMAIN s \subseteq Nat
  BY <1>1, MembersAre
<1> HIDE DEF ends, s
<1>7. ends(heap) # {} => Min(ends(heap)) \in DOMAIN s
  BY <1>4, <1>6, MinIsLeast
<1> QED
  BY <1>3, <1>4, <1>5, <1>7

LEMMA ReplaceItemInObjectStep ==
  ASSUME IInv, ReplaceItemInObject
  PROVE  IInv' /\ [Forest!Step(trees, trees')]_trees
<1>1. PICK h \in Given(1), o \in Items, name \in Names, new \in roots, case \in BOOLEAN :
        LET i == get_object_item(heap, o, name, case)
            replaced == replace_item_in_object(h, o, name, new, case)
        IN /\ Container(o) /\ o # new /\ Placeable(new, o)
           /\ i # NULL => Deletable(Tree(i))
           /\ Call(replaced) /\ Placed(new, replaced.r)
  BY DEF ReplaceItemInObject
<1> DEFINE nameless == Named(h, new, NoName, h.item[new].const)
           copy == cJSON_strdup(nameless)
           named == Set(Set(copy.heap, new, "name", name), new, "const", FALSE)
           i == get_object_item(heap, o, name, case)
           j == get_object_item(named, o, name, case)
           res == replace_item_in_object(h, o, name, new, case)
<1>2. /\ Idle /\ Ready(h) /\ Sane(h) /\ h \in HeapT /\ new \in Items /\ h.item[new].type # "free"
      /\ h.item = heap.item /\ Alike(h, heap)
  BY <1>1, IdleNow, GivenReady, ReadyFacts, SMTT(30) DEF Call, Idle, Ready
<1>3. /\ res = IF ~copy.r THEN Result(nameless, FALSE)
               ELSE cJSON_ReplaceItemViaPointer(named, o, j, new)
      /\ Call(res) /\ Placed(new, res.r) /\ Container(o) /\ (i # NULL => Deletable(Tree(i)))
      /\ o \notin Tree(new)
  BY <1>1 DEF replace_item_in_object, Placeable
<1>4. Alike(nameless, h) /\ Elsewhere(nameless, h, new)
  <2>1. Alike(nameless, h)
    BY <1>1, <1>2, NamedAlike
  <2>2. Elsewhere(nameless, h, new)
    BY <1>2, NamedElsewhere
  <2> QED
    BY <2>1, <2>2
<1>5. ~OwnName(nameless.item[new])
  <2>1. nameless.item = [h.item EXCEPT ![new] = [[@ EXCEPT !.name = NoName] EXCEPT !.const = h.item[new].const]]
    BY <1>2 DEF Named, Frees, HeapT
  <2>2. h.item[new] \in ItemT
    BY <1>2, HeapFacts
  <2>3. nameless.item[new].name = NoName
    BY <1>2, <2>1, <2>2 DEF HeapT, ItemT
  <2> QED
    BY <2>3 DEF OwnName
<1> HIDE DEF nameless
<1>6. Sane(nameless) /\ nameless \in HeapT /\ nameless.item[new].type # "free" /\ Alike(nameless, heap)
  <2>1. Sane(nameless)
    BY <1>4 DEF Alike
  <2>2. nameless.item[new].type # "free"
    BY <1>2, <1>4 DEF Alike
  <2>3. Alike(nameless, heap)
    BY <1>2, <1>4, AlikeAgain
  <2> QED
    BY <2>1, <2>2, <2>3 DEF Sane
<1>7. CASE ~copy.r
  <2>1. res = Result(nameless, FALSE)
    BY <1>3, <1>7
  <2> HIDE DEF res
  <2>2. res.heap = nameless /\ res.r = FALSE
    BY <2>1 DEF Result
  <2>3. roots' = roots /\ lost' = lost /\ Noted
    BY <1>3, <2>2 DEF Placed
  <2> QED
    BY <1>2, <1>3, <1>6, <2>2, <2>3, CallKeeps
<1>8. CASE copy.r
  <2>1. copy.heap \in HeapT /\ copy.heap.item = nameless.item
    <3>1. copy.heap = [[nameless EXCEPT !.mem = @ - 1] EXCEPT !.strings = @ + 1] /\ nameless.mem # 0
      BY <1>6, <1>8 DEF cJSON_strdup, Result, HeapT
    <3>2. nameless.mem - 1 \in Nat /\ nameless.strings + 1 \in Int
      BY <1>6, <3>1 DEF HeapT
    <3> QED
      BY <1>6, <3>1, <3>2 DEF HeapT
  <2>2. named = Named(copy.heap, new, name, FALSE)
    <3>1. ~OwnName(copy.heap.item[new])
      BY <1>5, <2>1
    <3> HIDE DEF copy
    <3> QED
      <4>1. copy.heap \in HeapT /\ new \in Items
        BY <1>2, <2>1
      <4> QED
        BY <3>1, <4>1, NamedTwice
  <2>3. Alike(named, nameless)
    <3>1. copy.r => Alike(Named(copy.heap, new, name, FALSE), nameless)
      BY <1>1, <1>2, <1>6, NamedAlike
    <3> QED
      BY <1>8, <2>2, <3>1
  <2>4. Elsewhere(named, copy.heap, new)
    BY <1>2, <2>1, <2>2, NamedElsewhere
  <2> HIDE DEF copy
  <2>5. Elsewhere(named, heap, new) /\ Elsewhere(h, heap, new)
    BY <1>2, <1>4, <2>1, <2>4 DEF Elsewhere
  <2> HIDE DEF named
  <2>6. Alike(named, heap)
    BY <1>6, <2>3, AlikeAgain
  <2>7. j = i
    BY <1>2, <1>3, <2>5, <2>6, SameMember
  <2>8. MemberOrNull(o, j)
    BY <1>2, <1>3, <2>6, Found
  <2>9. res = cJSON_ReplaceItemViaPointer(named, o, j, new)
    BY <1>3, <1>8
  <2> HIDE DEF res, j, i
  <2> QED
    BY <1>2, <1>3, <2>6, <2>7, <2>8, <2>9, ReplaceOutcome
<1> QED
  BY <1>7, <1>8

-----------------------------------------------------------------------------
(* cJSON_SetValuestring *)

LEMMA PutFrees ==
  ASSUME NEW h, NEW i, NEW x, NEW s, NEW m, NEW n
  PROVE  Frees(Put(h, i, x, s, m), n) = Put(h, i, x, s - n, m)
BY DEF Frees, Put

LEMMA SetValuestringStep ==
  ASSUME IInv, SetValuestring
  PROVE  IInv' /\ [Forest!Step(trees, trees')]_trees
<1>1. PICK h \in Given(1), i \in Known :
        LET copy == cJSON_strdup(h) IN
        /\ Item(i).type = "string" /\ ~Item(i).ref /\ Deletable({i})
        /\ Call(IF copy.r THEN Result(Set(Frees(copy.heap, One(Item(i).string)), i, "string", TRUE), i)
                ELSE copy)
        /\ Kept
  BY DEF SetValuestring
<1> DEFINE copy == cJSON_strdup(h)
           x == h.item[i]
           y == [x EXCEPT !.string = TRUE]
           res == IF copy.r THEN Result(Set(Frees(copy.heap, One(Item(i).string)), i, "string", TRUE), i)
                  ELSE copy
           s == h.strings
           m == h.mem
           t == s + 1 - One(x.string)
           l == m - 1
<1>2. /\ Idle /\ Ready(h) /\ Sane(h) /\ h \in HeapT /\ i \in Items /\ x.type # "free" /\ i \in trees.live
      /\ h.item = heap.item /\ Alike(h, heap)
  BY <1>1, IdleNow, GivenReady, ReadyFacts DEF Call, Idle, Ready, Known
<1>3. Call(res) /\ roots' = roots /\ lost' = lost /\ Noted /\ ~x.ref /\ Item(i) = x
  BY <1>1, <1>2 DEF Kept, Item
<1>4. x \in ItemT /\ s \in Int /\ m \in Nat /\ x.string \in BOOLEAN
  BY <1>2, HeapFacts DEF ItemT
<1>5. h = Put(h, i, x, s, m)
  BY <1>2, PutItself
<1>6. /\ copy.r \in BOOLEAN
      /\ copy.r => m # 0 /\ copy.heap = Put(h, i, x, s + 1, l)
      /\ ~copy.r => copy.heap = h
  <2>1. /\ cJSON_strdup(Put(h, i, x, s, m)).r \in BOOLEAN
        /\ cJSON_strdup(Put(h, i, x, s, m)).r =>
             m # 0 /\ cJSON_strdup(Put(h, i, x, s, m)).heap = Put(h, i, x, s + 1, m - 1)
        /\ ~cJSON_strdup(Put(h, i, x, s, m)).r =>
             cJSON_strdup(Put(h, i, x, s, m)).heap = Put(h, i, x, s, m)
    <3> HIDE DEF s, m, x
    <3> QED
      BY <1>2, <1>4, StringAllocated
  <2> QED
    BY <1>5, <2>1
<1>7. y \in ItemT /\ y.string = TRUE
      /\ y.type = x.type /\ y.next = x.next /\ y.prev = x.prev /\ y.child = x.child
      /\ y.ref = x.ref /\ y.of = x.of /\ y.name = x.name /\ y.const = x.const
  <2> HIDE DEF x
  <2> QED
    BY <1>4 DEF ItemT
<1>8. Alike(res.heap, heap)
  <2>1. CASE ~copy.r
    <3>1. res.heap = h
      BY <1>6, <2>1
    <3> QED
      BY <1>2, <3>1
  <2>2. CASE copy.r
    <3>1. res.heap = Set(Frees(copy.heap, One(x.string)), i, "string", TRUE)
      BY <1>3, <2>2 DEF Result
    <3>2. Frees(copy.heap, One(x.string)) = Put(h, i, x, t, l)
      <4> DEFINE u == s + 1
                 n == One(x.string)
      <4>1. copy.heap = Put(h, i, x, u, l) /\ t = u - n
        <5>1. t = u - n
          <6>1. One(x.string) \in Int /\ s + 1 \in Int
            BY <1>4 DEF One
          <6> HIDE DEF x, s
          <6> QED
            BY <1>4, <6>1
        <5>2. copy.heap = Put(h, i, x, s + 1, l)
          <6> HIDE DEF copy, x, s, l
          <6> QED
            BY <1>6, <2>2
        <5> QED
          BY <5>1, <5>2
      <4> HIDE DEF copy, x, s, l, u, n, t
      <4>2. Frees(copy.heap, n) = Put(h, i, x, t, l)
        BY <4>1, PutFrees
      <4> QED
        BY <4>2 DEF n
    <3>3. t \in Int /\ l \in Nat /\ One(x.string) \in Int
      BY <1>4, <1>6, <2>2 DEF One
    <3>4. t = s - Own(x) + Own(y)
      <4>1. Own(x) = One(OwnName(x)) + One(x.string) /\ Own(y) = One(OwnName(x)) + 1
        <5> HIDE DEF x, y
        <5> QED
          BY <1>3, <1>7 DEF Own, One, OwnName, OwnString
      <4>2. One(OwnName(x)) \in Int
        BY DEF One
      <4> HIDE DEF x, y, s
      <4> QED
        BY <1>4, <3>3, <4>1, <4>2 DEF t
    <3> HIDE DEF x, t, l, s, m, copy
    <3>5. \A v \in BOOLEAN : Set(Put(h, i, x, t, l), i, "string", v) = Put(h, i, [x EXCEPT !.string = v], t, l)
      BY <1>2, <1>4, <3>3, PutString
    <3>6. res.heap = Put(h, i, y, t, l)
      BY <3>1, <3>2, <3>5
    <3> HIDE DEF y, res
    <3>7. Alike(Put(h, i, y, t, l), h)
      <4>1. t = h.strings - Own(h.item[i]) + Own(y)
        BY <3>4 DEF s, x
      <4>2. /\ y.type # "free" /\ y.next = h.item[i].next /\ y.prev = h.item[i].prev
            /\ y.child = h.item[i].child /\ y.ref = h.item[i].ref /\ y.of = h.item[i].of
            /\ h.item[i].type # "free"
        BY <1>2, <1>7 DEF x
      <4> QED
        BY <1>2, <1>7, <3>3, <4>1, <4>2, AlikePut
    <3> QED
      BY <1>2, <3>6, <3>7, AlikeAgain
  <2> QED
    BY <2>1, <2>2
<1> HIDE DEF res
<1> QED
  BY <1>2, <1>3, <1>8, CallKeeps

-----------------------------------------------------------------------------
(* Printing *)

\* The heap g has n strings more than h.
MoreStrings(g, h, n) ==
  /\ g \in HeapT /\ g.item = h.item /\ g.twice = h.twice /\ g.strings = h.strings + n

LEMMA BufferedMore ==
  ASSUME NEW h \in HeapT, NEW times \in Nat
  PROVE  LET text == cJSON_PrintBuffered(h, times) IN
         text.r \in BOOLEAN /\ MoreStrings(text.heap, h, One(text.r))
<1> DEFINE text == cJSON_PrintBuffered(h, times)
           b == [[h EXCEPT !.mem = @ - 1] EXCEPT !.strings = @ + 1]
<1>1. h.mem \in Nat /\ h.strings \in Int /\ One(TRUE) = 1 /\ One(FALSE) = 0
  BY HeapFacts DEF One
<1>2. CASE h.mem = 0
  <2>1. text = Result(h, FALSE)
    BY <1>2 DEF cJSON_PrintBuffered, cJSON_strdup, Result
  <2>2. text.r = FALSE /\ text.heap = h
    BY <2>1 DEF Result
  <2>3. h.strings = h.strings + 0
    BY <1>1
  <2> HIDE DEF text
  <2>4. One(text.r) = 0
    BY <2>2 DEF One
  <2> QED
    BY <2>2, <2>3, <2>4 DEF MoreStrings, text
<1>3. CASE h.mem # 0
  <2>1. cJSON_strdup(h).r = TRUE /\ cJSON_strdup(h).heap = b
    BY <1>3 DEF cJSON_strdup, Result
  <2>2. text = ensure(b, times)
    BY <2>1 DEF cJSON_PrintBuffered
  <2>3. b \in HeapT /\ b.item = h.item /\ b.twice = h.twice /\ b.strings = h.strings + 1 /\ b.mem = h.mem - 1
    <3>1. h.mem - 1 \in Nat /\ h.strings + 1 \in Int
      BY <1>1, <1>3
    <3>2. b = [h EXCEPT !.mem = h.mem - 1, !.strings = h.strings + 1]
      BY DEF HeapT
    <3> DEFINE m == h.mem - 1
               s == h.strings + 1
    <3>3. b = [h EXCEPT !.mem = m, !.strings = s] /\ m \in Nat /\ s \in Int
      BY <3>1, <3>2
    <3> HIDE DEF m, s, b
    <3>4. b \in HeapT /\ b.item = h.item /\ b.twice = h.twice /\ b.strings = s /\ b.mem = m
      BY <3>3 DEF HeapT
    <3> QED
      BY <3>4 DEF s, m
  <2> HIDE DEF b, text
  <2>4. CASE b.mem >= times
    <3>1. text = Result([b EXCEPT !.mem = @ - times], TRUE)
      BY <2>2, <2>4 DEF ensure
    <3>2. b.mem - times \in Nat
      BY <2>3, <2>4 DEF HeapT
    <3>3. text.r = TRUE /\ text.heap = [b EXCEPT !.mem = @ - times]
      BY <3>1 DEF Result
    <3>4. One(text.r) = 1
      BY <3>3 DEF One
    <3>5. MoreStrings(text.heap, h, 1)
      BY <2>3, <3>2, <3>3 DEF HeapT, MoreStrings
    <3> QED
      BY <3>3, <3>4, <3>5 DEF text
  <2>5. CASE ~(b.mem >= times)
    <3>1. text = Result([Frees(b, 1) EXCEPT !.mem = 0], FALSE)
      BY <2>2, <2>5 DEF ensure
    <3>2. b.strings - 1 = h.strings + 0 /\ b.strings - 1 \in Int
      BY <1>1, <2>3
    <3>3. text.r = FALSE /\ text.heap = [Frees(b, 1) EXCEPT !.mem = 0]
      BY <3>1 DEF Result
    <3>4. One(text.r) = 0
      BY <3>3 DEF One
    <3>5. MoreStrings(text.heap, h, 0)
      <4> DEFINE s == b.strings - 1
      <4>1. text.heap = [[b EXCEPT !.strings = s] EXCEPT !.mem = 0] /\ s \in Int /\ s = h.strings + 0
        BY <3>2, <3>3 DEF Frees
      <4>2. 0 \in Nat
        OBVIOUS
      <4> HIDE DEF s
      <4>3. /\ text.heap \in HeapT /\ text.heap.item = b.item /\ text.heap.twice = b.twice
            /\ text.heap.strings = s
        BY <2>3, <4>1, <4>2 DEF HeapT
      <4> QED
        BY <2>3, <4>1, <4>3 DEF MoreStrings
    <3> QED
      BY <3>3, <3>4, <3>5 DEF text
  <2> QED
    BY <2>4, <2>5
<1> QED
  BY <1>2, <1>3

LEMMA MoreFrees ==
  ASSUME NEW h \in HeapT, NEW g, NEW n \in Int, MoreStrings(g, h, n)
  PROVE  AsBefore(Frees(g, n), h)
<1> DEFINE s == g.strings - n
<1>1. g \in HeapT /\ g.item = h.item /\ g.twice = h.twice /\ g.strings = h.strings + n /\ h.strings \in Int
  BY HeapFacts DEF MoreStrings
<1>2. Frees(g, n) = [g EXCEPT !.strings = s]
  BY DEF Frees
<1>3. s = h.strings
  BY <1>1
<1> HIDE DEF s
<1> QED
  BY <1>1, <1>2, <1>3 DEF AsBefore, HeapT

LEMMA Reallocated ==
  ASSUME NEW h \in HeapT
  PROVE  /\ reallocate(h).r \in BOOLEAN
         /\ reallocate(h).heap \in HeapT /\ reallocate(h).heap.item = h.item
         /\ reallocate(h).heap.twice = h.twice /\ reallocate(h).heap.strings = h.strings
<1>1. CASE h.mem = 0
  BY <1>1 DEF reallocate, Result
<1>2. CASE h.mem # 0
  <2> DEFINE m == h.mem - 1
  <2>1. m \in Nat
    BY <1>2 DEF HeapT
  <2>2. reallocate(h) = Result([h EXCEPT !.mem = m], TRUE)
    BY <1>2 DEF reallocate, HeapT
  <2> HIDE DEF m
  <2>3. reallocate(h).r = TRUE /\ reallocate(h).heap = [h EXCEPT !.mem = m]
    BY <2>2 DEF Result
  <2> QED
    BY <2>1, <2>3 DEF HeapT
<1> QED
  BY <1>1, <1>2

LEMMA PrintMore ==
  ASSUME NEW h \in HeapT, NEW times \in Nat
  PROVE  LET text == print(h, times) IN
         text.r \in BOOLEAN /\ MoreStrings(text.heap, h, One(text.r))
<1> DEFINE text == cJSON_PrintBuffered(h, times)
           cut  == reallocate(text.heap)
           res  == print(h, times)
<1>1. text.r \in BOOLEAN /\ MoreStrings(text.heap, h, One(text.r))
  BY BufferedMore
<1>2. res = IF ~text.r \/ cut.r THEN Result(cut.heap, text.r) ELSE Result(Frees(text.heap, 1), FALSE)
  BY DEF print
<1> HIDE DEF text, res
<1>3. text.heap \in HeapT
  BY <1>1 DEF MoreStrings
<1>4. cut.r \in BOOLEAN /\ MoreStrings(cut.heap, h, One(text.r))
  BY <1>1, <1>3, Reallocated DEF MoreStrings
<1> HIDE DEF cut
<1>5. CASE ~text.r \/ cut.r
  <2>1. res.heap = cut.heap /\ res.r = text.r
    BY <1>2, <1>5 DEF Result
  <2> QED
    BY <1>1, <1>4, <2>1 DEF res
<1>6. CASE text.r /\ ~cut.r
  <2>1. res = Result(Frees(text.heap, 1), FALSE)
    BY <1>2, <1>6
  <2>2. res.heap = Frees(text.heap, 1) /\ res.r = FALSE
    BY <2>1 DEF Result
  <2>3. One(text.r) = 1 /\ One(res.r) = 0
    BY <1>6, <2>2 DEF One
  <2>4. AsBefore(Frees(text.heap, 1), h)
    BY <1>1, <2>3, MoreFrees
  <2>5. h.strings = h.strings + 0
    BY HeapFacts
  <2> QED
    BY <2>2, <2>3, <2>4, <2>5 DEF AsBefore, MoreStrings, res
<1> QED
  BY <1>1, <1>4, <1>5, <1>6

LEMMA RenderStep ==
  ASSUME IInv, Render
  PROVE  IInv' /\ [Forest!Step(trees, trees')]_trees
<1>1. PICK times \in 0 .. 1 : \E h \in Given(times + 2) :
        \E text \in {print(h, times), cJSON_PrintBuffered(h, times)} :
          Call(Result(Frees(text.heap, One(text.r)), NULL)) /\ Kept
  BY DEF Render
<1>2. PICK h \in Given(times + 2) :
        \E text \in {print(h, times), cJSON_PrintBuffered(h, times)} :
          Call(Result(Frees(text.heap, One(text.r)), NULL)) /\ Kept
  BY <1>1
<1>3. PICK text \in {print(h, times), cJSON_PrintBuffered(h, times)} :
        Call(Result(Frees(text.heap, One(text.r)), NULL)) /\ Kept
  BY <1>2
<1>4. times \in Nat /\ times + 2 \in Nat
  OBVIOUS
<1>5. Idle /\ Ready(h) /\ Sane(h) /\ h \in HeapT /\ Alike(h, heap)
  BY <1>3, <1>4, IdleNow, GivenReady, ReadyFacts DEF Call, Ready
<1>6. text.r \in BOOLEAN /\ MoreStrings(text.heap, h, One(text.r))
  BY <1>4, <1>5, BufferedMore, PrintMore
<1>7. AsBefore(Frees(text.heap, One(text.r)), h)
  <2>1. One(text.r) \in Int
    BY DEF One
  <2> QED
    BY <1>5, <1>6, <2>1, MoreFrees
<1> DEFINE res == Result(Frees(text.heap, One(text.r)), NULL)
<1>8. res.heap = Frees(text.heap, One(text.r))
  BY DEF Result
<1>9. Call(res) /\ roots' = roots /\ lost' = lost /\ Noted
  BY <1>3 DEF Kept
<1> HIDE DEF res
<1>10. Alike(res.heap, heap)
  BY <1>5, <1>7, <1>8, AlikeAsBefore, AlikeAgain
<1> QED
  BY <1>5, <1>9, <1>10, CallKeeps

-----------------------------------------------------------------------------
(* Calls that run on *)

\* Only links matter, and the values of the item that is read next.
LEMMA InCallSame ==
  ASSUME NEW g, NEW h, g.item = h.item, NEW F, NEW W, NEW c, NEW t, NEW a, InCall(h, F, W, c, t, a)
  PROVE  InCall(g, F, W, c, t, a)
<1>1. ASSUME NEW T, NEW C, NEW P, Work(h, W, T, C, P)
      PROVE  Work(g, W, T, C, P)
  BY <1>1 DEF Work, Holds, Links, Tops
<1>2. CASE a = "none"
  BY <1>2 DEF InCall
<1>3. CASE a = "filling"
  BY <1>1, <1>3 DEF InCall, Filling
<1>4. CASE a = "copying"
  BY <1>1, <1>4 DEF InCall, Duplicating
<1>5. CASE a \in {"value", "name", "first", "after", "end"}
  <2>1. Parsing(h, W, c, t, a)
    BY <1>5 DEF InCall
  <2>2. Unread(h, W, c, t, a) => Unread(g, W, c, t, a)
    BY DEF Unread
  <2>3. Parsing(g, W, c, t, a)
    BY <1>1, <2>1, <2>2 DEF Parsing
  <2> QED
    BY <1>5, <2>3 DEF InCall
<1> QED
  BY <1>2, <1>3, <1>4, <1>5 DEF InCall

LEMMA CallGoes ==
  ASSUME NEW g, NEW V, Goes(g, V), InCall(g, trees, V, calls', target', at'), Settle(g),
         roots' = roots, lost' = lost
  PROVE  IInv' /\ [Forest!Step(trees, trees')]_trees
<1>1. /\ Sane(g) /\ Caller(g, trees, roots) /\ lost \subseteq Items /\ Parted(g, trees, lost, V)
      /\ heap' = [g EXCEPT !.mem = 0] /\ Noted /\ g \in HeapT
  BY DEF Goes, Settle, Sane
<1>2. Alike(heap', g) /\ Sane(heap')
  BY <1>1, AlikeSettled
<1>3. heap'.mem = 0 /\ heap'.item = g.item
  BY <1>1 DEF HeapT
<1>4. Caller(heap', trees, roots) /\ Live(heap') = Live(g)
  BY <1>1, <1>2, AlikeKeeps
<1>5. Parted(heap', trees, lost, V)
  BY <1>1, <1>4 DEF Parted
<1>6. Sound(heap', trees, roots', lost', V)
  BY <1>1, <1>2, <1>3, <1>4, <1>5 DEF Sound
<1>7. InCall(heap', trees, V, calls', target', at')
  BY <1>3, InCallSame
<1> QED
  BY <1>1, <1>6, <1>7, StepDone

LEMMA CallRuns ==
  ASSUME IInv
  PROVE  \E W : /\ Goes(heap, W) /\ InCall(heap, trees, W, calls, target, at)
                /\ heap \in HeapT /\ heap.mem = 0
<1>1. PICK W : Sound(heap, trees, roots, lost, W) /\ InCall(heap, trees, W, calls, target, at)
  BY DEF IInv
<1>2. Goes(heap, W) /\ heap \in HeapT /\ heap.mem = 0
  BY <1>1, SoundFacts DEF Goes
<1> QED
  BY <1>1, <1>2

\* The caller's items are out of the call's reach.
LEMMA OthersKeep ==
  ASSUME NEW h, NEW W, Goes(h, W), NEW g, Sane(g), NEW V,
         \A x \in Items : x \notin W.live /\ h.item[x].type # "free" => g.item[x] = h.item[x],
         Live(g) = (Live(h) \ W.live) \cup V.live, V.live \cap Live(h) \subseteq W.live
  PROVE  Goes(g, V)
<1>1. /\ Sane(h) /\ Caller(h, trees, roots) /\ lost \subseteq Items /\ Parted(h, trees, lost, W) /\ h \in HeapT
  BY DEF Goes, Sane
<1>2. /\ trees.live \cap W.live = {} /\ trees.live \cap lost = {} /\ W.live \cap lost = {}
      /\ Live(h) = trees.live \cup W.live \cup lost
  BY <1>1 DEF Parted
<1>3. trees.live \subseteq Items /\ \A x \in trees.live : h.item[x].type # "free"
  BY <1>1, LiveItems DEF Caller
<1>4. \A x \in trees.live : SameLinks(g, h, x)
  BY <1>2, <1>3 DEF SameLinks
<1>5. Caller(g, trees, roots)
  BY <1>1, <1>4, CallerKept
<1>6. Parted(g, trees, lost, V)
  BY <1>2 DEF Parted
<1> QED
  BY <1>1, <1>5, <1>6 DEF Goes

LEMMA WorkFacts ==
  ASSUME NEW h, Sane(h), NEW W, NEW T, NEW C, NEW P, Work(h, W, T, C, P)
  PROVE  /\ Holds(h, W, T, C, P) /\ h \in HeapT /\ IsForest(W, T) /\ W.live \subseteq Items /\ T \subseteq W.live
         /\ \A x \in W.live : h.item[x].type # "free" /\ ~h.item[x].ref /\ h.item[x].of = NULL
<1>1. Holds(h, W, T, C, P) /\ h \in HeapT /\ \A x \in W.live : ~h.item[x].ref /\ h.item[x].of = NULL
  BY DEF Work, Sane
<1> QED
  BY <1>1, LiveItems

\* The sides C and P of a call may be seen as D and Q.
Agrees(W, C, P, D, Q) == \A a \in W.live : (a \in D <=> a \in C) /\ (a \in Q <=> a \in P)

\* The new item r has come to those of the call.
Comes(g, W, T, r, D, Q) ==
  LET V == Beside(W, Single(r)) IN
  /\ Goes(g, V) /\ Work(g, V, T \cup {r}, D, Q)
  /\ r \in Items /\ r \notin W.live /\ V.live = W.live \cup {r}
  /\ V.kids[r] = <<>>
  /\ \A x \in W.live : V.kids[x] = W.kids[x]

LEMMA FreshWork ==
  ASSUME NEW h, NEW W, Goes(h, W), NEW T, NEW C, NEW P, Work(h, W, T, C, P),
         NEW g, NEW r, Sane(g), Fresh(g, h, r), ~g.item[r].ref,
         NEW D, NEW Q, Agrees(W, C, P, D, Q)
  PROVE  Comes(g, W, T, r, D, Q)
<1> DEFINE V == Beside(W, Single(r))
<1>1. /\ Holds(h, W, T, C, P) /\ h \in HeapT /\ W.live \subseteq Items
      /\ \A x \in W.live : h.item[x].type # "free" /\ ~h.item[x].ref /\ h.item[x].of = NULL
  BY WorkFacts DEF Goes
<1>2. Live(g) = Live(h) \cup {r} /\ r \notin Live(h) /\ r \in Items
  BY FreshLive
<1>3. r \notin W.live /\ Holds(g, W, T, C, P) /\ g \in HeapT
  BY <1>1, FreshKeeps DEF Sane
<1>4. Holds(g, Single(r), {r}, {}, {}) /\ Single(r).live = {r} /\ Single(r).kids[r] = <<>>
      /\ \A x \in Items : Single(r).kids[x] = <<>>
  <2>1. Holds(g, Single(r), {r}, {}, {})
    BY FreshHolds
  <2>2. Single(r).live = {r} /\ \A x \in Items : Single(r).kids[x] = <<>>
    BY DEF Single
  <2> QED
    BY <1>2, <2>1, <2>2
<1>5. V.live = W.live \cup {r} /\ V.kids[r] = <<>> /\ \A x \in W.live : V.kids[x] = W.kids[x]
  BY <1>1, <1>2, <1>3, <1>4 DEF Beside
<1>6. Holds(g, Single(r), {r}, D, Q)
  <2>1. \A a \in Single(r).live : Single(r).kids[a] # <<>> => (a \in D <=> a \in {}) /\ (a \in Q <=> a \in {})
    BY <1>4
  <2> QED
    BY <1>4, <2>1, HoldsAgree
<1>7. Holds(g, V, T \cup {r}, D, Q)
  <2>1. W.live \cap Single(r).live = {}
    BY <1>3, <1>4
  <2> QED
    BY <1>3, <1>6, <2>1, JoinHolds DEF Agrees
<1> HIDE DEF V
<1>8. Work(g, V, T \cup {r}, D, Q)
  <2>1. \A x \in W.live : g.item[x] = h.item[x]
    BY <1>1, <1>3 DEF Fresh
  <2>2. ~g.item[r].ref /\ g.item[r].of = NULL
    BY DEF Fresh
  <2> QED
    BY <1>1, <1>5, <1>7, <2>1, <2>2 DEF Work
<1>9. Goes(g, V)
  <2>1. \A x \in Items : x \notin W.live /\ h.item[x].type # "free" => g.item[x] = h.item[x]
    BY <1>2 DEF Fresh
  <2>2. W.live \subseteq Live(h)
    BY <1>1 DEF Live
  <2> QED
    BY <1>2, <1>5, <2>1, <2>2, OthersKeep
<1> QED
  BY <1>2, <1>3, <1>5, <1>8, <1>9 DEF V, Comes

\* A call may begin with an item.
LEMMA FirstWork ==
  ASSUME Idle, NEW h, Ready(h), NEW g, NEW r, Sane(g), Fresh(g, h, r), ~g.item[r].ref, NEW D, NEW Q
  PROVE  Comes(g, Nothing, {}, r, D, Q)
<1>1. Goes(h, Nothing)
  <2>1. Sane(h) /\ Caller(h, trees, roots) /\ Live(h) = trees.live \cup lost
    BY ReadyFacts
  <2>2. Parted(h, trees, lost, Nothing)
    BY <2>1, NothingFacts DEF Parted, Idle
  <2> QED
    BY <2>1, <2>2 DEF Goes, Idle
<1>2. Work(h, Nothing, {}, {}, {})
  BY NothingFacts
<1>3. Agrees(Nothing, {}, {}, D, Q)
  BY NothingFacts DEF Agrees
<1> QED
  BY <1>1, <1>2, <1>3, FreshWork

\* A change of links within the items of the call
LEMMA StepGoes ==
  ASSUME NEW h, NEW W, Goes(h, W), NEW T, NEW C, NEW P, Work(h, W, T, C, P),
         NEW g, NEW a, ForestStep(g, h, W, a),
         NEW V, V.live = W.live, NEW U, NEW D, NEW Q, Holds(g, V, U, D, Q)
  PROVE  Goes(g, V) /\ Work(g, V, U, D, Q)
<1>1. /\ Holds(h, W, T, C, P) /\ h \in HeapT /\ W.live \subseteq Items /\ Sane(h)
      /\ \A x \in W.live : h.item[x].type # "free" /\ ~h.item[x].ref /\ h.item[x].of = NULL
  BY WorkFacts DEF Goes
<1>2. Sane(g) /\ Live(g) = Live(h)
  BY <1>1, SaneRelinked
<1>3. Goes(g, V)
  <2>1. \A x \in Items : x \notin W.live /\ h.item[x].type # "free" => g.item[x] = h.item[x]
    BY DEF ForestStep
  <2>2. W.live \subseteq Live(h)
    BY <1>1 DEF Live
  <2>3. Live(g) = (Live(h) \ W.live) \cup V.live /\ V.live \cap Live(h) \subseteq W.live
    BY <1>2, <2>2
  <2> QED
    BY <1>2, <2>1, <2>3, OthersKeep
<1>4. Work(g, V, U, D, Q)
  BY <1>1 DEF Work, ForestStep, Relinked, SameValue
<1> QED
  BY <1>3, <1>4

\* The item i has come to the list of a.
Appended(g, W, T, P, a, i) ==
  \E V : /\ Goes(g, V) /\ Work(g, V, T \ {i}, {}, P) /\ V.live = W.live
         /\ LastOf(V, a) = i /\ V.kids[a] # <<>> /\ \A x \in Items : x # a => V.kids[x] = W.kids[x]

LEMMA LongerWork ==
  ASSUME NEW h, NEW W, Goes(h, W), NEW T, NEW P, Work(h, W, T, {}, P),
         NEW i \in T, NEW a \in W.live, a \in P, a \notin Forest!Tree(W, i),
         NEW last, last = LastOf(W, a)
  PROVE  Appended(Longer(h, a, last, i), W, T, P, a, i)
<1> DEFINE g == Longer(h, a, last, i)
           V == Attached(W, a, Len(W.kids[a]) + 1, i)
<1>1. /\ Holds(h, W, T, {}, P) /\ h \in HeapT /\ W.live \subseteq Items /\ T \subseteq W.live /\ IsForest(W, T)
      /\ \A x \in W.live : h.item[x].type # "free" /\ ~h.item[x].ref /\ h.item[x].of = NULL
  BY WorkFacts DEF Goes
<1>2. ForestStep(g, h, W, a) /\ Holds(g, V, T \ {i}, {}, P)
  BY <1>1, LongerHolds DEF LastOf
<1>3. /\ V.live = W.live /\ LastOf(V, a) = i /\ V.kids[a] # <<>>
      /\ \A x \in Items : x # a => V.kids[x] = W.kids[x]
  <2>1. W \in ForestT /\ a \in Items /\ i \in Items /\ W.kids[a] \in Seq(Items) /\ Len(W.kids[a]) \in Nat
    BY <1>1, KidsFacts
  <2> DEFINE n == Len(W.kids[a]) + 1
  <2>2. n \in 1 .. Len(W.kids[a]) + 1
    BY <2>1
  <2>3. /\ V.live = W.live /\ \A b \in Items : b # a => V.kids[b] = W.kids[b]
        /\ V.kids[a] \in Seq(Items) /\ Len(V.kids[a]) = Len(W.kids[a]) + 1
        /\ \A j \in 1 .. Len(V.kids[a]) :
             V.kids[a][j] = IF j < n THEN W.kids[a][j] ELSE IF j = n THEN i ELSE W.kids[a][j - 1]
    <3> HIDE DEF n
    <3>1. \A m \in 1 .. Len(W.kids[a]) + 1 :
            LET G == Attached(W, a, m, i)
                s == W.kids[a]
                t == G.kids[a]
            IN /\ G \in ForestT /\ G.live = W.live
               /\ \A b \in Items : b # a => G.kids[b] = W.kids[b]
               /\ s \in Seq(Items) /\ t \in Seq(Items) /\ Len(s) \in Nat /\ Len(t) = Len(s) + 1
               /\ DOMAIN s = 1 .. Len(s) /\ DOMAIN t = 1 .. Len(t)
               /\ \A j \in 1 .. Len(t) : t[j] = IF j < m THEN s[j] ELSE IF j = m THEN i ELSE s[j - 1]
      BY <2>1, AttachedKids
    <3>2. V = Attached(W, a, n, i)
      BY DEF n
    <3> HIDE DEF V
    <3> QED
      BY <2>2, <3>1, <3>2
  <2> HIDE DEF V
  <2>4. V.kids[a][Len(V.kids[a])] = i /\ Len(V.kids[a]) # 0
    BY <2>1, <2>3, SMTT(30)
  <2>5. V.kids[a] # <<>>
    BY <2>4
  <2> QED
    BY <2>3, <2>4, <2>5 DEF LastOf
<1> HIDE DEF V
<1>4. Goes(g, V) /\ Work(g, V, T \ {i}, {}, P)
  BY <1>2, <1>3, StepGoes
<1> QED
  BY <1>3, <1>4 DEF Appended

\* The list of a is closed.
LEMMA ClosedWork ==
  ASSUME NEW h, NEW W, Goes(h, W), NEW T, NEW P, Work(h, W, T, {}, P),
         NEW a \in W.live, a \in P, NEW last, last = LastOf(W, a)
  PROVE  /\ Goes(Closed(h, a, last), W) /\ Work(Closed(h, a, last), W, T, {}, P \ {a})
         /\ Closed(h, a, last).mem = h.mem
<1> DEFINE g == Closed(h, a, last)
<1>1. /\ Holds(h, W, T, {}, P) /\ h \in HeapT
      /\ \A x \in W.live : h.item[x].type # "free" /\ ~h.item[x].ref /\ h.item[x].of = NULL
  BY WorkFacts DEF Goes
<1>2. ForestStep(g, h, W, a) /\ Holds(g, W, T, {}, P \ {a})
  BY <1>1, ClosedHolds DEF LastOf
<1>3. g.mem = h.mem
  BY <1>2 DEF ForestStep, Relinked
<1> HIDE DEF g
<1>4. Goes(g, W) /\ Work(g, W, T, {}, P \ {a})
  BY <1>2, StepGoes
<1> QED
  BY <1>3, <1>4 DEF g

-----------------------------------------------------------------------------
(* Calls that end *)

\* Without memory, all that the call has made is deleted.
LEMMA CallFails ==
  ASSUME NEW h, NEW W, Goes(h, W), NEW T, NEW C, NEW P, Work(h, W, T, C, P),
         NEW starts, Starts(W, T, C, starts), Settle(Deletions(h, starts)),
         calls' = <<>>, at' = "none", target' \in 0 .. Size, roots' = roots, lost' = lost
  PROVE  IInv' /\ [Forest!Step(trees, trees')]_trees
<1> DEFINE g == Deletions(h, starts)
<1>1. /\ Holds(h, W, T, C, P) /\ W.live \subseteq Items /\ Sane(h)
      /\ \A x \in W.live : h.item[x].type # "free"
  BY WorkFacts DEF Goes
<1>2. DeletedFrom(g, h, W.live)
  BY <1>1, Deleted
<1> HIDE DEF g
<1>3. Goes(g, Nothing)
  <2>1. \A x \in Items : x \notin W.live /\ h.item[x].type # "free" => g.item[x] = h.item[x]
    BY <1>2 DEF DeletedFrom
  <2>2. Sane(g) /\ Live(g) = Live(h) \ W.live
    BY <1>2 DEF DeletedFrom
  <2>3. Live(g) = (Live(h) \ W.live) \cup Nothing.live /\ Nothing.live \cap Live(h) \subseteq W.live
    BY <2>2, NothingFacts
  <2> QED
    BY <2>1, <2>2, <2>3, OthersKeep
<1>4. InCall(g, trees, Nothing, calls', target', at')
  BY DEF InCall
<1> QED
  BY <1>3, <1>4, CallGoes DEF g

\* What the call has made becomes a tree of the caller.
LEMMA CallReturns ==
  ASSUME NEW g, NEW W, Goes(g, W), NEW i, Work(g, W, {i}, {}, {}), g.mem = 0, heap' = g, Gained(i),
         calls' = <<>>, at' = "none", target' \in 0 .. Size
  PROVE  IInv' /\ [Forest!Step(trees, trees')]_trees
<1> DEFINE G == Beside(trees, W)
<1>1. /\ Holds(g, W, {i}, {}, {}) /\ g \in HeapT /\ W.live \subseteq Items /\ i \in W.live
      /\ IsForest(W, {i})
      /\ \A x \in W.live : ~g.item[x].ref /\ g.item[x].of = NULL
  BY WorkFacts DEF Goes
<1>2. /\ Sane(g) /\ Caller(g, trees, roots) /\ lost \subseteq Items /\ Parted(g, trees, lost, W)
      /\ Holds(g, trees, roots, {}, {}) /\ Refs(g, trees)
  BY DEF Goes, Caller
<1>3. /\ trees.live \cap W.live = {} /\ trees.live \cap lost = {} /\ W.live \cap lost = {}
      /\ Live(g) = trees.live \cup W.live \cup lost
  BY <1>2 DEF Parted
<1>4. G.live = trees.live \cup W.live
  BY DEF Beside
<1>5. IsForest(trees, roots)
  BY <1>2 DEF Holds
<1>6. Forest!Grow(trees, G)
  BY <1>1, <1>3, <1>5, GrowStep
<1>7. i # NULL
  BY <1>1, ItemsFacts
<1>8. roots' = roots \cup {i} /\ lost' = lost /\ Noted
  BY <1>7 DEF Gained
<1>9. Holds(g, G, roots \cup {i}, {}, {})
  BY <1>1, <1>2, <1>3, JoinHolds
<1>10. Refs(g, G)
  BY <1>1, <1>2, <1>4 DEF Refs
<1> HIDE DEF G
<1>11. Sound(heap', G, roots', lost', Nothing)
  <2>1. Caller(g, G, roots')
    BY <1>8, <1>9, <1>10 DEF Caller
  <2>2. Parted(g, G, lost, Nothing)
    BY <1>3, <1>4, NothingFacts DEF Parted
  <2> QED
    BY <1>2, <1>8, <2>1, <2>2 DEF Sound
<1>12. InCall(heap', G, Nothing, calls', target', at')
  BY DEF InCall
<1> QED
  BY <1>6, <1>8, <1>11, <1>12, StepDone DEF StepOf

-----------------------------------------------------------------------------
(* Arrays that are filled *)

LEMMA PlentyReady ==
  ASSUME Idle
  PROVE  Ready(Plenty) /\ Sane(Plenty)
<1>1. Plenty \in Given(1)
  BY DEF Plenty, Given
<1>2. Ready(Plenty)
  BY <1>1, GivenReady
<1> QED
  BY <1>2 DEF Ready

\* An allocation for a call that runs
LEMMA GivenGoes ==
  ASSUME NEW W, Goes(heap, W), NEW n \in Nat
  PROVE  /\ \A h \in Given(n) : /\ Goes(h, W) /\ h.item = heap.item
                                /\ \A T, C, P : Work(heap, W, T, C, P) => Work(h, W, T, C, P)
         /\ Plenty \in Given(1)
<1>1. Sane(heap) /\ Caller(heap, trees, roots) /\ Parted(heap, trees, lost, W) /\ heap \in HeapT
      /\ lost \subseteq Items
  BY DEF Goes, Sane
<1>2. ASSUME NEW h \in Given(n)
      PROVE  Alike(h, heap) /\ Sane(h) /\ h.item = heap.item
  <2>1. PICK m \in 0 .. n : h = [heap EXCEPT !.mem = m]
    BY DEF Given
  <2>2. m \in Nat
    OBVIOUS
  <2>3. Alike([heap EXCEPT !.mem = m], heap) /\ Sane([heap EXCEPT !.mem = m])
    BY <1>1, <2>2, AlikeSettled
  <2>4. [heap EXCEPT !.mem = m].item = heap.item
    BY <1>1 DEF HeapT
  <2> QED
    BY <2>1, <2>3, <2>4
<1>3. ASSUME NEW h \in Given(n)
      PROVE  /\ Goes(h, W) /\ h.item = heap.item
             /\ \A T, C, P : Work(heap, W, T, C, P) => Work(h, W, T, C, P)
  <2>1. Alike(h, heap) /\ Sane(h) /\ h.item = heap.item
    BY <1>2
  <2>2. Caller(h, trees, roots) /\ Live(h) = Live(heap)
    BY <1>1, <2>1, AlikeKeeps
  <2>3. Goes(h, W)
    BY <1>1, <2>1, <2>2 DEF Goes, Parted
  <2>4. \A T, C, P : Work(heap, W, T, C, P) => Work(h, W, T, C, P)
    BY <2>1 DEF Work, Holds, Links, Tops
  <2> QED
    BY <2>1, <2>3, <2>4
<1>4. Plenty \in Given(1)
  BY DEF Plenty, Given
<1> QED
  BY <1>3, <1>4

LEMMA ArrayBeginsStep ==
  ASSUME IInv, ArrayBegins
  PROVE  IInv' /\ [Forest!Step(trees, trees')]_trees
<1>1. PICK type \in {"scalar", "string"} :
        LET a == CreateBasic(Plenty, "list") IN
        /\ Works /\ at = "none" /\ a.r # NULL
        /\ Settle(a.heap)
        /\ calls' = <<[item |-> a.r, type |-> type, current |-> NULL]>>
        /\ at' = "filling" /\ UNCHANGED target
  BY DEF ArrayBegins
<1>2. Idle /\ Ready(Plenty) /\ Sane(Plenty)
  BY <1>1, IdleNow, PlentyReady
<1> DEFINE a == CreateBasic(Plenty, "list")
           g == a.heap
           r == a.r
           V == Beside(Nothing, Single(r))
<1>3. MadeItem(a, Plenty)
  <2>1. "list" \in Types \cup {"new"}
    BY DEF Types
  <2> QED
    BY <1>2, <2>1, BasicIsNew, IsNewMade
<1>4. /\ Works /\ r # NULL /\ Settle(g) /\ at' = "filling" /\ target' = target
      /\ calls' = <<[item |-> r, type |-> type, current |-> NULL]>>
  BY <1>1
<1>5. Sane(g) /\ Fresh(g, Plenty, r) /\ ~g.item[r].ref
  BY <1>3, <1>4 DEF MadeItem, Made
<1> HIDE DEF a
<1>6. Comes(g, Nothing, {}, r, {}, {r})
  BY <1>2, <1>5, FirstWork
<1>7. /\ Goes(g, V) /\ Work(g, V, {} \cup {r}, {}, {r}) /\ r \in Items
      /\ V.kids[r] = <<>>
  BY <1>6 DEF Comes
<1> HIDE DEF V
<1>8. Filling(g, V, calls')
  <2>1. {} \cup {r} = {r} /\ LastOf(V, r) = NULL
    BY <1>7 DEF LastOf
  <2> DEFINE call == [item |-> r, type |-> type, current |-> NULL]
  <2>2. call \in [item : Items, type : {"scalar", "string"}, current : 0 .. Size]
    BY <1>7, ItemsFacts
  <2>3. call.item = r /\ call.current = NULL
    OBVIOUS
  <2> HIDE DEF call
  <2>4. calls' = <<call>>
    BY <1>4 DEF call
  <2>5. calls' \in Seq([item : Items, type : {"scalar", "string"}, current : 0 .. Size])
        /\ Len(calls') = 1 /\ calls'[1] = call
    BY <2>2, <2>4
  <2> QED
    BY <1>7, <2>1, <2>3, <2>5 DEF Filling
<1>9. InCall(g, trees, V, calls', target', at')
  BY <1>2, <1>4, <1>8 DEF InCall, Idle
<1> QED
  BY <1>4, <1>7, <1>9, CallGoes DEF Works

\* The call that fills an array
LEMMA FillingNow ==
  ASSUME IInv, at = "filling"
  PROVE  \E W : /\ Goes(heap, W) /\ Filling(heap, W, calls) /\ target \in 0 .. Size /\ heap.mem = 0
<1>1. PICK W : /\ Goes(heap, W) /\ InCall(heap, trees, W, calls, target, at) /\ heap.mem = 0
  BY CallRuns
<1>2. Filling(heap, W, calls) /\ target \in 0 .. Size
  BY <1>1 DEF InCall
<1> QED
  BY <1>1, <1>2

LEMMA FillingFacts ==
  ASSUME NEW h, NEW W, NEW c, Filling(h, W, c), Sane(h)
  PROVE  /\ c[1] \in [item : Items, type : {"scalar", "string"}, current : 0 .. Size]
         /\ c[1].item \in Items /\ c[1].type \in Types /\ c[1].item \in W.live /\ c = <<c[1]>>
         /\ Work(h, W, {c[1].item}, {}, {c[1].item}) /\ c[1].current = LastOf(W, c[1].item)
<1>1. c[1] \in [item : Items, type : {"scalar", "string"}, current : 0 .. Size] /\ c = <<c[1]>>
  <2> DEFINE Calls == [item : Items, type : {"scalar", "string"}, current : 0 .. Size]
  <2>1. c \in Seq(Calls) /\ Len(c) = 1
    BY DEF Filling
  <2> HIDE DEF Calls
  <2>2. c[1] \in Calls /\ c = <<c[1]>>
    BY <2>1
  <2> QED
    BY <2>2 DEF Calls
<1>2. Work(h, W, {c[1].item}, {}, {c[1].item}) /\ c[1].current = LastOf(W, c[1].item)
  BY DEF Filling
<1>3. {c[1].item} \subseteq W.live
  BY <1>2, WorkFacts
<1> QED
  BY <1>1, <1>2, <1>3 DEF Types

LEMMA ArrayFailsStep ==
  ASSUME IInv, ArrayFails
  PROVE  IInv' /\ [Forest!Step(trees, trees')]_trees
<1>1. PICK h \in Given(2) :
        LET new == Create(h, calls[1].type) IN
        /\ Works /\ at = "filling" /\ new.r = NULL
        /\ Settle(cJSON_Delete(new.heap, calls[1].item)) /\ Ends
  BY DEF ArrayFails
<1>2. PICK W : Goes(heap, W) /\ Filling(heap, W, calls) /\ target \in 0 .. Size
  BY <1>1, FillingNow
<1> DEFINE call == calls[1]
           i == call.item
           new == Create(h, call.type)
           g == new.heap
<1>3. /\ call.type \in Types /\ i \in W.live /\ Work(heap, W, {i}, {}, {i})
  BY <1>2, FillingFacts DEF Goes
<1>4. Goes(h, W) /\ Work(h, W, {i}, {}, {i})
  BY <1>2, <1>3, GivenGoes
<1>5. Works /\ new.r = NULL /\ Settle(cJSON_Delete(g, i)) /\ Ends
  BY <1>1
<1>6. MadeItem(new, h)
  BY <1>3, <1>4, CreateMade DEF Goes
<1>7. Sane(g) /\ g.item = h.item
  BY <1>5, <1>6 DEF MadeItem, Made
<1> HIDE DEF new, call
<1>8. Goes(g, W) /\ Work(g, W, {i}, {}, {i})
  <2>1. Live(g) = (Live(h) \ W.live) \cup W.live
    <3>1. W.live \subseteq Live(h)
      BY <1>4, WorkFacts DEF Goes, Live
    <3> QED
      BY <1>7, <3>1 DEF Live
  <2>2. Goes(g, W)
    BY <1>4, <1>7, <2>1, OthersKeep
  <2>3. Work(g, W, {i}, {}, {i})
    BY <1>4, <1>7 DEF Work, Holds, Links, Tops
  <2> QED
    BY <2>2, <2>3
<1>9. Starts(W, {i}, {}, <<i>>)
  <2>1. g \in HeapT /\ Holds(g, W, {i}, {}, {i})
    BY <1>7, <1>8 DEF Sane, Work
  <2> QED
    BY <2>1, DeleteTree
<1>10. Settle(Deletions(g, <<i>>))
  BY <1>5 DEF cJSON_Delete
<1>11. calls' = <<>> /\ at' = "none" /\ target' \in 0 .. Size /\ roots' = roots /\ lost' = lost
  BY <1>2, <1>5 DEF Ends, Works
<1> QED
  BY <1>8, <1>9, <1>10, <1>11, CallFails

LEMMA ArrayReturnsStep ==
  ASSUME IInv, ArrayReturns
  PROVE  IInv' /\ [Forest!Step(trees, trees')]_trees
<1>1. PICK W : Goes(heap, W) /\ Filling(heap, W, calls) /\ target \in 0 .. Size /\ heap.mem = 0
  BY FillingNow DEF ArrayReturns
<1> DEFINE call == calls[1]
           i == call.item
           g == Closed(heap, i, call.current)
<1>2. i \in W.live /\ Work(heap, W, {i}, {}, {i}) /\ call.current = LastOf(W, i)
  BY <1>1, FillingFacts DEF Goes
<1>3. heap' = g /\ Gained(i) /\ calls' = <<>> /\ at' = "none" /\ target' = target
  BY DEF ArrayReturns, Ends
<1> HIDE DEF call
<1>4. Goes(g, W) /\ Work(g, W, {i}, {}, {i} \ {i}) /\ g.mem = heap.mem
  BY <1>1, <1>2, ClosedWork
<1>5. {i} \ {i} = {}
  OBVIOUS
<1> HIDE DEF g, i
<1>6. Work(g, W, {i}, {}, {}) /\ g.mem = 0
  BY <1>1, <1>4, <1>5
<1> QED
  BY <1>1, <1>3, <1>4, <1>6, CallReturns

LEMMA ArrayGrowsStep ==
  ASSUME IInv, ArrayGrows
  PROVE  IInv' /\ [Forest!Step(trees, trees')]_trees
<1>1. PICK h \in Given(2) :
        LET call == calls[1]
            new == Create(h, call.type)
        IN /\ Works /\ at = "filling" /\ new.r # NULL
           /\ Settle(Longer(new.heap, call.item, call.current, new.r))
           /\ calls' = <<[call EXCEPT !.current = new.r]>>
           /\ UNCHANGED <<at, target>>
  BY DEF ArrayGrows
<1>2. PICK W : Goes(heap, W) /\ Filling(heap, W, calls) /\ target \in 0 .. Size
  BY <1>1, FillingNow
<1> DEFINE call == calls[1]
           i == call.item
           new == Create(h, call.type)
           r == new.r
           g == new.heap
           V == Beside(W, Single(r))
           k == Longer(g, i, call.current, r)
<1>3. /\ call.type \in Types /\ i \in W.live /\ i \in Items
      /\ Work(heap, W, {i}, {}, {i}) /\ call.current = LastOf(W, i)
      /\ call \in [item : Items, type : {"scalar", "string"}, current : 0 .. Size]
  BY <1>2, FillingFacts DEF Goes
<1>4. Goes(h, W) /\ Work(h, W, {i}, {}, {i})
  BY <1>2, <1>3, GivenGoes
<1>5. /\ Works /\ r # NULL /\ Settle(k) /\ at' = "filling" /\ target' = target
      /\ calls' = <<[call EXCEPT !.current = r]>>
  BY <1>1
<1>6. MadeItem(new, h)
  BY <1>3, <1>4, CreateMade, SMTT(30) DEF Goes
<1>7. Sane(g) /\ Fresh(g, h, r) /\ ~g.item[r].ref
  BY <1>5, <1>6 DEF MadeItem, Made
<1> HIDE DEF new, call
<1>8. Agrees(W, {}, {i}, {}, {i})
  BY DEF Agrees
<1>9. Comes(g, W, {i}, r, {}, {i})
  BY <1>4, <1>7, <1>8, FreshWork
<1>10. /\ Goes(g, V) /\ Work(g, V, {i} \cup {r}, {}, {i})
       /\ r \in Items /\ r \notin W.live /\ V.live = W.live \cup {r} /\ V.kids[i] = W.kids[i]
  BY <1>3, <1>9 DEF Comes
<1>11. i \notin Forest!Tree(V, r)
  <2>1. IsForest(W, {i})
    BY <1>4, WorkFacts DEF Goes
  <2>2. 1 \in 1 .. Len(W.kids[i]) + 1
    BY <1>3, <2>1, KidsFacts
  <2> QED
    BY <1>3, <1>10, <2>1, <2>2, AttachNewStep
<1> HIDE DEF V
<1>12. call.current = LastOf(V, i)
  BY <1>3, <1>10 DEF LastOf
<1>13. Appended(k, V, {i} \cup {r}, {i}, i, r)
  <2>1. i \in V.live /\ r \in {i} \cup {r} /\ i \in {i}
    BY <1>3, <1>10
  <2> QED
    BY <1>10, <1>11, <1>12, <2>1, LongerWork
<1> HIDE DEF k, i
<1>14. PICK U : Goes(k, U) /\ Work(k, U, ({i} \cup {r}) \ {r}, {}, {i}) /\ LastOf(U, i) = r
  BY <1>13 DEF Appended
<1>15. ({i} \cup {r}) \ {r} = {i}
  BY <1>3, <1>10
<1>16. Filling(k, U, calls')
  <2> DEFINE next == [call EXCEPT !.current = r]
             Calls == [item : Items, type : {"scalar", "string"}, current : 0 .. Size]
  <2>1. next \in Calls /\ next.item = i /\ next.current = r
    BY <1>3, <1>10, ItemsFacts DEF i
  <2>2. calls' = <<next>>
    BY <1>5
  <2> HIDE DEF next, Calls
  <2>3. calls' \in Seq(Calls) /\ Len(calls') = 1 /\ calls'[1] = next
    BY <2>1, <2>2
  <2>4. Work(k, U, {i}, {}, {i})
    BY <1>14, <1>15
  <2>5. calls'[1].item = i /\ calls'[1].current = r
    BY <2>1, <2>3
  <2> QED
    BY <1>14, <2>3, <2>4, <2>5 DEF Filling, Calls
<1>17. InCall(k, trees, U, calls', target', at')
  BY <1>2, <1>5, <1>16 DEF InCall
<1> QED
  BY <1>5, <1>14, <1>17, CallGoes DEF Works

-----------------------------------------------------------------------------
(* The calls that copy an item, or read a text *)

LEMMA FramesOfMore ==
  ASSUME NEW S, NEW c \in Seq(S), NEW e \in S
  PROVE  /\ Append(c, e) \in Seq(S) /\ Len(c) \in Nat /\ Len(Append(c, e)) = Len(c) + 1
         /\ \A k \in DOMAIN c : k \in 1 .. Len(c) /\ Append(c, e)[k] = c[k]
         /\ Append(c, e)[Len(c) + 1] = e
         /\ \A k \in DOMAIN Append(c, e) : k \in DOMAIN c \/ k = Len(c) + 1
         /\ Frames(Append(c, e)) = Frames(c) \cup {e.item}
         /\ Distinct(c) /\ e.item \notin Frames(c) => Distinct(Append(c, e))
<1> DEFINE d == Append(c, e)
<1>1. /\ d \in Seq(S) /\ Len(c) \in Nat /\ Len(d) = Len(c) + 1
      /\ DOMAIN c = 1 .. Len(c) /\ DOMAIN d = 1 .. Len(d)
      /\ \A k \in 1 .. Len(c) : d[k] = c[k]
      /\ d[Len(c) + 1] = e
  OBVIOUS
<1> HIDE DEF d
<1>2. \A k \in DOMAIN d : k \in DOMAIN c \/ k = Len(c) + 1
  BY <1>1
<1>3. \A k \in DOMAIN c : k \in 1 .. Len(c) /\ k \in DOMAIN d /\ d[k] = c[k]
  BY <1>1
<1>4. Len(c) + 1 \in DOMAIN d
  BY <1>1
<1>5. Frames(d) = Frames(c) \cup {e.item}
  BY <1>1, <1>2, <1>3, <1>4 DEF Frames
<1>6. ASSUME Distinct(c), e.item \notin Frames(c)
      PROVE  Distinct(d)
  <2>1. SUFFICES ASSUME NEW j \in DOMAIN d, NEW k \in DOMAIN d, d[j].item = d[k].item
                 PROVE  j = k
    BY DEF Distinct
  <2>2. \A l \in DOMAIN c : c[l].item \in Frames(c)
    BY DEF Frames
  <2>3. CASE j \in DOMAIN c /\ k \in DOMAIN c
    BY <1>3, <1>6, <2>1, <2>3 DEF Distinct
  <2>4. CASE j \in DOMAIN c /\ k = Len(c) + 1
    BY <1>1, <1>3, <1>6, <2>1, <2>2, <2>4
  <2>5. CASE j = Len(c) + 1 /\ k \in DOMAIN c
    BY <1>1, <1>3, <1>6, <2>1, <2>2, <2>5
  <2> QED
    BY <1>2, <2>3, <2>4, <2>5
<1> QED
  BY <1>1, <1>2, <1>3, <1>5, <1>6 DEF d

LEMMA FramesOfFewer ==
  ASSUME NEW S, NEW c \in Seq(S), c # <<>>
  PROVE  /\ Front(c) \in Seq(S) /\ Len(c) \in Nat \ {0} /\ Len(Front(c)) = Len(c) - 1
         /\ Last(c) = c[Len(c)] /\ Last(c) \in S
         /\ \A k \in DOMAIN Front(c) : k \in DOMAIN c /\ k < Len(c) /\ Front(c)[k] = c[k]
         /\ \A k \in DOMAIN c : k \in DOMAIN Front(c) \/ k = Len(c)
         /\ Len(c) \in DOMAIN c
         /\ Frames(c) = Frames(Front(c)) \cup {Last(c).item}
         /\ Distinct(c) => Distinct(Front(c)) /\ Last(c).item \notin Frames(Front(c))
<1> DEFINE d == Front(c)
<1>1. Len(c) \in Nat \ {0} /\ DOMAIN c = 1 .. Len(c) /\ \A k \in 1 .. Len(c) : c[k] \in S
  OBVIOUS
<1>2. /\ d \in Seq(S) /\ Len(d) = Len(c) - 1
      /\ \A k \in 1 .. Len(c) - 1 : d[k] = c[k]
  <2> DEFINE n == Len(c) - 1
  <2>1. n \in Nat /\ d = SubSeq(c, 1, n) /\ \A k \in 1 .. n : c[k] \in S
    BY <1>1 DEF Front
  <2> HIDE DEF n
  <2>2. /\ SubSeq(c, 1, n) \in Seq(S)
        /\ Len(SubSeq(c, 1, n)) = IF 1 <= n THEN n - 1 + 1 ELSE 0
        /\ \A k \in 1 .. n - 1 + 1 : SubSeq(c, 1, n)[k] = c[1 + k - 1]
    BY <2>1, SubSeqProperties
  <2>3. n - 1 + 1 = n /\ \A k \in 1 .. n : 1 + k - 1 = k
    BY <2>1
  <2>4. d \in Seq(S) /\ Len(d) = n /\ \A k \in 1 .. n : d[k] = c[k]
    BY <2>1, <2>2, <2>3
  <2> QED
    BY <2>4 DEF n
<1>3. DOMAIN d = 1 .. Len(c) - 1
  BY <1>2
<1>4. \A k \in DOMAIN d : k \in DOMAIN c /\ k < Len(c) /\ d[k] = c[k]
  BY <1>1, <1>2, <1>3
<1>5. Last(c) = c[Len(c)] /\ Last(c) \in S /\ Len(c) \in DOMAIN c
  BY <1>1 DEF Last
<1> HIDE DEF d
<1>6. \A k \in DOMAIN c : k \in DOMAIN d \/ k = Len(c)
  BY <1>1, <1>3
<1>7. Frames(c) = Frames(d) \cup {Last(c).item}
  BY <1>4, <1>5, <1>6 DEF Frames
<1>8. ASSUME Distinct(c)
      PROVE  Distinct(d) /\ Last(c).item \notin Frames(d)
  <2>1. Distinct(d)
    BY <1>4, <1>8 DEF Distinct
  <2>2. \A k \in DOMAIN d : d[k].item # Last(c).item
    <3>1. SUFFICES ASSUME NEW k \in DOMAIN d, d[k].item = Last(c).item
                   PROVE  FALSE
      OBVIOUS
    <3>2. k \in DOMAIN c /\ k < Len(c) /\ c[k].item = c[Len(c)].item
      BY <1>4, <1>5, <3>1
    <3>3. k = Len(c)
      BY <1>5, <1>8, <3>2 DEF Distinct
    <3> QED
      BY <1>1, <3>2, <3>3
  <2> QED
    BY <2>1, <2>2 DEF Frames
<1> QED
  BY <1>1, <1>2, <1>4, <1>5, <1>6, <1>7, <1>8 DEF d

\* A single call
LEMMA OneFrame ==
  ASSUME NEW e
  PROVE  /\ Frames(<<e>>) = {e.item} /\ Distinct(<<e>>) /\ <<e>> # <<>> /\ Len(<<e>>) = 1
         /\ <<e>>[1] = e /\ DOMAIN <<e>> = {1} /\ \A S : e \in S => <<e>> \in Seq(S)
<1>1. /\ <<e>> # <<>> /\ Len(<<e>>) = 1 /\ <<e>>[1] = e /\ DOMAIN <<e>> = {1}
  OBVIOUS
<1>2. \A S : e \in S => <<e>> \in Seq(S)
  OBVIOUS
<1>3. Distinct(<<e>>)
  BY <1>1 DEF Distinct
<1>4. Frames(<<e>>) = {e.item}
  BY <1>1 DEF Frames
<1> QED
  BY <1>1, <1>2, <1>3, <1>4

\* The links of the caller's items lead to the caller's items.
LEMMA LeadsInside ==
  ASSUME NEW h, NEW F, NEW R, Caller(h, F, R), NEW x \in F.live
  PROVE  h.item[x].child \in F.live \cup {NULL} /\ h.item[x].next \in F.live \cup {NULL}
<1>1. Holds(h, F, R, {}, {}) /\ Refs(h, F) /\ IsForest(F, R) /\ Links(h, F, {}, {}) /\ Tops(h, R)
  BY DEF Caller, Holds
<1>2. /\ F \in ForestT /\ F.live \subseteq Items /\ R \subseteq F.live
      /\ \A a \in Items :
           /\ F.kids[a] # <<>> <=> 1 \in DOMAIN F.kids[a]
           /\ \A j \in DOMAIN F.kids[a] : a \in F.live /\ F.kids[a][j] \in F.live
           /\ DOMAIN F.kids[a] = 1 .. Len(F.kids[a]) /\ Len(F.kids[a]) \in Nat
  BY <1>1, KidsFacts
<1>3. \A a \in F.live : ~h.item[a].ref => h.item[a].child \in F.live \cup {NULL}
  <2>1. SUFFICES ASSUME NEW a \in F.live, ~h.item[a].ref
                 PROVE  h.item[a].child \in F.live \cup {NULL}
    OBVIOUS
  <2>2. h.item[a].child = IF F.kids[a] = <<>> THEN NULL ELSE F.kids[a][1]
    BY <1>1, <2>1 DEF Links
  <2> QED
    BY <1>2, <2>2
<1>4. h.item[x].child \in F.live \cup {NULL}
  <2>1. CASE h.item[x].ref
    <3>1. /\ h.item[x].of \in F.live /\ ~h.item[h.item[x].of].ref
          /\ h.item[x].child = h.item[h.item[x].of].child
      BY <1>1, <2>1 DEF Refs
    <3> QED
      BY <1>3, <3>1
  <2>2. CASE ~h.item[x].ref
    BY <1>3, <2>2
  <2> QED
    BY <2>1, <2>2
<1>5. h.item[x].next \in F.live \cup {NULL}
  <2> DEFINE S == {y \in F.live : h.item[y].next \in F.live \cup {NULL}}
  <2>1. R \subseteq S
    BY <1>1, <1>2 DEF Tops
  <2>2. Down(F, S)
    <3>1. SUFFICES ASSUME NEW a \in F.live, NEW j \in DOMAIN F.kids[a]
                   PROVE  F.kids[a][j] \in S
      BY DEF Down
    <3>2. h.item[F.kids[a][j]].next = IF j = Len(F.kids[a]) THEN NULL ELSE F.kids[a][j + 1]
      BY <1>1 DEF Links
    <3>3. j # Len(F.kids[a]) => j + 1 \in DOMAIN F.kids[a]
      BY <1>2
    <3>4. F.kids[a][j] \in F.live /\ (j # Len(F.kids[a]) => F.kids[a][j + 1] \in F.live)
      BY <1>2, <3>3
    <3> QED
      BY <3>2, <3>4
  <2>3. S \in SUBSET Items
    BY <1>2
  <2> HIDE DEF S
  <2>4. F.live \subseteq S
    BY <1>1, <2>1, <2>2, <2>3 DEF IsForest
  <2> QED
    BY <2>4 DEF S
<1> QED
  BY <1>4, <1>5

-----------------------------------------------------------------------------
(* Items that are copied with their children *)

CopyCalls == [item : Items, source : 0 .. Size, current : 0 .. Size]

LEMMA CopyingCall ==
  ASSUME NEW F, F.live \subseteq Items, NEW copy, copy.r \in Items,
         NEW i, Item(i).child \in F.live \cup {NULL}
  PROVE  LET e == Copying(copy, i) IN
         /\ e \in CopyCalls /\ e.item = copy.r /\ e.source = Item(i).child /\ e.current = NULL
         /\ e.source \in F.live \cup {NULL}
BY ItemsFacts DEF Copying, CopyCalls

LEMMA DuplicateBeginsStep ==
  ASSUME IInv, DuplicateBegins
  PROVE  IInv' /\ [Forest!Step(trees, trees')]_trees
<1>1. PICK i \in Known, h \in Given(3) :
        LET copy == CopyItem(h, i) IN
        /\ Works /\ at = "none" /\ copy.r # NULL
        /\ Settle(copy.heap)
        /\ calls' = <<Copying(copy, i)>> /\ at' = "copying" /\ UNCHANGED target
  BY DEF DuplicateBegins
<1> DEFINE copy == CopyItem(h, i)
           g == copy.heap
           r == copy.r
           V == Beside(Nothing, Single(r))
           e == Copying(copy, i)
<1>2. Idle /\ Ready(h) /\ i \in trees.live /\ i \in Items
  <2>1. Idle
    BY <1>1, IdleNow
  <2> QED
    BY <1>1, <2>1, GivenReady DEF Known, Idle
<1>3. /\ Sane(h) /\ h.item[i].type # "free" /\ h.item = heap.item /\ Caller(h, trees, roots)
      /\ trees.live \subseteq Items
  BY <1>2, ReadyFacts DEF Idle
<1>4. MadeItem(copy, h)
  BY <1>2, <1>3, CopyMade
<1>5. Works /\ r # NULL /\ Settle(g) /\ calls' = <<e>> /\ at' = "copying" /\ target' = target
  BY <1>1
<1>6. Sane(g) /\ Fresh(g, h, r) /\ ~g.item[r].ref
  BY <1>4, <1>5 DEF MadeItem, Made
<1> HIDE DEF copy
<1>7. Comes(g, Nothing, {}, r, {}, {r})
  BY <1>2, <1>6, FirstWork
<1>8. /\ Goes(g, V) /\ Work(g, V, {} \cup {r}, {}, {r}) /\ r \in Items /\ V.kids[r] = <<>>
  BY <1>7 DEF Comes
<1> HIDE DEF V
<1>9. /\ e \in CopyCalls /\ e.item = r /\ e.current = NULL
      /\ e.source \in trees.live \cup {NULL}
  <2>1. Item(i).child \in trees.live \cup {NULL}
    BY <1>2, <1>3, LeadsInside DEF Item
  <2> QED
    BY <1>3, <1>8, <2>1, CopyingCall
<1> HIDE DEF e, r
<1>10. Duplicating(g, trees, V, calls')
  <2>1. /\ Frames(calls') = {r} /\ Distinct(calls') /\ calls' # <<>> /\ Len(calls') = 1
        /\ calls'[1] = e /\ DOMAIN calls' = {1} /\ calls' \in Seq(CopyCalls)
    BY <1>5, <1>9, OneFrame
  <2>2. {} \cup {r} = {r} /\ LastOf(V, r) = NULL
    BY <1>8 DEF LastOf
  <2>3. \A k \in DOMAIN calls' : /\ calls'[k].current = LastOf(V, calls'[k].item)
                                 /\ calls'[k].source \in trees.live \cup {NULL}
                                 /\ k < Len(calls') => calls'[k].source # NULL
    BY <1>9, <2>1, <2>2
  <2>4. Work(g, V, Frames(calls'), {}, Frames(calls'))
    BY <1>8, <2>1, <2>2
  <2> QED
    BY <2>1, <2>3, <2>4 DEF Duplicating, CopyCalls
<1>11. InCall(g, trees, V, calls', target', at')
  BY <1>2, <1>5, <1>10 DEF InCall, Idle
<1> QED
  BY <1>5, <1>8, <1>11, CallGoes DEF Works

\* The calls that copy an item
LEMMA CopyingNow ==
  ASSUME IInv, at = "copying"
  PROVE  \E W : /\ Goes(heap, W) /\ Duplicating(heap, trees, W, calls) /\ target \in 0 .. Size /\ heap.mem = 0
<1>1. PICK W : /\ Goes(heap, W) /\ InCall(heap, trees, W, calls, target, at) /\ heap.mem = 0
  BY CallRuns
<1>2. Duplicating(heap, trees, W, calls) /\ target \in 0 .. Size
  BY <1>1 DEF InCall
<1> QED
  BY <1>1, <1>2

LEMMA CopyingFacts ==
  ASSUME NEW W, Goes(heap, W), Duplicating(heap, trees, W, calls)
  PROVE  /\ calls \in Seq(CopyCalls) /\ calls # <<>> /\ Distinct(calls)
         /\ Work(heap, W, Frames(calls), {}, Frames(calls))
         /\ Frames(calls) \subseteq W.live /\ W.live \subseteq Items
         /\ \A k \in DOMAIN calls : /\ calls[k].current = LastOf(W, calls[k].item)
                                    /\ calls[k].source \in trees.live \cup {NULL}
                                    /\ k < Len(calls) => calls[k].source # NULL
         /\ trees.live \subseteq Items
         /\ \A x \in trees.live : /\ heap.item[x].type # "free"
                                  /\ Item(x).child \in trees.live \cup {NULL}
                                  /\ Item(x).next \in trees.live \cup {NULL}
<1>1. /\ calls \in Seq(CopyCalls) /\ calls # <<>> /\ Distinct(calls)
      /\ Work(heap, W, Frames(calls), {}, Frames(calls))
      /\ \A k \in DOMAIN calls : /\ calls[k].current = LastOf(W, calls[k].item)
                                 /\ calls[k].source \in trees.live \cup {NULL}
                                 /\ k < Len(calls) => calls[k].source # NULL
  BY DEF Duplicating, CopyCalls
<1>2. Frames(calls) \subseteq W.live /\ W.live \subseteq Items
  BY <1>1, WorkFacts DEF Goes
<1>3. Caller(heap, trees, roots) /\ Holds(heap, trees, roots, {}, {})
  BY DEF Goes, Caller
<1>4. trees.live \subseteq Items /\ \A x \in trees.live : heap.item[x].type # "free"
  BY <1>3, LiveItems
<1>5. \A x \in trees.live : Item(x).child \in trees.live \cup {NULL} /\ Item(x).next \in trees.live \cup {NULL}
  BY <1>3, LeadsInside DEF Item
<1> QED
  BY <1>1, <1>2, <1>4, <1>5

LEMMA DuplicateChildStep ==
  ASSUME IInv, DuplicateChild
  PROVE  IInv' /\ [Forest!Step(trees, trees')]_trees
<1>1. PICK h \in Given(3) :
        LET i == Last(calls).source
            copy == CopyItem(h, i)
        IN /\ Works /\ at = "copying" /\ i # NULL /\ copy.r # NULL
           /\ Settle(copy.heap)
           /\ calls' = Append(calls, Copying(copy, i)) /\ UNCHANGED <<at, target>>
  BY DEF DuplicateChild
<1>2. PICK W : Goes(heap, W) /\ Duplicating(heap, trees, W, calls) /\ target \in 0 .. Size
  BY <1>1, CopyingNow
<1> DEFINE i == Last(calls).source
           copy == CopyItem(h, i)
           g == copy.heap
           r == copy.r
           V == Beside(W, Single(r))
           e == Copying(copy, i)
           T == Frames(calls)
<1>3. /\ calls \in Seq(CopyCalls) /\ calls # <<>> /\ Distinct(calls) /\ Work(heap, W, T, {}, T)
      /\ T \subseteq W.live /\ W.live \subseteq Items /\ trees.live \subseteq Items
  BY <1>2, CopyingFacts
<1>4. /\ \A k \in DOMAIN calls : /\ calls[k].current = LastOf(W, calls[k].item)
                                 /\ calls[k].source \in trees.live \cup {NULL}
                                 /\ k < Len(calls) => calls[k].source # NULL
      /\ \A x \in trees.live : /\ heap.item[x].type # "free"
                               /\ Item(x).child \in trees.live \cup {NULL}
                               /\ Item(x).next \in trees.live \cup {NULL}
  BY <1>2, CopyingFacts
<1>5. /\ Works /\ i # NULL /\ r # NULL /\ Settle(g) /\ calls' = Append(calls, e)
      /\ at' = "copying" /\ target' = target
  BY <1>1
<1>6. Goes(h, W) /\ h.item = heap.item /\ Work(h, W, T, {}, T)
  BY <1>2, <1>3, GivenGoes
<1>7. i \in trees.live /\ i \in Items /\ h.item[i].type # "free"
  <2>1. Last(calls) = calls[Len(calls)] /\ Len(calls) \in DOMAIN calls
    BY <1>3, FramesOfFewer
  <2> QED
    BY <1>3, <1>4, <1>5, <1>6, <2>1
<1>8. MadeItem(copy, h)
  BY <1>6, <1>7, CopyMade DEF Goes
<1>9. Sane(g) /\ Fresh(g, h, r) /\ ~g.item[r].ref
  BY <1>5, <1>8 DEF MadeItem, Made
<1> HIDE DEF copy, i
<1>10. r \in Items /\ r \notin W.live
  <2>1. r \in Items /\ r \notin Live(h)
    BY <1>9, FreshLive
  <2>2. W.live \subseteq Live(h)
    BY <1>6, WorkFacts DEF Goes, Live
  <2> QED
    BY <2>1, <2>2
<1>11. Comes(g, W, T, r, {}, T \cup {r})
  <2>1. Agrees(W, {}, T, {}, T \cup {r})
    BY <1>10 DEF Agrees
  <2> QED
    BY <1>6, <1>9, <2>1, FreshWork
<1>12. /\ Goes(g, V) /\ Work(g, V, T \cup {r}, {}, T \cup {r}) /\ V.kids[r] = <<>>
       /\ \A x \in W.live : V.kids[x] = W.kids[x]
  BY <1>11 DEF Comes
<1> HIDE DEF V
<1>13. /\ e \in CopyCalls /\ e.item = r /\ e.current = NULL
       /\ e.source \in trees.live \cup {NULL}
  BY <1>3, <1>4, <1>7, <1>10, CopyingCall
<1> HIDE DEF e, r
<1>14. Duplicating(g, trees, V, calls')
  <2>1. /\ calls' \in Seq(CopyCalls) /\ Len(calls) \in Nat /\ Len(calls') = Len(calls) + 1
        /\ \A k \in DOMAIN calls : k \in 1 .. Len(calls) /\ calls'[k] = calls[k]
        /\ calls'[Len(calls) + 1] = e
        /\ \A k \in DOMAIN calls' : k \in DOMAIN calls \/ k = Len(calls) + 1
        /\ Frames(calls') = T \cup {r} /\ Distinct(calls')
    <3>1. e.item \notin T
      BY <1>3, <1>10, <1>13
    <3> QED
      BY <1>3, <1>5, <1>13, <3>1, FramesOfMore
  <2>2. LastOf(V, r) = NULL /\ \A x \in T : LastOf(V, x) = LastOf(W, x)
    BY <1>3, <1>12 DEF LastOf
  <2>3. \A k \in DOMAIN calls : calls[k].item \in T
    BY DEF Frames
  <2>4. ASSUME NEW k \in DOMAIN calls'
        PROVE  /\ calls'[k].current = LastOf(V, calls'[k].item)
               /\ calls'[k].source \in trees.live \cup {NULL}
               /\ k < Len(calls') => calls'[k].source # NULL
    <3>1. CASE k = Len(calls) + 1
      BY <1>13, <2>1, <2>2, <3>1
    <3>2. CASE k \in DOMAIN calls
      <4>1. calls'[k] = calls[k] /\ calls[k].item \in T
        BY <2>1, <2>3, <3>2
      <4>2. calls[k].source # NULL
        <5>1. Last(calls) = calls[Len(calls)] /\ Len(calls) \in Nat
          BY <1>3, FramesOfFewer
        <5>2. k < Len(calls) \/ k = Len(calls)
          BY <2>1, <3>2
        <5> QED
          BY <1>4, <1>5, <3>2, <5>1, <5>2 DEF i
      <4> QED
        BY <1>4, <2>2, <3>2, <4>1, <4>2
    <3> QED
      BY <2>1, <3>1, <3>2
  <2>5. Work(g, V, Frames(calls'), {}, Frames(calls'))
    BY <1>12, <2>1
  <2>6. calls' # <<>>
    BY <2>1
  <2> QED
    BY <2>1, <2>4, <2>5, <2>6 DEF Duplicating, CopyCalls
<1>15. InCall(g, trees, V, calls', target', at')
  BY <1>2, <1>5, <1>14 DEF InCall
<1> QED
  BY <1>5, <1>12, <1>15, CallGoes DEF Works

LEMMA DuplicateFailsStep ==
  ASSUME IInv, DuplicateFails
  PROVE  IInv' /\ [Forest!Step(trees, trees')]_trees
<1>1. PICK h \in Given(3) :
        LET i == Last(calls).source
            copy == CopyItem(h, i)
        IN /\ Works /\ at = "copying" /\ i # NULL /\ copy.r = NULL
           /\ Settle(Deletions(copy.heap, [k \in DOMAIN calls |-> calls[k].item])) /\ Ends
  BY DEF DuplicateFails
<1>2. PICK W : Goes(heap, W) /\ Duplicating(heap, trees, W, calls) /\ target \in 0 .. Size
  BY <1>1, CopyingNow
<1> DEFINE i == Last(calls).source
           copy == CopyItem(h, i)
           g == copy.heap
           T == Frames(calls)
           starts == [k \in DOMAIN calls |-> calls[k].item]
<1>3. /\ calls \in Seq(CopyCalls) /\ calls # <<>> /\ Distinct(calls) /\ Work(heap, W, T, {}, T)
      /\ T \subseteq W.live /\ W.live \subseteq Items /\ trees.live \subseteq Items
      /\ \A k \in DOMAIN calls : calls[k].source \in trees.live \cup {NULL}
      /\ \A x \in trees.live : heap.item[x].type # "free"
  BY <1>2, CopyingFacts
<1>4. Works /\ i # NULL /\ copy.r = NULL /\ Settle(Deletions(g, starts)) /\ Ends
  BY <1>1
<1>5. Goes(h, W) /\ h.item = heap.item /\ Work(h, W, T, {}, T)
  BY <1>2, <1>3, GivenGoes
<1>6. i \in trees.live /\ i \in Items /\ h.item[i].type # "free"
  <2>1. Last(calls) = calls[Len(calls)] /\ Len(calls) \in DOMAIN calls
    BY <1>3, FramesOfFewer
  <2> QED
    BY <1>3, <1>4, <1>5, <2>1
<1>7. MadeItem(copy, h)
  BY <1>5, <1>6, CopyMade DEF Goes
<1>8. Sane(g) /\ g.item = h.item
  BY <1>4, <1>7 DEF MadeItem, Made
<1> HIDE DEF copy, i
<1>9. Goes(g, W) /\ Work(g, W, T, {}, T)
  <2>1. Live(g) = (Live(h) \ W.live) \cup W.live
    <3>1. W.live \subseteq Live(h)
      BY <1>5, WorkFacts DEF Goes, Live
    <3> QED
      BY <1>8, <3>1 DEF Live
  <2>2. Goes(g, W)
    BY <1>5, <1>8, <2>1, OthersKeep
  <2>3. Work(g, W, T, {}, T)
    BY <1>5, <1>8 DEF Work, Holds, Links, Tops
  <2> QED
    BY <2>2, <2>3
<1>10. Starts(W, T, {}, starts)
  <2>1. DOMAIN starts = DOMAIN calls /\ \A k \in DOMAIN calls : starts[k] = calls[k].item /\ starts[k] \in T
    BY DEF Frames
  <2>2. \A x \in T : \E k \in DOMAIN calls : starts[k] = x
    BY DEF Frames
  <2> HIDE DEF starts
  <2>3. \A k, l \in DOMAIN starts : starts[k] = starts[l] => k = l
    BY <1>3, <2>1 DEF Distinct
  <2> HIDE DEF T
  <2> QED
    BY <1>3, <2>1, <2>2, <2>3 DEF Starts
<1>11. calls' = <<>> /\ at' = "none" /\ target' \in 0 .. Size /\ roots' = roots /\ lost' = lost
  BY <1>2, <1>4 DEF Ends, Works
<1> QED
  BY <1>4, <1>9, <1>10, <1>11, CallFails

LEMMA DuplicateEndsStep ==
  ASSUME IInv, DuplicateEnds
  PROVE  IInv' /\ [Forest!Step(trees, trees')]_trees
<1>1. PICK W : Goes(heap, W) /\ Duplicating(heap, trees, W, calls) /\ target \in 0 .. Size /\ heap.mem = 0
  BY CopyingNow DEF DuplicateEnds
<1> DEFINE call == calls[1]
           i == call.item
           g == Closed(heap, i, call.current)
           T == Frames(calls)
<1>2. /\ calls \in Seq(CopyCalls) /\ calls # <<>> /\ Work(heap, W, T, {}, T) /\ T \subseteq W.live
      /\ \A k \in DOMAIN calls : calls[k].current = LastOf(W, calls[k].item)
  BY <1>1, CopyingFacts
<1>3. heap' = g /\ Gained(i) /\ calls' = <<>> /\ at' = "none" /\ target' = target /\ Len(calls) = 1
  BY DEF DuplicateEnds, Ends
<1>4. DOMAIN calls = {1}
  BY <1>2, <1>3
<1>5. T = {i} /\ call.current = LastOf(W, i)
  BY <1>2, <1>4 DEF Frames
<1> HIDE DEF call, T
<1>6. Goes(g, W) /\ Work(g, W, {i}, {}, {i} \ {i}) /\ g.mem = heap.mem
  <2>1. Work(heap, W, {i}, {}, {i}) /\ i \in W.live /\ i \in {i}
    BY <1>2, <1>5
  <2> HIDE DEF i
  <2> QED
    BY <1>1, <1>5, <2>1, ClosedWork
<1>7. {i} \ {i} = {}
  OBVIOUS
<1> HIDE DEF g, i
<1>8. Work(g, W, {i}, {}, {}) /\ g.mem = 0
  BY <1>1, <1>6, <1>7
<1> QED
  BY <1>1, <1>3, <1>6, <1>8, CallReturns

LEMMA DuplicateReturnsStep ==
  ASSUME IInv, DuplicateReturns
  PROVE  IInv' /\ [Forest!Step(trees, trees')]_trees
<1>1. PICK W : Goes(heap, W) /\ Duplicating(heap, trees, W, calls) /\ target \in 0 .. Size
  BY CopyingNow DEF DuplicateReturns
<1> DEFINE before == Front(calls)
           call == Last(calls)
           caller == Last(before)
           i == call.item
           a == caller.item
           h == Closed(heap, i, call.current)
           g == Longer(h, a, caller.current, i)
           next == [caller EXCEPT !.current = i, !.source = Item(@).next]
           T == Frames(calls)
<1>2. /\ calls \in Seq(CopyCalls) /\ calls # <<>> /\ Distinct(calls) /\ Work(heap, W, T, {}, T)
      /\ T \subseteq W.live /\ W.live \subseteq Items /\ trees.live \subseteq Items
  BY <1>1, CopyingFacts
<1>3. /\ \A k \in DOMAIN calls : /\ calls[k].current = LastOf(W, calls[k].item)
                                 /\ calls[k].source \in trees.live \cup {NULL}
                                 /\ k < Len(calls) => calls[k].source # NULL
      /\ \A x \in trees.live : Item(x).next \in trees.live \cup {NULL}
  BY <1>1, CopyingFacts
<1>4. /\ Works /\ Settle(g) /\ calls' = Append(Front(before), next) /\ at' = "copying" /\ target' = target
      /\ Len(calls) > 1
  BY DEF DuplicateReturns
<1>5. /\ before \in Seq(CopyCalls) /\ Len(calls) \in Nat /\ Len(before) = Len(calls) - 1
      /\ call = calls[Len(calls)] /\ Len(calls) \in DOMAIN calls
      /\ \A k \in DOMAIN before : k \in DOMAIN calls /\ k < Len(calls) /\ before[k] = calls[k]
      /\ T = Frames(before) \cup {i} /\ Distinct(before) /\ i \notin Frames(before)
  BY <1>2, FramesOfFewer
<1> HIDE DEF before, call
<1>6. before # <<>>
  BY <1>4, <1>5
<1>7. /\ Front(before) \in Seq(CopyCalls) /\ Len(before) \in Nat \ {0} /\ Len(Front(before)) = Len(before) - 1
      /\ caller = before[Len(before)] /\ Len(before) \in DOMAIN before /\ caller \in CopyCalls
      /\ \A k \in DOMAIN Front(before) : k \in DOMAIN before /\ k < Len(before) /\ Front(before)[k] = before[k]
      /\ Frames(before) = Frames(Front(before)) \cup {a} /\ Distinct(Front(before)) /\ a \notin Frames(Front(before))
  BY <1>5, <1>6, FramesOfFewer
<1> HIDE DEF caller
<1>8. caller.current = LastOf(W, a) /\ caller.source \in trees.live
  BY <1>3, <1>5, <1>7
<1>9. i \in T /\ a \in T /\ a # i /\ call.current = LastOf(W, i) /\ T \ {i} = Frames(before)
      /\ i \in W.live /\ a \in W.live
  BY <1>2, <1>3, <1>5, <1>7
<1> HIDE DEF T
<1>10. Goes(h, W) /\ Work(h, W, T, {}, T \ {i})
  BY <1>1, <1>2, <1>9, ClosedWork
<1> HIDE DEF h
<1>11. a \notin Forest!Tree(W, i)
  <2>1. IsForest(W, T)
    BY <1>10, WorkFacts DEF Goes
  <2> QED
    BY <1>9, <2>1, NoOtherEntry
<1>12. Appended(g, W, T, T \ {i}, a, i)
  BY <1>8, <1>9, <1>10, <1>11, LongerWork
<1> HIDE DEF g
<1>13. PICK U : /\ Goes(g, U) /\ Work(g, U, T \ {i}, {}, T \ {i}) /\ LastOf(U, a) = i
                /\ \A x \in Items : x # a => U.kids[x] = W.kids[x]
  BY <1>12 DEF Appended
<1>14. /\ next \in CopyCalls /\ next.item = a /\ next.current = i
       /\ next.source \in trees.live \cup {NULL}
  <2>1. next = [caller EXCEPT !.current = i, !.source = Item(caller.source).next]
    BY <1>7 DEF CopyCalls
  <2>2. Item(caller.source).next \in trees.live \cup {NULL}
    BY <1>3, <1>8
  <2> QED
    BY <1>2, <1>7, <1>9, <2>1, <2>2, ItemsFacts DEF CopyCalls
<1> HIDE DEF next
<1>15. Duplicating(g, trees, U, calls')
  <2> DEFINE rest == Front(before)
  <2>1. /\ calls' \in Seq(CopyCalls) /\ Len(rest) \in Nat /\ Len(calls') = Len(rest) + 1
        /\ \A k \in DOMAIN rest : k \in 1 .. Len(rest) /\ calls'[k] = rest[k]
        /\ calls'[Len(rest) + 1] = next
        /\ \A k \in DOMAIN calls' : k \in DOMAIN rest \/ k = Len(rest) + 1
        /\ Frames(calls') = Frames(rest) \cup {a} /\ Distinct(calls')
    <3>1. next.item \notin Frames(rest)
      BY <1>7, <1>14
    <3> QED
      BY <1>4, <1>7, <1>14, <3>1, FramesOfMore
  <2>2. \A k \in DOMAIN rest : rest[k].item \in Frames(rest) /\ rest[k] = calls[k] /\ k < Len(calls) /\ k \in DOMAIN calls
    <3>1. \A k \in DOMAIN rest : rest[k].item \in Frames(rest)
      BY DEF Frames
    <3> QED
      BY <1>5, <1>7, <3>1
  <2>3. \A x \in Frames(rest) : LastOf(U, x) = LastOf(W, x)
    <3>1. Frames(rest) \subseteq Items /\ a \notin Frames(rest)
      BY <1>2, <1>5, <1>7, <1>9
    <3> QED
      BY <1>13, <3>1 DEF LastOf
  <2> HIDE DEF rest
  <2>4. ASSUME NEW k \in DOMAIN calls'
        PROVE  /\ calls'[k].current = LastOf(U, calls'[k].item)
               /\ calls'[k].source \in trees.live \cup {NULL}
               /\ k < Len(calls') => calls'[k].source # NULL
    <3>1. CASE k = Len(rest) + 1
      BY <1>13, <1>14, <2>1, <3>1
    <3>2. CASE k \in DOMAIN rest
      BY <1>3, <2>1, <2>2, <2>3, <3>2
    <3> QED
      BY <2>1, <3>1, <3>2
  <2>5. Work(g, U, Frames(calls'), {}, Frames(calls'))
    BY <1>7, <1>9, <1>13, <2>1 DEF rest
  <2>6. calls' # <<>>
    BY <2>1
  <2> QED
    BY <2>1, <2>4, <2>5, <2>6 DEF Duplicating, CopyCalls
<1>16. InCall(g, trees, U, calls', target', at')
  BY <1>1, <1>4, <1>15 DEF InCall
<1> QED
  BY <1>4, <1>13, <1>16, CallGoes DEF Works

-----------------------------------------------------------------------------
(* The values that the parser reads *)

\* What an item owns depends on these fields only.
LEMMA OwnOf ==
  ASSUME NEW x, NEW y, y.name = x.name, y.const = x.const, y.string = x.string, y.ref = x.ref
  PROVE  Own(y) = Own(x)
BY DEF Own, OwnName, OwnString

LEMMA TypeAlike ==
  ASSUME NEW h, Sane(h), NEW i \in Items, h.item[i].type # "free", NEW v \in Types
  PROVE  Alike(Set(h, i, "type", v), h)
<1> DEFINE x == h.item[i]
           y == [x EXCEPT !.type = v]
           s == h.strings
           m == h.mem
<1>1. h \in HeapT /\ h = Put(h, i, x, s, m) /\ x \in ItemT /\ s \in Int /\ m \in Nat
  BY PutItself, HeapFacts DEF Sane
<1>2. v \in Types \cup {"free", "new"} /\ v # "free"
  BY DEF Types
<1>3. /\ y \in ItemT /\ y.type = v /\ y.next = x.next /\ y.prev = x.prev /\ y.child = x.child
      /\ y.ref = x.ref /\ y.of = x.of /\ y.name = x.name /\ y.const = x.const /\ y.string = x.string
  <2> HIDE DEF x
  <2> QED
    BY <1>1, <1>2 DEF ItemT
<1>4. Set(Put(h, i, x, s, m), i, "type", v) = Put(h, i, y, s, m)
  <2> HIDE DEF x, s, m
  <2> QED
    BY <1>1, <1>2, PutType
<1>5. s = s - Own(x) + Own(y)
  <2>1. Own(y) = Own(x) /\ Own(x) \in Int
    <3>1. Own(y) = Own(x)
      BY <1>3, OwnOf
    <3>2. Own(x) \in Int
      BY DEF Own, One
    <3> QED
      BY <3>1, <3>2
  <2> HIDE DEF x, y, s
  <2> QED
    BY <1>1, <2>1
<1>6. Alike(Put(h, i, y, s, m), h)
  <2>1. s = h.strings - Own(h.item[i]) + Own(y)
    BY <1>5
  <2>2. /\ y.type # "free" /\ y.next = h.item[i].next /\ y.prev = h.item[i].prev
        /\ y.child = h.item[i].child /\ y.ref = h.item[i].ref /\ y.of = h.item[i].of
    BY <1>2, <1>3
  <2> HIDE DEF x, y, s, m
  <2> QED
    BY <1>1, <1>3, <2>1, <2>2, AlikePut
<1>7. Set(h, i, "type", v) = Put(h, i, y, s, m)
  <2> HIDE DEF x, y, s, m
  <2> QED
    BY <1>1, <1>4
<1> QED
  BY <1>6, <1>7

\* An allocated string is that of the item or its name.
LEMMA TextAllocated ==
  ASSUME NEW h, Sane(h), NEW i \in Items, cJSON_strdup(h).r
  PROVE  \E m \in Nat : cJSON_strdup(h).heap = Put(h, i, h.item[i], h.strings + 1, m)
<1> DEFINE x == h.item[i]
           s == h.strings
           m == h.mem
<1>1. h \in HeapT /\ h = Put(h, i, x, s, m) /\ x \in ItemT /\ s \in Int /\ m \in Nat
  BY PutItself, HeapFacts DEF Sane
<1>2. cJSON_strdup(Put(h, i, x, s, m)).r =>
        m # 0 /\ cJSON_strdup(Put(h, i, x, s, m)).heap = Put(h, i, x, s + 1, m - 1)
  <2> HIDE DEF s, m, x
  <2> QED
    BY <1>1, StringAllocated
<1>3. m # 0 /\ cJSON_strdup(h).heap = Put(h, i, x, s + 1, m - 1)
  BY <1>1, <1>2
<1>4. m - 1 \in Nat
  BY <1>1, <1>3
<1> QED
  BY <1>3, <1>4

LEMMA StringGiven ==
  ASSUME NEW h, Sane(h), NEW i \in Items, h.item[i].type # "free", h.item[i].string = FALSE, ~h.item[i].ref,
         cJSON_strdup(h).r
  PROVE  Alike(Set(Set(cJSON_strdup(h).heap, i, "type", "string"), i, "string", TRUE), h)
<1>1. PICK m \in Nat : cJSON_strdup(h).heap = Put(h, i, h.item[i], h.strings + 1, m)
  BY TextAllocated
<1> DEFINE x == h.item[i]
           s == h.strings + 1
           z == [x EXCEPT !.type = "string"]
           y == [z EXCEPT !.string = TRUE]
<1>2. h \in HeapT /\ x \in ItemT /\ h.strings \in Int /\ s \in Int
  BY PutItself, HeapFacts DEF Sane
<1>3. "string" \in Types \cup {"free", "new"}
  BY DEF Types
<1>4. z \in ItemT /\ Set(Put(h, i, x, s, m), i, "type", "string") = Put(h, i, z, s, m)
  <2>1. \A v \in Types \cup {"free", "new"} :
          [x EXCEPT !.type = v] \in ItemT /\ Set(Put(h, i, x, s, m), i, "type", v) = Put(h, i, [x EXCEPT !.type = v], s, m)
    <3> HIDE DEF x, s
    <3> QED
      BY <1>2, PutType
  <2> QED
    BY <1>3, <2>1
<1>5. y \in ItemT /\ Set(Put(h, i, z, s, m), i, "string", TRUE) = Put(h, i, y, s, m)
  <2>1. \A v \in BOOLEAN :
          [z EXCEPT !.string = v] \in ItemT /\ Set(Put(h, i, z, s, m), i, "string", v) = Put(h, i, [z EXCEPT !.string = v], s, m)
    <3> HIDE DEF z, s
    <3> QED
      BY <1>2, <1>4, PutString
  <2> QED
    BY <2>1
<1>6. /\ y.type = "string" /\ y.string = TRUE /\ y.next = x.next /\ y.prev = x.prev /\ y.child = x.child
      /\ y.ref = x.ref /\ y.of = x.of /\ y.name = x.name /\ y.const = x.const
  <2> HIDE DEF x
  <2> QED
    BY <1>2 DEF ItemT
<1>7. s = h.strings - Own(x) + Own(y)
  <2>1. Own(x) = One(OwnName(x)) + 0 /\ Own(y) = One(OwnName(x)) + 1 /\ One(OwnName(x)) \in Int
    <3>1. x.string = FALSE /\ ~x.ref
      OBVIOUS
    <3> HIDE DEF x, y
    <3>2. OwnName(y) <=> OwnName(x)
      BY <1>6 DEF OwnName
    <3>3. ~OwnString(x) /\ OwnString(y)
      BY <1>6, <3>1 DEF OwnString
    <3> QED
      BY <3>2, <3>3 DEF Own, One
  <2> HIDE DEF x, y
  <2> QED
    BY <1>2, <2>1
<1>8. Alike(Put(h, i, y, s, m), h)
  <2>1. s = h.strings - Own(h.item[i]) + Own(y)
    BY <1>7
  <2>2. /\ y.type # "free" /\ y.next = h.item[i].next /\ y.prev = h.item[i].prev
        /\ y.child = h.item[i].child /\ y.ref = h.item[i].ref /\ y.of = h.item[i].of
    BY <1>6
  <2> HIDE DEF x, y, s
  <2> QED
    BY <1>2, <1>5, <2>1, <2>2, AlikePut
<1> HIDE DEF x, y, z, s
<1>9. Set(Set(cJSON_strdup(h).heap, i, "type", "string"), i, "string", TRUE) = Put(h, i, y, s, m)
  <2>1. cJSON_strdup(h).heap = Put(h, i, x, s, m)
    BY <1>1 DEF x, s
  <2> QED
    BY <1>4, <1>5, <2>1
<1> QED
  BY <1>8, <1>9

LEMMA NameGiven ==
  ASSUME NEW h, Sane(h), NEW i \in Items, h.item[i].type # "free", h.item[i].name = NoName,
         h.item[i].const = FALSE, cJSON_strdup(h).r, NEW name \in Names
  PROVE  LET g == Set(cJSON_strdup(h).heap, i, "name", name) IN
         Alike(g, h) /\ g.item[i].string = h.item[i].string
<1>1. PICK m \in Nat : cJSON_strdup(h).heap = Put(h, i, h.item[i], h.strings + 1, m)
  BY TextAllocated
<1> DEFINE x == h.item[i]
           s == h.strings + 1
           y == [x EXCEPT !.name = name]
<1>2. h \in HeapT /\ x \in ItemT /\ h.strings \in Int /\ s \in Int
  BY PutItself, HeapFacts DEF Sane
<1>3. name \in Names \cup {NoName} /\ name # NoName
  BY HeapAssumption DEF NoName
<1>4. y \in ItemT /\ Set(Put(h, i, x, s, m), i, "name", name) = Put(h, i, y, s, m)
  <2> HIDE DEF x, s
  <2> QED
    BY <1>2, <1>3, PutName
<1>5. /\ y.name = name /\ y.type = x.type /\ y.string = x.string /\ y.next = x.next /\ y.prev = x.prev
      /\ y.child = x.child /\ y.ref = x.ref /\ y.of = x.of /\ y.const = x.const
  <2> HIDE DEF x
  <2> QED
    BY <1>2 DEF ItemT
<1>6. s = h.strings - Own(x) + Own(y)
  <2>1. Own(x) = 0 + One(OwnString(x)) /\ Own(y) = 1 + One(OwnString(x)) /\ One(OwnString(x)) \in Int
    <3>1. x.name = NoName /\ x.const = FALSE
      OBVIOUS
    <3> HIDE DEF x, y
    <3>2. OwnString(y) <=> OwnString(x)
      BY <1>5 DEF OwnString
    <3>3. ~OwnName(x) /\ OwnName(y)
      BY <1>3, <1>5, <3>1 DEF OwnName
    <3> QED
      BY <3>2, <3>3 DEF Own, One
  <2> HIDE DEF x, y
  <2> QED
    BY <1>2, <2>1
<1>7. Alike(Put(h, i, y, s, m), h)
  <2>1. s = h.strings - Own(h.item[i]) + Own(y)
    BY <1>6
  <2>2. /\ y.type # "free" /\ y.next = h.item[i].next /\ y.prev = h.item[i].prev
        /\ y.child = h.item[i].child /\ y.ref = h.item[i].ref /\ y.of = h.item[i].of
    BY <1>5
  <2> HIDE DEF x, y, s
  <2> QED
    BY <1>2, <1>4, <2>1, <2>2, AlikePut
<1>8. Put(h, i, y, s, m).item[i] = y
  <2> HIDE DEF x, y, s
  <2> QED
    BY <1>2, <1>4, PutFacts
<1>9. y.string = h.item[i].string
  BY <1>5
<1> HIDE DEF x, y, s
<1>10. Set(cJSON_strdup(h).heap, i, "name", name) = Put(h, i, y, s, m)
  <2>1. cJSON_strdup(h).heap = Put(h, i, x, s, m)
    BY <1>1 DEF x, s
  <2> QED
    BY <1>4, <2>1
<1> QED
  BY <1>7, <1>8, <1>9, <1>10

-----------------------------------------------------------------------------
(* The parser *)

\* One that changes no link
LEMMA AlikeGoes ==
  ASSUME NEW h, NEW W, Goes(h, W), NEW g, Alike(g, h)
  PROVE  Goes(g, W) /\ \A T, C, P : Work(h, W, T, C, P) => Work(g, W, T, C, P)
<1>1. Sane(h) /\ Caller(h, trees, roots) /\ Parted(h, trees, lost, W) /\ lost \subseteq Items
  BY DEF Goes
<1>2. /\ Live(g) = Live(h) /\ Caller(g, trees, roots) /\ Sane(g)
      /\ \A F, T, C, P : Holds(h, F, T, C, P) => Holds(g, F, T, C, P)
  BY <1>1, AlikeKeeps DEF Alike
<1>3. Goes(g, W)
  BY <1>1, <1>2 DEF Goes, Parted
<1>4. ASSUME NEW T, NEW C, NEW P, Work(h, W, T, C, P)
      PROVE  Work(g, W, T, C, P)
  <2>1. W.live \subseteq Items
    BY <1>1, <1>4, WorkFacts
  <2> QED
    BY <1>2, <1>4, <2>1 DEF Work, Alike
<1> QED
  BY <1>3, <1>4

Reads == at \in {"value", "name", "first", "after", "end"}
ReadCalls == [item : Items, type : {"array", "object"}, head : 0 .. Size, current : 0 .. Size]

LEMMA ParsingNow ==
  ASSUME IInv, Reads
  PROVE  \E W : Goes(heap, W) /\ Parsing(heap, W, calls, target, at) /\ heap \in HeapT /\ heap.mem = 0
<1>1. PICK W : /\ Goes(heap, W) /\ InCall(heap, trees, W, calls, target, at)
               /\ heap \in HeapT /\ heap.mem = 0
  BY CallRuns
<1>2. Parsing(heap, W, calls, target, at)
  BY <1>1 DEF InCall, Reads
<1> QED
  BY <1>1, <1>2

LEMMA ParsingFacts ==
  ASSUME NEW W, Goes(heap, W), Parsing(heap, W, calls, target, at)
  PROVE  /\ calls \in Seq(ReadCalls) /\ Distinct(calls) /\ Frames(calls) \subseteq W.live
         /\ target \in W.live /\ target \in Items /\ W.live \subseteq Items /\ target \in 0 .. Size
         /\ Work(heap, W, {Root(calls, target)}, Frames(calls), Frames(calls))
         /\ Root(calls, target) \in W.live /\ IsForest(W, {Root(calls, target)})
         /\ \A k \in DOMAIN calls : /\ calls[k].head = FirstOf(W, calls[k].item)
                                    /\ calls[k].current = LastOf(W, calls[k].item)
         /\ \A x \in W.live : heap.item[x].type # "free" /\ ~heap.item[x].ref
<1>1. /\ calls \in Seq(ReadCalls) /\ Distinct(calls) /\ Frames(calls) \subseteq W.live
      /\ target \in W.live
      /\ Work(heap, W, {Root(calls, target)}, Frames(calls), Frames(calls))
      /\ \A k \in DOMAIN calls : /\ calls[k].head = FirstOf(W, calls[k].item)
                                 /\ calls[k].current = LastOf(W, calls[k].item)
  BY DEF Parsing, ReadCalls
<1>2. /\ W.live \subseteq Items /\ {Root(calls, target)} \subseteq W.live
      /\ IsForest(W, {Root(calls, target)})
      /\ \A x \in W.live : heap.item[x].type # "free" /\ ~heap.item[x].ref
  BY <1>1, WorkFacts DEF Goes
<1>3. target \in Items /\ target \in 0 .. Size
  BY <1>1, <1>2, ItemsFacts
<1> QED
  BY <1>1, <1>2, <1>3

LEMMA ParseBeginsStep ==
  ASSUME IInv, ParseBegins
  PROVE  IInv' /\ [Forest!Step(trees, trees')]_trees
<1> DEFINE new == cJSON_New_Item(Plenty)
           g == new.heap
           r == new.r
           V == Beside(Nothing, Single(r))
<1>1. /\ Works /\ at = "none" /\ r # NULL /\ Settle(g) /\ target' = r /\ at' = "value" /\ calls' = calls
  BY DEF ParseBegins
<1>2. Idle /\ Ready(Plenty) /\ Sane(Plenty)
  BY <1>1, IdleNow, PlentyReady
<1>3. IsNew(new, Plenty, "new")
  BY <1>2, ItemAllocated
<1>4. MadeItem(new, Plenty)
  <2>1. "new" \in Types \cup {"new"}
    OBVIOUS
  <2> HIDE DEF new
  <2> QED
    BY <1>2, <1>3, <2>1, IsNewMade
<1> HIDE DEF new
<1>5. Sane(g) /\ Fresh(g, Plenty, r) /\ ~g.item[r].ref
  BY <1>1, <1>4 DEF MadeItem, Made
<1>6. g.item[r].string = FALSE
  <2> DEFINE x == [Free EXCEPT !.type = "new"]
             m == Plenty.mem - 1
  <2>1. r \in Items /\ Plenty.mem # 0 /\ g = Put(Plenty, r, x, Plenty.strings, m)
    BY <1>1, <1>3 DEF IsNew
  <2>2. x \in ItemT /\ x.string = FALSE
    BY ItemOfType
  <2>3. Plenty \in HeapT /\ Plenty.strings \in Int /\ m \in Nat
    BY <1>2, <2>1, HeapFacts DEF Sane
  <2> HIDE DEF x, m
  <2>4. Put(Plenty, r, x, Plenty.strings, m).item[r] = x
    BY <2>1, <2>2, <2>3, PutFacts
  <2> QED
    BY <2>1, <2>2, <2>4
<1>7. Comes(g, Nothing, {}, r, {}, {})
  BY <1>2, <1>5, FirstWork
<1>8. /\ Goes(g, V) /\ Work(g, V, {} \cup {r}, {}, {}) /\ r \in Items /\ V.kids[r] = <<>>
      /\ V.live = Nothing.live \cup {r}
  BY <1>7 DEF Comes
<1> HIDE DEF V
<1>9. Parsing(g, V, calls', target', at')
  <2>1. calls' = <<>> /\ Frames(<<>>) = {} /\ Distinct(<<>>) /\ \A S : <<>> \in Seq(S)
    BY <1>1, <1>2 DEF Idle, Frames, Distinct
  <2>2. r \in V.live /\ {} \cup {r} = {r} /\ Root(<<>>, r) = r
    BY <1>8 DEF Root
  <2>3. Unread(g, V, <<>>, r, "value")
    BY <1>6, <1>8, <2>1 DEF Unread
  <2>4. Work(g, V, {Root(<<>>, r)}, Frames(<<>>), Frames(<<>>))
    BY <1>8, <2>1, <2>2
  <2>5. \A k \in DOMAIN <<>> : FALSE
    OBVIOUS
  <2>6. Parsing(g, V, <<>>, r, "value")
    BY <2>1, <2>2, <2>3, <2>4, <2>5 DEF Parsing
  <2> QED
    BY <1>1, <2>1, <2>6
<1>10. InCall(g, trees, V, calls', target', at')
  BY <1>1, <1>9 DEF InCall
<1> QED
  BY <1>1, <1>8, <1>10, CallGoes DEF Works

\* After a value
LEMMA ValueReadStep ==
  ASSUME NEW W, Goes(heap, W), Parsing(heap, W, calls, target, at), NEW g, Alike(g, heap), Settle(g),
         Works, ValueRead, calls' = calls, target' = target
  PROVE  IInv' /\ [Forest!Step(trees, trees')]_trees
<1>1. Goes(g, W) /\ \A T, C, P : Work(heap, W, T, C, P) => Work(g, W, T, C, P)
  BY AlikeGoes
<1>2. at' \in {"end", "after"} /\ (at' = "end" <=> calls = <<>>)
  BY DEF ValueRead
<1>3. Parsing(g, W, calls', target', at')
  BY <1>1, <1>2 DEF Parsing
<1>4. InCall(g, trees, W, calls', target', at')
  BY <1>2, <1>3 DEF InCall
<1> QED
  BY <1>1, <1>4, CallGoes DEF Works

LEMMA ReadScalarStep ==
  ASSUME IInv, ReadScalar
  PROVE  IInv' /\ [Forest!Step(trees, trees')]_trees
<1>1. PICK W : Goes(heap, W) /\ Parsing(heap, W, calls, target, at)
  BY ParsingNow DEF ReadScalar, Reads
<1>2. target \in Items /\ heap.item[target].type # "free"
  BY <1>1, ParsingFacts
<1>3. Alike(Set(heap, target, "type", "scalar"), heap)
  <2>1. \A v \in Types : Alike(Set(heap, target, "type", v), heap)
    BY <1>1, <1>2, TypeAlike DEF Goes
  <2> QED
    BY <2>1 DEF Types
<1> QED
  BY <1>1, <1>3, ValueReadStep DEF ReadScalar

\* What is read gets memory.
LEMMA PlentyAlike ==
  ASSUME NEW W, Goes(heap, W)
  PROVE  Sane(Plenty) /\ Alike(Plenty, heap) /\ Plenty.item = heap.item
<1>1. Sane(heap) /\ heap \in HeapT
  BY DEF Goes, Sane
<1>2. Alike(Plenty, heap) /\ Sane(Plenty)
  <2>1. \A m \in Nat : Alike([heap EXCEPT !.mem = m], heap) /\ Sane([heap EXCEPT !.mem = m])
    BY <1>1, AlikeSettled
  <2> QED
    BY <2>1 DEF Plenty
<1>3. Plenty.item = heap.item
  BY <1>1 DEF Plenty, HeapT
<1> QED
  BY <1>2, <1>3

LEMMA ReadStringStep ==
  ASSUME IInv, ReadString
  PROVE  IInv' /\ [Forest!Step(trees, trees')]_trees
<1>1. PICK W : Goes(heap, W) /\ Parsing(heap, W, calls, target, at)
  BY ParsingNow DEF ReadString, Reads
<1> DEFINE copy == cJSON_strdup(Plenty)
           g == Set(Set(copy.heap, target, "type", "string"), target, "string", TRUE)
<1>2. Works /\ at = "value" /\ copy.r /\ Settle(g) /\ ValueRead /\ calls' = calls /\ target' = target
  BY DEF ReadString
<1>3. target \in Items /\ heap.item[target].type # "free" /\ ~heap.item[target].ref
  BY <1>1, ParsingFacts
<1>4. heap.item[target].string = FALSE
  BY <1>1, <1>2 DEF Parsing, Unread
<1>5. Sane(Plenty) /\ Alike(Plenty, heap) /\ Plenty.item = heap.item
  BY <1>1, PlentyAlike
<1>6. Alike(g, Plenty)
  BY <1>2, <1>3, <1>4, <1>5, StringGiven
<1> HIDE DEF g, copy
<1>7. Alike(g, heap)
  BY <1>5, <1>6, AlikeAgain
<1> QED
  BY <1>1, <1>2, <1>7, ValueReadStep

LEMMA ReadNameStep ==
  ASSUME IInv, ReadName
  PROVE  IInv' /\ [Forest!Step(trees, trees')]_trees
<1>1. PICK W : Goes(heap, W) /\ Parsing(heap, W, calls, target, at)
  BY ParsingNow DEF ReadName, Reads
<1> DEFINE copy == cJSON_strdup(Plenty)
<1>2. PICK name \in Names :
        /\ Works /\ at = "name" /\ copy.r /\ Settle(Set(copy.heap, target, "name", name))
        /\ at' = "value" /\ calls' = calls /\ target' = target
  BY DEF ReadName
<1> DEFINE g == Set(copy.heap, target, "name", name)
<1>3. target \in Items /\ heap.item[target].type # "free" /\ ~heap.item[target].ref
  BY <1>1, ParsingFacts
<1>4. Unread(heap, W, calls, target, at)
  BY <1>1, <1>2 DEF Parsing
<1>5. /\ W.kids[target] = <<>> /\ target \notin Frames(calls) /\ heap.item[target].string = FALSE
      /\ heap.item[target].name = NoName /\ heap.item[target].const = FALSE
  BY <1>2, <1>4 DEF Unread
<1>6. Sane(Plenty) /\ Alike(Plenty, heap) /\ Plenty.item = heap.item
  BY <1>1, PlentyAlike
<1>7. Alike(g, Plenty) /\ g.item[target].string = Plenty.item[target].string
  <2>1. name \in Names /\ cJSON_strdup(Plenty).r /\ target \in Items /\ Sane(Plenty)
    BY <1>2, <1>3, <1>6
  <2>2. /\ Plenty.item[target].type # "free" /\ Plenty.item[target].name = NoName
        /\ Plenty.item[target].const = FALSE
    BY <1>3, <1>5, <1>6
  <2> QED
    BY <2>1, <2>2, NameGiven
<1>8. Works /\ Settle(g)
  BY <1>2
<1> HIDE DEF g, copy
<1>9. Alike(g, heap)
  BY <1>6, <1>7, AlikeAgain
<1>10. Goes(g, W) /\ \A T, C, P : Work(heap, W, T, C, P) => Work(g, W, T, C, P)
  BY <1>1, <1>9, AlikeGoes
<1>11. Parsing(g, W, calls', target', at')
  <2>1. Unread(g, W, calls, target, "value")
    BY <1>5, <1>6, <1>7 DEF Unread
  <2> QED
    BY <1>1, <1>2, <1>10, <2>1 DEF Parsing
<1>12. InCall(g, trees, W, calls', target', at')
  BY <1>2, <1>11 DEF InCall
<1> QED
  BY <1>8, <1>10, <1>12, CallGoes DEF Works

LEMMA ParseReturnsStep ==
  ASSUME IInv, ParseReturns
  PROVE  IInv' /\ [Forest!Step(trees, trees')]_trees
<1>1. PICK W : Goes(heap, W) /\ Parsing(heap, W, calls, target, at) /\ heap.mem = 0
  BY ParsingNow DEF ParseReturns, Reads
<1>2. /\ at = "end" /\ at' = "none" /\ heap' = heap /\ calls' = calls /\ Gained(target) /\ target' = NULL
  BY DEF ParseReturns
<1>3. calls = <<>>
  BY <1>1, <1>2 DEF Parsing
<1>4. Frames(<<>>) = {} /\ Root(<<>>, target) = target
  BY DEF Frames, Root
<1>5. Work(heap, W, {target}, {}, {})
  <2>1. Work(heap, W, {Root(calls, target)}, Frames(calls), Frames(calls))
    BY <1>1, ParsingFacts
  <2> QED
    BY <1>3, <1>4, <2>1
<1>6. target' \in 0 .. Size /\ calls' = <<>> /\ at' = "none"
  BY <1>2, <1>3, ItemsFacts
<1> QED
  BY <1>1, <1>2, <1>5, <1>6, CallReturns

\* Nothing has been allocated or changed.
LEMMA SettledAsIs ==
  ASSUME NEW W, Goes(heap, W), heap.mem = 0, heap' = heap, roots' = roots, trees' = trees
  PROVE  Settle(heap)
<1>1. Sane(heap) /\ heap \in HeapT /\ Caller(heap, trees, roots)
  BY DEF Goes, Sane
<1>2. [heap EXCEPT !.mem = 0] = heap
  BY <1>1 DEF HeapT
<1>3. Trees(heap, roots) = trees
  BY <1>1, TreesAreForest DEF Caller
<1>4. Trees(heap', roots') = trees'
  BY <1>3
<1> QED
  BY <1>2, <1>4 DEF Settle, Noted

LEMMA OpensStep ==
  ASSUME IInv, NEW type \in {"array", "object"}, Open(type)
  PROVE  IInv' /\ [Forest!Step(trees, trees')]_trees
<1>1. PICK W : Goes(heap, W) /\ Parsing(heap, W, calls, target, at) /\ heap.mem = 0
  BY ParsingNow DEF Open, Reads
<1> DEFINE e == [item |-> target, type |-> type, head |-> NULL, current |-> NULL]
           T == Frames(calls)
           root == Root(calls, target)
<1>2. /\ Works /\ at = "value" /\ calls' = Append(calls, e) /\ at' = "first"
      /\ heap' = heap /\ target' = target /\ trees' = trees
  BY DEF Open
<1>3. /\ calls \in Seq(ReadCalls) /\ Distinct(calls) /\ T \subseteq W.live
      /\ target \in W.live /\ target \in Items
      /\ Work(heap, W, {root}, T, T)
      /\ \A k \in DOMAIN calls : /\ calls[k].head = FirstOf(W, calls[k].item)
                                 /\ calls[k].current = LastOf(W, calls[k].item)
  BY <1>1, ParsingFacts
<1>4. W.kids[target] = <<>> /\ target \notin T
  BY <1>1, <1>2 DEF Parsing, Unread
<1>5. e \in ReadCalls /\ e.item = target /\ e.head = NULL /\ e.current = NULL
  BY <1>3, ItemsFacts DEF ReadCalls
<1> HIDE DEF e
<1>6. /\ calls' \in Seq(ReadCalls) /\ Len(calls) \in Nat /\ Len(calls') = Len(calls) + 1
      /\ \A k \in DOMAIN calls : k \in 1 .. Len(calls) /\ calls'[k] = calls[k]
      /\ calls'[Len(calls) + 1] = e
      /\ \A k \in DOMAIN calls' : k \in DOMAIN calls \/ k = Len(calls) + 1
      /\ Frames(calls') = T \cup {target} /\ Distinct(calls')
  BY <1>2, <1>3, <1>4, <1>5, FramesOfMore
<1>7. Root(calls', target) = root
  <2>1. calls' # <<>>
    BY <1>6
  <2>2. CASE calls = <<>>
    <3>1. calls'[1] = e
      BY <1>6, <2>2
    <3> QED
      BY <1>5, <2>1, <2>2, <3>1 DEF Root
  <2>3. CASE calls # <<>>
    <3>1. 1 \in DOMAIN calls
      BY <1>3, <2>3
    <3> QED
      BY <1>6, <2>1, <2>3, <3>1 DEF Root
  <2> QED
    BY <2>2, <2>3
<1>8. Work(heap, W, {root}, T \cup {target}, T \cup {target})
  <2>1. \A a \in W.live : W.kids[a] # <<>> => (a \in T \cup {target} <=> a \in T)
    BY <1>4
  <2>2. Holds(heap, W, {root}, T, T)
    BY <1>3 DEF Work
  <2> HIDE DEF T, root
  <2>3. Holds(heap, W, {root}, T \cup {target}, T \cup {target})
    BY <2>1, <2>2, HoldsAgree
  <2> QED
    BY <1>3, <2>3 DEF Work
<1>9. \A k \in DOMAIN calls' : /\ calls'[k].head = FirstOf(W, calls'[k].item)
                               /\ calls'[k].current = LastOf(W, calls'[k].item)
  <2>1. FirstOf(W, target) = NULL /\ LastOf(W, target) = NULL
    BY <1>4 DEF FirstOf, LastOf
  <2> QED
    BY <1>3, <1>5, <1>6, <2>1
<1>10. Parsing(heap, W, calls', target', at')
  <2>1. calls' # <<>> /\ Frames(calls') \subseteq W.live
    BY <1>3, <1>6
  <2>2. Work(heap, W, {Root(calls', target)}, Frames(calls'), Frames(calls'))
    BY <1>6, <1>7, <1>8
  <2> HIDE DEF T, root
  <2> QED
    BY <1>2, <1>3, <1>6, <1>9, <2>1, <2>2 DEF Parsing, ReadCalls
<1>11. InCall(heap, trees, W, calls', target', at')
  BY <1>2, <1>10 DEF InCall
<1>12. Settle(heap)
  BY <1>1, <1>2, SettledAsIs DEF Works
<1> QED
  BY <1>1, <1>2, <1>11, <1>12, CallGoes DEF Works

LEMMA ParseFailsStep ==
  ASSUME IInv, ParseFails
  PROVE  IInv' /\ [Forest!Step(trees, trees')]_trees
<1> DEFINE t == IF calls = <<>> THEN target ELSE calls[1].item
           starts == Append(Unwound, t)
           T == Frames(calls)
           n == Len(calls)
<1>1. /\ Works /\ at \notin {"none", "filling", "copying"} /\ Settle(Deletions(heap, starts))
      /\ calls' = <<>> /\ target' = NULL /\ at' = "none"
  BY DEF ParseFails
<1>2. Reads
  <2>1. PICK W : InCall(heap, trees, W, calls, target, at)
    BY DEF IInv
  <2> QED
    BY <1>1, <2>1 DEF InCall, Reads
<1>3. PICK W : Goes(heap, W) /\ Parsing(heap, W, calls, target, at)
  BY <1>2, ParsingNow
<1>4. /\ calls \in Seq(ReadCalls) /\ Distinct(calls) /\ T \subseteq W.live /\ W.live \subseteq Items
      /\ Root(calls, target) \in W.live /\ IsForest(W, {Root(calls, target)})
      /\ Work(heap, W, {Root(calls, target)}, T, T)
      /\ \A k \in DOMAIN calls : calls[k].head = FirstOf(W, calls[k].item)
  BY <1>3, ParsingFacts
<1>5. t = Root(calls, target)
  BY DEF Root
<1>6. n \in Nat /\ DOMAIN calls = 1 .. n
  BY <1>4
<1>7. /\ DOMAIN starts = 1 .. n + 1 /\ starts[n + 1] = t
      /\ \A k \in 1 .. n : starts[k] = FirstOf(W, calls[k].item)
  <2> DEFINE u == Unwound
  <2>1. u = [k \in 1 .. n |-> calls[k].head]
    BY <1>6 DEF Unwound
  <2>2. \A k \in 1 .. n : u[k] = FirstOf(W, calls[k].item) /\ u[k] \in 0 .. Size
    <3> HIDE DEF n
    <3>1. \A k \in 1 .. n : calls[k] \in ReadCalls
      BY <1>4, <1>6
    <3> QED
      BY <1>4, <1>6, <2>1, <3>1 DEF ReadCalls
  <2> HIDE DEF u, n
  <2>3. u \in Seq(0 .. Size) /\ Len(u) = n
    BY <1>6, <2>1, <2>2
  <2>4. t \in 0 .. Size
    BY <1>4, <1>5, ItemsFacts
  <2> HIDE DEF t
  <2>5. /\ DOMAIN Append(u, t) = 1 .. n + 1 /\ Append(u, t)[n + 1] = t
        /\ \A k \in 1 .. n : Append(u, t)[k] = u[k]
    BY <1>6, <2>3, <2>4
  <2> QED
    BY <2>2, <2>5 DEF u
<1> HIDE DEF starts, t, n
<1>8. Starts(W, {t}, T, starts)
  <2>1. /\ \A a \in Items : /\ W.kids[a] # <<>> <=> 1 \in DOMAIN W.kids[a]
                            /\ \A j \in DOMAIN W.kids[a] : W.kids[a][j] \in W.live /\ W.kids[a][j] # t
    BY <1>4, <1>5, KidsFacts
  <2>2. \A k \in 1 .. n : calls[k].item \in T /\ calls[k].item \in W.live /\ calls[k].item \in Items
    BY <1>4, <1>6 DEF Frames
  <2>3. \A k \in 1 .. n : starts[k] # NULL =>
          /\ W.kids[calls[k].item] # <<>> /\ starts[k] = W.kids[calls[k].item][1]
          /\ 1 \in DOMAIN W.kids[calls[k].item]
    BY <1>7, <2>1, <2>2 DEF FirstOf
  <2>4. \A k \in 1 .. n + 1 : k \in 1 .. n \/ k = n + 1
    BY <1>6
  <2>5. \A k \in DOMAIN starts : starts[k] \in W.live \cup {NULL}
    BY <1>4, <1>5, <1>7, <2>1, <2>2, <2>3, <2>4
  <2>6. \A k \in DOMAIN starts : starts[k] # NULL =>
          \/ starts[k] \in {t}
          \/ \E a \in T \cap W.live : W.kids[a] # <<>> /\ starts[k] = W.kids[a][1]
    BY <1>7, <2>2, <2>3, <2>4
  <2>7. \A k, l \in DOMAIN starts : starts[k] = starts[l] /\ starts[k] # NULL => k = l
    <3>1. SUFFICES ASSUME NEW k \in DOMAIN starts, NEW l \in DOMAIN starts,
                          starts[k] = starts[l], starts[k] # NULL
                   PROVE  k = l
      OBVIOUS
    <3>2. CASE k \in 1 .. n /\ l \in 1 .. n
      <4>1. calls[k].item = calls[l].item
        <5>1. /\ calls[k].item \in Items /\ calls[l].item \in Items
              /\ 1 \in DOMAIN W.kids[calls[k].item] /\ 1 \in DOMAIN W.kids[calls[l].item]
              /\ W.kids[calls[k].item][1] = W.kids[calls[l].item][1]
          BY <2>2, <2>3, <3>1, <3>2
        <5>2. \A a, b \in Items : \A j \in DOMAIN W.kids[a], m \in DOMAIN W.kids[b] :
                W.kids[a][j] = W.kids[b][m] => a = b /\ j = m
          BY <1>4 DEF IsForest
        <5> QED
          BY <5>1, <5>2
      <4> QED
        BY <1>4, <1>6, <3>2, <4>1 DEF Distinct
    <3>3. ~(k \in 1 .. n /\ l = n + 1)
      BY <1>7, <2>1, <2>2, <2>3, <3>1
    <3>4. ~(l \in 1 .. n /\ k = n + 1)
      BY <1>7, <2>1, <2>2, <2>3, <3>1
    <3> QED
      BY <1>7, <2>4, <3>1, <3>2, <3>3, <3>4
  <2>8. \A i \in {t} : \E k \in DOMAIN starts : starts[k] = i
    <3>1. n + 1 \in DOMAIN starts
      BY <1>6, <1>7
    <3> QED
      BY <1>7, <3>1
  <2>9. \A a \in T \cap W.live : W.kids[a] # <<>> => \E k \in DOMAIN starts : starts[k] = W.kids[a][1]
    <3>1. SUFFICES ASSUME NEW a \in T, W.kids[a] # <<>>
                   PROVE  \E k \in DOMAIN starts : starts[k] = W.kids[a][1]
      OBVIOUS
    <3>2. PICK k \in 1 .. n : calls[k].item = a
      BY <1>6 DEF Frames
    <3>3. starts[k] = W.kids[a][1] /\ k \in DOMAIN starts
      BY <1>6, <1>7, <3>1, <3>2 DEF FirstOf
    <3> QED
      BY <3>3
  <2> HIDE DEF T
  <2> QED
    BY <2>5, <2>6, <2>7, <2>8, <2>9 DEF Starts
<1>9. Work(heap, W, {t}, T, T)
  BY <1>4, <1>5
<1>10. target' \in 0 .. Size /\ roots' = roots /\ lost' = lost
  BY <1>1, ItemsFacts DEF Works
<1> QED
  BY <1>1, <1>3, <1>8, <1>9, <1>10, CallFails

\* The innermost array or object
LEMMA InnermostCall ==
  ASSUME NEW W, Goes(heap, W), Parsing(heap, W, calls, target, at), at \in {"first", "after"}
  PROVE  /\ calls # <<>> /\ Last(calls) \in ReadCalls /\ Last(calls).item \in W.live
         /\ Last(calls).item \in Items /\ Last(calls).item \in Frames(calls)
         /\ Last(calls).head = FirstOf(W, Last(calls).item)
         /\ Last(calls).current = LastOf(W, Last(calls).item)
         /\ Front(calls) \in Seq(ReadCalls) /\ Distinct(Front(calls))
         /\ Frames(Front(calls)) = Frames(calls) \ {Last(calls).item}
         /\ \A k \in DOMAIN Front(calls) : k \in DOMAIN calls /\ Front(calls)[k] = calls[k]
         /\ Root(calls, target) = calls[1].item
         /\ Front(calls) # <<>> => Front(calls)[1] = calls[1]
         /\ Front(calls) = <<>> => Last(calls) = calls[1]
         /\ Front(calls) = <<>> <=> Len(calls) = 1
<1>1. /\ calls \in Seq(ReadCalls) /\ Distinct(calls) /\ Frames(calls) \subseteq W.live /\ W.live \subseteq Items
      /\ \A k \in DOMAIN calls : /\ calls[k].head = FirstOf(W, calls[k].item)
                                 /\ calls[k].current = LastOf(W, calls[k].item)
  BY ParsingFacts
<1>2. calls # <<>>
  BY DEF Parsing
<1>3. /\ Front(calls) \in Seq(ReadCalls) /\ Len(calls) \in Nat \ {0} /\ Len(Front(calls)) = Len(calls) - 1
      /\ Last(calls) = calls[Len(calls)] /\ Last(calls) \in ReadCalls
      /\ \A k \in DOMAIN Front(calls) : k \in DOMAIN calls /\ k < Len(calls) /\ Front(calls)[k] = calls[k]
      /\ Len(calls) \in DOMAIN calls
      /\ Frames(calls) = Frames(Front(calls)) \cup {Last(calls).item}
      /\ Distinct(Front(calls)) /\ Last(calls).item \notin Frames(Front(calls))
  BY <1>1, <1>2, FramesOfFewer
<1>4. Front(calls) = <<>> <=> Len(calls) = 1
  BY <1>3
<1>5. Front(calls) # <<>> => 1 \in DOMAIN Front(calls)
  BY <1>3
<1>6. Root(calls, target) = calls[1].item
  BY <1>2 DEF Root
<1> HIDE DEF Front, Last
<1>7. Frames(Front(calls)) = Frames(calls) \ {Last(calls).item} /\ Last(calls).item \in Frames(calls)
  BY <1>3
<1> QED
  BY <1>1, <1>2, <1>3, <1>4, <1>5, <1>6, <1>7

LEMMA ClosesStep ==
  ASSUME IInv, NEW type \in {"array", "object"}, Close(type)
  PROVE  IInv' /\ [Forest!Step(trees, trees')]_trees
<1>1. PICK W : Goes(heap, W) /\ Parsing(heap, W, calls, target, at)
  BY ParsingNow DEF Close, Reads
<1> DEFINE call == Last(calls)
           before == Front(calls)
           a == call.item
           s == W.kids[a]
           h == Set(heap, a, "type", "list")
           k == Set(h, a, "child", call.head)
           g == Closed(k, a, call.current)
           T == Frames(calls)
           root == Root(calls, target)
<1>2. /\ Works /\ at \in {"first", "after"} /\ Settle(g) /\ calls' = before /\ target' = a
      /\ at' = IF Len(calls) = 1 THEN "end" ELSE "after"
  BY DEF Close
<1>3. /\ calls # <<>> /\ a \in W.live /\ a \in Items /\ a \in T
      /\ call.head = FirstOf(W, a) /\ call.current = LastOf(W, a)
      /\ before \in Seq(ReadCalls) /\ Distinct(before) /\ Frames(before) = T \ {a}
      /\ \A m \in DOMAIN before : m \in DOMAIN calls /\ before[m] = calls[m]
      /\ root = calls[1].item
      /\ before # <<>> => before[1] = calls[1]
      /\ before = <<>> => call = calls[1]
      /\ before = <<>> <=> Len(calls) = 1
  BY <1>1, <1>2, InnermostCall
<1>4. /\ T \subseteq W.live /\ Work(heap, W, {root}, T, T) /\ IsForest(W, {root})
      /\ \A m \in DOMAIN calls : /\ calls[m].head = FirstOf(W, calls[m].item)
                                 /\ calls[m].current = LastOf(W, calls[m].item)
      /\ heap.item[a].type # "free"
  BY <1>1, <1>3, ParsingFacts
<1> HIDE DEF call, before, T, root
<1>5. Root(before, a) = root
  BY <1>3 DEF Root
<1>6. Alike(h, heap)
  <2>1. \A v \in Types : Alike(Set(heap, a, "type", v), heap)
    BY <1>1, <1>3, <1>4, TypeAlike DEF Goes
  <2> QED
    BY <2>1 DEF Types
<1> HIDE DEF h
<1>7. Goes(h, W) /\ Work(h, W, {root}, T, T)
  BY <1>1, <1>4, <1>6, AlikeGoes
<1>8. /\ Holds(h, W, {root}, T, T) /\ h \in HeapT /\ ~h.item[a].ref
  BY <1>3, <1>7, WorkFacts DEF Goes
<1>9. ListAt(a, s) /\ s \in Seq(Items)
  BY <1>3, <1>4, ListOfForest, KidsFacts, SMTT(30)
<1>10. ChildrenIn(h, a, s, FALSE, FALSE)
  <2>1. ChildrenIn(h, a, s, a \notin T, a \notin T)
    BY <1>3, <1>8, ListOf
  <2> QED
    BY <1>3, <2>1 DEF ChildrenIn, ListIn
<1>11. /\ Relinked(k, h) /\ k \in HeapT
       /\ \A x \in Items : /\ k.item[x].child = IF x = a THEN call.head ELSE h.item[x].child
                           /\ k.item[x].next = h.item[x].next
                           /\ k.item[x].prev = h.item[x].prev
                           /\ x # a => k.item[x] = h.item[x]
  <2>1. call.head \in 0 .. Size
    <3>1. /\ s # <<>> <=> 1 \in DOMAIN s
          /\ \A j \in DOMAIN s : s[j] \in Items
      BY <1>3, <1>4, KidsFacts
    <3> HIDE DEF s
    <3> QED
      BY <1>3, <3>1, ItemsFacts DEF FirstOf, s
  <2> QED
    BY <1>3, <1>8, <2>1, SetChild DEF Relinked
<1> HIDE DEF k
<1>12. ChildrenIn(k, a, s, TRUE, FALSE)
  <2>1. ~k.item[a].ref
    BY <1>3, <1>8, <1>11, RelinkedRef
  <2>2. ListIn(k, s, FALSE)
    <3>1. \A j \in DOMAIN s : s[j] \in Items
      BY <1>9
    <3>2. ListIn(h, s, FALSE)
      BY <1>10 DEF ChildrenIn
    <3> HIDE DEF s
    <3> QED
      BY <1>11, <3>1, <3>2 DEF ListIn
  <2>3. k.item[a].child = IF s = <<>> THEN NULL ELSE s[1]
    BY <1>3, <1>11 DEF FirstOf
  <2> QED
    BY <2>1, <2>2, <2>3 DEF ChildrenIn
<1>13. ListClosed(g, k, a, s)
  <2>1. call.current = IF s = <<>> THEN NULL ELSE s[Len(s)]
    BY <1>3 DEF LastOf
  <2> QED
    BY <1>9, <1>11, <1>12, <2>1, ClosedList
<1> HIDE DEF g
<1>14. ListStep(g, h, a, s, s) /\ ChildrenIn(g, a, s, TRUE, TRUE)
  <2>1. ListStep(g, k, a, s, s) /\ ChildrenIn(g, a, s, TRUE, TRUE)
    BY <1>13 DEF ListClosed
  <2>2. Relinked(g, h)
    BY <1>11, <2>1, RelinkedTwice DEF ListStep
  <2> HIDE DEF s
  <2>3. ListStep(g, h, a, s, s)
    BY <1>11, <2>1, <2>2 DEF ListStep
  <2> QED
    BY <2>1, <2>3
<1>15. ForestStep(g, h, W, a) /\ Holds(g, W, {root}, T \ {a}, T \ {a})
  <2>1. SameBut(T \ {a}, T, a)
    BY DEF SameBut
  <2>2. TRUE = Outside(a, T \ {a})
    BY DEF Outside
  <2>3. W.live = W.live /\ \A b \in Items : b # a => W.kids[b] = W.kids[b]
    OBVIOUS
  <2>4. \A u \in {root} : u \in {root} \/ g.item[u].next = NULL
    OBVIOUS
  <2>5. \A D, read : read \in BOOLEAN /\ read = Outside(a, D) /\ SameBut(D, T, a)
          /\ ChildrenIn(g, a, W.kids[a], read, read)
          => ForestStep(g, h, W, a) /\ Holds(g, W, {root}, D, D)
    BY <1>3, <1>4, <1>8, <1>14, <2>3, <2>4, ForestOfListStepRead
  <2> QED
    BY <1>14, <2>1, <2>2, <2>5
<1>16. Goes(g, W) /\ Work(g, W, {root}, T \ {a}, T \ {a})
  <2>1. W.live = W.live
    OBVIOUS
  <2> QED
    BY <1>7, <1>15, <2>1, StepGoes
<1>17. Parsing(g, W, calls', target', at')
  <2>1. at' \in {"end", "after"} /\ (at' = "end" <=> before = <<>>)
    BY <1>2, <1>3
  <2>2. Work(g, W, {Root(before, a)}, Frames(before), Frames(before))
    BY <1>3, <1>5, <1>16
  <2>3. \A m \in DOMAIN before : /\ before[m].head = FirstOf(W, before[m].item)
                                 /\ before[m].current = LastOf(W, before[m].item)
    BY <1>3, <1>4
  <2>4. Frames(before) \subseteq W.live
    BY <1>3, <1>4
  <2> QED
    BY <1>2, <1>3, <2>1, <2>2, <2>3, <2>4 DEF Parsing, ReadCalls
<1>18. InCall(g, trees, W, calls', target', at')
  BY <1>2, <1>17 DEF InCall
<1> QED
  BY <1>2, <1>16, <1>18, CallGoes DEF Works

\* The item r becomes the last child of a, which is not told of its children yet.
LEMMA ChildRead ==
  ASSUME NEW g \in HeapT, NEW V, NEW T, NEW root, NEW r, IsForest(V, {root} \cup {r}),
         Holds(g, V, {root} \cup {r}, T, T), r # root, NEW a \in V.live, a \in T, ~g.item[a].ref, a \notin Forest!Tree(V, r),
         g.item[r].next = NULL
  PROVE  LET k == IF V.kids[a] = <<>> THEN g ELSE suffix_object(g, LastOf(V, a), r)
             U == Attached(V, a, Len(V.kids[a]) + 1, r)
         IN ForestStep(k, g, V, a) /\ Holds(k, U, {root}, T, T)
<1> DEFINE s == V.kids[a]
           n == Len(s) + 1
           U == Attached(V, a, n, r)
           t == U.kids[a]
           k == IF s = <<>> THEN g ELSE suffix_object(g, LastOf(V, a), r)
<1>1. /\ V \in ForestT /\ a \in Items /\ r \in Items /\ r \in V.live /\ s \in Seq(Items) /\ Len(s) \in Nat
      /\ \A j \in DOMAIN s : s[j] \in Items /\ s[j] \notin {root} \cup {r}
      /\ DOMAIN s = 1 .. Len(s)
  BY KidsFacts
<1>2. n \in 1 .. Len(s) + 1
  BY <1>1
<1>3. ({root} \cup {r}) \ {r} = {root}
  OBVIOUS
<1>4. IsForest(U, {root})
  <2>1. r \in {root} \cup {r}
    OBVIOUS
  <2>2. IsForest(U, ({root} \cup {r}) \ {r})
    <3> HIDE DEF n
    <3> QED
      BY <1>2, <2>1, AttachedIsForest
  <2> HIDE DEF U
  <2> QED
    BY <1>3, <2>2
<1>5. /\ U.live = V.live /\ \A b \in Items : b # a => U.kids[b] = V.kids[b]
      /\ t \in Seq(Items) /\ Len(t) = Len(s) + 1
      /\ \A j \in 1 .. Len(t) : t[j] = IF j < n THEN s[j] ELSE IF j = n THEN r ELSE s[j - 1]
  <2>1. U = Attached(V, a, n, r)
    OBVIOUS
  <2> HIDE DEF U
  <2>2. n \in 1 .. Len(V.kids[a]) + 1
    BY <1>2
  <2> HIDE DEF n
  <2>3. U.live = V.live /\ \A b \in Items : b # a => U.kids[b] = V.kids[b]
    BY <1>1, <2>1, <2>2, AttachedKidsIs
  <2>4. t \in Seq(Items) /\ Len(t) = Len(s) + 1
    BY <1>1, <2>1, <2>2, AttachedKidsIs
  <2>5. \A j \in 1 .. Len(t) : t[j] = IF j < n THEN s[j] ELSE IF j = n THEN r ELSE s[j - 1]
    <3>1. V \in ForestT /\ a \in Items /\ r \in Items
      BY <1>1
    <3>2. ASSUME NEW j \in 1 .. Len(U.kids[a])
          PROVE  U.kids[a][j] = IF j < n THEN V.kids[a][j] ELSE IF j = n THEN r ELSE V.kids[a][j - 1]
      BY <2>1, <2>2, <3>1, AttachedKid
    <3> QED
      BY <3>2
  <2> QED
    BY <2>3, <2>4, <2>5
<1> HIDE DEF U
<1>6. \A j \in 1 .. Len(t) : t[j] = IF j <= Len(s) THEN s[j] ELSE r
  <2>1. SUFFICES ASSUME NEW j \in 1 .. Len(t)
                 PROVE  t[j] = IF j <= Len(s) THEN s[j] ELSE r
    OBVIOUS
  <2>2. j \in Nat /\ (j <= Len(s) \/ j = n)
    BY <1>1, <1>5
  <2> HIDE DEF t, s
  <2> QED
    BY <1>1, <1>5, <2>2
<1>7. ListAt(a, s) /\ ChildrenIn(g, a, s, FALSE, FALSE)
  <2>1. ChildrenIn(g, a, s, a \notin T, a \notin T)
    BY ListOf
  <2> QED
    BY <2>1, ListOfForest DEF ChildrenIn, ListIn
<1>8. r # a /\ ~InList(s, r)
  <2>1. r \in Forest!Tree(V, r)
    BY <1>1, TreeFacts
  <2>2. ~InList(s, r)
    BY <1>1 DEF InList
  <2> QED
    BY <2>1, <2>2
<1>9. ListStep(k, g, a, s, t) /\ ChildrenIn(k, a, t, FALSE, FALSE)
  <2>1. CASE s = <<>>
    <3>1. k = g /\ Len(t) = 1 /\ t[1] = r /\ DOMAIN t = {1}
      BY <1>1, <1>5, <1>6, <2>1
    <3>2. Relinked(g, g)
      BY DEF Relinked, SameValue
    <3>3. ListIn(g, t, FALSE)
      BY <3>1 DEF ListIn
    <3>4. ListStep(g, g, a, s, t)
      BY <3>2 DEF ListStep
    <3>5. ChildrenIn(g, a, t, FALSE, FALSE)
      BY <1>7, <3>3 DEF ChildrenIn
    <3> QED
      BY <3>1, <3>4, <3>5
  <2>2. CASE s # <<>>
    <3>1. k = suffix_object(g, s[Len(s)], r)
      BY <2>2 DEF LastOf
    <3>2. \A read \in BOOLEAN : ChildrenIn(g, a, s, read, FALSE) =>
            /\ ListStep(suffix_object(g, s[Len(s)], r), g, a, s, t)
            /\ ChildrenIn(suffix_object(g, s[Len(s)], r), a, t, read, FALSE)
      <4>1. SUFFICES ASSUME NEW read \in BOOLEAN, ChildrenIn(g, a, s, read, FALSE)
                     PROVE  /\ ListStep(suffix_object(g, s[Len(s)], r), g, a, s, t)
                            /\ ChildrenIn(suffix_object(g, s[Len(s)], r), a, t, read, FALSE)
        OBVIOUS
      <4>2. ListAt(a, s) /\ t \in Seq(Items) /\ Len(t) = Len(s) + 1
        BY <1>5, <1>7
      <4>3. r \in Items /\ r # a /\ ~InList(s, r) /\ g.item[r].next = NULL
        BY <1>1, <1>8
      <4> HIDE DEF s, t
      <4>4. LET k1 == suffix_object(g, s[Len(s)], r) IN
            ListStep(k1, g, a, s, t) /\ ChildrenIn(k1, a, t, read, FALSE)
        BY <1>6, <2>2, <4>1, <4>2, <4>3, LinkAfterLast
      <4> QED
        BY <4>4
    <3> QED
      BY <1>7, <3>1, <3>2
  <2> QED
    BY <2>1, <2>2
<1> HIDE DEF k
<1>10. ForestStep(k, g, V, a) /\ Holds(k, U, {root}, T, T)
  <2>2. \A u \in {root} : u \in {root} \cup {r} \/ k.item[u].next = NULL
    OBVIOUS
  <2> DEFINE top == {root} \cup {r}
             tops == {root}
  <2>3. \A u \in tops : u \in top \/ k.item[u].next = NULL
    BY <2>2
  <2>4. Holds(g, V, top, T, T) /\ IsForest(U, tops)
    BY <1>4
  <2>5. ListStep(k, g, a, V.kids[a], U.kids[a])
    BY <1>9
  <2>6. ChildrenIn(k, a, U.kids[a], FALSE, FALSE)
    BY <1>9
  <2> HIDE DEF top, tops
  <2>7. U.live = V.live /\ \A b \in Items : b # a => U.kids[b] = V.kids[b]
    BY <1>5
  <2> HIDE DEF s, n, t
  <2>8. ForestStep(k, g, V, a) /\ Holds(k, U, tops, T, T)
    BY <2>3, <2>4, <2>5, <2>6, <2>7, ForestOfUnreadStep
  <2> QED
    BY <2>8 DEF tops
<1> QED
  BY <1>10 DEF U, k

\* The first and the last child of a list that gets longer
LEMMA LongerEnds ==
  ASSUME NEW V \in ForestT, NEW a \in Items, NEW r \in Items
  PROVE  LET U == Attached(V, a, Len(V.kids[a]) + 1, r) IN
         /\ U.live = V.live /\ \A x \in Items : x # a => U.kids[x] = V.kids[x]
         /\ LastOf(U, a) = r /\ FirstOf(U, a) = IF V.kids[a] = <<>> THEN r ELSE FirstOf(V, a)
<1> DEFINE s == V.kids[a]
           U == Attached(V, a, Len(s) + 1, r)
           t == U.kids[a]
<1>1. s \in Seq(Items) /\ Len(s) \in Nat
  BY DEF ForestT
<1>2. \A m \in 1 .. Len(V.kids[a]) + 1 :
        LET G == Attached(V, a, m, r)
            s1 == V.kids[a]
            t1 == G.kids[a]
        IN /\ G \in ForestT /\ G.live = V.live
           /\ \A b \in Items : b # a => G.kids[b] = V.kids[b]
           /\ s1 \in Seq(Items) /\ t1 \in Seq(Items) /\ Len(s1) \in Nat /\ Len(t1) = Len(s1) + 1
           /\ DOMAIN s1 = 1 .. Len(s1) /\ DOMAIN t1 = 1 .. Len(t1)
           /\ \A j \in 1 .. Len(t1) : t1[j] = IF j < m THEN s1[j] ELSE IF j = m THEN r ELSE s1[j - 1]
  <2> HIDE DEF s, t, U
  <2>1. V \in ForestT /\ a \in Items /\ r \in Items
    OBVIOUS
  <2> QED
    BY <2>1, AttachedKids
<1> DEFINE n == Len(s) + 1
<1>3. n \in 1 .. Len(s) + 1
  BY <1>1
<1>4. /\ U.live = V.live /\ \A b \in Items : b # a => U.kids[b] = V.kids[b]
      /\ t \in Seq(Items) /\ Len(t) = n
      /\ \A j \in 1 .. Len(t) : t[j] = IF j < n THEN s[j] ELSE IF j = n THEN r ELSE s[j - 1]
  <2>1. U = Attached(V, a, n, r) /\ Len(s) + 1 = n
    OBVIOUS
  <2> HIDE DEF n, U
  <2> QED
    BY <1>2, <1>3, <2>1
<1>5. s = <<>> <=> Len(s) = 0
  <2> HIDE DEF s
  <2> QED
    BY <1>1
<1> HIDE DEF s, t, U
<1>6. t # <<>> /\ t[Len(t)] = r
  BY <1>1, <1>4
<1>7. t[1] = IF s = <<>> THEN r ELSE s[1]
  <2>1. CASE s = <<>>
    BY <1>1, <1>4, <1>5, <2>1
  <2>2. CASE s # <<>>
    <3>1. Len(s) # 0 /\ 1 < n /\ 1 \in 1 .. Len(t)
      BY <1>1, <1>4, <1>5, <2>2
    <3> QED
      BY <1>4, <2>2, <3>1
  <2> QED
    BY <2>1, <2>2
<1> QED
  BY <1>4, <1>6, <1>7 DEF LastOf, FirstOf, s, t, U

LEMMA NewItemStep ==
  ASSUME IInv, NEW type \in {"array", "object"}, NewItem(type), at' \in {"value", "name"}
  PROVE  IInv' /\ [Forest!Step(trees, trees')]_trees
<1>1. PICK W : Goes(heap, W) /\ Parsing(heap, W, calls, target, at)
  BY ParsingNow DEF NewItem, Reads
<1> DEFINE call == Last(calls)
           before == Front(calls)
           a == call.item
           new == cJSON_New_Item(Plenty)
           g == new.heap
           r == new.r
           V == Beside(W, Single(r))
           U == Attached(V, a, Len(V.kids[a]) + 1, r)
           k == IF call.head = NULL THEN g ELSE suffix_object(g, call.current, r)
           next == [call EXCEPT !.current = r, !.head = IF @ = NULL THEN r ELSE @]
           T == Frames(calls)
           root == Root(calls, target)
<1>2. /\ Works /\ at \in {"first", "after"} /\ r # NULL /\ Settle(k)
      /\ calls' = Append(before, next) /\ target' = r
  BY DEF NewItem
<1>3. /\ calls # <<>> /\ call \in ReadCalls /\ a \in W.live /\ a \in Items /\ a \in T
      /\ call.head = FirstOf(W, a) /\ call.current = LastOf(W, a)
      /\ before \in Seq(ReadCalls) /\ Distinct(before) /\ Frames(before) = T \ {a}
      /\ \A m \in DOMAIN before : m \in DOMAIN calls /\ before[m] = calls[m]
      /\ root = calls[1].item
      /\ before # <<>> => before[1] = calls[1]
      /\ before = <<>> => call = calls[1]
  BY <1>1, <1>2, InnermostCall
<1>4. /\ T \subseteq W.live /\ Work(heap, W, {root}, T, T) /\ IsForest(W, {root}) /\ root \in W.live
      /\ W.live \subseteq Items
      /\ \A m \in DOMAIN calls : /\ calls[m].head = FirstOf(W, calls[m].item)
                                 /\ calls[m].current = LastOf(W, calls[m].item)
  BY <1>1, ParsingFacts
<1>5. Sane(Plenty) /\ Goes(Plenty, W) /\ Work(Plenty, W, {root}, T, T)
  <2>1. Sane(Plenty) /\ Alike(Plenty, heap)
    BY <1>1, PlentyAlike
  <2> HIDE DEF root, T
  <2> QED
    BY <1>1, <1>4, <2>1, AlikeGoes
<1>6. IsNew(new, Plenty, "new")
  BY <1>5, ItemAllocated
<1>7. MadeItem(new, Plenty)
  <2>1. "new" \in Types \cup {"new"}
    OBVIOUS
  <2> HIDE DEF new
  <2> QED
    BY <1>5, <1>6, <2>1, IsNewMade
<1> HIDE DEF new
<1>8. Sane(g) /\ Fresh(g, Plenty, r) /\ ~g.item[r].ref /\ r \in Items /\ g.item[r].next = NULL /\ g \in HeapT
  BY <1>2, <1>7 DEF MadeItem, Made, Fresh
<1>9. g.item[r].string = FALSE /\ g.item[r].name = NoName /\ g.item[r].const = FALSE
  <2> DEFINE x == [Free EXCEPT !.type = "new"]
             m == Plenty.mem - 1
  <2>1. Plenty.mem # 0 /\ g = Put(Plenty, r, x, Plenty.strings, m)
    BY <1>2, <1>6 DEF IsNew
  <2>2. x \in ItemT /\ x.string = FALSE /\ x.name = NoName /\ x.const = FALSE
    BY ItemOfType
  <2>3. Plenty \in HeapT /\ Plenty.strings \in Int /\ m \in Nat
    BY <1>5, <2>1, HeapFacts DEF Sane
  <2> HIDE DEF x, m
  <2>4. Put(Plenty, r, x, Plenty.strings, m).item[r] = x
    BY <1>8, <2>2, <2>3, PutFacts
  <2> QED
    BY <2>1, <2>2, <2>4
<1> HIDE DEF root, T, call, before
<1>10. Comes(g, W, {root}, r, T, T)
  <2>1. Agrees(W, T, T, T, T)
    BY DEF Agrees
  <2> QED
    BY <1>5, <1>8, <2>1, FreshWork
<1>11. /\ Goes(g, V) /\ Work(g, V, {root} \cup {r}, T, T)
       /\ r \notin W.live /\ V.live = W.live \cup {r} /\ V.kids[r] = <<>>
       /\ \A x \in W.live : V.kids[x] = W.kids[x]
  BY <1>10 DEF Comes
<1>12. /\ Holds(g, V, {root} \cup {r}, T, T) /\ IsForest(V, {root} \cup {r})
       /\ ~g.item[a].ref
  BY <1>3, <1>11, WorkFacts DEF Goes
<1>13. a \notin Forest!Tree(V, r)
  <2>1. 1 \in 1 .. Len(W.kids[a]) + 1
    BY <1>3, <1>4, KidsFacts
  <2> QED
    BY <1>3, <1>4, <1>8, <1>11, <2>1, AttachNewStep
<1> HIDE DEF V
<1>14. k = IF V.kids[a] = <<>> THEN g ELSE suffix_object(g, LastOf(V, a), r)
  <2>1. V.kids[a] = W.kids[a]
    BY <1>3, <1>11
  <2>2. W.kids[a] # <<>> => W.kids[a][1] # NULL
    <3>1. W.kids[a] # <<>> => W.kids[a][1] \in Items
      BY <1>3, <1>4, KidsFacts
    <3> QED
      BY <3>1, ItemsFacts
  <2>3. call.head = NULL <=> W.kids[a] = <<>>
    BY <1>3, <2>2 DEF FirstOf
  <2>4. LastOf(V, a) = call.current
    BY <1>3, <2>1 DEF LastOf
  <2> QED
    BY <2>1, <2>3, <2>4
<1> HIDE DEF k
<1>15. ForestStep(k, g, V, a) /\ Holds(k, U, {root}, T, T)
  <2>1. r # root /\ a \in V.live
    BY <1>3, <1>4, <1>11
  <2>2. LET j == IF V.kids[a] = <<>> THEN g ELSE suffix_object(g, LastOf(V, a), r)
            X == Attached(V, a, Len(V.kids[a]) + 1, r)
        IN ForestStep(j, g, V, a) /\ Holds(j, X, {root}, T, T)
    <3>1. /\ g \in HeapT /\ g.item[r].next = NULL /\ a \in T
          /\ Holds(g, V, {root} \cup {r}, T, T) /\ IsForest(V, {root} \cup {r}) /\ ~g.item[a].ref
      BY <1>3, <1>8, <1>12
    <3> HIDE DEF a, g, r
    <3> QED
      BY <1>13, <2>1, <3>1, ChildRead
  <2> QED
    BY <1>14, <2>2
<1> HIDE DEF U
<1>16. /\ U.live = V.live /\ \A x \in Items : x # a => U.kids[x] = V.kids[x]
       /\ LastOf(U, a) = r /\ FirstOf(U, a) = IF V.kids[a] = <<>> THEN r ELSE FirstOf(V, a)
  <2>1. V \in ForestT
    BY <1>12, KidsFacts
  <2> QED
    BY <1>3, <1>8, <2>1, LongerEnds DEF U
<1>17. Goes(k, U) /\ Work(k, U, {root}, T, T)
  <2> DEFINE top == {root} \cup {r}
             tops == {root}
  <2>1. Goes(g, V) /\ Work(g, V, top, T, T) /\ ForestStep(k, g, V, a) /\ Holds(k, U, tops, T, T)
        /\ U.live = V.live
    BY <1>11, <1>15, <1>16
  <2> HIDE DEF top, tops, a, g, r
  <2>2. Goes(k, U) /\ Work(k, U, tops, T, T)
    BY <2>1, StepGoes
  <2> QED
    BY <2>2 DEF tops
<1>18. /\ next \in ReadCalls /\ next.item = a /\ next.current = LastOf(U, a)
       /\ next.head = FirstOf(U, a)
  <2>1. next.item = a /\ next.current = r /\ next.head = IF call.head = NULL THEN r ELSE call.head
    BY <1>3 DEF ReadCalls
  <2>2. next \in ReadCalls
    BY <1>3, <1>8, ItemsFacts DEF ReadCalls
  <2>3. V.kids[a] = W.kids[a] /\ (call.head = NULL <=> W.kids[a] = <<>>)
    <3>1. W.kids[a] # <<>> => W.kids[a][1] \in Items
      BY <1>3, <1>4, KidsFacts
    <3> QED
      BY <1>3, <1>11, <3>1, ItemsFacts DEF FirstOf
  <2>4. FirstOf(V, a) = FirstOf(W, a)
    BY <2>3 DEF FirstOf
  <2> QED
    BY <1>3, <1>16, <2>1, <2>2, <2>3, <2>4
<1> HIDE DEF next
<1>19. /\ calls' \in Seq(ReadCalls) /\ Len(before) \in Nat /\ Len(calls') = Len(before) + 1
       /\ \A m \in DOMAIN before : m \in 1 .. Len(before) /\ calls'[m] = before[m]
       /\ calls'[Len(before) + 1] = next
       /\ \A m \in DOMAIN calls' : m \in DOMAIN before \/ m = Len(before) + 1
       /\ Frames(calls') = Frames(before) \cup {a} /\ Distinct(calls')
  <2>1. next.item \notin Frames(before)
    BY <1>3, <1>18
  <2> QED
    BY <1>2, <1>3, <1>18, <2>1, FramesOfMore
<1>20. Frames(calls') = T /\ r \notin T
  BY <1>3, <1>4, <1>11, <1>19
<1>21. Root(calls', r) = root
  <2>1. calls' # <<>>
    BY <1>19
  <2>2. CASE before = <<>>
    <3>1. calls'[1] = next
      BY <1>19, <2>2
    <3> QED
      BY <1>3, <1>18, <2>1, <2>2, <3>1 DEF Root
  <2>3. CASE before # <<>>
    <3>1. 1 \in DOMAIN before
      BY <1>3, <2>3
    <3> QED
      BY <1>3, <1>19, <2>1, <2>3, <3>1 DEF Root
  <2> QED
    BY <2>2, <2>3
<1>22. \A m \in DOMAIN calls' : /\ calls'[m].head = FirstOf(U, calls'[m].item)
                                /\ calls'[m].current = LastOf(U, calls'[m].item)
  <2>1. SUFFICES ASSUME NEW m \in DOMAIN calls'
                 PROVE  /\ calls'[m].head = FirstOf(U, calls'[m].item)
                        /\ calls'[m].current = LastOf(U, calls'[m].item)
    OBVIOUS
  <2>2. CASE m = Len(before) + 1
    BY <1>18, <1>19, <2>2
  <2>3. CASE m \in DOMAIN before
    <3>1. calls'[m] = calls[m] /\ m \in DOMAIN calls
      BY <1>3, <1>19, <2>3
    <3>2. calls[m].item \in W.live /\ calls[m].item # a
      <4>1. before[m].item \in Frames(before)
        BY <2>3 DEF Frames
      <4> QED
        BY <1>3, <1>4, <2>3, <4>1
    <3>3. U.kids[calls[m].item] = W.kids[calls[m].item]
      BY <1>4, <1>11, <1>16, <3>2
    <3> QED
      BY <1>4, <3>1, <3>3 DEF FirstOf, LastOf
  <2> QED
    BY <1>19, <2>2, <2>3
<1>23. Unread(k, U, calls', r, at')
  <2>1. k.item[r].string = FALSE /\ k.item[r].name = NoName /\ k.item[r].const = FALSE
    BY <1>8, <1>9, <1>15 DEF ForestStep, Relinked, SameValue
  <2>2. U.kids[r] = <<>>
    BY <1>3, <1>8, <1>11, <1>16
  <2> QED
    BY <1>20, <2>1, <2>2, SMTT(30) DEF Unread
<1>24. Parsing(k, U, calls', target', at')
  <2>1. calls' # <<>> /\ Frames(calls') \subseteq U.live /\ r \in U.live
    BY <1>4, <1>11, <1>16, <1>19, <1>20
  <2>2. Work(k, U, {Root(calls', r)}, Frames(calls'), Frames(calls'))
    BY <1>17, <1>20, <1>21
  <2> QED
    BY <1>2, <1>19, <1>22, <1>23, <2>1, <2>2 DEF Parsing, ReadCalls
<1>25. InCall(k, trees, U, calls', target', at')
  BY <1>24 DEF InCall
<1> QED
  BY <1>2, <1>17, <1>25, CallGoes DEF Works

-----------------------------------------------------------------------------
(* The results *)

LEMMA FillStep ==
  ASSUME IInv, Fill
  PROVE  IInv' /\ [Forest!Step(trees, trees')]_trees
BY ArrayBeginsStep, ArrayGrowsStep, ArrayFailsStep, ArrayReturnsStep DEF Fill

LEMMA DuplicateStep ==
  ASSUME IInv, Duplicate
  PROVE  IInv' /\ [Forest!Step(trees, trees')]_trees
BY DuplicateBeginsStep, DuplicateChildStep, DuplicateFailsStep, DuplicateReturnsStep, DuplicateEndsStep
   DEF Duplicate

LEMMA ParseStep ==
  ASSUME IInv, Parse
  PROVE  IInv' /\ [Forest!Step(trees, trees')]_trees
<1>1. CASE OpenArray \/ OpenObject
  BY <1>1, OpensStep DEF OpenArray, OpenObject
<1>2. CASE CloseArray \/ CloseObject
  BY <1>2, ClosesStep DEF CloseArray, CloseObject
<1>3. CASE NewElement
  <2>1. NewItem("array") /\ at' \in {"value", "name"} /\ "array" \in {"array", "object"}
    BY <1>3 DEF NewElement
  <2> QED
    BY <2>1, NewItemStep
<1>4. CASE NewMember
  <2>1. NewItem("object") /\ at' \in {"value", "name"} /\ "object" \in {"array", "object"}
    BY <1>4 DEF NewMember
  <2> QED
    BY <2>1, NewItemStep
<1>5. CASE ParseBegins \/ ReadScalar \/ ReadString \/ ReadName \/ ParseFails \/ ParseReturns
  BY <1>5, ParseBeginsStep, ReadScalarStep, ReadStringStep, ReadNameStep, ParseFailsStep, ParseReturnsStep
<1> QED
  BY <1>1, <1>2, <1>3, <1>4, <1>5 DEF Parse

\* Every step keeps the invariant, and is one of the forest.
LEMMA NextStep ==
  ASSUME IInv, [Next]_vars
  PROVE  IInv' /\ [Forest!Step(trees, trees')]_trees
<1>1. CASE UNCHANGED vars
  BY <1>1 DEF vars, parseVars, IInv
<1>2. CASE CreateItem \/ CreateReference \/ DuplicateItem \/ SetValuestring \/ Render \/ Delete
  BY <1>2, CreateItemStep, CreateReferenceStep, DuplicateItemStep, SetValuestringStep, RenderStep,
     DeleteRootStep
<1>3. CASE Fill \/ Duplicate \/ Parse
  BY <1>3, FillStep, DuplicateStep, ParseStep
<1>4. CASE AddItemToArray \/ AddItemToObject \/ AddNew \/ AddItemReferenceToArray \/ AddItemReferenceToObject
  BY <1>4, AddItemToArrayStep, AddItemToObjectStep, AddNewStep, AddItemReferenceToArrayStep,
     AddItemReferenceToObjectStep
<1>5. CASE DetachItem \/ DeleteItemFrom \/ InsertItem \/ ReplaceItemInArray \/ ReplaceItemInObject
  BY <1>5, DetachItemStep, DeleteItemFromStep, InsertItemStep, ReplaceItemInArrayStep, ReplaceItemInObjectStep
<1> QED
  BY <1>1, <1>2, <1>3, <1>4, <1>5 DEF Next

LEMMA WellTyped ==
  ASSUME IInv
  PROVE  TypeOK
<1>1. PICK W : Sound(heap, trees, roots, lost, W) /\ InCall(heap, trees, W, calls, target, at)
  BY DEF IInv
<1>2. /\ Sane(heap) /\ heap \in HeapT /\ heap.mem = 0 /\ trees.live \subseteq Items /\ roots \subseteq trees.live
      /\ lost \subseteq Items
  BY <1>1, SoundFacts
<1>3. heap.item \in [Items -> ItemT]
  BY <1>2 DEF HeapT
<1>4. heap.strings \in Nat /\ ~heap.twice
  BY <1>2, StringsNatural DEF Sane
<1>5. at \in {"none", "value", "name", "first", "after", "end", "filling", "copying"}
  BY <1>1 DEF InCall
<1>6. target \in 0 .. Size
  <2>1. CASE at \in {"none", "filling", "copying"}
    BY <1>1, <2>1 DEF InCall
  <2>2. CASE at \in {"value", "name", "first", "after", "end"}
    <3>1. Parsing(heap, W, calls, target, at)
      BY <1>1, <2>2 DEF InCall
    <3>2. Goes(heap, W)
      BY <1>1 DEF Sound, Goes
    <3> QED
      BY <3>1, <3>2, ParsingFacts
  <2> QED
    BY <1>5, <2>1, <2>2
<1> QED
  BY <1>2, <1>3, <1>4, <1>5, <1>6 DEF TypeOK, ItemT

LEMMA EverythingOwned ==
  ASSUME IInv
  PROVE  NothingLeaks
<1>1. SUFFICES ASSUME at = "none"
               PROVE  ~heap.twice /\ Live(heap) = Known \cup lost /\ heap.strings = Strings(heap, Live(heap))
  BY DEF NothingLeaks
<1>2. Idle
  BY <1>1, IdleNow
<1>3. Sane(heap) /\ Live(heap) = trees.live \cup lost
  BY <1>2, ReadyFacts DEF Idle
<1>4. Strings(heap, Live(heap)) = Strings(heap, Items)
  <2>1. \A y \in Items : y \notin Live(heap) => ~OwnName(heap.item[y]) /\ ~OwnString(heap.item[y])
    BY <1>3, FreeOwnsNothing DEF Sane, Live
  <2>2. Live(heap) \in SUBSET Items /\ Items \in SUBSET Items
    BY DEF Live
  <2>3. \A y \in Items : y \in Live(heap) /\ OwnName(heap.item[y]) <=> y \in Items /\ OwnName(heap.item[y])
    BY <2>1
  <2>4. \A y \in Items : y \in Live(heap) /\ OwnString(heap.item[y]) <=> y \in Items /\ OwnString(heap.item[y])
    BY <2>1
  <2> DEFINE S == Live(heap)
             R == Items
  <2>5. /\ S \in SUBSET Items /\ R \in SUBSET Items
        /\ \A y \in Items : y \in S /\ OwnName(heap.item[y]) <=> y \in R /\ OwnName(heap.item[y])
        /\ \A y \in Items : y \in S /\ OwnString(heap.item[y]) <=> y \in R /\ OwnString(heap.item[y])
    BY <2>2, <2>3, <2>4
  <2> HIDE DEF S, R
  <2>6. Strings(heap, S) = Strings(heap, R)
    BY <2>5, StringsSame
  <2> QED
    BY <2>6 DEF S, R
<1> QED
  BY <1>3, <1>4 DEF Known, Sane

LEMMA ListsAreLinked ==
  ASSUME IInv
  PROVE  ListsLinked
<1>1. SUFFICES ASSUME at = "none", NEW a \in trees.live, ~heap.item[a].ref,
                      NEW j \in DOMAIN Chain(heap, heap.item[a].child)
               PROVE  LET l == Chain(heap, heap.item[a].child) IN
                      heap.item[l[j]].prev = IF j = 1 THEN Last(l) ELSE l[j - 1]
  BY DEF ListsLinked, Item, Known
<1>2. Idle
  BY <1>1, IdleNow
<1>3. Holds(heap, trees, roots, {}, {}) /\ heap \in HeapT /\ IsForest(trees, roots)
  BY <1>2, ReadyFacts DEF Idle
<1>4. Chain(heap, heap.item[a].child) = trees.kids[a]
  BY <1>1, <1>3, TreesAreForest
<1>5. DOMAIN trees.kids[a] = 1 .. Len(trees.kids[a])
  BY <1>3, KidsFacts
<1>6. heap.item[trees.kids[a][j]].prev = IF j = 1 THEN trees.kids[a][Len(trees.kids[a])] ELSE trees.kids[a][j - 1]
  <2>1. /\ j > 1 => heap.item[trees.kids[a][j]].prev = trees.kids[a][j - 1]
        /\ j = 1 => heap.item[trees.kids[a][j]].prev = trees.kids[a][Len(trees.kids[a])]
    BY <1>1, <1>3, <1>4 DEF Holds, Links
  <2>2. j = 1 \/ j > 1
    BY <1>1, <1>4, <1>5
  <2> QED
    BY <2>1, <2>2
<1> QED
  BY <1>4, <1>6 DEF Last

(* The links of the heap are those of the caller's trees, of the items of   *)
(* the call that runs, and of lost references; no step of the functions of *)
(* cJSON.c breaks this, whatever malloc refuses them.                       *)
THEOREM Invariant == Spec => []IInv
<1>1. Init => IInv
  BY InitIInv
<1>2. IInv /\ [Next]_vars => IInv'
  BY NextStep
<1> QED
  BY <1>1, <1>2, PTL DEF Spec

(* The variables have their types; strings are never freed more often than *)
(* they were allocated.                                                    *)
THEOREM TypeCorrect == Spec => []TypeOK
BY Invariant, WellTyped, PTL

(* Between calls each item is in one tree of the caller or a lost          *)
(* reference, each string is owned by one item, and nothing has been freed *)
(* twice, for any number of items, names and levels.                       *)
THEOREM NeverLeaks == Spec => []NothingLeaks
BY Invariant, EverythingOwned, PTL

(* Between calls each list of children can be walked with next and         *)
(* appended to through the prev of its first child.                        *)
THEOREM AlwaysLinked == Spec => []ListsLinked
BY Invariant, ListsAreLinked, PTL

(* The functions of cJSON.c implement the forest of JsonForest: a call      *)
(* makes, moves or deletes one tree, and the others stay as they are.      *)
THEOREM ImplementsForest == Spec => ForestSpec
<1>1. Init => Forest!Init
  BY DEF Init, Forest!Init
<1>2. IInv /\ [Next]_vars => [Forest!Step(trees, trees')]_trees
  BY NextStep
<1> QED
  BY <1>1, <1>2, Invariant, PTL DEF Spec, ForestSpec, Forest!Spec
=============================================================================
