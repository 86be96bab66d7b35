------------------------------ MODULE JsonForest ------------------------------
(***************************************************************************)
(* What the tree functions of cJSON promise their caller: the items are a  *)
(* forest, every item has a sequence of children, and a call adds a new    *)
(* tree, moves one tree, or deletes one.                                   *)
(***************************************************************************)
EXTENDS Naturals, Sequences, SequencesExt

CONSTANT Items

VARIABLE forest   \* the items that exist, "live", and their children in order, "kids"

Roots(f) == {i \in f.live : \A a \in f.live : i \notin ToSet(f.kids[a])}

\* The item i and all items below it
Tree(f, i) ==
  LET closed == {S \in SUBSET Items : i \in S /\ \A a \in S : ToSet(f.kids[a]) \subseteq S}
  IN {j \in Items : \A S \in closed : j \in S}

Init == forest = [live |-> {}, kids |-> [i \in Items |-> <<>>]]

\* A tree of new items: made, parsed or copied.
Grow(f, g) ==
  /\ f.live \subseteq g.live /\ f.live # g.live
  /\ \A i \in f.live : g.kids[i] = f.kids[i]
  /\ \E i \in g.live \ f.live : Tree(g, i) = g.live \ f.live

NewChildren(f, g, a) == ToSet(g.kids[a]) \ ToSet(f.kids[a])

\* A root, or a new item, becomes a child.
Attach(f, g) ==
  \E a \in f.live : \E i \in NewChildren(f, g, a), at \in 1 .. Len(f.kids[a]) + 1 :
    /\ i \in Roots(f) \/ (i \notin f.live /\ f.kids[i] = <<>>)
    /\ a \notin Tree(f, i)
    /\ g = [live |-> f.live \cup {i}, kids |-> [f.kids EXCEPT ![a] = InsertAt(@, at, i)]]

Detach(f, g) ==
  \E a \in f.live : \E at \in DOMAIN f.kids[a] :
    g = [f EXCEPT !.kids[a] = RemoveAt(@, at)]

\* The children of what is deleted are forgotten.
Without(f, kids, gone) ==
  [live |-> f.live \ gone, kids |-> [i \in Items |-> IF i \in gone THEN <<>> ELSE kids[i]]]

\* A root, or a child
Delete(f, g) ==
  \/ \E i \in Roots(f) : g = Without(f, f.kids, Tree(f, i))
  \/ \E a \in f.live : \E at \in DOMAIN f.kids[a] :
       g = Without(f, [f.kids EXCEPT ![a] = RemoveAt(@, at)], Tree(f, f.kids[a][at]))

Replace(f, g) ==
  \E a \in f.live : \E i \in NewChildren(f, g, a), at \in DOMAIN f.kids[a] :
    /\ i \in Roots(f) /\ a \notin Tree(f, i)
    /\ g = Without(f, [f.kids EXCEPT ![a][at] = i], Tree(f, f.kids[a][at]))

Step(f, g) ==
  /\ f # g
  /\ Grow(f, g) \/ Attach(f, g) \/ Detach(f, g) \/ Delete(f, g) \/ Replace(f, g)

Spec == Init /\ [][Step(forest, forest')]_forest
=============================================================================
