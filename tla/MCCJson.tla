------------------------------- MODULE MCCJson -------------------------------
(***************************************************************************)
(* The instance of CJson for TLC: the last item is there only for the copy *)
(* of a tree, which takes as many items as the tree has.                   *)
(***************************************************************************)
EXTENDS CJson

\* bound: items in states that TLC goes on from
FewItems ==
  \/ Cardinality(Live(heap)) < Size
  \/ at = "copying" /\ 2 * Cardinality(Known) <= Size

\* bound: strings and roots in these states
FewStrings == heap.strings < Size - 1
FewRoots == Cardinality(roots) < Size - 1

\* bound: what is done once a reference, which is never read again, is lost
FewLost == lost # {} => at = "none" /\ heap.strings = 0
=============================================================================
