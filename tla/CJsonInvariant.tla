---------------------------- MODULE CJsonInvariant ----------------------------
(***************************************************************************)
(* The inductive invariant of CJson, IInv, and what its proof says of      *)
(* forests, heaps and the steps between them.                              *)
(*                                                                         *)
(* The heap, links and all, is the forest of JsonForest (Holds), during a  *)
(* call too: a parent may not have its children yet, and a first child may *)
(* not know the last one yet.                                              *)
(***************************************************************************)
EXTENDS CJson

-----------------------------------------------------------------------------
(* Forests, as JsonForest has them *)

ForestT == [live : SUBSET Items, kids : [Items -> Seq(Items)]]

\* S goes on downwards.
Down(F, S) == \A a \in S : \A j \in DOMAIN F.kids[a] : F.kids[a][j] \in S

\* The trees below T are all of F, each item is in one place, and none is below itself.
IsForest(F, T) ==
  /\ F \in ForestT /\ T \subseteq F.live
  /\ \A a \in Items : a \notin F.live => F.kids[a] = <<>>
  /\ \A a \in Items : \A j \in DOMAIN F.kids[a] : F.kids[a][j] \in F.live /\ F.kids[a][j] \notin T
  /\ \A a, b \in Items : \A j \in DOMAIN F.kids[a], k \in DOMAIN F.kids[b] :
       F.kids[a][j] = F.kids[b][k] => a = b /\ j = k
  /\ \A S \in SUBSET Items : T \subseteq S /\ Down(F, S) => F.live \subseteq S

Single(i) == [live |-> {i}, kids |-> [x \in Items |-> <<>>]]

Nothing == [live |-> {}, kids |-> [x \in Items |-> <<>>]]

\* Two forests as one
Beside(F, G) ==
  [live |-> F.live \cup G.live,
   kids |-> [x \in Items |-> IF x \in F.live THEN F.kids[x] ELSE G.kids[x]]]

\* The tree of i on its own
Below(F, i) ==
  [live |-> Forest!Tree(F, i),
   kids |-> [x \in Items |-> IF x \in Forest!Tree(F, i) THEN F.kids[x] ELSE <<>>]]

Attached(F, a, n, i) == [F EXCEPT !.kids[a] = InsertAt(@, n, i)]

Detached(F, a, n) == [F EXCEPT !.kids[a] = RemoveAt(@, n)]

Remaining(F, i) == Forest!Without(F, F.kids, Forest!Tree(F, i))

\* The child n of a is another item.
Swapped(F, a, n, new) == [F EXCEPT !.kids[a] = [@ EXCEPT ![n] = new]]

StepOf(f, g) ==
  \/ Forest!Grow(f, g) \/ Forest!Attach(f, g) \/ Forest!Detach(f, g)
  \/ Forest!Delete(f, g) \/ Forest!Replace(f, g)

-----------------------------------------------------------------------------
(* The heap has the items of a forest in their lists *)

ItemT == [next : 0 .. Size, prev : 0 .. Size, child : 0 .. Size,
          type : Types \cup {"free", "new"}, name : Names \cup {NoName},
          const : BOOLEAN, string : BOOLEAN, ref : BOOLEAN, of : 0 .. Size]

HeapT == [item : [Items -> ItemT], strings : Int, mem : Nat, twice : BOOLEAN]

\* The heap h has the items of F in their lists.  The parents in C do not have their
\* children yet, and the first children of those in P do not know the last.
Links(h, F, C, P) ==
  \A a \in F.live :
    /\ h.item[a].type # "free"
    /\ h.item[a].ref => F.kids[a] = <<>>
    /\ ~h.item[a].ref =>
         h.item[a].child = IF a \in C \/ F.kids[a] = <<>> THEN NULL ELSE F.kids[a][1]
    /\ \A j \in DOMAIN F.kids[a] :
         /\ h.item[F.kids[a][j]].next = IF j = Len(F.kids[a]) THEN NULL ELSE F.kids[a][j + 1]
         /\ j > 1 => h.item[F.kids[a][j]].prev = F.kids[a][j - 1]
         /\ j = 1 /\ a \notin P => h.item[F.kids[a][j]].prev = F.kids[a][Len(F.kids[a])]

Tops(h, T) == \A i \in T : h.item[i].next = NULL

Holds(h, F, T, C, P) == IsForest(F, T) /\ Links(h, F, C, P) /\ Tops(h, T)

\* Each string belongs to an item, and an item that does not exist has nothing.
Sane(h) ==
  /\ h \in HeapT /\ ~h.twice /\ h.strings = Strings(h, Items)
  /\ \A x \in Items : h.item[x].type = "free" => h.item[x] = Free

\* A reference shares the children of an item that is there.
Refs(h, F) ==
  \A r \in F.live :
    IF h.item[r].ref
    THEN /\ h.item[r].of \in F.live /\ ~h.item[h.item[r].of].ref
         /\ h.item[r].child = h.item[h.item[r].of].child
    ELSE h.item[r].of = NULL

Caller(h, F, R) == Holds(h, F, R, {}, {}) /\ Refs(h, F)

Starts(F, T, C, starts) ==
  /\ \A k \in DOMAIN starts : starts[k] \in F.live \cup {NULL}
  /\ \A k, l \in DOMAIN starts : starts[k] = starts[l] /\ starts[k] # NULL => k = l
  /\ \A k \in DOMAIN starts : starts[k] # NULL =>
       \/ starts[k] \in T
       \/ \E a \in C \cap F.live : F.kids[a] # <<>> /\ starts[k] = F.kids[a][1]
  /\ \A i \in T : \E k \in DOMAIN starts : starts[k] = i
  /\ \A a \in C \cap F.live : F.kids[a] # <<>> => \E k \in DOMAIN starts : starts[k] = F.kids[a][1]

-----------------------------------------------------------------------------
(* What the functions change *)

SameValue(g, h, x) ==
  /\ g.item[x].type = h.item[x].type /\ g.item[x].name = h.item[x].name
  /\ g.item[x].const = h.item[x].const /\ g.item[x].string = h.item[x].string
  /\ g.item[x].ref = h.item[x].ref /\ g.item[x].of = h.item[x].of

\* Nothing but links has changed.
Relinked(g, h) ==
  /\ g \in HeapT /\ g.strings = h.strings /\ g.mem = h.mem /\ g.twice = h.twice
  /\ \A x \in Items : SameValue(g, h, x)

ListIn(h, s, closed) ==
  \A j \in DOMAIN s :
    /\ h.item[s[j]].next = IF j = Len(s) THEN NULL ELSE s[j + 1]
    /\ j > 1 => h.item[s[j]].prev = s[j - 1]
    /\ j = 1 /\ closed => h.item[s[j]].prev = s[Len(s)]

\* A list whose first child is that of a
ChildrenIn(h, a, s, read, closed) ==
  /\ ~h.item[a].ref /\ ListIn(h, s, closed)
  /\ h.item[a].child = IF ~read \/ s = <<>> THEN NULL ELSE s[1]

InList(s, x) == \E j \in DOMAIN s : s[j] = x

\* The list s of a becomes t, and no other link changes.
ListStep(g, h, a, s, t) ==
  /\ Relinked(g, h)
  /\ \A x \in Items : /\ InList(s, x) \/ InList(t, x) \/
                           (g.item[x].next = h.item[x].next /\ g.item[x].prev = h.item[x].prev)
                      /\ x # a => g.item[x].child = h.item[x].child
                      /\ InList(s, x) \/ InList(t, x) \/ x = a \/ g.item[x] = h.item[x]

\* The items of a list are different ones, and the parent is none of them.
ListAt(a, s) ==
  /\ s \in Seq(Items) /\ a \in Items /\ ~InList(s, a)
  /\ \A j, k \in DOMAIN s : s[j] = s[k] => j = k

\* The item i leaves the list of a, which becomes t.
ListLeft(g, h, a, s, t, i) ==
  ListStep(g, h, a, s, t) /\ ChildrenIn(g, a, t, TRUE, TRUE) /\ g.item[i].next = NULL

ListClosed(g, h, a, s) ==
  /\ ListStep(g, h, a, s, s) /\ ChildrenIn(g, a, s, TRUE, TRUE)
  /\ \A x \in Items : g.item[x].next = h.item[x].next /\ g.item[x].child = h.item[x].child

\* Nothing has changed but links of F, and of the children in it only those of a.
ForestStep(g, h, F, a) ==
  /\ Relinked(g, h)
  /\ \A x \in Items : /\ x \notin F.live => g.item[x] = h.item[x]
                      /\ x # a => g.item[x].child = h.item[x].child

\* Nothing that leads to or from x has changed.
SameLinks(g, h, x) ==
  /\ g.item[x].type # "free" /\ g.item[x].next = h.item[x].next
  /\ g.item[x].prev = h.item[x].prev /\ g.item[x].child = h.item[x].child
  /\ g.item[x].ref = h.item[x].ref /\ g.item[x].of = h.item[x].of

\* The item r is new and on its own.
Fresh(g, h, r) ==
  /\ g \in HeapT /\ r \in Items /\ h.item[r].type = "free" /\ g.item[r].type # "free"
  /\ g.item[r].next = NULL /\ g.item[r].prev = NULL
  /\ ~g.item[r].ref => g.item[r].child = NULL /\ g.item[r].of = NULL
  /\ \A y \in Items : y # r => g.item[y] = h.item[y]

\* A call either makes an item that nothing leads to, or leaves the items as they were.
Made(res, h) ==
  /\ Sane(res.heap)
  /\ IF res.r = NULL THEN res.heap.item = h.item ELSE Fresh(res.heap, h, res.r)

\* The same items are there, with the same links.
Alike(g, h) ==
  /\ Sane(g)
  /\ \A x \in Items :
       /\ g.item[x].type = "free" <=> h.item[x].type = "free"
       /\ g.item[x].next = h.item[x].next /\ g.item[x].prev = h.item[x].prev
       /\ g.item[x].child = h.item[x].child /\ g.item[x].ref = h.item[x].ref
       /\ g.item[x].of = h.item[x].of

Shared(h, i) == IF h.item[i].of = NULL THEN i ELSE h.item[i].of

-----------------------------------------------------------------------------
(* The invariant *)

\* Every item is the caller's, or of the call that runs, or lost.
Parted(h, F, L, W) ==
  /\ F.live \cap W.live = {} /\ F.live \cap L = {} /\ W.live \cap L = {}
  /\ Live(h) = F.live \cup W.live \cup L

\* The heap has the items of a call: none of them is a reference.
Work(h, W, T, C, P) ==
  Holds(h, W, T, C, P) /\ \A x \in W.live : ~h.item[x].ref /\ h.item[x].of = NULL

FirstOf(W, a) == IF W.kids[a] = <<>> THEN NULL ELSE W.kids[a][1]

LastOf(W, a)  == IF W.kids[a] = <<>> THEN NULL ELSE W.kids[a][Len(W.kids[a])]

Frames(c) == {c[k].item : k \in DOMAIN c}

Distinct(c) == \A j, k \in DOMAIN c : c[j].item = c[k].item => j = k

\* The first child of the array does not know the last yet.
Filling(h, W, c) ==
  /\ c \in Seq([item : Items, type : {"scalar", "string"}, current : 0 .. Size]) /\ Len(c) = 1
  /\ Work(h, W, {c[1].item}, {}, {c[1].item})
  /\ c[1].current = LastOf(W, c[1].item)

\* The items of the calls are not linked yet.
Duplicating(h, F, W, c) ==
  /\ c \in Seq([item : Items, source : 0 .. Size, current : 0 .. Size]) /\ c # <<>> /\ Distinct(c)
  /\ Work(h, W, Frames(c), {}, Frames(c))
  /\ \A k \in DOMAIN c : /\ c[k].current = LastOf(W, c[k].item)
                         /\ c[k].source \in F.live \cup {NULL}
                         /\ k < Len(c) => c[k].source # NULL

Root(c, t) == IF c = <<>> THEN t ELSE c[1].item

\* What is known of the item that is read next
Unread(h, W, c, t, a) ==
  /\ W.kids[t] = <<>> /\ t \notin Frames(c) /\ h.item[t].string = FALSE
  /\ a = "name" => h.item[t].name = NoName /\ h.item[t].const = FALSE

\* The items of the calls do not have their children yet.
Parsing(h, W, c, t, a) ==
  /\ c \in Seq([item : Items, type : {"array", "object"}, head : 0 .. Size, current : 0 .. Size])
  /\ Distinct(c) /\ Frames(c) \subseteq W.live /\ t \in W.live
  /\ Work(h, W, {Root(c, t)}, Frames(c), Frames(c))
  /\ \A k \in DOMAIN c : c[k].head = FirstOf(W, c[k].item) /\ c[k].current = LastOf(W, c[k].item)
  /\ a \in {"value", "name"} => Unread(h, W, c, t, a)
  /\ a \in {"first", "after"} => c # <<>>
  /\ a = "end" => c = <<>>

\* What is known of the call that runs, in each place it can be at
InCall(h, F, W, c, t, a) ==
  \/ a = "none" /\ W = Nothing /\ c = <<>> /\ t \in 0 .. Size
  \/ a = "filling" /\ Filling(h, W, c) /\ t \in 0 .. Size
  \/ a = "copying" /\ Duplicating(h, F, W, c) /\ t \in 0 .. Size
  \/ a \in {"value", "name", "first", "after", "end"} /\ Parsing(h, W, c, t, a)

Sound(h, F, R, L, W) == Sane(h) /\ h.mem = 0 /\ Caller(h, F, R) /\ L \subseteq Items /\ Parted(h, F, L, W)

\* Between the steps of a call, and of a task that makes many items one at a time, the
\* caller's trees are a forest, and what else is in the heap is the call's or was lost.
IInv ==
  \E W : Sound(heap, trees, roots, lost, W) /\ InCall(heap, trees, W, calls, target, at)

-----------------------------------------------------------------------------
(* Before and after a call *)

\* A heap in which a call may begin
Ready(h) ==
  /\ Alike(h, heap) /\ Sane(h) /\ h.item = heap.item /\ Caller(h, trees, roots)
  /\ Live(h) = trees.live \cup lost

\* No other call is running.
Idle ==
  /\ calls = <<>> /\ target \in 0 .. Size /\ lost \subseteq Items /\ trees.live \cap lost = {}
  /\ roots \subseteq trees.live /\ trees.live \subseteq Items
  /\ \A x \in trees.live : heap.item[x].type # "free"
  /\ heap \in HeapT /\ heap.mem = 0 /\ Ready(heap)

\* The item a may get children.
MayGrow(k, F, a) == a \in F.live /\ ~k.item[a].ref /\ \A r \in F.live : k.item[r].of # a

\* The caller's trees have become those of G, and the items are the same.
Became(res, k, G, R) ==
  res.r = TRUE /\ Sane(res.heap) /\ Live(res.heap) = Live(k) /\ Caller(res.heap, G, R)

\* What a call may leave: the caller's trees are one step further.
Outcome(g, R, L) ==
  /\ Sane(g) /\ L \subseteq Items
  /\ \E G : /\ Caller(g, G, R) /\ (G = trees \/ StepOf(trees, G))
            /\ G.live \cap L = {} /\ Live(g) = G.live \cup L

\* The heap g has one item more than the caller's.
OneMore(g, r) ==
  /\ Sane(g) /\ r \in Items /\ r \notin trees.live /\ r \notin lost /\ r # NULL
  /\ Caller(g, Beside(trees, Single(r)), roots \cup {r}) /\ Live(g) = trees.live \cup lost \cup {r}
  /\ \A x \in trees.live : g.item[x] = heap.item[x]

\* The heap g of a call whose items are those of V, before the memory is given back
Goes(g, V) ==
  /\ Sane(g) /\ Caller(g, trees, roots) /\ lost \subseteq Items /\ Parted(g, trees, lost, V)

=============================================================================
