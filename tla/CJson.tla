--------------------------------- MODULE CJson ---------------------------------
(***************************************************************************)
(* The trees of cJSON.c: items linked by next, prev and child, made by the *)
(* parser and by the functions that create, add, detach, insert, replace,  *)
(* copy and delete items.  A call of the library is a step; those that     *)
(* make any number of items take more: the parser, whose input is any      *)
(* text, one per token, the others one per item.  malloc may fail.         *)
(*                                                                         *)
(* Values are left out: a string is an allocation, a name a member of a    *)
(* small set.  Every function is an operator on the heap; one that also    *)
(* returns something yields a record, in which "r" is the result.          *)
(* A caller owns the roots: it does not link an item below itself, and it  *)
(* leaves an item alone that a reference in another tree shares.           *)
(***************************************************************************)
EXTENDS Naturals, Sequences, FiniteSetsExt, SequencesExt

CONSTANTS
  Size,    \* bound: items that exist at a time; an allocation beyond fails
  Names,   \* names of object members
  Nesting  \* CJSON_NESTING_LIMIT

ASSUME HeapAssumption == Size \in Nat /\ Nesting \in Nat /\ "no name" \notin Names

VARIABLES
  heap,    \* the items, the number of allocated strings, and what malloc has left
  roots,   \* the trees the caller owns
  lost,    \* the references that AddItemReferenceToObject has lost
  calls,   \* the calls of parse_array and parse_object, or of cJSON_Duplicate
  target,  \* the item whose value the parser reads next
  at,      \* where in the text it is; "filling" or "copying"; "none" if no call runs
  trees    \* what the caller's trees are: auxiliary, a function of heap and roots

parseVars == <<calls, target, at>>
vars == <<heap, roots, lost, parseVars, trees>>

NULL == 0
Items == 1 .. Size
NoName == "no name"
Free == [next |-> NULL, prev |-> NULL, child |-> NULL, type |-> "free", name |-> NoName,
         const |-> FALSE, string |-> FALSE, ref |-> FALSE, of |-> NULL]
\* No function of these tells arrays and objects apart; only the parser does.
Types == {"scalar", "string", "list"}

TypeOK ==
  /\ heap.item \in [Items -> [next : 0 .. Size, prev : 0 .. Size, child : 0 .. Size,
                              type : Types \cup {"free", "new"}, name : Names \cup {NoName},
                              const : BOOLEAN, string : BOOLEAN, ref : BOOLEAN,
                              of : 0 .. Size]]
  /\ heap.strings \in Nat /\ heap.mem = 0 /\ ~heap.twice
  /\ roots \subseteq Items /\ lost \subseteq Items
  /\ target \in 0 .. Size
  /\ at \in {"none", "value", "name", "first", "after", "end", "filling", "copying"}

Init ==
  /\ heap = [item |-> [i \in Items |-> Free], strings |-> 0, mem |-> 0, twice |-> FALSE]
  /\ roots = {} /\ lost = {}
  /\ calls = <<>> /\ target = NULL /\ at = "none"
  /\ trees = [live |-> {}, kids |-> [i \in Items |-> <<>>]]

-----------------------------------------------------------------------------
(* Memory *)

Set(h, i, field, v) == [h EXCEPT !.item[i][field] = v]
Live(h) == {i \in Items : h.item[i].type # "free"}
Result(h, r) == [heap |-> h, r |-> r]

\* hooks->allocate for an item, zeroed
cJSON_New_Item(h) ==
  LET unused == Items \ Live(h) IN
  IF h.mem = 0 \/ unused = {} THEN Result([h EXCEPT !.mem = 0], NULL)
  ELSE Result([h EXCEPT !.mem = @ - 1, !.item[Min(unused)] = [Free EXCEPT !.type = "new"]],
              Min(unused))

cJSON_strdup(h) ==
  IF h.mem = 0 THEN Result(h, FALSE)
  ELSE Result([h EXCEPT !.mem = @ - 1, !.strings = @ + 1], TRUE)

Frees(h, n) == [h EXCEPT !.strings = @ - n]
OwnName(x)  == x.name # NoName /\ ~x.const
OwnString(x) == x.string /\ ~x.ref
One(b) == IF b THEN 1 ELSE 0

Strings(h, S) == Cardinality({i \in S : OwnName(h.item[i])})
                   + Cardinality({i \in S : OwnString(h.item[i])})

\* Where the links of an item lead that cJSON_Delete follows
Child(h, i) == IF h.item[i].ref THEN NULL ELSE h.item[i].child
Leads(h, i) == {h.item[i].next, Child(h, i)} \ {NULL}

\* The items that these links lead to from those of r, with r
Reached(h, r) ==
  LET closed == {S \in SUBSET Items : r \subseteq S /\ \A i \in S : Leads(h, i) \subseteq S}
  IN {i \in Items : \A S \in closed : i \in S}

\* The ways on which the doomed items are reached from starts: to each only one,
\* unless it is freed twice.
WaysTo(h, starts, doomed, i) ==
  ({"start"} \X {k \in DOMAIN starts : starts[k] = i})
    \cup ({"next"} \X {j \in doomed : h.item[j].next = i})
    \cup ({"child"} \X {j \in doomed : Child(h, j) = i})

FreedTwice(h, starts, doomed) ==
  \E i \in doomed :
    h.item[i].type = "free" \/ \E v, w \in WaysTo(h, starts, doomed, i) : v # w

\* cJSON_Delete for each of starts
Deletions(h, starts) ==
  LET doomed == Reached(h, ToSet(starts) \ {NULL}) IN
  [Frees(h, Strings(h, doomed)) EXCEPT
     !.item = [i \in Items |-> IF i \in doomed THEN Free ELSE @[i]],
     !.twice = @ \/ FreedTwice(h, starts, doomed)]

\* An item goes with its children and with the items after it.
cJSON_Delete(h, i) == Deletions(h, <<i>>)

-----------------------------------------------------------------------------
(* Finding items *)

\* The item i and those after it, in order
Chain(h, i) ==
  LET nth[n \in 0 .. Size] ==
        IF n = 0 THEN i
        ELSE LET p == nth[n - 1] IN IF p = NULL THEN NULL ELSE h.item[p].next
  IN [n \in 1 .. Cardinality({n \in 0 .. Size : nth[n] # NULL}) |-> nth[n - 1]]

Children(h, i) == Chain(h, Child(h, i))

cJSON_GetArraySize(h, a) == Len(Chain(h, h.item[a].child))

get_array_item(h, a, index) ==
  IF index < cJSON_GetArraySize(h, a) THEN Chain(h, h.item[a].child)[index + 1] ELSE NULL

\* With regard to case the search ends at a member without a name.
get_object_item(h, o, name, caseSensitive) ==
  LET members == Chain(h, h.item[o].child)
      ends == {n \in DOMAIN members :
                 h.item[members[n]].name \in
                   {name} \cup (IF caseSensitive THEN {NoName} ELSE {})}
  IN IF ends = {} \/ h.item[members[Min(ends)]].name # name THEN NULL ELSE members[Min(ends)]

-----------------------------------------------------------------------------
(* Linking items *)

suffix_object(h, prev, i) == Set(Set(h, prev, "next", i), i, "prev", prev)

MutAddToArray(h, a, i) ==
  LET child == h.item[a].child IN
  IF i = NULL \/ a = i THEN Result(h, FALSE)
  ELSE IF child = NULL
  THEN Result(Set(Set(h, a, "child", i), i, "prev", i), TRUE)
  ELSE Result(suffix_object(h, h.item[child].prev, i), TRUE)

add_item_to_array(h, a, i) ==
  LET child == h.item[a].child IN
  IF i = NULL \/ a = i THEN Result(h, FALSE)
  ELSE IF child = NULL
  THEN Result(Set(Set(Set(h, a, "child", i), i, "prev", i), i, "next", NULL), TRUE)
  ELSE IF h.item[child].prev = NULL THEN Result(h, TRUE)
  ELSE Result(Set(suffix_object(h, h.item[child].prev, i), child, "prev", i), TRUE)

\* The item takes the new name, and gives up its old one if that was its own.
Named(h, i, name, const) ==
  [Frees(h, One(OwnName(h.item[i]))) EXCEPT !.item[i].name = name, !.item[i].const = const]

add_item_to_object(h, o, name, i, const) ==
  IF i = NULL \/ o = i THEN Result(h, FALSE)
  ELSE IF const THEN add_item_to_array(Named(h, i, name, TRUE), o, i)
  ELSE LET copy == cJSON_strdup(h) IN
       IF ~copy.r THEN Result(copy.heap, FALSE)
       ELSE add_item_to_array(Named(copy.heap, i, name, FALSE), o, i)

MutUnlinked(h, parent, i) ==
  LET x == h.item[i]
      h1 == IF h.item[parent].child = i THEN h ELSE Set(h, x.prev, "next", x.next)
      h2 == IF x.next = NULL THEN h1 ELSE Set(h1, x.next, "prev", x.prev)
  IN Set(h2, parent, "child", x.next)

\* The item leaves the list of its parent.
Unlinked(h, parent, i) ==
  LET x == h.item[i]
      first == h.item[parent].child = i
      h1 == IF first THEN h ELSE Set(h, x.prev, "next", x.next)
      h2 == IF x.next = NULL THEN h1 ELSE Set(h1, x.next, "prev", x.prev)
  IN IF first THEN Set(h2, parent, "child", x.next)
     ELSE IF x.next = NULL THEN Set(h2, h2.item[parent].child, "prev", x.prev)
     ELSE h2

cJSON_DetachItemViaPointer(h, parent, i) ==
  IF i = NULL THEN Result(h, NULL)
  ELSE Result(Set(Set(Unlinked(h, parent, i), i, "prev", NULL), i, "next", NULL), i)

cJSON_InsertItemInArray(h, a, which, i) ==
  LET after == get_array_item(h, a, which) IN
  IF after = NULL THEN add_item_to_array(h, a, i)
  ELSE LET before == h.item[after].prev
           h1 == Set(Set(Set(h, i, "next", after), i, "prev", before), after, "prev", i)
       IN Result(IF h.item[a].child = after THEN Set(h1, a, "child", i)
                 ELSE Set(h1, before, "next", i), TRUE)

\* The new item takes the place of another.
Replaced(h, parent, i, new) ==
  LET x == h.item[i]
      h1 == Set(Set(h, new, "next", x.next), new, "prev", x.prev)
      h2 == IF x.next = NULL THEN h1 ELSE Set(h1, x.next, "prev", new)
      asFirst == Set(IF x.prev = i THEN Set(h2, new, "prev", new) ELSE h2,
                     parent, "child", new)
      later == Set(h2, x.prev, "next", new)
  IN IF h.item[parent].child = i THEN asFirst
     ELSE IF x.next = NULL THEN Set(later, h2.item[parent].child, "prev", new)
     ELSE later

\* The replaced item is deleted.
cJSON_ReplaceItemViaPointer(h, parent, i, new) ==
  IF i = NULL THEN Result(h, FALSE)
  ELSE LET alone == Set(Set(Replaced(h, parent, i, new), i, "next", NULL), i, "prev", NULL) IN
       Result(cJSON_Delete(alone, i), TRUE)

\* The new name is given before it is known whether there is such a member.
replace_item_in_object(h, o, name, new, caseSensitive) ==
  LET nameless == Named(h, new, NoName, h.item[new].const)
      copy == cJSON_strdup(nameless)
      named == Set(Set(copy.heap, new, "name", name), new, "const", FALSE)
  IN IF ~copy.r THEN Result(nameless, FALSE)
     ELSE cJSON_ReplaceItemViaPointer(named, o, get_object_item(named, o, name, caseSensitive), new)

-----------------------------------------------------------------------------
(* Making items *)

\* cJSON_CreateNull, True, False, Bool, Number; Array and Object
CreateBasic(h, type) ==
  LET new == cJSON_New_Item(h) IN
  IF new.r = NULL THEN new ELSE Result(Set(new.heap, new.r, "type", type), new.r)

\* cJSON_CreateString and Raw
cJSON_CreateString(h) ==
  LET new == CreateBasic(h, "string")
      copy == cJSON_strdup(new.heap)
  IN IF new.r = NULL THEN new
     ELSE IF copy.r THEN Result(Set(copy.heap, new.r, "string", TRUE), new.r)
     ELSE Result(cJSON_Delete(new.heap, new.r), NULL)

Create(h, type) == IF type = "string" THEN cJSON_CreateString(h) ELSE CreateBasic(h, type)

\* The first child knows the last one.
Closed(h, i, last) ==
  IF h.item[i].child = NULL THEN h ELSE Set(h, h.item[i].child, "prev", last)

\* The item after p in the list of a, whose first child does not know the last yet
Longer(h, a, p, i) == IF p = NULL THEN Set(h, a, "child", i) ELSE suffix_object(h, p, i)

\* A reference shares what the item has, but its name.
create_reference(h, i) ==
  LET new == cJSON_New_Item(h)
      x == h.item[i]
  IN IF new.r = NULL THEN new
     ELSE Result([new.heap EXCEPT !.item[new.r] =
                    [x EXCEPT !.next = NULL, !.prev = NULL, !.name = NoName, !.ref = TRUE,
                              !.of = IF x.of = NULL THEN i ELSE x.of]], new.r)

\* cJSON_AddNullToObject and the like
AddNewToObject(h, o, name, type) ==
  LET new == Create(h, type)
      added == add_item_to_object(new.heap, o, name, new.r, FALSE)
  IN IF added.r THEN Result(added.heap, new.r)
     ELSE Result(cJSON_Delete(added.heap, new.r), NULL)

\* cJSON_Duplicate up to the children.  What the item shares with another is
\* copied too, but not a constant name.
CopyItem(h, i) ==
  LET x == h.item[i]
      new == CreateBasic(h, x.type)
      n == new.r
      copy1 == IF x.string THEN cJSON_strdup(new.heap) ELSE Result(new.heap, TRUE)
      h1 == [copy1.heap EXCEPT !.item[n].string = x.string, !.item[n].const = x.const]
      copy2 == IF OwnName(x) THEN cJSON_strdup(h1) ELSE Result(h1, TRUE)
      h2 == Set(copy2.heap, n, "name", x.name)
  IN IF n = NULL THEN new
     ELSE IF ~copy1.r THEN Result(cJSON_Delete(new.heap, n), NULL)
     ELSE IF ~copy2.r THEN Result(cJSON_Delete(h1, n), NULL)
     ELSE Result(h2, n)

-----------------------------------------------------------------------------
(* Printing: the text is an allocation; what is in it is left out *)

reallocate(h) ==
  IF h.mem = 0 THEN Result(h, FALSE) ELSE Result([h EXCEPT !.mem = @ - 1], TRUE)

\* The buffer grows the given number of times; one that cannot grow is freed.
ensure(h, times) ==
  IF h.mem >= times THEN Result([h EXCEPT !.mem = @ - times], TRUE)
  ELSE Result([Frees(h, 1) EXCEPT !.mem = 0], FALSE)

cJSON_PrintBuffered(h, times) ==
  LET buffer == cJSON_strdup(h) IN
  IF buffer.r THEN ensure(buffer.heap, times) ELSE buffer

\* A last reallocation makes the text as long as it has to be.
print(h, times) ==
  LET text == cJSON_PrintBuffered(h, times)
      cut  == reallocate(text.heap)
  IN IF ~text.r \/ cut.r THEN Result(cut.heap, text.r) ELSE Result(Frees(text.heap, 1), FALSE)

-----------------------------------------------------------------------------
(* The caller *)

Trees(h, r) ==
  LET known == Reached(h, r) IN
  [live |-> known, kids |-> [a \in Items |-> IF a \in known THEN Children(h, a) ELSE <<>>]]

Forest == INSTANCE JsonForest WITH forest <- trees

Known == trees.live
Tree(i) == Forest!Tree(trees, i)
Item(i) == heap.item[i]
Shares(r, S) == Item(r).of \in S
Container(a) ==
  /\ a \in Known /\ Item(a).type = "list" /\ ~Item(a).ref
  /\ \A r \in Live(heap) \ lost : ~Shares(r, {a})
Deletable(S) == \A r \in Live(heap) \ (S \cup lost) : ~Shares(r, S)
Placeable(i, a) == i \in roots /\ (a = i \/ a \notin Tree(i))
\* The index after the last stands for all that are too large.
Indexes(a) == 0 .. cJSON_GetArraySize(heap, a)

\* For a call that allocates at most n times: which of them fails, if any
Given(n) == {[heap EXCEPT !.mem = m] : m \in 0 .. n}
Call(result) ==
  /\ at = "none"
  /\ heap' = [result.heap EXCEPT !.mem = 0]
  /\ UNCHANGED parseVars

Noted == trees' = Trees(heap', roots')
Gained(i) == roots' = roots \cup ({i} \ {NULL}) /\ UNCHANGED lost /\ Noted
Kept == UNCHANGED <<roots, lost>> /\ Noted
\* A child is no root; an item that was not placed is still the caller's.
Placed(i, placed) ==
  roots' = (IF placed THEN roots \ {i} ELSE roots) /\ UNCHANGED lost /\ Noted

CreateItem ==
  \E h \in Given(2), type \in Types :
    LET new == Create(h, type) IN Call(new) /\ Gained(new.r)

\* cJSON_CreateStringReference, ObjectReference and ArrayReference
CreateReference ==
  \E h \in Given(1), i \in Known :
    LET new == create_reference(h, i) IN
    /\ Item(i).type # "scalar"
    /\ Call([new EXCEPT !.heap = IF new.r = NULL THEN @ ELSE Set(@, new.r, "const", FALSE)])
    /\ Gained(new.r)

AddItemToArray ==
  \E a \in Items, i \in roots :
    LET added == add_item_to_array(heap, a, i) IN
    Container(a) /\ Placeable(i, a) /\ Call(added) /\ Placed(i, added.r)

AddItemToObject ==
  \E h \in Given(1), o \in Items, i \in roots, name \in Names, const \in BOOLEAN :
    LET added == add_item_to_object(h, o, name, i, const) IN
    Container(o) /\ Placeable(i, o) /\ Call(added) /\ Placed(i, added.r)

AddItemReferenceToArray ==
  \E h \in Given(1), a \in Items, i \in Known :
    LET new == create_reference(h, i) IN
    /\ Container(a) /\ i # a
    /\ Call(add_item_to_array(new.heap, a, new.r)) /\ Kept

\* Without memory for its name, the reference is lost.
AddItemReferenceToObject ==
  \E h \in Given(2), o \in Items, i \in Known, name \in Names :
    LET new == create_reference(h, i)
        added == add_item_to_object(new.heap, o, name, new.r, FALSE)
    IN /\ Container(o) /\ i # o /\ Call(added)
       /\ lost' = IF added.r THEN lost ELSE lost \cup ({new.r} \ {NULL})
       /\ UNCHANGED roots /\ Noted

AddNew ==
  \E h \in Given(3), o \in Items, name \in Names, type \in Types :
    Container(o) /\ Call(AddNewToObject(h, o, name, type)) /\ Kept

\* What DetachItemFromArray and DetachItemFromObject may find
Members(a) ==
  {get_array_item(heap, a, index) : index \in Indexes(a)}
    \cup {get_object_item(heap, a, name, case) : name \in Names, case \in BOOLEAN}

DetachItem ==
  \E a \in Items :
    /\ Container(a)
    /\ \E i \in Members(a) :
         LET detached == cJSON_DetachItemViaPointer(heap, a, i) IN
         Call(detached) /\ Gained(detached.r)

DeleteItemFrom ==
  \E a \in Items :
    /\ Container(a)
    /\ \E i \in Members(a) :
         LET detached == cJSON_DetachItemViaPointer(heap, a, i) IN
         /\ i # NULL => Deletable(Tree(i))
         /\ Call(Result(cJSON_Delete(detached.heap, detached.r), NULL)) /\ Kept

InsertItem ==
  \E a \in Known, i \in roots :
    /\ Container(a) /\ a # i /\ Placeable(i, a)
    /\ \E which \in Indexes(a) :
         LET inserted == cJSON_InsertItemInArray(heap, a, which, i) IN
         Call(inserted) /\ Placed(i, inserted.r)

ReplaceItemInArray ==
  \E a \in Known, new \in roots :
    /\ Container(a) /\ a # new /\ Placeable(new, a)
    /\ \E which \in Indexes(a) :
         LET i == get_array_item(heap, a, which)
             replaced == cJSON_ReplaceItemViaPointer(heap, a, i, new)
         IN /\ i # NULL => Deletable(Tree(i))
            /\ Call(replaced) /\ Placed(new, replaced.r)

ReplaceItemInObject ==
  \E h \in Given(1), o \in Items, name \in Names, new \in roots, case \in BOOLEAN :
    LET i == get_object_item(heap, o, name, case)
        replaced == replace_item_in_object(h, o, name, new, case)
    IN /\ Container(o) /\ o # new /\ Placeable(new, o)
       /\ i # NULL => Deletable(Tree(i))
       /\ Call(replaced) /\ Placed(new, replaced.r)

\* For a longer string; a shorter one overwrites the old.
SetValuestring ==
  \E h \in Given(1), i \in Known :
    LET copy == cJSON_strdup(h) IN
    /\ Item(i).type = "string" /\ ~Item(i).ref /\ Deletable({i})
    /\ Call(IF copy.r THEN Result(Set(Frees(copy.heap, One(Item(i).string)), i, "string", TRUE), i)
            ELSE copy)
    /\ Kept

\* The caller frees the text once it has sent it.
Render ==
  \E times \in 0 .. 1 : \E h \in Given(times + 2) :
  \E text \in {print(h, times), cJSON_PrintBuffered(h, times)} :
    /\ Known # {}
    /\ Call(Result(Frees(text.heap, One(text.r)), NULL)) /\ Kept

Delete ==
  \E i \in roots :
    /\ Deletable(Tree(i))
    /\ Call(Result(cJSON_Delete(heap, i), NULL))
    /\ roots' = roots \ {i} /\ UNCHANGED lost /\ Noted

\* cJSON_Duplicate without the children
DuplicateItem ==
  \E i \in Known, h \in Given(3) :
    LET copy == CopyItem(h, i) IN Call(copy) /\ Gained(copy.r)

-----------------------------------------------------------------------------
(* Calls that make any number of items; their caller's trees stay as they are *)

Works == heap.mem = 0 /\ UNCHANGED <<roots, lost>>
Plenty == [heap EXCEPT !.mem = 1]
Settle(h) == heap' = [h EXCEPT !.mem = 0] /\ Noted
Ends == calls' = <<>> /\ at' = "none" /\ UNCHANGED target

\* cJSON_CreateIntArray, FloatArray and DoubleArray; StringArray
ArrayBegins ==
  \E type \in {"scalar", "string"} :
    LET a == CreateBasic(Plenty, "list") IN
    /\ Works /\ at = "none" /\ a.r # NULL
    /\ Settle(a.heap)
    /\ calls' = <<[item |-> a.r, type |-> type, current |-> NULL]>>
    /\ at' = "filling" /\ UNCHANGED target

ArrayGrows ==
  \E h \in Given(2) :
    LET call == calls[1]
        new == Create(h, call.type)
    IN /\ Works /\ at = "filling" /\ new.r # NULL
       /\ Settle(Longer(new.heap, call.item, call.current, new.r))
       /\ calls' = <<[call EXCEPT !.current = new.r]>>
       /\ UNCHANGED <<at, target>>

ArrayFails ==
  \E h \in Given(2) :
    LET new == Create(h, calls[1].type) IN
    /\ Works /\ at = "filling" /\ new.r = NULL
    /\ Settle(cJSON_Delete(new.heap, calls[1].item)) /\ Ends

ArrayReturns ==
  /\ at = "filling"
  /\ heap' = Closed(heap, calls[1].item, calls[1].current)
  /\ Gained(calls[1].item) /\ Ends

\* cJSON_Duplicate with the children: source is the next of them to be copied.
Copying(copy, i) == [item |-> copy.r, source |-> Item(i).child, current |-> NULL]

DuplicateBegins ==
  \E i \in Known, h \in Given(3) :
    LET copy == CopyItem(h, i) IN
    /\ Works /\ at = "none" /\ copy.r # NULL
    /\ Settle(copy.heap)
    /\ calls' = <<Copying(copy, i)>> /\ at' = "copying" /\ UNCHANGED target

DuplicateChild ==
  \E h \in Given(3) :
    LET i == Last(calls).source
        copy == CopyItem(h, i)
    IN /\ Works /\ at = "copying" /\ i # NULL /\ copy.r # NULL
       /\ Settle(copy.heap)
       /\ calls' = Append(calls, Copying(copy, i)) /\ UNCHANGED <<at, target>>

\* Each call deletes what it has made.
DuplicateFails ==
  \E h \in Given(3) :
    LET i == Last(calls).source
        copy == CopyItem(h, i)
    IN /\ Works /\ at = "copying" /\ i # NULL /\ copy.r = NULL
       /\ Settle(Deletions(copy.heap, [k \in DOMAIN calls |-> calls[k].item])) /\ Ends

\* The copy of a child goes to the call for its parent.
DuplicateReturns ==
  LET call == Last(calls)
      caller == Last(Front(calls))
  IN /\ Works /\ at = "copying" /\ call.source = NULL /\ Len(calls) > 1
     /\ Settle(Longer(Closed(heap, call.item, call.current),
                      caller.item, caller.current, call.item))
     /\ calls' = Append(Front(Front(calls)), [caller EXCEPT !.current = call.item,
                                                           !.source = Item(@).next])
     /\ UNCHANGED <<at, target>>

DuplicateEnds ==
  /\ at = "copying" /\ Len(calls) = 1 /\ calls[1].source = NULL
  /\ heap' = Closed(heap, calls[1].item, calls[1].current)
  /\ Gained(calls[1].item) /\ Ends

-----------------------------------------------------------------------------
(* The parser: ParseWithLengthOpts, parse_value, parse_array, parse_object *)

ParseBegins ==
  LET new == cJSON_New_Item(Plenty) IN
  /\ Works /\ at = "none" /\ new.r # NULL
  /\ Settle(new.heap)
  /\ target' = new.r /\ at' = "value" /\ UNCHANGED calls

\* After a value: more of the innermost array or object, or the end.
ValueRead == at' = IF calls = <<>> THEN "end" ELSE "after"

ReadScalar ==
  /\ Works /\ at = "value" /\ Settle(Set(heap, target, "type", "scalar"))
  /\ ValueRead /\ UNCHANGED <<calls, target>>

\* parse_string, for a value
ReadString ==
  LET copy == cJSON_strdup(Plenty) IN
  /\ Works /\ at = "value" /\ copy.r
  /\ Settle(Set(Set(copy.heap, target, "type", "string"), target, "string", TRUE))
  /\ ValueRead /\ UNCHANGED <<calls, target>>

Open(type) ==
  /\ Works /\ at = "value" /\ Len(calls) < Nesting
  /\ calls' = Append(calls, [item |-> target, type |-> type, head |-> NULL, current |-> NULL])
  /\ at' = "first" /\ UNCHANGED <<heap, target, trees>>

OpenArray  == Open("array")
OpenObject == Open("object")

\* The first item of an array or an object, or one after a comma
NewItem(type) ==
  LET call == Last(calls)
      new == cJSON_New_Item(Plenty)
      next == [call EXCEPT !.current = new.r, !.head = IF @ = NULL THEN new.r ELSE @]
  IN /\ Works /\ at \in {"first", "after"} /\ call.type = type /\ new.r # NULL
     /\ Settle(IF call.head = NULL THEN new.heap
               ELSE suffix_object(new.heap, call.current, new.r))
     /\ calls' = Append(Front(calls), next)
     /\ target' = new.r

NewElement == NewItem("array")  /\ at' = "value"
NewMember  == NewItem("object") /\ at' = "name"

\* parse_string and the colon, for a name
ReadName ==
  \E name \in Names :
    LET copy == cJSON_strdup(Plenty) IN
    /\ Works /\ at = "name" /\ copy.r
    /\ Settle(Set(copy.heap, target, "name", name))
    /\ at' = "value" /\ UNCHANGED <<calls, target>>

\* Only now does the item have its elements or members.
Close(type) ==
  LET call == Last(calls) IN
  /\ Works /\ at \in {"first", "after"} /\ call.type = type
  /\ Settle(Closed(Set(Set(heap, call.item, "type", "list"), call.item, "child", call.head),
                   call.item, call.current))
  /\ calls' = Front(calls) /\ target' = call.item
  /\ at' = IF Len(calls) = 1 THEN "end" ELSE "after"

CloseArray  == Close("array")
CloseObject == Close("object")

MutUnwound == <<>>

\* Each call deletes the elements it has read.
Unwound == [k \in DOMAIN calls |-> calls[k].head]

\* A text that ends or goes on in another way, no memory, or too many calls
ParseFails ==
  /\ Works /\ at \notin {"none", "filling", "copying"}
  /\ Settle(Deletions(heap, Append(Unwound, IF calls = <<>> THEN target ELSE calls[1].item)))
  /\ calls' = <<>> /\ target' = NULL /\ at' = "none"

ParseReturns ==
  /\ at = "end" /\ at' = "none"
  /\ UNCHANGED <<heap, calls>>
  /\ Gained(target) /\ target' = NULL

Parse ==
  \/ ParseBegins \/ ReadScalar \/ ReadString \/ ParseFails \/ ParseReturns
  \/ OpenArray \/ NewElement \/ CloseArray
  \/ OpenObject \/ NewMember \/ ReadName \/ CloseObject

Fill == ArrayBegins \/ ArrayGrows \/ ArrayFails \/ ArrayReturns

Duplicate ==
  \/ DuplicateBegins \/ DuplicateChild \/ DuplicateFails
  \/ DuplicateReturns \/ DuplicateEnds

Next ==
  \/ CreateItem \/ CreateReference \/ DuplicateItem \/ Fill \/ Duplicate \/ Parse
  \/ AddItemToArray \/ AddItemToObject \/ AddNew
  \/ AddItemReferenceToArray \/ AddItemReferenceToObject
  \/ DetachItem \/ DeleteItemFrom \/ InsertItem
  \/ ReplaceItemInArray \/ ReplaceItemInObject \/ SetValuestring \/ Render \/ Delete

Spec == Init /\ [][Next]_vars

-----------------------------------------------------------------------------
(* Properties *)

(* Between calls, every item is in exactly one tree of the caller, every   *)
(* string belongs to exactly one item, and nothing has been freed twice:   *)
(* calls that fail in the middle give back what they had, but for the      *)
(* references that cJSON_AddItemReferenceToObject loses.                   *)
NothingLeaks ==
  at = "none" =>
    /\ ~heap.twice
    /\ Live(heap) = Known \cup lost
    /\ heap.strings = Strings(heap, Live(heap))

(* Every list of children can be walked and appended to: prev is the       *)
(* inverse of next, and the first child's prev is the last child.          *)
ListsLinked ==
  at = "none" =>
    \A a \in Known :
      LET l == Chain(heap, Item(a).child) IN
      ~Item(a).ref => \A j \in DOMAIN l : Item(l[j]).prev = IF j = 1 THEN Last(l) ELSE l[j - 1]

(* Through its links the heap is a forest that changes as its caller       *)
(* expects: one tree is made, moved or deleted by a call, and no other.    *)
ForestSpec == Forest!Spec
=============================================================================
