------------------------------- MODULE CJson -------------------------------
(***************************************************************************)
(* A program that uses cJSON: one call per step, each with memory for as   *)
(* many allocations as the step chooses.  The program holds the items it   *)
(* created, copied or detached ("roots"), gives each away once, and puts   *)
(* nothing below itself.  Array functions are used on arrays, those with a *)
(* name on objects.                                                        *)
(***************************************************************************)
EXTENDS CJsonItems

CONSTANTS
  Types,        \* of the items the program creates
  Values,       \* their values, for the types that have one
  MaxRoots      \* items that the program holds at a time

VARIABLES
  heap,         \* the items that are allocated, by address
  strings,      \* how many copied strings are
  roots

vars == <<heap, strings, roots>>

MaxItems == Cardinality(Addresses)

Init == heap = <<>> /\ strings = 0 /\ roots = {}

Arrays == {a \in DOMAIN heap : heap[a].type = "array"}
Objects == {a \in DOMAIN heap : heap[a].type = "object"}

Given(p) == {n \in roots : p \notin Tree(heap, n)}

(* Memory for n more allocations, the last of which fills it.              *)
Memory(n) == [heap |-> heap, strings |-> strings, left |-> n]
Room == {Memory(n) : n \in 0 .. 2 * (MaxItems - Cardinality(DOMAIN heap))}

Leaves(m, held) ==
  /\ heap' = m.heap
  /\ strings' = m.strings
  /\ roots' = held

Holds(call) == IF call.res = NULL THEN roots ELSE roots \cup {call.res}
Gives(call, n) == IF call.res THEN roots \ {n} ELSE roots

ValuesOf(type) ==
  IF type \in Stringed \cup {"number"} THEN Values ELSE {NULL}

-----------------------------------------------------------------------------
(* The calls.                                                              *)

CreateOne == \E m \in Room, t \in Types : \E v \in ValuesOf(t) :
  LET call == Create(m, t, v) IN Leaves(call.mem, Holds(call))

CreateList == \E m \in Room, n \in 0 .. MaxItems :
  \E t \in Types \cap {"number", "string"}, v \in Values :
    LET call == CreateArrayOf(m, t, [i \in 1 .. n |-> v])
    IN Leaves(call.mem, Holds(call))

Duplicate == \E m \in Room, a \in DOMAIN heap, recurse \in BOOLEAN :
  LET call == Duplicate_rec(m, a, 0, recurse)
  IN Leaves(call.mem, Holds(call))

AddItemToArray == \E a \in Arrays : \E n \in Given(a) :
  LET call == add_item_to_array(Memory(0), a, n)
  IN Leaves(call.mem, Gives(call, n))

InsertInArray == \E a \in Arrays, i \in 0 .. MaxItems : \E n \in Given(a) :
  LET call == InsertItemInArray(Memory(0), a, i, n)
  IN Leaves(call.mem, Gives(call, n))

ReplaceInArray == \E a \in Arrays, i \in 0 .. MaxItems : \E n \in Given(a) :
  LET m == Memory(0)
      call == ReplaceItemViaPointer(m, a, get_array_item(m, a, i), n)
  IN Leaves(call.mem, Gives(call, n))

AddItemToObject ==
  \E m \in Room, o \in Objects, s \in Names, constant \in BOOLEAN :
    \E n \in Given(o) :
      LET call == add_item_to_object(m, o, s, n, constant)
      IN Leaves(call.mem, Gives(call, n))

AddXToObject == \E m \in Room, o \in Objects, s \in Names, t \in Types :
  \E v \in ValuesOf(t) :
    Leaves(AddToObject(m, o, s, t, v).mem, roots)

ReplaceInObject ==
  \E m \in Room, o \in Objects, s \in Names, case_sensitive \in BOOLEAN :
    \E n \in Given(o) :
      LET call == replace_item_in_object(m, o, s, n, case_sensitive)
      IN Leaves(call.mem, Gives(call, n))

(* An item that a call by index or by name would find.                     *)
Addressed(p) ==
  IF p \in Arrays
  THEN {get_array_item(Memory(0), p, i) : i \in 0 .. MaxItems}
  ELSE {get_object_item(Memory(0), p, s, c) : s \in Names, c \in BOOLEAN}

DetachItem == \E p \in Arrays \cup Objects : \E n \in Addressed(p) :
  LET call == DetachItemViaPointer(Memory(0), p, n)
  IN Leaves(call.mem, Holds(call))

DeleteItem == \E p \in Arrays \cup Objects : \E n \in Addressed(p) :
  LET call == DetachItemViaPointer(Memory(0), p, n)
  IN Leaves(Delete(call.mem, call.res), roots)

DeleteRoot == \E n \in roots : Leaves(Delete(Memory(0), n), roots \ {n})

SetString ==
  \E m \in Room, n \in DOMAIN heap, v \in Values :
    \E longer, overlaps \in BOOLEAN :
      Leaves(SetValuestring(m, n, v, longer, overlaps).mem, roots)

Next ==
  \/ /\ Cardinality(roots) < MaxRoots
     /\ CreateOne \/ CreateList \/ Duplicate \/ DetachItem
  \/ AddItemToArray \/ InsertInArray \/ ReplaceInArray
  \/ AddItemToObject \/ AddXToObject \/ ReplaceInObject
  \/ DeleteItem \/ DeleteRoot \/ SetString

Spec == Init /\ [][Next]_vars

-----------------------------------------------------------------------------
(* What must hold between two calls.                                       *)

(* No pointer of a live item, and none that the program holds, leads to    *)
(* memory that was freed.                                                  *)
TypeOK ==
  /\ roots \subseteq DOMAIN heap
  /\ \A a \in DOMAIN heap :
       /\ {heap[a].next, heap[a].prev, heap[a].child}
            \subseteq (DOMAIN heap) \cup {NULL}
       /\ heap[a].string \in Names \cup {NULL}

(* Whatever was appended, inserted, replaced or taken out before, no live  *)
(* pointer leads to freed memory, the links stand for the sequences found  *)
(* by following them, the tail pointers included, an item is in one list   *)
(* at most, and the links of one that is in none lead nowhere.             *)
WellLinked ==
  /\ TypeOK
  /\ LinksAre(heap, [a \in DOMAIN heap |-> Kids(heap, a)])
  /\ \A n \in roots : Unlinked(heap, n)

(* Nothing leaks and nothing has two owners, whatever failed on the way:   *)
(* an item is held by the program or is in one list, once, below an item   *)
(* that is held, and there are as many copied strings as items that own    *)
(* one.                                                                    *)
Places(a) ==
  {<<p, i>> \in (DOMAIN heap) \X (1 .. MaxItems) :
     i <= Len(Kids(heap, p)) /\ Kids(heap, p)[i] = a}

OwnedOnce ==
  /\ \A a \in DOMAIN heap :
       Cardinality(Places(a)) = IF a \in roots THEN 0 ELSE 1
  /\ DOMAIN heap = UNION {Tree(heap, n) : n \in roots}
  /\ strings = OwnedStrings(heap, DOMAIN heap)

(* A call that fails for want of memory leaves no item behind and takes    *)
(* none: it may at most rename the item it was given.  And whatever a call *)
(* does to the links is an insertion, a removal or a replacement in one    *)
(* sequence of the forest of JsonTree.                                     *)
Forest == INSTANCE JsonTree WITH
  NoName <- NULL,
  kids <- [a \in DOMAIN heap |-> Kids(heap, a)],
  label <- [a \in DOMAIN heap |-> [type |-> heap[a].type,
                                   name |-> heap[a].string,
                                   value |-> heap[a].value]],
  roots <- roots

ListsAreSequences == Forest!Spec
=============================================================================
