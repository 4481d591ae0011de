----------------------------- MODULE CJsonItems -----------------------------
(***************************************************************************)
(* The items of src/cJSON.c, and the functions that create, name, copy and *)
(* free them, on the lists of CJsonLists.  A call can run out of memory at *)
(* each of its allocations.                                                *)
(* Not here: references (no item is shared by two lists), hooks (malloc).  *)
(***************************************************************************)
EXTENDS CJsonLists, FiniteSets

CONSTANTS
  Addresses,    \* where an item can be
  Names,        \* the names of members
  Folded,       \* tolower of every name, as a function
  CJSON_CIRCULAR_LIMIT

Stringed == {"string", "raw"}      \* the types whose value is a valuestring

Blank == [type |-> "invalid", string |-> NULL, const |-> FALSE,
          value |-> NULL, next |-> NULL, prev |-> NULL, child |-> NULL]

(* The value that an item owns.                                            *)
OwnValue(n) == IF n.type \in Stringed /\ n.value # NULL THEN 1 ELSE 0

(* The items reached from a by next; on a sound heap, all of them.         *)
RECURSIVE Chain(_, _, _)
Chain(heap, a, unseen) ==
  IF a \notin unseen THEN <<>>
  ELSE <<a>> \o Chain(heap, heap[a].next, unseen \ {a})

Kids(heap, a) == Chain(heap, heap[a].child, DOMAIN heap)

Linked(heap, a) == IsList(heap, a, Kids(heap, a))

RECURSIVE Tree(_, _)
Tree(heap, a) ==
  {a} \cup UNION {Tree(heap, Kids(heap, a)[i]) : i \in DOMAIN Kids(heap, a)}

OwnedStrings(heap, as) ==
  Cardinality({a \in as : OwnName(heap[a]) = 1})
    + Cardinality({a \in as : OwnValue(heap[a]) = 1})

-----------------------------------------------------------------------------
(* Allocation.                                                             *)

(* Which free address malloc returns makes no difference.                  *)
New_Item(m) ==
  LET free == Addresses \ DOMAIN m.heap
      a == CHOOSE x \in free : TRUE
  IN IF m.left = 0 \/ free = {} THEN Ret(m, NULL)
     ELSE Ret([m EXCEPT !.heap = [x \in {a} \cup DOMAIN m.heap |->
                                    IF x = a THEN Blank ELSE m.heap[x]],
                        !.left = @ - 1], a)

(* Faulty: the name outlives its item.                                     *)
FreedWithoutName(m, a) ==
  [m EXCEPT !.heap = [x \in DOMAIN m.heap \ {a} |-> m.heap[x]],
            !.strings = @ - OwnValue(m.heap[a])]
Freed(m, a) ==
  [m EXCEPT !.heap = [x \in DOMAIN m.heap \ {a} |-> m.heap[x]],
            !.strings = @ - OwnName(m.heap[a]) - OwnValue(m.heap[a])]

(* Frees item, everything below it, and the items that follow it.          *)
RECURSIVE Delete(_, _)
Delete(m, item) ==
  IF item = NULL THEN m
  ELSE Delete(Freed(Delete(m, m.heap[item].child), item), m.heap[item].next)

CreateItem(m, type, value) ==
  LET n == New_Item(m)
  IN IF n.res = NULL THEN n
     ELSE Ret([n.mem EXCEPT !.heap[n.res].type = type,
                            !.heap[n.res].value = value], n.res)

(* Also cJSON_CreateRaw.  The item goes when its text cannot be copied.    *)
CreateString(m, type, text) ==
  LET n == CreateItem(m, type, NULL)
      copy == strdup(n.mem, text)
  IN IF n.res = NULL THEN n
     ELSE IF copy.res = NULL THEN Ret(Delete(n.mem, n.res), NULL)
     ELSE Ret(Set(copy.mem, n.res, "value", text), n.res)

Create(m, type, value) ==
  IF type \in Stringed THEN CreateString(m, type, value)
  ELSE CreateItem(m, type, value)

(* cJSON_AddNullToObject and its siblings.                                 *)
AddToObject(m, object, name, type, value) ==
  LET new == Create(m, type, value)
      add == add_item_to_object(new.mem, object, name, new.res, FALSE)
  IN IF add.res THEN Ret(add.mem, new.res)
     ELSE Ret(Delete(add.mem, new.res), NULL)

-----------------------------------------------------------------------------
(* Searching: the address, or NULL.                                        *)

get_array_item(m, array, index) ==
  LET kids == Kids(m.heap, array)
  IN IF index < Len(kids) THEN kids[index + 1] ELSE NULL

(* A nameless item ends a case-sensitive search; nothing equals it in the  *)
(* other one.                                                              *)
get_object_item(m, object, name, case_sensitive) ==
  LET kids == Kids(m.heap, object)
      string(i) == m.heap[kids[i]].string
      Stops(i) == IF case_sensitive THEN string(i) \in {NULL, name}
                  ELSE string(i) # NULL /\ Folded[string(i)] = Folded[name]
      stops == {i \in DOMAIN kids : Stops(i)}
      first == CHOOSE i \in stops : \A j \in stops : i <= j
  IN IF name = NULL \/ stops = {} THEN NULL
     ELSE IF string(first) = NULL THEN NULL ELSE kids[first]

-----------------------------------------------------------------------------
(* Inserting, replacing, and setting a value.                              *)

InsertItemInArray(m, array, which, newitem) ==
  LET after == get_array_item(m, array, which)
  IN IF after = NULL THEN add_item_to_array(m, array, newitem)
     ELSE InsertBefore(m, array, after, newitem)

ReplaceItemViaPointer(m, parent, item, replacement) ==
  IF item = NULL \/ replacement = NULL \/ m.heap[parent].child = NULL
  THEN Ret(m, FALSE)
  ELSE IF replacement = item THEN Ret(m, TRUE)
  ELSE Ret(Delete(Supplant(m, parent, item, replacement), item), TRUE)

(* The replacement loses its name before it is known to be used.           *)
replace_item_in_object(m, object, string, replacement, case_sensitive) ==
  LET nameless == [m EXCEPT !.strings = @ - OwnName(m.heap[replacement]),
                            !.heap[replacement].string = NULL]
      copy == strdup(nameless, string)
      named == [copy.mem EXCEPT !.heap[replacement].string = string,
                                !.heap[replacement].const = FALSE]
  IN IF copy.res = NULL THEN Ret(nameless, FALSE)
     ELSE ReplaceItemViaPointer(named, object,
            get_object_item(named, object, string, case_sensitive),
            replacement)

(* A text that is not longer is copied over the old one, unless it is a    *)
(* part of it.                                                             *)
SetValuestring(m, object, text, longer, overlaps) ==
  LET copy == strdup(m, text)
  IN IF m.heap[object].type # "string" \/ (~longer /\ overlaps)
     THEN Ret(m, NULL)
     ELSE IF ~longer THEN Ret(Set(m, object, "value", text), text)
     ELSE IF copy.res = NULL THEN copy
     ELSE Ret([copy.mem EXCEPT !.strings = @ - 1,
                               !.heap[object].value = text], text)

-----------------------------------------------------------------------------
(* Building lists of new items: cJSON_CreateIntArray and its siblings.     *)

(* a's list so far ends with p.                                            *)
RECURSIVE Fill(_, _, _, _, _)
Fill(m, a, p, type, values) ==
  IF values = <<>>
  THEN LET first == m.heap[a].child
       IN Ret(IF first = NULL THEN m ELSE Set(m, first, "prev", p), a)
  ELSE LET n == Create(m, type, Head(values))
       IN IF n.res = NULL THEN Ret(Delete(n.mem, a), NULL)
          ELSE Fill(IF p = NULL THEN Set(n.mem, a, "child", n.res)
                    ELSE suffix_object(n.mem, p, n.res),
                    a, n.res, type, Tail(values))

CreateArrayOf(m, type, values) ==
  LET a == CreateItem(m, "array", NULL)
  IN IF a.res = NULL THEN a ELSE Fill(a.mem, a.res, NULL, type, values)

-----------------------------------------------------------------------------
(* Copying.                                                                *)

(* A new item with everything of item but its links, and the name: a       *)
(* constant name is shared, any other is copied.                           *)
CopyAlone(m, item) ==
  LET old == m.heap[item]
      new == Create(m, old.type, old.value)
      copy == strdup(new.mem, old.string)
      kept == IF old.const THEN new.mem ELSE copy.mem
  IN IF new.res = NULL \/ old.string = NULL THEN new
     ELSE IF ~old.const /\ copy.res = NULL
     THEN Ret(Delete(new.mem, new.res), NULL)
     ELSE Ret([kept EXCEPT !.heap[new.res].string = old.string,
                           !.heap[new.res].const = old.const], new.res)

RECURSIVE Duplicate_rec(_, _, _, _), CopyKids(_, _, _, _, _)

(* The rest of the list from child on is copied behind next.               *)
CopyKids(m, new, next, child, depth) ==
  LET copy == Duplicate_rec(m, child, depth + 1, TRUE)
      first == m.heap[new].child
  IN IF child = NULL
     THEN Ret(IF first = NULL THEN m ELSE Set(m, first, "prev", next), new)
     ELSE IF depth >= CJSON_CIRCULAR_LIMIT THEN Ret(Delete(m, new), NULL)
     ELSE IF copy.res = NULL THEN Ret(Delete(copy.mem, new), NULL)
     ELSE CopyKids(IF next = NULL THEN Set(copy.mem, new, "child", copy.res)
                   ELSE suffix_object(copy.mem, next, copy.res),
                   new, copy.res, m.heap[child].next, depth)

Duplicate_rec(m, item, depth, recurse) ==
  LET new == CopyAlone(m, item)
  IN IF new.res = NULL \/ ~recurse THEN new
     ELSE CopyKids(new.mem, new.res, NULL, m.heap[item].child, depth)
=============================================================================
