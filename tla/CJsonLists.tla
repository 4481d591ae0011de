----------------------------- MODULE CJsonLists -----------------------------
(***************************************************************************)
(* The lists of src/cJSON.c as the heap holds them, and what its functions *)
(* do to their links: append, insert, take out, replace.  A call is a pure *)
(* operator on a memory: it returns the memory it leaves and its result.   *)
(*                                                                         *)
(* A list is doubly linked through next and prev, except that the prev of  *)
(* the first item is the last one (that is how an item is appended without *)
(* a walk) and the next of the last one is NULL.  Names are copies of the  *)
(* caller's, counted in "strings" until they are freed.  "left"            *)
(* allocations will still succeed, then malloc fails.                      *)
(***************************************************************************)
EXTENDS Naturals, Integers, Sequences

CONSTANTS NULL

(* What a call leaves and returns; a NULL or a FALSE result is a failure.  *)
Ret(m, r) == [mem |-> m, res |-> r]

Set(m, a, field, v) == [m EXCEPT !.heap[a][field] = v]

strdup(m, s) ==
  IF s = NULL \/ m.left = 0 THEN Ret(m, NULL)
  ELSE Ret([m EXCEPT !.strings = @ + 1, !.left = @ - 1], s)

(* The name that an item owns, unless it is constant.                      *)
OwnName(n) == IF n.string # NULL /\ ~n.const THEN 1 ELSE 0

-----------------------------------------------------------------------------
(* Appending.                                                              *)

suffix_object(m, prev, item) ==
  Set(Set(m, prev, "next", item), item, "prev", prev)

(* The list's last item is now item.                                       *)
AppendBehindFirst(m, first, item) ==      \* faulty
  Set(suffix_object(m, first, item), first, "prev", item)
AppendTo(m, first, item) ==
  Set(suffix_object(m, m.heap[first].prev, item), first, "prev", item)

(* item->next stays what it was, unless the list was empty.                *)
add_item_to_array(m, array, item) ==
  LET first == m.heap[array].child
  IN IF item = NULL \/ array = NULL \/ array = item THEN Ret(m, FALSE)
     ELSE IF first = NULL
     THEN Ret(Set(Set(Set(m, array, "child", item),
                      item, "prev", item), item, "next", NULL), TRUE)
     ELSE IF m.heap[first].prev = NULL THEN Ret(m, TRUE)   \* item is lost
     ELSE Ret(AppendTo(m, first, item), TRUE)

(* The item gets its new name before it is known to be attached.           *)
Rename(m, item, string, constant) ==
  LET copy == strdup(m, string)
      named == IF constant THEN m ELSE copy.mem
  IN IF ~constant /\ copy.res = NULL THEN Ret(m, FALSE)
     ELSE Ret([named EXCEPT !.strings = @ - OwnName(m.heap[item]),
                            !.heap[item].string = string,
                            !.heap[item].const = constant], TRUE)

add_item_to_object(m, object, string, item, constant) ==
  IF object = NULL \/ string = NULL \/ item = NULL \/ object = item
  THEN Ret(m, FALSE)
  ELSE LET named == Rename(m, item, string, constant)
       IN IF ~named.res THEN named
          ELSE add_item_to_array(named.mem, object, item)

-----------------------------------------------------------------------------
(* Taking out, putting in, replacing.                                      *)

(* first's list has lost the item that was n.                              *)
TailForgotten(m, first, n) == m           \* faulty
TailRepaired(m, first, n) ==
  IF n.next = NULL THEN Set(m, first, "prev", n.prev) ELSE m

DetachItemViaPointer(m, parent, item) ==
  IF item = NULL \/ (item # m.heap[parent].child /\ m.heap[item].prev = NULL)
  THEN Ret(m, NULL)
  ELSE
    LET n == m.heap[item]
        first == m.heap[parent].child
        before == IF item # first THEN Set(m, n.prev, "next", n.next) ELSE m
        after == IF n.next # NULL THEN Set(before, n.next, "prev", n.prev)
                 ELSE before
        linked == IF item = first THEN Set(after, parent, "child", n.next)
                  ELSE TailRepaired(after, first, n)
    IN Ret(Set(Set(linked, item, "prev", NULL), item, "next", NULL), item)

InsertBefore(m, array, after, newitem) ==
  LET first == m.heap[array].child
      before == m.heap[after].prev
      linked == Set(Set(Set(m, newitem, "next", after),
                        newitem, "prev", before), after, "prev", newitem)
  IN IF after # first /\ before = NULL THEN Ret(m, FALSE)
     ELSE IF after = first THEN Ret(Set(linked, array, "child", newitem), TRUE)
     ELSE Ret(Set(linked, before, "next", newitem), TRUE)

(* replacement stands where item stood, which nothing leads to any more.   *)
Supplant(m, parent, item, replacement) ==
  LET n == m.heap[item]
      first == m.heap[parent].child
      taken == Set(Set(m, replacement, "next", n.next),
                   replacement, "prev", n.prev)
      after == IF n.next # NULL THEN Set(taken, n.next, "prev", replacement)
               ELSE taken
      alone == IF after.heap[first].prev = first
               THEN Set(after, replacement, "prev", replacement) ELSE after
      before == IF n.prev # NULL THEN Set(after, n.prev, "next", replacement)
                ELSE after
      linked == IF first = item THEN Set(alone, parent, "child", replacement)
                ELSE IF n.next = NULL
                THEN Set(before, first, "prev", replacement)
                ELSE before
  IN Set(Set(linked, item, "next", NULL), item, "prev", NULL)

-----------------------------------------------------------------------------
(* What the lists of a sound heap look like: next leads from one item to   *)
(* the next, prev back, the first item's prev to the last, and the last    *)
(* item's next to nothing.                                                 *)

Fields == {"type", "string", "const", "value", "next", "prev", "child"}

IsHeap(heap) ==
  NULL \notin DOMAIN heap /\ \A a \in DOMAIN heap : DOMAIN heap[a] = Fields

(* The children of p are the items of c, in this order.                    *)
IsList(heap, p, c) ==
  /\ heap[p].child = IF c = <<>> THEN NULL ELSE c[1]
  /\ \A i \in 1 .. Len(c) :
       /\ heap[c[i]].next = IF i = Len(c) THEN NULL ELSE c[i + 1]
       /\ heap[c[i]].prev = IF i = 1 THEN c[Len(c)] ELSE c[i - 1]

Occurs(n, c) == \E i \in 1 .. Len(c) : c[i] = n
Apart(c) == \A i, j \in 1 .. Len(c) : c[i] = c[j] => i = j

(* Nobody's child: what the program holds.                                 *)
Alone(kids, n) == \A p \in DOMAIN kids : ~Occurs(n, kids[p])
Unlinked(heap, n) == heap[n].next = NULL /\ heap[n].prev = NULL

(* kids gives for every item the sequence that its children's links stand  *)
(* for: no item is in two of them, or twice in one, and the links of an    *)
(* item that is in none lead nowhere.                                      *)
LinksAre(heap, kids) ==
  /\ IsHeap(heap)
  /\ kids \in [DOMAIN heap -> Seq(DOMAIN heap)]
  /\ \A p \in DOMAIN heap : IsList(heap, p, kids[p]) /\ Apart(kids[p])
  /\ \A p, q \in DOMAIN heap, n \in DOMAIN heap :
       Occurs(n, kids[p]) /\ Occurs(n, kids[q]) => p = q
  /\ \A n \in DOMAIN heap : Alone(kids, n) => Unlinked(heap, n)
=============================================================================
