-------------------------- MODULE CJsonListsProofs --------------------------
(***************************************************************************)
(* What the functions on lists do to the links is what Append, InsertAt,   *)
(* RemoveAt and ReplaceAt do to one sequence, on every heap, however many  *)
(* items and lists it has.                                                 *)
(*                                                                         *)
(* "kids" gives for every item the sequence that the links of its children *)
(* stand for; LinksAre says that they do.  A call changes the cells of the *)
(* item it is given and of its new or old neighbours, and no others, so    *)
(* that all other lists stay what they were.                               *)
(***************************************************************************)
EXTENDS CJsonLists, SequencesExt, WellFoundedInduction, TLAPS

IsMemory(m) == DOMAIN m = {"heap", "strings", "left"} /\ IsHeap(m.heap)

(* The memory n is m, but for links.                                       *)
OnlyLinks(m, n) ==
  /\ n.strings = m.strings /\ n.left = m.left
  /\ DOMAIN n.heap = DOMAIN m.heap
  /\ \A a \in DOMAIN m.heap, f \in Fields \ {"next", "prev", "child"} :
       n.heap[a][f] = m.heap[a][f]

-----------------------------------------------------------------------------
(* One cell.                                                               *)

Links == {"next", "prev", "child"}

LEMMA SetIs ==
  ASSUME NEW m, IsMemory(m), NEW a \in DOMAIN m.heap, NEW f \in Links,
         NEW v
  PROVE  LET n == Set(m, a, f, v)
         IN  /\ IsMemory(n) /\ DOMAIN n.heap = DOMAIN m.heap
             /\ OnlyLinks(m, n)
             /\ \A b \in DOMAIN m.heap, g \in Links :
                  n.heap[b][g] = IF b = a /\ g = f THEN v ELSE m.heap[b][g]
<1> DEFINE n == Set(m, a, f, v)
<1>1. /\ DOMAIN n = DOMAIN m /\ n.strings = m.strings /\ n.left = m.left
      /\ n.heap = [m.heap EXCEPT ![a] = [m.heap[a] EXCEPT ![f] = v]]
  BY DEF Set, IsMemory
<1>2. DOMAIN n.heap = DOMAIN m.heap
  BY <1>1
<1>3. ASSUME NEW b \in DOMAIN m.heap
      PROVE  /\ DOMAIN n.heap[b] = Fields
             /\ \A g \in Fields :
                  n.heap[b][g] = IF b = a /\ g = f THEN v ELSE m.heap[b][g]
  <2>1. n.heap[b] = IF b = a THEN [m.heap[a] EXCEPT ![f] = v] ELSE m.heap[b]
    BY <1>1
  <2>2. DOMAIN m.heap[b] = Fields
    BY DEF IsMemory, IsHeap
  <2> QED
    BY <2>1, <2>2 DEF Links, Fields
<1> QED
  BY <1>1, <1>2, <1>3 DEF IsMemory, IsHeap, OnlyLinks, Links, Fields

LEMMA OnlyLinksTwice ==
  ASSUME NEW m, NEW n, NEW o, OnlyLinks(m, n), OnlyLinks(n, o)
  PROVE  OnlyLinks(m, o)
BY DEF OnlyLinks

-----------------------------------------------------------------------------
(* If only p's list and the items in it change, the others stay.           *)

LEMMA OtherListsStay ==
  ASSUME NEW heap, NEW kids, LinksAre(heap, kids),
         NEW after, IsHeap(after), DOMAIN after = DOMAIN heap,
         NEW p \in DOMAIN heap, NEW c \in Seq(DOMAIN heap),
         IsList(after, p, c), Apart(c),
         \A n \in DOMAIN heap : n # p => after[n].child = heap[n].child,
         \A n \in DOMAIN heap :
           ~Occurs(n, kids[p]) /\ ~Occurs(n, c) =>
             after[n].next = heap[n].next /\ after[n].prev = heap[n].prev,
         \A n \in DOMAIN heap :
           Occurs(n, c) => Occurs(n, kids[p]) \/ Alone(kids, n),
         \A n \in DOMAIN heap :
           Occurs(n, kids[p]) /\ ~Occurs(n, c) => Unlinked(after, n)
  PROVE  LinksAre(after, [kids EXCEPT ![p] = c])
<1> DEFINE D == DOMAIN heap
           ks == [kids EXCEPT ![p] = c]
<1>1. kids \in [D -> Seq(D)] /\ ks \in [D -> Seq(D)] /\ ks[p] = c
      /\ \A q \in D : q # p => ks[q] = kids[q]
  BY DEF LinksAre
<1>2. ASSUME NEW q \in D, q # p
      PROVE  IsList(after, q, ks[q]) /\ Apart(ks[q])
  <2>1. ks[q] = kids[q] /\ kids[q] \in Seq(D) /\ IsList(heap, q, kids[q]) /\ Apart(kids[q])
    BY <1>1, <1>2 DEF LinksAre
  <2>2. ASSUME NEW i \in 1 .. Len(kids[q])
        PROVE  /\ after[kids[q][i]].next = heap[kids[q][i]].next
               /\ after[kids[q][i]].prev = heap[kids[q][i]].prev
    <3> DEFINE n == kids[q][i]
    <3>1. n \in D /\ Occurs(n, kids[q])
      BY <2>1 DEF Occurs
    <3>2. ~Occurs(n, kids[p])
      BY <3>1, <1>2 DEF LinksAre
    <3>3. ~Alone(kids, n)
      BY <3>1, <1>1 DEF Alone
    <3> QED
      BY <3>1, <3>2, <3>3
  <2>3. after[q].child = heap[q].child
    BY <1>2
  <2> QED
    BY <2>1, <2>2, <2>3 DEF IsList
<1>3. ASSUME NEW q \in D, NEW r \in D, NEW n \in D,
             Occurs(n, ks[q]), Occurs(n, ks[r])
      PROVE  q = r
  BY <1>1, <1>3 DEF LinksAre, Alone
<1>4. ASSUME NEW n \in D, Alone(ks, n)
      PROVE  Unlinked(after, n)
  <2>1. ~Occurs(n, c) /\ \A q \in D : q # p => ~Occurs(n, kids[q])
    BY <1>1, <1>4 DEF Alone
  <2>2. CASE Occurs(n, kids[p])
    BY <2>1, <2>2
  <2>3. CASE ~Occurs(n, kids[p])
    <3>1. Alone(kids, n)
      BY <1>1, <2>1, <2>3 DEF Alone
    <3> QED
      BY <2>1, <2>3, <3>1 DEF LinksAre, Unlinked
  <2> QED
    BY <2>2, <2>3
<1> QED
  BY <1>1, <1>2, <1>3, <1>4 DEF LinksAre

-----------------------------------------------------------------------------
(* Facts for the cells of one list.                                        *)

Sound(m, kids) == IsMemory(m) /\ LinksAre(m.heap, kids)

(* The links of n: those of m, but for the cell f of a.                    *)
Differs(m, n, a, f, v) ==
  /\ IsMemory(n) /\ DOMAIN n.heap = DOMAIN m.heap /\ OnlyLinks(m, n)
  /\ \A b \in DOMAIN m.heap :
       /\ n.heap[b].next =
            IF b = a /\ f = "next" THEN v ELSE m.heap[b].next
       /\ n.heap[b].prev =
            IF b = a /\ f = "prev" THEN v ELSE m.heap[b].prev
       /\ n.heap[b].child =
            IF b = a /\ f = "child" THEN v ELSE m.heap[b].child

LEMMA SetDiffers ==
  ASSUME NEW m, IsMemory(m), NEW a \in DOMAIN m.heap, NEW f \in Links,
         NEW v
  PROVE  Differs(m, Set(m, a, f, v), a, f, v)
<1> DEFINE n == Set(m, a, f, v)
<1>1. /\ IsMemory(n) /\ DOMAIN n.heap = DOMAIN m.heap /\ OnlyLinks(m, n)
      /\ \A b \in DOMAIN m.heap, g \in Links :
           n.heap[b][g] = IF b = a /\ g = f THEN v ELSE m.heap[b][g]
  BY SetIs
<1> HIDE DEF n
<1>2. ASSUME NEW b \in DOMAIN m.heap
      PROVE  /\ n.heap[b]["next"] = IF b = a /\ f = "next" THEN v ELSE m.heap[b]["next"]
             /\ n.heap[b]["prev"] = IF b = a /\ f = "prev" THEN v ELSE m.heap[b]["prev"]
             /\ n.heap[b]["child"] = IF b = a /\ f = "child" THEN v ELSE m.heap[b]["child"]
  BY <1>1 DEF Links
<1>3. Differs(m, n, a, f, v)
  BY <1>1, <1>2 DEF Differs
<1> QED
  BY <1>3 DEF n

LEMMA AppendIs ==
  ASSUME NEW D, NEW c \in Seq(D), NEW x \in D
  PROVE  LET d == Append(c, x)
         IN  /\ d \in Seq(D) /\ Len(d) = Len(c) + 1 /\ d[Len(c) + 1] = x
             /\ \A i \in 1 .. Len(c) : d[i] = c[i]
OBVIOUS

(* A list's items, and what the links between them are.                    *)
LEMMA ListIs ==
  ASSUME NEW heap, NEW kids, LinksAre(heap, kids), NEW p \in DOMAIN heap
  PROVE  /\ kids[p] \in Seq(DOMAIN heap) /\ Len(kids[p]) \in Nat
         /\ NULL \notin DOMAIN heap
         /\ IsList(heap, p, kids[p]) /\ Apart(kids[p])
         /\ \A i \in 1 .. Len(kids[p]) :
              kids[p][i] \in DOMAIN heap /\ kids[p][i] # NULL
         /\ kids[p] # <<>> => Len(kids[p]) > 0
BY DEF LinksAre, IsHeap

-----------------------------------------------------------------------------
(* Appending.                                                              *)

(* add_item_to_array makes the item the last of the list, whether or not   *)
(* the list had items: the tail pointer in its first item is right again.  *)
THEOREM AddAppends ==
  ASSUME NEW m, NEW kids, Sound(m, kids),
         NEW array \in DOMAIN m.heap, NEW item \in DOMAIN m.heap,
         array # item, Alone(kids, item)
  PROVE  LET call == add_item_to_array(m, array, item)
         IN  /\ call.res = TRUE /\ OnlyLinks(m, call.mem)
             /\ Sound(call.mem, [kids EXCEPT ![array] = Append(@, item)])
<1> DEFINE D == DOMAIN m.heap
           c == kids[array]
           first == m.heap[array].child
           call == add_item_to_array(m, array, item)
           d == Append(c, item)
<1>1. /\ IsMemory(m) /\ LinksAre(m.heap, kids) /\ NULL \notin D
      /\ c \in Seq(D) /\ Len(c) \in Nat /\ IsList(m.heap, array, c) /\ Apart(c)
      /\ c # <<>> => Len(c) > 0
  BY ListIs DEF Sound
<1>2. item # NULL /\ array # NULL /\ Unlinked(m.heap, item)
  BY <1>1 DEF LinksAre
<1>3. ~Occurs(item, c)
  BY DEF Alone, Sound, LinksAre
<1>4. /\ d \in Seq(D) /\ Len(d) = Len(c) + 1 /\ d[Len(c) + 1] = item
      /\ \A i \in 1 .. Len(c) : d[i] = c[i]
  <2>1. c \in Seq(D) /\ item \in D
    BY <1>1
  <2> HIDE DEF D, c
  <2> QED
    BY <2>1, AppendIs
<1>5. Apart(d)
  BY <1>1, <1>3, <1>4 DEF Apart, Occurs
<1>6. \A n \in D : Occurs(n, d) <=> Occurs(n, c) \/ n = item
  BY <1>1, <1>4 DEF Occurs
<1>7. ASSUME NEW n, IsMemory(n), DOMAIN n.heap = D, IsList(n.heap, array, d),
             \A a \in D : a # array => n.heap[a].child = m.heap[a].child,
             \A a \in D : ~Occurs(a, d) =>
               n.heap[a].next = m.heap[a].next /\ n.heap[a].prev = m.heap[a].prev
      PROVE  Sound(n, [kids EXCEPT ![array] = Append(@, item)])
  <2>1. /\ IsHeap(n.heap)
        /\ \A a \in D : Occurs(a, d) => Occurs(a, c) \/ Alone(kids, a)
        /\ \A a \in D : Occurs(a, c) => Occurs(a, d)
        /\ \A a \in D : ~Occurs(a, c) /\ ~Occurs(a, d) =>
             n.heap[a].next = m.heap[a].next /\ n.heap[a].prev = m.heap[a].prev
    BY <1>6, <1>7 DEF IsMemory
  <2> HIDE DEF d
  <2>2. LinksAre(n.heap, [kids EXCEPT ![array] = d])
    BY <1>1, <1>4, <1>5, <1>7, <2>1, OtherListsStay
  <2> QED
    BY <1>7, <2>2 DEF Sound, d
<1>8. CASE c = <<>>
  <2> DEFINE m1 == Set(m, array, "child", item)
             m2 == Set(m1, item, "prev", item)
             m3 == Set(m2, item, "next", NULL)
  <2>1. first = NULL /\ call = Ret(m3, TRUE)
    BY <1>1, <1>2, <1>8 DEF IsList, add_item_to_array
  <2>2. Differs(m, m1, array, "child", item)
    BY <1>1, SetDiffers DEF Links
  <2>3. Differs(m1, m2, item, "prev", item)
    <3>1. IsMemory(m1) /\ item \in DOMAIN m1.heap
      BY <2>2 DEF Differs
    <3> HIDE DEF m1
    <3> QED
      BY <3>1, SetDiffers DEF Links
  <2>4. Differs(m2, m3, item, "next", NULL)
    <3>1. IsMemory(m2) /\ item \in DOMAIN m2.heap
      BY <2>2, <2>3 DEF Differs
    <3> HIDE DEF m2
    <3> QED
      BY <3>1, SetDiffers DEF Links
  <2> HIDE DEF m1, m2, m3
  <2>5. /\ IsMemory(m3) /\ DOMAIN m3.heap = D
        /\ OnlyLinks(m, m1) /\ OnlyLinks(m1, m2) /\ OnlyLinks(m2, m3)
        /\ \A a \in D :
             /\ m3.heap[a].next = IF a = item THEN NULL ELSE m.heap[a].next
             /\ m3.heap[a].prev = IF a = item THEN item ELSE m.heap[a].prev
             /\ m3.heap[a].child = IF a = array THEN item ELSE m.heap[a].child
    BY <2>2, <2>3, <2>4 DEF Differs
  <2>6. Len(c) = 0 /\ Len(d) = 1 /\ d[1] = item
    BY <1>8
  <2>7. IsList(m3.heap, array, d)
    <3>1. /\ m3.heap[array].child = d[1]
          /\ m3.heap[d[1]].next = NULL /\ m3.heap[d[1]].prev = d[1]
      BY <2>5, <2>6
    <3> HIDE DEF d
    <3>2. d # <<>> /\ 1 .. Len(d) = {1}
      BY <2>6
    <3> QED
      BY <2>6, <3>1, <3>2 DEF IsList
  <2>8. OnlyLinks(m, m3)
    BY <2>5, OnlyLinksTwice
  <2>9. Sound(m3, [kids EXCEPT ![array] = Append(@, item)])
    BY <1>6, <1>7, <2>5, <2>7
  <2> QED
    BY <2>1, <2>8, <2>9 DEF Ret
<1>9. CASE c # <<>>
  <2> DEFINE last == c[Len(c)]
             m1 == Set(m, last, "next", item)
             m2 == Set(m1, item, "prev", last)
             m3 == Set(m2, first, "prev", item)
  <2>1. /\ first = c[1] /\ first \in D /\ first # NULL /\ last \in D
        /\ m.heap[first].prev = last /\ last # NULL
    BY <1>1, <1>9 DEF IsList
  <2>2. call = Ret(m3, TRUE)
    BY <1>2, <2>1 DEF add_item_to_array, AppendTo, suffix_object
  <2>3. Differs(m, m1, last, "next", item)
    BY <1>1, <2>1, SetDiffers DEF Links
  <2>4. Differs(m1, m2, item, "prev", last)
    <3>1. IsMemory(m1) /\ item \in DOMAIN m1.heap
      BY <2>3 DEF Differs
    <3> HIDE DEF m1
    <3> QED
      BY <3>1, SetDiffers DEF Links
  <2>5. Differs(m2, m3, first, "prev", item)
    <3>1. IsMemory(m2) /\ first \in DOMAIN m2.heap
      BY <2>1, <2>3, <2>4 DEF Differs
    <3> HIDE DEF m2
    <3> QED
      BY <3>1, SetDiffers DEF Links
  <2> HIDE DEF m1, m2, m3
  <2>6. first # item /\ last # item
    BY <1>1, <1>3, <1>9, <2>1 DEF Occurs
  <2>7. /\ IsMemory(m3) /\ DOMAIN m3.heap = D
        /\ OnlyLinks(m, m1) /\ OnlyLinks(m1, m2) /\ OnlyLinks(m2, m3)
        /\ \A a \in D :
             /\ m3.heap[a].next = IF a = last THEN item ELSE m.heap[a].next
             /\ m3.heap[a].prev = IF a = first THEN item
                                  ELSE IF a = item THEN last ELSE m.heap[a].prev
             /\ m3.heap[a].child = m.heap[a].child
    BY <2>3, <2>4, <2>5 DEF Differs
  <2>8. IsList(m3.heap, array, d)
    <3>1. m3.heap[array].child = d[1] /\ d # <<>>
      BY <1>1, <1>4, <1>9, <2>1, <2>7
    <3>2. ASSUME NEW i \in 1 .. Len(c)
          PROVE  /\ m3.heap[d[i]].next = d[i + 1]
                 /\ m3.heap[d[i]].prev = IF i = 1 THEN d[Len(d)] ELSE d[i - 1]
      <4>1. /\ c[i] \in D /\ d[i] = c[i] /\ c[i] # item
            /\ c[i] = last <=> i = Len(c)
            /\ c[i] = first <=> i = 1
        BY <1>1, <1>3, <1>4, <1>9, <2>1 DEF Apart, Occurs
      <4>2. /\ m.heap[c[i]].next = IF i = Len(c) THEN NULL ELSE c[i + 1]
            /\ m.heap[c[i]].prev = IF i = 1 THEN c[Len(c)] ELSE c[i - 1]
        BY <1>1 DEF IsList
      <4>3. i # Len(c) => d[i + 1] = c[i + 1]
        BY <1>1, <1>4
      <4>4. i # 1 => d[i - 1] = c[i - 1]
        BY <1>1, <1>4
      <4> HIDE DEF d
      <4> QED
        BY <1>4, <2>7, <4>1, <4>2, <4>3, <4>4
    <3>3. /\ m3.heap[d[Len(d)]].next = NULL
          /\ m3.heap[d[Len(d)]].prev = d[Len(d) - 1]
      <4>1. d[Len(d)] = item /\ d[Len(d) - 1] = last
        BY <1>1, <1>4, <1>9
      <4> QED
        BY <1>2, <2>6, <2>7, <4>1 DEF Unlinked
    <3> HIDE DEF d
    <3> QED
      BY <1>1, <1>4, <1>9, <3>1, <3>2, <3>3 DEF IsList
  <2>9. OnlyLinks(m, m3)
    BY <2>7, OnlyLinksTwice
  <2>10. Occurs(first, c) /\ Occurs(last, c)
    BY <1>1, <1>9, <2>1 DEF Occurs
  <2>11. Sound(m3, [kids EXCEPT ![array] = Append(@, item)])
    <3>1. \A a \in D : ~Occurs(a, d) => a # first /\ a # last /\ a # item
      BY <1>6, <2>1, <2>10
    <3> QED
      BY <1>7, <2>7, <2>8, <3>1
  <2> QED
    BY <2>2, <2>9, <2>11 DEF Ret
<1> QED
  BY <1>8, <1>9

-----------------------------------------------------------------------------
(* Inserting.                                                              *)

Inserted(D, c, i, x, d) ==
  /\ d \in Seq(D) /\ Len(d) = Len(c) + 1 /\ d[i] = x
  /\ \A j \in 1 .. i - 1 : d[j] = c[j]
  /\ \A j \in i .. Len(c) : d[j + 1] = c[j]

LEMMA InsertAtIs ==
  ASSUME NEW D, NEW c \in Seq(D), NEW i \in 1 .. Len(c), NEW x \in D,
         NEW d, d = InsertAt(c, i, x)
  PROVE  Inserted(D, c, i, x, d)
<1> DEFINE s == SubSeq(c, 1, i - 1)
           t == SubSeq(c, i, Len(c))
           u == s \o <<x>>
<1>1. Len(c) \in Nat /\ i \in Nat /\ i <= Len(c) /\ i >= 1
  OBVIOUS
<1>2. s \in Seq(D) /\ Len(s) = i - 1 /\ \A j \in 1 .. i - 1 : s[j] = c[j]
  BY <1>1
<1>3. /\ t \in Seq(D) /\ Len(t) = Len(c) - i + 1
      /\ \A j \in 1 .. Len(c) - i + 1 : t[j] = c[i + j - 1]
  BY <1>1
<1> HIDE DEF s, t
<1>4. /\ u \in Seq(D) /\ Len(u) = i /\ u[i] = x
      /\ \A j \in 1 .. i - 1 : u[j] = s[j]
  BY <1>1, <1>2
<1>5. d = u \o t
  BY DEF InsertAt, s, t
<1> HIDE DEF u
<1>6. /\ d \in Seq(D) /\ Len(d) = Len(c) + 1
      /\ \A j \in 1 .. i : d[j] = u[j]
      /\ \A j \in 1 .. Len(c) - i + 1 : d[i + j] = t[j]
  <2>1. /\ d \in Seq(D) /\ Len(d) = Len(u) + Len(t)
        /\ \A j \in 1 .. Len(u) : d[j] = u[j]
        /\ \A j \in 1 .. Len(t) : d[Len(u) + j] = t[j]
    <3>1. u \in Seq(D) /\ t \in Seq(D)
      BY <1>3, <1>4
    <3>2. /\ u \o t \in Seq(D) /\ Len(u \o t) = Len(u) + Len(t)
          /\ \A j \in 1 .. Len(u) : (u \o t)[j] = u[j]
          /\ \A j \in 1 .. Len(t) : (u \o t)[Len(u) + j] = t[j]
      BY <3>1
    <3> QED
      BY <1>5, <3>2, Zenon
  <2> QED
    BY <1>1, <1>3, <1>4, <2>1
<1>7. ASSUME NEW j \in i .. Len(c)
      PROVE  d[j + 1] = c[j]
  <2> DEFINE k == j - i + 1
  <2>1. k \in 1 .. Len(c) - i + 1 /\ i + k = j + 1 /\ i + k - 1 = j
    BY <1>1
  <2> HIDE DEF k
  <2> QED
    BY <1>3, <1>6, <2>1
<1>8. d \in Seq(D) /\ Len(d) = Len(c) + 1 /\ d[i] = x
      /\ \A j \in 1 .. i - 1 : d[j] = c[j]
  BY <1>1, <1>2, <1>4, <1>6
<1> QED
  BY <1>7, <1>8 DEF Inserted

(* InsertBefore puts the item where the i-th was, the first included: then *)
(* the tail pointer moves from the old first item to the new one.          *)
THEOREM InsertInserts ==
  ASSUME NEW m, NEW kids, Sound(m, kids),
         NEW array \in DOMAIN m.heap, NEW newitem \in DOMAIN m.heap,
         Alone(kids, newitem),
         NEW i \in 1 .. Len(kids[array])
  PROVE  LET call == InsertBefore(m, array, kids[array][i], newitem)
         IN  /\ call.res = TRUE /\ OnlyLinks(m, call.mem)
             /\ Sound(call.mem,
                      [kids EXCEPT ![array] = InsertAt(@, i, newitem)])
<1> DEFINE D == DOMAIN m.heap
           c == kids[array]
           first == m.heap[array].child
           after == c[i]
           before == m.heap[after].prev
           call == InsertBefore(m, array, after, newitem)
           d == InsertAt(c, i, newitem)
           m1 == Set(m, newitem, "next", after)
           m2 == Set(m1, newitem, "prev", before)
           m3 == Set(m2, after, "prev", newitem)
           m4 == IF i = 1 THEN Set(m3, array, "child", newitem)
                 ELSE Set(m3, before, "next", newitem)
<1>1. /\ IsMemory(m) /\ LinksAre(m.heap, kids) /\ NULL \notin D
      /\ c \in Seq(D) /\ Len(c) \in Nat /\ IsList(m.heap, array, c) /\ Apart(c)
      /\ \A j \in 1 .. Len(c) : c[j] \in D /\ c[j] # NULL
  BY ListIs DEF Sound
<1>2. ~Occurs(newitem, c) /\ newitem \in D /\ array \in D
  BY DEF Alone, Sound, LinksAre
<1>3. /\ d \in Seq(D) /\ Len(d) = Len(c) + 1 /\ d[i] = newitem
      /\ \A j \in 1 .. i - 1 : d[j] = c[j]
      /\ \A j \in i .. Len(c) : d[j + 1] = c[j]
  <2>1. c \in Seq(D) /\ newitem \in D /\ i \in 1 .. Len(c) /\ d = InsertAt(c, i, newitem)
    BY <1>1
  <2> HIDE DEF D, c, d
  <2> QED
    <3>1. Inserted(D, c, i, newitem, d)
      BY <2>1, InsertAtIs
    <3> QED
      BY <3>1 DEF Inserted
<1>4. i \in Nat /\ 1 <= i /\ i <= Len(c) /\ Len(c) \in Nat
  BY <1>1
<1>5. /\ first = c[1]
      /\ before = IF i = 1 THEN c[Len(c)] ELSE c[i - 1]
      /\ first \in D /\ after \in D /\ before \in D /\ before # NULL
      /\ after = first <=> i = 1
  <2>1. c # <<>> /\ 1 \in 1 .. Len(c) /\ Len(c) \in 1 .. Len(c)
    BY <1>1, <1>4
  <2>2. i # 1 => i - 1 \in 1 .. Len(c)
    BY <1>4
  <2> QED
    BY <1>1, <2>1, <2>2 DEF IsList, Apart
<1>6. call = Ret(m4, TRUE)
  BY <1>5 DEF InsertBefore
<1>7. Differs(m, m1, newitem, "next", after)
  BY <1>1, SetDiffers DEF Links
<1>8. Differs(m1, m2, newitem, "prev", before)
  <2>1. IsMemory(m1) /\ newitem \in DOMAIN m1.heap
    BY <1>7 DEF Differs
  <2> HIDE DEF m1
  <2> QED
    BY <2>1, SetDiffers DEF Links
<1>9. Differs(m2, m3, after, "prev", newitem)
  <2>1. IsMemory(m2) /\ after \in DOMAIN m2.heap
    BY <1>5, <1>7, <1>8 DEF Differs
  <2> HIDE DEF m2
  <2> QED
    BY <2>1, SetDiffers DEF Links
<1>10. /\ i = 1 => Differs(m3, m4, array, "child", newitem)
       /\ i # 1 => Differs(m3, m4, before, "next", newitem)
  <2>1. IsMemory(m3) /\ array \in DOMAIN m3.heap /\ before \in DOMAIN m3.heap
    BY <1>2, <1>5, <1>7, <1>8, <1>9 DEF Differs
  <2> HIDE DEF m3
  <2> QED
    BY <2>1, SetDiffers DEF Links
<1> HIDE DEF m1, m2, m3, m4
<1>11. newitem # after /\ newitem # before
  BY <1>1, <1>2, <1>4, <1>5 DEF Occurs
<1>12. /\ IsMemory(m4) /\ DOMAIN m4.heap = D
       /\ OnlyLinks(m, m1) /\ OnlyLinks(m1, m2) /\ OnlyLinks(m2, m3)
       /\ OnlyLinks(m3, m4)
       /\ \A a \in D :
            /\ m4.heap[a].next = IF a = newitem THEN after
                                 ELSE IF i # 1 /\ a = before THEN newitem
                                 ELSE m.heap[a].next
            /\ m4.heap[a].prev = IF a = after THEN newitem
                                 ELSE IF a = newitem THEN before
                                 ELSE m.heap[a].prev
            /\ m4.heap[a].child = IF i = 1 /\ a = array THEN newitem
                                  ELSE m.heap[a].child
  BY <1>7, <1>8, <1>9, <1>10, <1>11 DEF Differs
<1>13. \A k \in 1 .. Len(c) :
         /\ c[k] # newitem
         /\ c[k] = after <=> k = i
         /\ i # 1 => (c[k] = before <=> k = i - 1)
         /\ m.heap[c[k]].next = IF k = Len(c) THEN NULL ELSE c[k + 1]
         /\ m.heap[c[k]].prev = IF k = 1 THEN c[Len(c)] ELSE c[k - 1]
  <2>1. i # 1 => i - 1 \in 1 .. Len(c)
    BY <1>4
  <2> QED
    BY <1>1, <1>2, <1>4, <1>5, <2>1 DEF Apart, Occurs, IsList
<1>20. ASSUME NEW k \in 1 .. Len(c)
       PROVE  /\ m4.heap[c[k]].next =
                   IF i # 1 /\ k = i - 1 THEN newitem
                   ELSE IF k = Len(c) THEN NULL ELSE c[k + 1]
              /\ m4.heap[c[k]].prev =
                   IF k = i THEN newitem
                   ELSE IF k = 1 THEN c[Len(c)] ELSE c[k - 1]
  <2> DEFINE x == c[k]
  <2>1. /\ x \in D /\ x # newitem
        /\ x = after <=> k = i
        /\ i # 1 => (x = before <=> k = i - 1)
        /\ m.heap[x].next = IF k = Len(c) THEN NULL ELSE c[k + 1]
        /\ m.heap[x].prev = IF k = 1 THEN c[Len(c)] ELSE c[k - 1]
    BY <1>1, <1>13
  <2> HIDE DEF x, after, before
  <2>2. /\ m4.heap[x].next = IF i # 1 /\ k = i - 1 THEN newitem
                             ELSE IF k = Len(c) THEN NULL ELSE c[k + 1]
        /\ m4.heap[x].prev = IF k = i THEN newitem
                             ELSE IF k = 1 THEN c[Len(c)] ELSE c[k - 1]
    BY <1>12, <2>1
  <2> QED
    BY <2>2 DEF x
<1>14. d[Len(d)] = c[Len(c)]
  <2> HIDE DEF D, c, d
  <2> QED
    BY <1>3, <1>4
<1>15. IsList(m4.heap, array, d)
  <2>1. m4.heap[array].child = d[1] /\ Len(d) # 0
    <3>1. d[1] = IF i = 1 THEN newitem ELSE c[1]
      BY <1>3, <1>4
    <3> QED
      BY <1>1, <1>2, <1>3, <1>4, <1>5, <1>12, <3>1
  <2>3. d[i + 1] = after /\ i # Len(d)
    BY <1>3, <1>4
  <2> HIDE DEF D, c, d, first, after, before
  <2>2. ASSUME NEW j \in 1 .. Len(d)
        PROVE  /\ m4.heap[d[j]].next = IF j = Len(d) THEN NULL ELSE d[j + 1]
               /\ m4.heap[d[j]].prev = IF j = 1 THEN d[Len(d)] ELSE d[j - 1]
    <3>1. j \in Nat /\ 1 <= j /\ j <= Len(c) + 1
      BY <1>1, <1>3
    <3>2. CASE j < i
      <4>1. j \in 1 .. Len(c) /\ d[j] = c[j] /\ c[j] \in D
            /\ j # Len(c) /\ j # Len(d)
        BY <1>1, <1>3, <1>4, <3>1, <3>2
      <4>2. d[j + 1] = IF j = i - 1 THEN newitem ELSE c[j + 1]
        BY <1>3, <1>4, <3>1, <3>2
      <4>3. j # 1 => d[j - 1] = c[j - 1]
        BY <1>3, <1>4, <3>1, <3>2
      <4> HIDE DEF d
      <4> QED
        BY <1>4, <1>20, <1>14, <3>1, <3>2, <4>1, <4>2, <4>3
    <3>3. CASE j = i
      <4>1. d[j] = newitem /\ d[j + 1] = after /\ j # Len(d)
        BY <1>3, <2>3, <3>3
      <4>2. i # 1 => d[j - 1] = c[i - 1]
        BY <1>3, <1>4, <3>3
      <4> HIDE DEF d
      <4> QED
        BY <1>2, <1>5, <1>11, <1>12, <1>14, <3>3, <4>1, <4>2
    <3>4. CASE j > i
      <4> DEFINE k == j - 1
      <4>1. k \in 1 .. Len(c) /\ k >= i /\ j = k + 1 /\ j # 1
            /\ d[j] = c[k] /\ c[k] \in D
        BY <1>1, <1>3, <1>4, <3>1, <3>4
      <4>2. k # Len(c) => d[j + 1] = c[k + 1]
        <5>1. k # Len(c) => k + 1 \in i .. Len(c) /\ j + 1 = (k + 1) + 1
          BY <1>4, <3>1, <3>4
        <5> HIDE DEF k
        <5> QED
          BY <1>3, <5>1
      <4>3. d[j - 1] = IF k = i THEN newitem ELSE c[k - 1]
        BY <1>3, <1>4, <3>1, <3>4
      <4>4. j = Len(d) <=> k = Len(c)
        BY <1>1, <1>3, <3>1
      <4> HIDE DEF d, k
      <4> QED
        BY <1>4, <1>20, <4>1, <4>2, <4>3, <4>4
    <3> QED
      BY <1>4, <3>1, <3>2, <3>3, <3>4
  <2> HIDE DEF d
  <2> QED
    BY <2>1, <2>2 DEF IsList
<1>16. \A n \in D : Occurs(n, d) <=> Occurs(n, c) \/ n = newitem
  <2>1. ASSUME NEW j \in 1 .. Len(d)
        PROVE  d[j] = newitem \/ Occurs(d[j], c)
    <3>1. j \in Nat /\ 1 <= j /\ j <= Len(c) + 1
      BY <1>1, <1>3
    <3>2. CASE j < i
      BY <1>3, <1>4, <3>1, <3>2 DEF Occurs
    <3>3. CASE j > i
      <4>1. j - 1 \in i .. Len(c) /\ j - 1 \in 1 .. Len(c) /\ j = (j - 1) + 1
        BY <1>4, <3>1, <3>3
      <4> HIDE DEF d
      <4> QED
        BY <1>3, <4>1 DEF Occurs
    <3> QED
      BY <1>3, <1>4, <3>1, <3>2, <3>3
  <2>2. ASSUME NEW k \in 1 .. Len(c)
        PROVE  Occurs(c[k], d)
    <3>1. k < i => k \in 1 .. i - 1 /\ k \in 1 .. Len(d)
      BY <1>1, <1>3, <1>4
    <3>2. k >= i => k \in i .. Len(c) /\ k + 1 \in 1 .. Len(d)
      BY <1>1, <1>3, <1>4
    <3> HIDE DEF d
    <3> QED
      BY <1>1, <1>3, <1>4, <3>1, <3>2 DEF Occurs
  <2>3. Occurs(newitem, d)
    <3>1. i \in 1 .. Len(d)
      BY <1>1, <1>3, <1>4
    <3> QED
      BY <1>3, <3>1 DEF Occurs
  <2> HIDE DEF d
  <2> QED
    BY <2>1, <2>2, <2>3 DEF Occurs
<1>17. Apart(d)
  <2> DEFINE at(j) == IF j < i THEN j ELSE j - 1
  <2>1. ASSUME NEW j \in 1 .. Len(d), j # i
        PROVE  at(j) \in 1 .. Len(c) /\ d[j] = c[at(j)] /\ d[j] # newitem
    <3>1. CASE j < i
      <4>1. j \in 1 .. Len(c) /\ d[j] = c[j]
        BY <1>1, <1>3, <1>4, <3>1
      <4> QED
        BY <1>13, <3>1, <4>1
    <3>2. CASE j > i
      <4>1. j - 1 \in i .. Len(c) /\ j - 1 \in 1 .. Len(c) /\ j = (j - 1) + 1
        BY <1>1, <1>3, <1>4, <3>2
      <4>2. d[j] = c[j - 1]
        <5> HIDE DEF d
        <5> QED
          BY <1>3, <4>1
      <4> QED
        BY <1>4, <1>13, <3>2, <4>1, <4>2
    <3> QED
      BY <1>1, <1>3, <1>4, <2>1, <3>1, <3>2
  <2>2. ASSUME NEW j \in 1 .. Len(d), NEW k \in 1 .. Len(d), d[j] = d[k],
               j # i, k # i
        PROVE  j = k
    <3>1. at(j) = at(k)
      BY <1>1, <2>1, <2>2 DEF Apart
    <3> QED
      BY <1>1, <1>3, <1>4, <2>2, <3>1
  <2> HIDE DEF d, at
  <2> QED
    BY <1>3, <2>1, <2>2 DEF Apart
<1>18. OnlyLinks(m, m4)
  BY <1>12, OnlyLinksTwice
<1>19. LinksAre(m4.heap, [kids EXCEPT ![array] = d])
  <2>1. Occurs(after, c) /\ Occurs(before, c)
    BY <1>1, <1>4, <1>5 DEF Occurs
  <2>2. \A n \in D : ~Occurs(n, c) /\ ~Occurs(n, d) =>
          m4.heap[n].next = m.heap[n].next /\ m4.heap[n].prev = m.heap[n].prev
    BY <1>12, <1>16, <2>1
  <2>3. \A n \in D : n # array => m4.heap[n].child = m.heap[n].child
    BY <1>12
  <2>4. IsHeap(m4.heap)
    BY <1>12 DEF IsMemory
  <2>5. \A n \in D : Occurs(n, d) => Occurs(n, c) \/ Alone(kids, n)
    BY <1>16
  <2>6. \A n \in D : Occurs(n, c) /\ ~Occurs(n, d) => Unlinked(m4.heap, n)
    BY <1>16
  <2> HIDE DEF d
  <2> QED
    BY <1>1, <1>3, <1>12, <1>15, <1>17, <2>2, <2>3, <2>4, <2>5, <2>6,
       OtherListsStay
<1> QED
  BY <1>6, <1>12, <1>18, <1>19 DEF Ret, Sound

-----------------------------------------------------------------------------
(* Taking out.                                                             *)

(* n is m after an assignment that is made only if "made".                 *)
DiffersIf(m, n, made, a, f, v) ==
  /\ IsMemory(n) /\ DOMAIN n.heap = DOMAIN m.heap /\ OnlyLinks(m, n)
  /\ \A b \in DOMAIN m.heap :
       /\ n.heap[b].next =
            IF made /\ b = a /\ f = "next" THEN v ELSE m.heap[b].next
       /\ n.heap[b].prev =
            IF made /\ b = a /\ f = "prev" THEN v ELSE m.heap[b].prev
       /\ n.heap[b].child =
            IF made /\ b = a /\ f = "child" THEN v ELSE m.heap[b].child

LEMMA SetDiffersIf ==
  ASSUME NEW m, IsMemory(m), NEW made \in BOOLEAN,
         NEW a, made => a \in DOMAIN m.heap, NEW f \in Links, NEW v
  PROVE  DiffersIf(m, IF made THEN Set(m, a, f, v) ELSE m, made, a, f, v)
<1>1. CASE made
  BY <1>1, SetDiffers DEF Differs, DiffersIf
<1>2. CASE ~made
  BY <1>2 DEF DiffersIf, OnlyLinks
<1> QED
  BY <1>1, <1>2

Removed(D, c, i, d) ==
  /\ d \in Seq(D) /\ Len(d) = Len(c) - 1
  /\ \A j \in 1 .. i - 1 : d[j] = c[j]
  /\ \A j \in i .. Len(c) - 1 : d[j] = c[j + 1]

LEMMA RemoveAtIs ==
  ASSUME NEW D, NEW c \in Seq(D), NEW i \in 1 .. Len(c),
         NEW d, d = RemoveAt(c, i)
  PROVE  Removed(D, c, i, d)
<1> DEFINE s == SubSeq(c, 1, i - 1)
           t == SubSeq(c, i + 1, Len(c))
<1>1. Len(c) \in Nat /\ i \in Nat /\ i <= Len(c) /\ i >= 1
  OBVIOUS
<1>2. s \in Seq(D) /\ Len(s) = i - 1 /\ \A j \in 1 .. i - 1 : s[j] = c[j]
  BY <1>1
<1>3. /\ t \in Seq(D) /\ Len(t) = Len(c) - i
      /\ \A j \in 1 .. Len(c) - i : t[j] = c[i + j]
  BY <1>1
<1>4. d = s \o t
  BY DEF RemoveAt
<1> HIDE DEF s, t
<1>5. /\ s \o t \in Seq(D) /\ Len(s \o t) = Len(s) + Len(t)
      /\ \A j \in 1 .. Len(s) : (s \o t)[j] = s[j]
      /\ \A j \in 1 .. Len(t) : (s \o t)[Len(s) + j] = t[j]
  <2>1. s \in Seq(D) /\ t \in Seq(D)
    BY <1>2, <1>3
  <2> QED
    BY <2>1
<1>6. /\ d \in Seq(D) /\ Len(d) = Len(s) + Len(t)
      /\ \A j \in 1 .. Len(s) : d[j] = s[j]
      /\ \A j \in 1 .. Len(t) : d[Len(s) + j] = t[j]
  BY <1>4, <1>5, Zenon
<1>7. ASSUME NEW j \in i .. Len(c) - 1
      PROVE  d[j] = c[j + 1]
  <2> DEFINE k == j - i + 1
  <2>1. k \in 1 .. Len(c) - i /\ Len(s) + k = j /\ i + k = j + 1
    BY <1>1, <1>2
  <2> HIDE DEF k
  <2> QED
    BY <1>3, <1>6, <2>1
<1>8. d \in Seq(D) /\ Len(d) = Len(c) - 1 /\ \A j \in 1 .. i - 1 : d[j] = c[j]
  BY <1>1, <1>2, <1>3, <1>6
<1> QED
  BY <1>7, <1>8 DEF Removed

(* DetachItemViaPointer takes an item out of its list, be it the first,    *)
(* the last, the only one or any other, and its own links lead nowhere.    *)
THEOREM DetachRemoves ==
  ASSUME NEW m, NEW kids, Sound(m, kids), NEW parent \in DOMAIN m.heap,
         NEW i \in 1 .. Len(kids[parent])
  PROVE  LET item == kids[parent][i]
             call == DetachItemViaPointer(m, parent, item)
         IN  /\ call.res = item /\ OnlyLinks(m, call.mem)
             /\ Unlinked(call.mem.heap, item)
             /\ Sound(call.mem, [kids EXCEPT ![parent] = RemoveAt(@, i)])
<1> DEFINE D == DOMAIN m.heap
           c == kids[parent]
           L == Len(c)
           item == c[i]
           n == m.heap[item]
           first == m.heap[parent].child
           call == DetachItemViaPointer(m, parent, item)
           d == RemoveAt(c, i)
           m1 == IF i # 1 THEN Set(m, n.prev, "next", n.next) ELSE m
           m2 == IF i # L THEN Set(m1, n.next, "prev", n.prev) ELSE m1
           m3 == IF i = 1 THEN Set(m2, parent, "child", n.next) ELSE m2
           m4 == IF i # 1 /\ i = L THEN Set(m3, first, "prev", n.prev) ELSE m3
           m5 == Set(m4, item, "prev", NULL)
           m6 == Set(m5, item, "next", NULL)
<1>1. /\ IsMemory(m) /\ LinksAre(m.heap, kids) /\ NULL \notin D
      /\ c \in Seq(D) /\ L \in Nat /\ IsList(m.heap, parent, c) /\ Apart(c)
      /\ \A k \in 1 .. L : c[k] \in D /\ c[k] # NULL
  BY ListIs DEF Sound
<1>2. i \in Nat /\ 1 <= i /\ i <= L /\ L \in Nat
  BY <1>1
<1>3. /\ d \in Seq(D) /\ Len(d) = L - 1
      /\ \A j \in 1 .. i - 1 : d[j] = c[j]
      /\ \A j \in i .. L - 1 : d[j] = c[j + 1]
  <2>1. c \in Seq(D) /\ i \in 1 .. Len(c) /\ d = RemoveAt(c, i)
    BY <1>1
  <2> HIDE DEF D, c, d
  <2> QED
    <3>1. Removed(D, c, i, d)
      BY <2>1, RemoveAtIs
    <3> QED
      BY <3>1 DEF Removed
<1>4. /\ first = c[1] /\ first \in D /\ item \in D /\ item # NULL
      /\ item = first <=> i = 1
      /\ n.next = IF i = L THEN NULL ELSE c[i + 1]
      /\ n.prev = IF i = 1 THEN c[L] ELSE c[i - 1]
      /\ n.prev \in D /\ n.prev # NULL
      /\ i # L => n.next \in D /\ n.next # NULL
  <2>1. c # <<>> /\ 1 \in 1 .. L /\ L \in 1 .. L
    BY <1>1, <1>2
  <2>2. /\ i # 1 => i - 1 \in 1 .. L
        /\ i # L => i + 1 \in 1 .. L
    BY <1>2
  <2> QED
    BY <1>1, <2>1, <2>2 DEF IsList, Apart
<1>5. call = Ret(m6, item)
  BY <1>4 DEF DetachItemViaPointer, TailRepaired
<1>6. DiffersIf(m, m1, i # 1, n.prev, "next", n.next)
  <2>1. n.prev \in DOMAIN m.heap
    BY <1>4
  <2> HIDE DEF n
  <2> QED
    BY <1>1, <2>1, SetDiffersIf DEF Links
<1>7. DiffersIf(m1, m2, i # L, n.next, "prev", n.prev)
  <2>1. IsMemory(m1) /\ (i # L => n.next \in DOMAIN m1.heap)
    BY <1>4, <1>6 DEF DiffersIf
  <2> HIDE DEF m1, n
  <2> QED
    BY <2>1, SetDiffersIf DEF Links
<1>8. DiffersIf(m2, m3, i = 1, parent, "child", n.next)
  <2>1. IsMemory(m2) /\ parent \in DOMAIN m2.heap
    BY <1>6, <1>7 DEF DiffersIf
  <2> HIDE DEF m2, n
  <2> QED
    BY <2>1, SetDiffersIf DEF Links
<1>9. DiffersIf(m3, m4, i # 1 /\ i = L, first, "prev", n.prev)
  <2>1. IsMemory(m3) /\ first \in DOMAIN m3.heap
    BY <1>4, <1>6, <1>7, <1>8 DEF DiffersIf
  <2> HIDE DEF m3, n, first
  <2> QED
    BY <2>1, SetDiffersIf DEF Links
<1>10. Differs(m4, m5, item, "prev", NULL)
  <2>1. IsMemory(m4) /\ item \in DOMAIN m4.heap
    BY <1>4, <1>6, <1>7, <1>8, <1>9 DEF DiffersIf
  <2> HIDE DEF m4, item
  <2> QED
    BY <2>1, SetDiffers DEF Links
<1>11. Differs(m5, m6, item, "next", NULL)
  <2>1. IsMemory(m5) /\ item \in DOMAIN m5.heap
    BY <1>4, <1>6, <1>7, <1>8, <1>9, <1>10 DEF DiffersIf, Differs
  <2> HIDE DEF m5, item
  <2> QED
    BY <2>1, SetDiffers DEF Links
<1> HIDE DEF m1, m2, m3, m4, m5, m6
<1>12. /\ IsMemory(m6) /\ DOMAIN m6.heap = D
       /\ \A a \in D :
            /\ m6.heap[a].next = IF a = item THEN NULL
                                 ELSE IF i # 1 /\ a = n.prev THEN n.next
                                 ELSE m.heap[a].next
            /\ m6.heap[a].prev = IF a = item THEN NULL
                                 ELSE IF i # 1 /\ i = L /\ a = first THEN n.prev
                                 ELSE IF i # L /\ a = n.next THEN n.prev
                                 ELSE m.heap[a].prev
            /\ m6.heap[a].child = IF i = 1 /\ a = parent THEN n.next
                                  ELSE m.heap[a].child
  <2> HIDE DEF n, item, first, L
  <2> QED
    BY <1>6, <1>7, <1>8, <1>9, <1>10, <1>11 DEF Differs, DiffersIf
<1>13. OnlyLinks(m, m6)
  <2>1. /\ OnlyLinks(m, m1) /\ OnlyLinks(m1, m2) /\ OnlyLinks(m2, m3)
        /\ OnlyLinks(m3, m4) /\ OnlyLinks(m4, m5) /\ OnlyLinks(m5, m6)
    BY <1>6, <1>7, <1>8, <1>9, <1>10, <1>11 DEF Differs, DiffersIf
  <2> QED
    BY <2>1, OnlyLinksTwice
<1>14. ASSUME NEW k \in 1 .. L, k # i
       PROVE  /\ m6.heap[c[k]].next =
                   IF k = i - 1 THEN (IF i = L THEN NULL ELSE c[i + 1])
                   ELSE IF k = L THEN NULL ELSE c[k + 1]
              /\ m6.heap[c[k]].prev =
                   IF k = i + 1 THEN (IF i = 1 THEN c[L] ELSE c[i - 1])
                   ELSE IF i = L /\ k = 1 THEN c[i - 1]
                   ELSE IF k = 1 THEN c[L] ELSE c[k - 1]
  <2> DEFINE x == c[k]
  <2>1. /\ x \in D /\ x # item
        /\ i # 1 => (x = n.prev <=> k = i - 1)
        /\ i # L => (x = n.next <=> k = i + 1)
        /\ x = first <=> k = 1
        /\ m.heap[x].next = IF k = L THEN NULL ELSE c[k + 1]
        /\ m.heap[x].prev = IF k = 1 THEN c[L] ELSE c[k - 1]
    <3>1. /\ i # 1 => i - 1 \in 1 .. L
          /\ i # L => i + 1 \in 1 .. L
          /\ 1 \in 1 .. L
      BY <1>2
    <3>2. \A p, q \in 1 .. L : c[p] = c[q] => p = q
      BY <1>1 DEF Apart
    <3>3. x \in D /\ x # item
      BY <1>1, <1>14, <3>2
    <3>4. /\ m.heap[x].next = IF k = L THEN NULL ELSE c[k + 1]
          /\ m.heap[x].prev = IF k = 1 THEN c[L] ELSE c[k - 1]
      BY <1>1 DEF IsList
    <3>5. /\ i # 1 => n.prev = c[i - 1]
          /\ i # L => n.next = c[i + 1]
          /\ first = c[1]
      BY <1>4
    <3> HIDE DEF c, n, first, L
    <3>6. /\ i # 1 => (c[k] = n.prev <=> k = i - 1)
          /\ i # L => (c[k] = n.next <=> k = i + 1)
          /\ c[k] = first <=> k = 1
      BY <3>1, <3>2, <3>5
    <3> QED
      BY <3>3, <3>4, <3>6
  <2> HIDE DEF x, item, n, first, D, L
  <2>2. /\ m6.heap[x].next = IF i # 1 /\ k = i - 1 THEN n.next
                             ELSE IF k = L THEN NULL ELSE c[k + 1]
        /\ m6.heap[x].prev = IF i # 1 /\ i = L /\ k = 1 THEN n.prev
                             ELSE IF i # L /\ k = i + 1 THEN n.prev
                             ELSE IF k = 1 THEN c[L] ELSE c[k - 1]
    BY <1>12, <2>1
  <2>3. /\ m6.heap[x].next =
                   IF k = i - 1 THEN (IF i = L THEN NULL ELSE c[i + 1])
                   ELSE IF k = L THEN NULL ELSE c[k + 1]
        /\ m6.heap[x].prev =
                   IF k = i + 1 THEN (IF i = 1 THEN c[L] ELSE c[i - 1])
                   ELSE IF i = L /\ k = 1 THEN c[i - 1]
                   ELSE IF k = 1 THEN c[L] ELSE c[k - 1]
    BY <1>2, <1>4, <1>14, <2>2
  <2> QED
    BY <2>3 DEF x
<1>15. IsList(m6.heap, parent, d)
  <2>1. m6.heap[parent].child = IF d = <<>> THEN NULL ELSE d[1]
    <3>4. m6.heap[parent].child = IF i = 1 THEN n.next ELSE c[1]
      BY <1>4, <1>12
    <3>5. d \in Seq(D) /\ Len(d) = L - 1
      BY <1>3
    <3> HIDE DEF D, c, d, L, first, item, n
    <3>1. m6.heap[parent].child = IF L = 1 THEN NULL
                                  ELSE IF i = 1 THEN c[2] ELSE c[1]
      BY <1>2, <1>4, <3>4
    <3>2. L # 1 => d[1] = IF i = 1 THEN c[2] ELSE c[1]
      BY <1>2, <1>3
    <3>3. d = <<>> <=> L = 1
      BY <1>2, <3>5
    <3> QED
      BY <3>1, <3>2, <3>3
  <2> HIDE DEF D, c, d, L, first, item, n
  <2>2. ASSUME NEW j \in 1 .. Len(d)
        PROVE  /\ m6.heap[d[j]].next = IF j = Len(d) THEN NULL ELSE d[j + 1]
               /\ m6.heap[d[j]].prev = IF j = 1 THEN d[Len(d)] ELSE d[j - 1]
    <3>1. j \in Nat /\ 1 <= j /\ j <= L - 1 /\ Len(d) = L - 1
      BY <1>2, <1>3
    <3>2. CASE j < i
      <4>1. j \in 1 .. L /\ j # i /\ d[j] = c[j] /\ j # L
        BY <1>2, <1>3, <3>1, <3>2
      <4>2. j # Len(d) => d[j + 1] = IF j = i - 1 THEN c[i + 1] ELSE c[j + 1]
        BY <1>2, <1>3, <3>1, <3>2
      <4>3. j # 1 => d[j - 1] = c[j - 1]
        BY <1>2, <1>3, <3>1, <3>2
      <4>4. d[Len(d)] = IF i = L THEN c[i - 1] ELSE c[L]
        BY <1>2, <1>3, <3>1, <3>2
      <4> QED
        BY <1>2, <1>14, <3>1, <3>2, <4>1, <4>2, <4>3, <4>4
    <3>3. CASE j >= i
      <4> DEFINE k == j + 1
      <4>1. k \in 1 .. L /\ k # i /\ d[j] = c[k] /\ j = k - 1 /\ k >= i + 1
        BY <1>2, <1>3, <3>1, <3>3
      <4>2. k # L => d[j + 1] = c[k + 1]
        <5>1. k # L => k \in i .. L - 1
          BY <1>2, <3>1, <3>3
        <5> HIDE DEF k
        <5> QED
          BY <1>3, <4>1, <5>1
      <4>3. j # 1 => d[j - 1] = IF k = i + 1 THEN c[i - 1] ELSE c[k - 1]
        BY <1>2, <1>3, <3>1, <3>3
      <4>4. d[Len(d)] = c[L]
        BY <1>2, <1>3, <3>1, <3>3
      <4> HIDE DEF k
      <4> QED
        BY <1>2, <1>14, <3>1, <3>3, <4>1, <4>2, <4>3, <4>4
    <3> QED
      BY <1>2, <3>1, <3>2, <3>3
  <2> QED
    BY <2>1, <2>2 DEF IsList
<1>16. ASSUME NEW j \in 1 .. Len(d)
       PROVE  \E k \in 1 .. L : /\ k # i /\ d[j] = c[k]
                                /\ k = IF j < i THEN j ELSE j + 1
  <2> HIDE DEF D, c, d, L
  <2>1. j \in Nat /\ 1 <= j /\ j <= L - 1 /\ Len(d) = L - 1
    BY <1>2, <1>3
  <2>2. CASE j < i
    <3>1. j \in 1 .. L /\ j \in 1 .. i - 1 /\ j # i
      BY <1>2, <2>1, <2>2
    <3> QED
      BY <1>3, <2>2, <3>1
  <2>3. CASE j >= i
    <3>1. j + 1 \in 1 .. L /\ j \in i .. L - 1 /\ j + 1 # i /\ ~(j < i)
      BY <1>2, <2>1, <2>3
    <3> QED
      BY <1>3, <3>1
  <2> QED
    BY <1>2, <2>1, <2>2, <2>3
<1>17. Apart(d)
  <2> HIDE DEF c, d, L
  <2>1. ASSUME NEW j \in 1 .. Len(d), NEW k \in 1 .. Len(d), d[j] = d[k]
        PROVE  j = k
    <3>1. PICK p \in 1 .. L : /\ p # i /\ d[j] = c[p]
                              /\ p = IF j < i THEN j ELSE j + 1
      BY <1>16
    <3>2. PICK q \in 1 .. L : /\ q # i /\ d[k] = c[q]
                              /\ q = IF k < i THEN k ELSE k + 1
      BY <1>16
    <3>3. p = q
      BY <1>1, <2>1, <3>1, <3>2 DEF Apart, L
    <3> QED
      BY <1>2, <1>3, <3>1, <3>2, <3>3
  <2> QED
    BY <2>1 DEF Apart
<1>18. \A x \in D : Occurs(x, d) <=> Occurs(x, c) /\ x # item
  <2>1. ASSUME NEW j \in 1 .. Len(d)
        PROVE  Occurs(d[j], c) /\ d[j] # item
    BY <1>1, <1>16 DEF Occurs, Apart
  <2>2. ASSUME NEW k \in 1 .. L, k # i
        PROVE  Occurs(c[k], d)
    <3> HIDE DEF c, d, L
    <3>1. k < i => k \in 1 .. Len(d) /\ d[k] = c[k]
      BY <1>2, <1>3
    <3>2. k > i => k - 1 \in 1 .. Len(d) /\ d[k - 1] = c[k]
      BY <1>2, <1>3
    <3> QED
      BY <1>2, <2>2, <3>1, <3>2 DEF Occurs
  <2> HIDE DEF d
  <2> QED
    BY <2>1, <2>2 DEF Occurs
<1>19. LinksAre(m6.heap, [kids EXCEPT ![parent] = d])
  <2>1. \A x \in D : ~Occurs(x, c) =>
          x # item /\ x # first /\ x # n.prev /\ (i # L => x # n.next)
    <3>1. /\ Occurs(item, c) /\ Occurs(first, c) /\ Occurs(n.prev, c)
          /\ i # L => Occurs(n.next, c)
      BY <1>1, <1>2, <1>4 DEF Occurs
    <3> QED
      BY <3>1
  <2>2. \A x \in D : ~Occurs(x, c) /\ ~Occurs(x, d) =>
          m6.heap[x].next = m.heap[x].next /\ m6.heap[x].prev = m.heap[x].prev
    BY <1>12, <2>1
  <2>3. \A x \in D : x # parent => m6.heap[x].child = m.heap[x].child
    BY <1>12
  <2>4. IsHeap(m6.heap)
    BY <1>12 DEF IsMemory
  <2>5. \A x \in D : Occurs(x, d) => Occurs(x, c) \/ Alone(kids, x)
    BY <1>18
  <2>6. \A x \in D : Occurs(x, c) /\ ~Occurs(x, d) => Unlinked(m6.heap, x)
    BY <1>12, <1>18 DEF Unlinked
  <2> HIDE DEF d
  <2> QED
    BY <1>1, <1>3, <1>12, <1>15, <1>17, <2>2, <2>3, <2>4, <2>5, <2>6,
       OtherListsStay
<1> QED
  BY <1>4, <1>5, <1>12, <1>13, <1>19 DEF Ret, Sound, Unlinked

-----------------------------------------------------------------------------
(* Replacing.                                                              *)

(* What ReplaceItemViaPointer does before it frees the item: the           *)
(* replacement stands in its place, also when the item was the only one    *)
(* and its prev the item itself, and the item's own links lead nowhere, so *)
(* that nothing else of the list is freed with it.                         *)
THEOREM SupplantReplaces ==
  ASSUME NEW m, NEW kids, Sound(m, kids), NEW parent \in DOMAIN m.heap,
         NEW i \in 1 .. Len(kids[parent]),
         NEW replacement \in DOMAIN m.heap, Alone(kids, replacement)
  PROVE  LET item == kids[parent][i]
             n == Supplant(m, parent, item, replacement)
         IN  /\ OnlyLinks(m, n) /\ Unlinked(n.heap, item)
             /\ Sound(n, [kids EXCEPT ![parent] = ReplaceAt(@, i, replacement)])
<1> DEFINE D == DOMAIN m.heap
           c == kids[parent]
           L == Len(c)
           item == c[i]
           n == m.heap[item]
           first == m.heap[parent].child
           d == ReplaceAt(c, i, replacement)
           m1 == Set(m, replacement, "next", n.next)
           m2 == Set(m1, replacement, "prev", n.prev)
           m3 == IF i # L THEN Set(m2, n.next, "prev", replacement) ELSE m2
           m4 == IF L = 1 THEN Set(m3, replacement, "prev", replacement) ELSE m3
           m5 == IF i # 1 THEN Set(m4, n.prev, "next", replacement) ELSE m4
           m6 == IF i = 1 THEN Set(m5, parent, "child", replacement) ELSE m5
           m7 == IF i # 1 /\ i = L THEN Set(m6, first, "prev", replacement) ELSE m6
           m8 == Set(m7, item, "next", NULL)
           m9 == Set(m8, item, "prev", NULL)
<1>1. /\ IsMemory(m) /\ LinksAre(m.heap, kids) /\ NULL \notin D
      /\ c \in Seq(D) /\ L \in Nat /\ IsList(m.heap, parent, c) /\ Apart(c)
      /\ \A k \in 1 .. L : c[k] \in D /\ c[k] # NULL
  BY ListIs DEF Sound
<1>2. i \in Nat /\ 1 <= i /\ i <= L /\ L \in Nat
  BY <1>1
<1>3. /\ d \in Seq(D) /\ Len(d) = L /\ d[i] = replacement
      /\ \A j \in 1 .. L : j # i => d[j] = c[j]
  <2>1. c \in Seq(D) /\ i \in 1 .. Len(c) /\ replacement \in D /\ d = ReplaceAt(c, i, replacement)
    BY <1>1
  <2> HIDE DEF D, c, d, m1, m2, m3, m4, m5, m6, m7, m8, m9
  <2>2. /\ d \in Seq(D) /\ Len(d) = Len(c) /\ d[i] = replacement
        /\ \A j \in 1 .. Len(c) : j # i => d[j] = c[j]
    BY <2>1 DEF ReplaceAt
  <2> QED
    BY <2>2
<1>4. /\ first = c[1] /\ first \in D /\ item \in D /\ item # NULL
      /\ item = first <=> i = 1
      /\ n.next = IF i = L THEN NULL ELSE c[i + 1]
      /\ n.prev = IF i = 1 THEN c[L] ELSE c[i - 1]
      /\ n.prev \in D /\ n.prev # NULL
      /\ i # L => n.next \in D /\ n.next # NULL /\ n.next # item
  <2>1. c # <<>> /\ 1 \in 1 .. L /\ L \in 1 .. L
    BY <1>1, <1>2
  <2>2. /\ i # 1 => i - 1 \in 1 .. L
        /\ i # L => i + 1 \in 1 .. L /\ i + 1 # i
    BY <1>2
  <2> QED
    BY <1>1, <2>1, <2>2 DEF IsList, Apart
<1>5. \A k \in 1 .. L : c[k] # replacement
  BY <1>1 DEF Alone, Occurs, LinksAre
<1>6. Differs(m, m1, replacement, "next", n.next)
  <2> HIDE DEF n
  <2> QED
    BY <1>1, SetDiffers DEF Links
<1>7. Differs(m1, m2, replacement, "prev", n.prev)
  <2>1. IsMemory(m1) /\ replacement \in DOMAIN m1.heap
    BY <1>6 DEF Differs
  <2> HIDE DEF m1, n
  <2> QED
    BY <2>1, SetDiffers DEF Links
<1>8. DiffersIf(m2, m3, i # L, n.next, "prev", replacement)
  <2>1. IsMemory(m2) /\ (i # L => n.next \in DOMAIN m2.heap)
    BY <1>4, <1>6, <1>7 DEF Differs
  <2> HIDE DEF m2, n
  <2> QED
    BY <2>1, SetDiffersIf DEF Links
<1>9. DiffersIf(m3, m4, L = 1, replacement, "prev", replacement)
  <2>1. IsMemory(m3) /\ replacement \in DOMAIN m3.heap
    BY <1>6, <1>7, <1>8 DEF DiffersIf, Differs
  <2> HIDE DEF m3
  <2> QED
    BY <2>1, SetDiffersIf DEF Links
<1>10. DiffersIf(m4, m5, i # 1, n.prev, "next", replacement)
  <2>1. IsMemory(m4) /\ n.prev \in DOMAIN m4.heap
    BY <1>4, <1>6, <1>7, <1>8, <1>9 DEF DiffersIf, Differs
  <2> HIDE DEF m4, n
  <2> QED
    BY <2>1, SetDiffersIf DEF Links
<1>dom. IsMemory(m5) /\ DOMAIN m5.heap = DOMAIN m.heap
  BY <1>6, <1>7, <1>8, <1>9, <1>10 DEF DiffersIf, Differs
<1>11. DiffersIf(m5, m6, i = 1, parent, "child", replacement)
  <2>1. IsMemory(m5) /\ parent \in DOMAIN m5.heap
    BY <1>dom
  <2> HIDE DEF m5
  <2> QED
    BY <2>1, SetDiffersIf DEF Links
<1>12. DiffersIf(m6, m7, i # 1 /\ i = L, first, "prev", replacement)
  <2>1. IsMemory(m6) /\ first \in DOMAIN m6.heap
    BY <1>4, <1>dom, <1>11 DEF DiffersIf
  <2> HIDE DEF m6, first
  <2> QED
    BY <2>1, SetDiffersIf DEF Links
<1>end. IsMemory(m7) /\ item \in DOMAIN m7.heap
  BY <1>4, <1>dom, <1>11, <1>12 DEF DiffersIf
<1>13. Differs(m7, m8, item, "next", NULL)
  <2>1. IsMemory(m7) /\ item \in DOMAIN m7.heap
    BY <1>end
  <2> HIDE DEF m7, item
  <2> QED
    BY <2>1, SetDiffers DEF Links
<1>14. Differs(m8, m9, item, "prev", NULL)
  <2>1. IsMemory(m8) /\ item \in DOMAIN m8.heap
    BY <1>end, <1>13 DEF Differs
  <2> HIDE DEF m8, item
  <2> QED
    BY <2>1, SetDiffers DEF Links
<1>15. i = 1 => (m3.heap[first].prev = first <=> L = 1)
  <2> HIDE DEF m1, m2, m3
  <2>1. i = 1 => m3.heap[first].prev = m.heap[first].prev
    BY <1>4, <1>5, <1>1, <1>2, <1>6, <1>7, <1>8 DEF Differs, DiffersIf
  <2>2. i = 1 => m.heap[first].prev = c[L] /\ first = c[1]
    BY <1>4
  <2>3. c[L] = c[1] <=> L = 1
    <3>1. 1 \in 1 .. L /\ L \in 1 .. L
      BY <1>2
    <3>2. \A p, q \in 1 .. L : c[p] = c[q] => p = q
      BY <1>1 DEF Apart
    <3> HIDE DEF c, L
    <3> QED
      BY <3>1, <3>2
  <2> QED
    BY <2>1, <2>2, <2>3
<1>16. Supplant(m, parent, item, replacement) = m9
  <2> DEFINE after == IF n.next # NULL THEN Set(m2, n.next, "prev", replacement)
                      ELSE m2
             alone == IF after.heap[first].prev = first
                      THEN Set(after, replacement, "prev", replacement)
                      ELSE after
             before == IF n.prev # NULL
                       THEN Set(after, n.prev, "next", replacement) ELSE after
             linked == IF first = item
                       THEN Set(alone, parent, "child", replacement)
                       ELSE IF n.next = NULL
                       THEN Set(before, first, "prev", replacement)
                       ELSE before
  <2>1. Supplant(m, parent, item, replacement)
          = Set(Set(linked, item, "next", NULL), item, "prev", NULL)
    BY DEF Supplant
  <2>2. n.next = NULL <=> i = L
    BY <1>4
  <2>3. n.prev # NULL /\ (first = item <=> i = 1)
    BY <1>4
  <2> HIDE DEF n, item, first, L, m1, m2
  <2>4. after = m3
    BY <2>2
  <2> HIDE DEF after
  <2>5. i = 1 => alone = m4
    BY <1>15, <2>4
  <2>6. i # 1 => before = m5
    BY <1>2, <2>3, <2>4
  <2> HIDE DEF m3, alone, before
  <2>7. i = 1 => m5 = m4
    OBVIOUS
  <2> HIDE DEF m4, m5
  <2>8. linked = m7
    BY <2>2, <2>3, <2>5, <2>6, <2>7
  <2> QED
    BY <2>1, <2>8
<1> HIDE DEF m1, m2, m3, m4, m5, m6, m7, m8, m9
<1>17. /\ IsMemory(m9) /\ DOMAIN m9.heap = D
       /\ \A a \in D :
            /\ m9.heap[a].next = IF a = item THEN NULL
                                 ELSE IF i # 1 /\ a = n.prev THEN replacement
                                 ELSE IF a = replacement THEN n.next
                                 ELSE m.heap[a].next
            /\ m9.heap[a].prev = IF a = item THEN NULL
                                 ELSE IF i # 1 /\ i = L /\ a = first THEN replacement
                                 ELSE IF L = 1 /\ a = replacement THEN replacement
                                 ELSE IF i # L /\ a = n.next THEN replacement
                                 ELSE IF a = replacement THEN n.prev
                                 ELSE m.heap[a].prev
            /\ m9.heap[a].child = IF i = 1 /\ a = parent THEN replacement
                                  ELSE m.heap[a].child
  <2> HIDE DEF n, item, first, L
  <2>1. /\ IsMemory(m4) /\ DOMAIN m4.heap = D
        /\ \A a \in D :
             /\ m4.heap[a].next = IF a = replacement THEN n.next
                                  ELSE m.heap[a].next
             /\ m4.heap[a].prev = IF L = 1 /\ a = replacement THEN replacement
                                  ELSE IF i # L /\ a = n.next THEN replacement
                                  ELSE IF a = replacement THEN n.prev
                                  ELSE m.heap[a].prev
             /\ m4.heap[a].child = m.heap[a].child
    BY <1>6, <1>7, <1>8, <1>9 DEF Differs, DiffersIf
  <2>2. /\ IsMemory(m9) /\ DOMAIN m9.heap = D
        /\ \A a \in D :
             /\ m9.heap[a].next = IF a = item THEN NULL
                                  ELSE IF i # 1 /\ a = n.prev THEN replacement
                                  ELSE m4.heap[a].next
             /\ m9.heap[a].prev = IF a = item THEN NULL
                                  ELSE IF i # 1 /\ i = L /\ a = first THEN replacement
                                  ELSE m4.heap[a].prev
             /\ m9.heap[a].child = IF i = 1 /\ a = parent THEN replacement
                                   ELSE m4.heap[a].child
    BY <2>1, <1>10, <1>11, <1>12, <1>13, <1>14 DEF Differs, DiffersIf
  <2> QED
    BY <2>1, <2>2
<1>18. OnlyLinks(m, m9)
  <2>1. /\ OnlyLinks(m, m1) /\ OnlyLinks(m1, m2) /\ OnlyLinks(m2, m3)
        /\ OnlyLinks(m3, m4) /\ OnlyLinks(m4, m5) /\ OnlyLinks(m5, m6)
        /\ OnlyLinks(m6, m7) /\ OnlyLinks(m7, m8) /\ OnlyLinks(m8, m9)
    BY <1>6, <1>7, <1>8, <1>9, <1>10, <1>11, <1>12, <1>13, <1>14
       DEF Differs, DiffersIf
  <2> QED
    BY <2>1, OnlyLinksTwice
<1>19. \A p, q \in 1 .. L : c[p] = c[q] => p = q
  BY <1>1 DEF Apart
<1>20. ASSUME NEW k \in 1 .. L, k # i
       PROVE  /\ m9.heap[c[k]].next =
                   IF k = i - 1 THEN replacement
                   ELSE IF k = L THEN NULL ELSE c[k + 1]
              /\ m9.heap[c[k]].prev =
                   IF k = i + 1 \/ (i = L /\ k = 1) THEN replacement
                   ELSE IF k = 1 THEN c[L] ELSE c[k - 1]
  <2> DEFINE x == c[k]
  <2>1. /\ i # 1 => i - 1 \in 1 .. L
        /\ i # L => i + 1 \in 1 .. L
        /\ 1 \in 1 .. L
    BY <1>2
  <2>2. x \in D /\ x # item /\ x # replacement
    BY <1>1, <1>5, <1>19, <1>20
  <2>3. /\ m.heap[x].next = IF k = L THEN NULL ELSE c[k + 1]
        /\ m.heap[x].prev = IF k = 1 THEN c[L] ELSE c[k - 1]
    BY <1>1 DEF IsList
  <2>4. /\ i # 1 => n.prev = c[i - 1]
        /\ i # L => n.next = c[i + 1]
        /\ first = c[1]
    BY <1>4
  <2> HIDE DEF c, n, first, L, item, D
  <2>5. /\ i # 1 => (c[k] = n.prev <=> k = i - 1)
        /\ i # L => (c[k] = n.next <=> k = i + 1)
        /\ c[k] = first <=> k = 1
    BY <2>1, <2>4, <1>19
  <2>6. /\ i # 1 => (x = n.prev <=> k = i - 1)
        /\ i # L => (x = n.next <=> k = i + 1)
        /\ x = first <=> k = 1
    BY <2>5
  <2> HIDE DEF x
  <2>7. /\ m9.heap[x].next = IF i # 1 /\ k = i - 1 THEN replacement
                             ELSE IF k = L THEN NULL ELSE c[k + 1]
        /\ m9.heap[x].prev = IF i # 1 /\ i = L /\ k = 1 THEN replacement
                             ELSE IF i # L /\ k = i + 1 THEN replacement
                             ELSE IF k = 1 THEN c[L] ELSE c[k - 1]
    BY <1>17, <2>2, <2>3, <2>6
  <2>8. /\ m9.heap[x].next =
                   IF k = i - 1 THEN replacement
                   ELSE IF k = L THEN NULL ELSE c[k + 1]
        /\ m9.heap[x].prev =
                   IF k = i + 1 \/ (i = L /\ k = 1) THEN replacement
                   ELSE IF k = 1 THEN c[L] ELSE c[k - 1]
    BY <1>2, <1>20, <2>7
  <2> QED
    BY <2>8 DEF x
<1>21. /\ m9.heap[replacement].next = IF i = L THEN NULL ELSE c[i + 1]
       /\ m9.heap[replacement].prev = IF L = 1 THEN replacement
                                      ELSE IF i = 1 THEN c[L] ELSE c[i - 1]
  <2>1. /\ replacement \in D /\ replacement # item /\ replacement # first
        /\ replacement # n.prev /\ (i # L => replacement # n.next)
    <3>1. /\ i # 1 => i - 1 \in 1 .. L
          /\ i # L => i + 1 \in 1 .. L
          /\ 1 \in 1 .. L /\ L \in 1 .. L /\ i \in 1 .. L
      BY <1>2
    <3> QED
      BY <1>4, <1>5, <3>1
  <2> HIDE DEF c, n, first, L, item, D
  <2> QED
    BY <1>2, <1>4, <1>17, <2>1
<1>22. IsList(m9.heap, parent, d)
  <2>1. m9.heap[parent].child = d[1] /\ Len(d) # 0
    <3>1. m9.heap[parent].child = IF i = 1 THEN replacement ELSE c[1]
      BY <1>4, <1>17
    <3> HIDE DEF D, c, d, L
    <3> QED
      BY <1>2, <1>3, <3>1
  <2> HIDE DEF D, c, d, L, first, item, n
  <2>2. ASSUME NEW j \in 1 .. Len(d)
        PROVE  /\ m9.heap[d[j]].next = IF j = Len(d) THEN NULL ELSE d[j + 1]
               /\ m9.heap[d[j]].prev = IF j = 1 THEN d[Len(d)] ELSE d[j - 1]
    <3>1. j \in Nat /\ 1 <= j /\ j <= L /\ j \in 1 .. L /\ Len(d) = L
      BY <1>2, <1>3
    <3>2. CASE j = i
      <4>1. /\ i # L => d[i + 1] = c[i + 1]
            /\ i # 1 => d[i - 1] = c[i - 1]
            /\ d[L] = IF i = L THEN replacement ELSE c[L]
        BY <1>2, <1>3
      <4> QED
        BY <1>2, <1>3, <1>21, <3>1, <3>2, <4>1
    <3>3. CASE j # i
      <4>1. d[j] = c[j]
        BY <1>3, <3>1, <3>3
      <4>2. /\ j # L => d[j + 1] = IF j = i - 1 THEN replacement ELSE c[j + 1]
            /\ j # 1 => d[j - 1] = IF j = i + 1 THEN replacement ELSE c[j - 1]
            /\ d[L] = IF i = L THEN replacement ELSE c[L]
        BY <1>2, <1>3, <3>1
      <4> QED
        BY <1>2, <1>20, <3>1, <3>3, <4>1, <4>2
    <3> QED
      BY <3>2, <3>3
  <2>3. d # <<>>
    BY <2>1
  <2> QED
    BY <2>1, <2>2, <2>3 DEF IsList
<1>23. Apart(d)
  <2> HIDE DEF c, d, L
  <2> QED
    BY <1>2, <1>3, <1>5, <1>19 DEF Apart
<1>24. \A x \in D :
         Occurs(x, d) <=> x = replacement \/ (Occurs(x, c) /\ x # item)
  <2>1. ASSUME NEW j \in 1 .. Len(d)
        PROVE  d[j] = replacement \/ (Occurs(d[j], c) /\ d[j] # item)
    <3>1. j \in 1 .. L /\ i \in 1 .. L
      BY <1>2, <1>3
    <3>2. CASE j = i
      BY <1>3, <3>2
    <3>3. CASE j # i
      <4>1. d[j] = c[j]
        BY <1>3, <3>1, <3>3
      <4> HIDE DEF d
      <4> QED
        BY <1>19, <3>1, <3>3, <4>1 DEF Occurs
    <3> QED
      BY <3>2, <3>3
  <2>2. ASSUME NEW k \in 1 .. L, k # i
        PROVE  Occurs(c[k], d)
    <3> HIDE DEF c, d, L
    <3> QED
      BY <1>3, <2>2 DEF Occurs
  <2>3. Occurs(replacement, d)
    <3> HIDE DEF c, d, L
    <3> QED
      BY <1>2, <1>3 DEF Occurs
  <2> HIDE DEF d
  <2> QED
    BY <2>1, <2>2, <2>3 DEF Occurs
<1>25. LinksAre(m9.heap, [kids EXCEPT ![parent] = d])
  <2>1. \A x \in D : ~Occurs(x, c) =>
          x # item /\ x # first /\ x # n.prev /\ (i # L => x # n.next)
    <3>1. /\ Occurs(item, c) /\ Occurs(first, c) /\ Occurs(n.prev, c)
          /\ i # L => Occurs(n.next, c)
      BY <1>1, <1>2, <1>4 DEF Occurs
    <3> QED
      BY <3>1
  <2>2. \A x \in D : ~Occurs(x, c) /\ ~Occurs(x, d) =>
          m9.heap[x].next = m.heap[x].next /\ m9.heap[x].prev = m.heap[x].prev
    BY <1>17, <1>24, <2>1
  <2>3. \A x \in D : x # parent => m9.heap[x].child = m.heap[x].child
    BY <1>17
  <2>4. IsHeap(m9.heap)
    BY <1>17 DEF IsMemory
  <2>5. \A x \in D : Occurs(x, d) => Occurs(x, c) \/ Alone(kids, x)
    BY <1>24
  <2>6. \A x \in D : Occurs(x, c) /\ ~Occurs(x, d) => Unlinked(m9.heap, x)
    BY <1>17, <1>24 DEF Unlinked
  <2> HIDE DEF d
  <2> QED
    BY <1>1, <1>3, <1>17, <1>22, <1>23, <2>2, <2>3, <2>4, <2>5, <2>6,
       OtherListsStay
<1> QED
  BY <1>4, <1>16, <1>17, <1>18, <1>25 DEF Sound, Unlinked

-----------------------------------------------------------------------------
(* Naming.                                                                 *)

(* Who owns which copy of a name: the count of copies and the names change *)
(* together, and everything else of the items stays.                       *)
Renamed(m, n, item, string, constant) ==
  /\ n.strings - OwnName(n.heap[item]) = m.strings - OwnName(m.heap[item])
  /\ n.heap[item].string = string /\ n.heap[item].const = constant
  /\ DOMAIN n.heap = DOMAIN m.heap
  /\ \A a \in DOMAIN m.heap, f \in Fields \ Links :
       a # item \/ f \notin {"string", "const"} =>
         n.heap[a][f] = m.heap[a][f]

LEMMA RenameKeepsLinks ==
  ASSUME NEW m, NEW kids, Sound(m, kids), m.strings \in Int,
         NEW item \in DOMAIN m.heap, NEW string, string # NULL,
         NEW constant \in BOOLEAN
  PROVE  LET call == Rename(m, item, string, constant)
         IN  IF call.res
             THEN Sound(call.mem, kids)
                  /\ Renamed(m, call.mem, item, string, constant)
             ELSE call.mem = m
<1> DEFINE call == Rename(m, item, string, constant)
           named == IF constant THEN m ELSE strdup(m, string).mem
           n == [named EXCEPT !.strings = @ - OwnName(m.heap[item]),
                              !.heap[item].string = string,
                              !.heap[item].const = constant]
<1>1. CASE ~constant /\ strdup(m, string).res = NULL
  <2>1. call = Ret(m, FALSE)
    BY <1>1 DEF Rename
  <2> QED
    BY <2>1 DEF Ret
<1>2. CASE constant \/ strdup(m, string).res # NULL
  <2>1. call = Ret(n, TRUE)
    BY <1>2 DEF Rename
  <2>2. /\ DOMAIN named = {"heap", "strings", "left"} /\ named.heap = m.heap
        /\ named.strings = IF constant THEN m.strings ELSE m.strings + 1
    BY <1>2 DEF strdup, Ret, Sound, IsMemory
  <2> HIDE DEF named
  <2>3. /\ DOMAIN n = {"heap", "strings", "left"}
        /\ n.strings = named.strings - OwnName(m.heap[item])
        /\ n.heap = [m.heap EXCEPT ![item] =
                       [m.heap[item] EXCEPT !.string = string,
                                            !.const = constant]]
    BY <2>2
  <2> HIDE DEF n
  <2>4. DOMAIN n.heap = DOMAIN m.heap
    BY <2>3
  <2>5. \A a \in DOMAIN m.heap : DOMAIN m.heap[a] = Fields
    BY DEF Sound, IsMemory, IsHeap
  <2>6. ASSUME NEW a \in DOMAIN m.heap
        PROVE  /\ DOMAIN n.heap[a] = Fields
               /\ \A f \in Fields :
                    n.heap[a][f] = IF a = item /\ f = "string" THEN string
                                   ELSE IF a = item /\ f = "const" THEN constant
                                   ELSE m.heap[a][f]
    <3>1. n.heap[a] = IF a = item
                      THEN [m.heap[item] EXCEPT !.string = string,
                                                !.const = constant]
                      ELSE m.heap[a]
      BY <2>3
    <3> QED
      BY <2>5, <3>1 DEF Fields
  <2>7. \A a \in DOMAIN m.heap :
          /\ n.heap[a].next = m.heap[a].next
          /\ n.heap[a].prev = m.heap[a].prev
          /\ n.heap[a].child = m.heap[a].child
    BY <2>6 DEF Fields
  <2>8. n.heap[item].string = string /\ n.heap[item].const = constant
    BY <2>6 DEF Fields
  <2>9. Sound(n, kids)
    <3>1. IsMemory(n)
      BY <2>3, <2>4, <2>6 DEF Sound, IsMemory, IsHeap
    <3>2. /\ kids \in [DOMAIN m.heap -> Seq(DOMAIN m.heap)]
          /\ \A p \in DOMAIN m.heap : IsList(m.heap, p, kids[p]) /\ Apart(kids[p])
          /\ \A p, q \in DOMAIN m.heap, x \in DOMAIN m.heap :
               Occurs(x, kids[p]) /\ Occurs(x, kids[q]) => p = q
          /\ \A x \in DOMAIN m.heap : Alone(kids, x) => Unlinked(m.heap, x)
      BY DEF Sound, LinksAre
    <3>3. ASSUME NEW p \in DOMAIN m.heap
          PROVE  IsList(n.heap, p, kids[p])
      <4>1. \A i \in 1 .. Len(kids[p]) : kids[p][i] \in DOMAIN m.heap
        BY <3>2
      <4>2. IsList(m.heap, p, kids[p])
        BY <3>2
      <4> QED
        BY <2>7, <4>1, <4>2 DEF IsList
    <3>4. \A x \in DOMAIN m.heap : Alone(kids, x) => Unlinked(n.heap, x)
      BY <2>7, <3>2 DEF Unlinked
    <3> QED
      BY <2>4, <3>1, <3>2, <3>3, <3>4 DEF Sound, LinksAre, IsMemory
  <2>10. n.strings - OwnName(n.heap[item]) = m.strings - OwnName(m.heap[item])
    <3>1. OwnName(n.heap[item]) = IF constant THEN 0 ELSE 1
      BY <2>8 DEF OwnName
    <3>2. OwnName(m.heap[item]) \in Int
      BY DEF OwnName
    <3> QED
      BY <2>2, <2>3, <3>1, <3>2
  <2>11. Renamed(m, n, item, string, constant)
    BY <2>4, <2>6, <2>8, <2>10 DEF Renamed
  <2> QED
    BY <2>1, <2>9, <2>11 DEF Ret
<1> QED
  BY <1>1, <1>2

(* add_item_to_object either attaches the item under its new name, whose   *)
(* copy it then owns, while the copy of its old name, if it had one, is    *)
(* freed, or fails and has changed nothing.                                *)
THEOREM NamedOrUnchanged ==
  ASSUME NEW m, NEW kids, Sound(m, kids), m.strings \in Int,
         NEW object \in DOMAIN m.heap, NEW item \in DOMAIN m.heap,
         object # item, Alone(kids, item),
         NEW string, NEW constant \in BOOLEAN
  PROVE  LET call == add_item_to_object(m, object, string, item, constant)
         IN  IF call.res
             THEN /\ Sound(call.mem, [kids EXCEPT ![object] = Append(@, item)])
                  /\ Renamed(m, call.mem, item, string, constant)
             ELSE call.mem = m
<1> DEFINE call == add_item_to_object(m, object, string, item, constant)
           named == Rename(m, item, string, constant)
           added == add_item_to_array(named.mem, object, item)
<1>1. object # NULL /\ item # NULL
  BY DEF Sound, IsMemory, IsHeap
<1>2. CASE string = NULL
  <2>1. call = Ret(m, FALSE)
    BY <1>2 DEF add_item_to_object
  <2> QED
    BY <2>1 DEF Ret
<1>3. CASE string # NULL
  <2>1. call = IF ~named.res THEN named ELSE added
    BY <1>1, <1>3 DEF add_item_to_object
  <2>2. IF named.res THEN /\ Sound(named.mem, kids)
                          /\ Renamed(m, named.mem, item, string, constant)
        ELSE named.mem = m
    BY <1>3, RenameKeepsLinks
  <2> HIDE DEF named
  <2>3. CASE ~named.res
    BY <2>1, <2>2, <2>3
  <2>4. CASE named.res
    <3>1. /\ Sound(named.mem, kids)
          /\ DOMAIN named.mem.heap = DOMAIN m.heap
          /\ Renamed(m, named.mem, item, string, constant)
      BY <2>2, <2>4 DEF Renamed
    <3>2. /\ added.res = TRUE /\ OnlyLinks(named.mem, added.mem)
          /\ Sound(added.mem, [kids EXCEPT ![object] = Append(@, item)])
      BY <3>1, AddAppends
    <3> HIDE DEF added
    <3>3. Renamed(m, added.mem, item, string, constant)
      <4>1. \A a \in DOMAIN m.heap, f \in Fields \ Links :
              added.mem.heap[a][f] = named.mem.heap[a][f]
        BY <3>1, <3>2 DEF OnlyLinks, Links
      <4>2. /\ added.mem.heap[item].string = named.mem.heap[item].string
            /\ added.mem.heap[item].const = named.mem.heap[item].const
        BY <4>1 DEF Fields, Links
      <4>3. OwnName(added.mem.heap[item]) = OwnName(named.mem.heap[item])
        BY <4>2 DEF OwnName
      <4> QED
        BY <3>1, <3>2, <4>1, <4>2, <4>3 DEF Renamed, OnlyLinks
    <3> QED
      BY <2>1, <2>4, <3>2, <3>3
  <2> QED
    BY <2>3, <2>4
<1> QED
  BY <1>2, <1>3

-----------------------------------------------------------------------------
(* What the links stand for.                                               *)

LEMMA AllNumbers ==
  ASSUME NEW S \in SUBSET Nat, 0 \in S, \A n \in S : n + 1 \in S
  PROVE  S = Nat
<1> SUFFICES ASSUME S # Nat PROVE FALSE
  OBVIOUS
<1> DEFINE T == Nat \ S
<1>1. PICK R : /\ IsWellFoundedOn(R, Nat)
               /\ \A x, y \in Nat : y < x => <<y, x>> \in R
  BY NatLessThanWellFounded DEF OpToRel
<1>2. T \subseteq Nat /\ T # {}
  OBVIOUS
<1>3. PICK n \in T : \A k \in T : ~(<<k, n>> \in R)
  BY <1>1, <1>2, WFMin
<1>4. ASSUME NEW k \in T
      PROVE  n <= k
  <2>1. n \in Nat /\ k \in Nat /\ ~(<<k, n>> \in R)
    BY <1>3
  <2>2. ~(k < n)
    BY <1>1, <2>1
  <2> QED
    BY <2>1, <2>2
<1>5. n - 1 \in Nat /\ n - 1 \notin T
  BY <1>4
<1> QED
  BY <1>5

LEMMA ListBegins ==
  ASSUME NEW heap, NULL \notin DOMAIN heap, NEW p,
         NEW c \in Seq(DOMAIN heap), NEW d \in Seq(DOMAIN heap),
         IsList(heap, p, c), IsList(heap, p, d)
  PROVE  Len(c) <= Len(d) /\ \A i \in 1 .. Len(c) : c[i] = d[i]
<1> DEFINE S == {n \in Nat : \A i \in 1 .. Len(c) :
                   i <= n => i <= Len(d) /\ c[i] = d[i]}
<1>1. Len(c) \in Nat /\ Len(d) \in Nat
  OBVIOUS
<1>2. /\ \A i \in 1 .. Len(c) : c[i] # NULL
      /\ \A i \in 1 .. Len(d) : d[i] # NULL
  OBVIOUS
<1>3. 0 \in S
  OBVIOUS
<1>4. ASSUME NEW n \in S
      PROVE  n + 1 \in S
  <2> SUFFICES ASSUME n + 1 \in 1 .. Len(c)
               PROVE  n + 1 <= Len(d) /\ c[n + 1] = d[n + 1]
    OBVIOUS
  <2>1. CASE n = 0
    <3>1. c # <<>> /\ heap[p].child = c[1] /\ c[1] # NULL
      BY <1>1, <1>2, <2>1 DEF IsList
    <3>2. d # <<>>
      BY <3>1 DEF IsList
    <3>3. heap[p].child = d[1]
      BY <3>2 DEF IsList
    <3>4. Len(d) # 0 /\ n + 1 = 1
      BY <2>1, <3>2
    <3> HIDE DEF S
    <3>5. 1 <= Len(d) /\ c[1] = d[1]
      BY <1>1, <3>1, <3>3, <3>4
    <3> QED
      BY <3>4, <3>5
  <2>2. CASE n # 0
    <3>1. n \in 1 .. Len(c) /\ n # Len(c) /\ n \in 1 .. Len(d) /\ c[n] = d[n]
      BY <1>1, <2>2
    <3>2. heap[c[n]].next = c[n + 1] /\ c[n + 1] # NULL
      BY <1>2, <3>1 DEF IsList
    <3>3. heap[d[n]].next = IF n = Len(d) THEN NULL ELSE d[n + 1]
      BY <3>1 DEF IsList
    <3> QED
      BY <1>1, <3>1, <3>2, <3>3
  <2> QED
    BY <2>1, <2>2
<1>5. S = Nat
  <2>1. S \in SUBSET Nat
    OBVIOUS
  <2> HIDE DEF S
  <2> QED
    BY <1>3, <1>4, <2>1, AllNumbers
<1>6. Len(c) \in S
  BY <1>1, <1>5
<1> QED
  BY <1>1, <1>6

(* The links say which items are in which list, and in which order: the    *)
(* sequences that the theorems above speak of are the only ones.           *)
THEOREM ListsAreDetermined ==
  ASSUME NEW heap, NEW kids, LinksAre(heap, kids),
         NEW others, LinksAre(heap, others)
  PROVE  kids = others
<1>1. /\ kids \in [DOMAIN heap -> Seq(DOMAIN heap)]
      /\ others \in [DOMAIN heap -> Seq(DOMAIN heap)]
  BY DEF LinksAre
<1>2. ASSUME NEW p \in DOMAIN heap
      PROVE  kids[p] = others[p]
  <2> DEFINE c == kids[p]
             d == others[p]
  <2>1. /\ NULL \notin DOMAIN heap
        /\ c \in Seq(DOMAIN heap) /\ IsList(heap, p, c)
        /\ d \in Seq(DOMAIN heap) /\ IsList(heap, p, d)
    BY ListIs
  <2> HIDE DEF c, d
  <2>2. Len(c) <= Len(d) /\ \A i \in 1 .. Len(c) : c[i] = d[i]
    BY <2>1, ListBegins
  <2>3. Len(d) <= Len(c)
    BY <2>1, ListBegins
  <2>4. c = d
    BY <2>1, <2>2, <2>3
  <2> QED
    BY <2>4 DEF c, d
<1> QED
  BY <1>1, <1>2
=============================================================================
