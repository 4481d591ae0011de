--------------------------- MODULE CJsonDocument ---------------------------
(***************************************************************************)
(* One document through cJSON: a text is parsed, the items are copied and  *)
(* freed, each with memory for as many allocations as the step chooses;    *)
(* what they print is a function of the items, and so is not a step.       *)
(***************************************************************************)
EXTENDS CJsonText

CONSTANTS
  Texts,       \* what is parsed
  Plenty       \* allocations that are enough for every call

VARIABLES
  text,
  heap, strings,
  root, copy,  \* what cJSON_Parse and cJSON_Duplicate returned
  step,        \* the last call
  left         \* how many allocations it could make

vars == <<text, heap, strings, root, copy, step, left>>

Budgets == 0 .. Plenty
Memory(n) ==
  [heap |-> heap, strings |-> strings, left |-> n, at |-> 0, depth |-> 0]

Leaves(m, n, call) ==
  /\ heap' = m.heap
  /\ strings' = m.strings
  /\ left' = n
  /\ step' = call
  /\ UNCHANGED text

Init ==
  /\ text \in Texts
  /\ heap = <<>> /\ strings = 0
  /\ root = NULL /\ copy = NULL
  /\ step = "none"
  /\ left = 0

(* cJSON_Parse; "exact" when the whole text must be used.                  *)
Parse ==
  /\ step = "none"
  /\ \E n \in Budgets, exact \in BOOLEAN :
       \E call \in {ParseWithLengthOpts(text, Memory(n), exact)} :
         /\ root' = call.res
         /\ UNCHANGED copy
         /\ Leaves(call.mem, n, IF exact THEN "parse exact" ELSE "parse")

Copy ==
  /\ step = "parse"
  /\ root # NULL
  /\ \E n \in Budgets :
       \E call \in {Duplicate_rec(Memory(n), root, 0, TRUE)} :
         /\ copy' = call.res
         /\ UNCHANGED root
         /\ Leaves(call.mem, n, "copy")

Free ==
  LET m == Delete(Memory(0), root)
  IN /\ step = "copy"
     /\ root' = NULL /\ copy' = NULL
     /\ Leaves(Delete(m, copy), 0, "free")

Next == Parse \/ Copy \/ Free

Spec == Init /\ [][Next]_vars

Held == {root, copy} \ {NULL}

-----------------------------------------------------------------------------
(* What a JSON text is, by its grammar; blanks do not count.               *)

Squeeze(ts) == SelectSeq(ts, LAMBDA t : t \notin Blanks \cup {NUL})

RECURSIVE IsJson(_)
Inside(ts, Element(_)) ==
  LET List[n \in 0 .. Len(ts)] ==       \* the first n tokens are a list
        \E i \in 0 .. n - 1 :
          /\ Element(SubSeq(ts, i + 1, n))
          /\ i = 0 \/ (ts[i] = "," /\ List[i - 1])
  IN ts = <<>> \/ List[Len(ts)]
IsMember(ts) ==
  /\ Len(ts) > 2
  /\ ts[1] \in Names /\ ts[2] = ":"
  /\ IsJson(SubSeq(ts, 3, Len(ts)))
IsJson(ts) ==
  LET n == Len(ts)
  IN \/ n = 1 /\ ts[1] \in Words \cup Names \cup Numbers
     \/ /\ n > 1
        /\ LET inner == SubSeq(ts, 2, n - 1)
           IN \/ ts[1] = "[" /\ ts[n] = "]" /\ Inside(inner, IsJson)
              \/ ts[1] = "{" /\ ts[n] = "}" /\ Inside(inner, IsMember)

Depth(ts) ==
  LET d[i \in 0 .. Len(ts)] ==
        IF i = 0 THEN 0
        ELSE d[i - 1] + (IF ts[i] \in {"[", "{"} THEN 1
                         ELSE IF ts[i] \in {"]", "}"} THEN -1 ELSE 0)
  IN CHOOSE m \in 0 .. Len(ts) :
       (\E i \in 0 .. Len(ts) : d[i] = m) /\ \A i \in 0 .. Len(ts) : d[i] <= m

(* The JSON at the start of the text, or <<>>.                             *)
Leading(ts) ==
  LET ends == {n \in 1 .. Len(ts) : IsJson(SubSeq(ts, 1, n))}
  IN IF ends = {} THEN <<>> ELSE SubSeq(ts, 1, CHOOSE n \in ends : TRUE)

(* A byte order mark may stand before anything that is longer than one     *)
(* character.                                                              *)
Content ==
  IF /\ text # <<>> /\ text[1] = BOM
     /\ TextWidth(Tail(text)) > 1
  THEN Squeeze(Tail(text)) ELSE Squeeze(text)

-----------------------------------------------------------------------------
(* Properties.                                                             *)

(* With memory, cJSON_Parse accepts exactly the texts that start with a    *)
(* JSON value not nested too deep, and with require_null_terminated those  *)
(* that are nothing else up to their NUL.                                  *)
ParsesJson ==
  LET json == Leading(Content)
      ok == json # <<>> /\ Depth(json) <= CJSON_NESTING_LIMIT
  IN left = Plenty =>
       /\ step = "parse" => (root # NULL <=> ok)
       /\ step = "parse exact" =>
            (root # NULL <=> /\ ok
                             /\ json = Content
                             /\ text[Len(text)] = NUL)

(* Whatever fails, and wherever, the items are those of the trees that     *)
(* were returned, each with its own strings, in sound lists; a failed      *)
(* parse or copy leaves nothing, and freeing leaves nothing.               *)
NothingLost ==
  /\ DOMAIN heap = UNION {Tree(heap, n) : n \in Held}
  /\ strings = OwnedStrings(heap, DOMAIN heap)
  /\ root # copy \/ Held = {}
  /\ root # NULL /\ copy # NULL => Tree(heap, root) \cap Tree(heap, copy) = {}
  /\ \A a \in DOMAIN heap : Linked(heap, a)

(* A tree prints the tokens that it was parsed from, but null for a number *)
(* that no double can hold, and for another number perhaps the double next *)
(* to it; with format, they differ in blanks only.                         *)
Near(t, u) ==
  \/ t = u
  \/ {t, u} \subseteq Numbers \ Infinite /\ Double[t] - Double[u] \in -1 .. 1
ShownAs(t, shown) ==
  IF t \in Infinite THEN shown = "null" ELSE Near(t, shown)

PrintsWhatWasRead ==
  \A n \in Held, format \in BOOLEAN :
    LET p == print(heap, n, Plenty, format)
        read == Leading(Content)
    IN p # NULL => /\ Len(Squeeze(p)) = Len(read)
                   /\ \A i \in DOMAIN read : ShownAs(read[i], Squeeze(p)[i])
                   /\ format \/ p = Squeeze(p)

(* What is printed never runs over the buffer, of whatever size it was,    *)
(* and however often it could grow; and printing fails only when it cannot *)
(* grow or the text would reach INT_MAX.                                   *)
PrintStaysInside ==
  step = "parse" =>
    \A n \in Held, format \in BOOLEAN, size \in 0 .. 8, grow \in Budgets :
      LET p == PrintBuffered(heap, n, size, grow, format)
          w == TextWidth(Text(p.mem))
      IN /\ ~p.mem.over
         /\ p.res => w < p.mem.length
         /\ ~p.res => p.mem.left = 0 \/ w + 6 > INT_MAX

(* cJSON.h:168: a buffer that is 5 bytes longer than the text with its NUL *)
(* is enough for cJSON_PrintPreallocated.                                  *)
PreallocatedFits ==
  step = "parse" =>
    \A n \in Held, format \in BOOLEAN :
      LET whole == print(heap, n, Plenty, format)
          p == PrintPreallocated(heap, n, TextWidth(whole) + 1 + 5, format)
      IN whole # NULL => p.res /\ Text(p.mem) = whole

(* A search finds the first member of its name.                            *)
Named(o, s, case_sensitive) ==
  LET kids == Kids(heap, o)
  IN {i \in DOMAIN kids : heap[kids[i]].string = s
        \/ (~case_sensitive /\ Folded[heap[kids[i]].string] = Folded[s])}

(* Two trees without infinite numbers, in which a search tells all members *)
(* of an object apart, compare equal exactly if they are: same types and   *)
(* strings, numbers that are at most one double apart, arrays in the same  *)
(* order, objects with the same members in any order.                      *)
TellsApart(a, c) ==
  \A o \in Tree(heap, a) : heap[o].type = "object" =>
    \A i \in DOMAIN Kids(heap, o) :
      Named(o, heap[Kids(heap, o)[i]].string, c) = {i}

Finite(a) ==
  \A o \in Tree(heap, a) :
    heap[o].type = "number" => heap[o].value \notin Infinite

RECURSIVE Alike(_, _, _)
Alike(a, b, c) ==
  LET xs == Kids(heap, a)
      ys == Kids(heap, b)
      SameName(i, j) ==
        \/ heap[a].type = "array"
        \/ heap[xs[i]].string = heap[ys[j]].string
        \/ ~c /\ Folded[heap[xs[i]].string] = Folded[heap[ys[j]].string]
  IN /\ heap[a].type = heap[b].type
     /\ Near(heap[a].value, heap[b].value)
     /\ Len(xs) = Len(ys)
     /\ \A i \in DOMAIN xs :
          IF heap[a].type = "array" THEN Alike(xs[i], ys[i], c)
          ELSE \E j \in DOMAIN ys : SameName(i, j) /\ Alike(xs[i], ys[j], c)

CompareIsEquality ==
  \A a, b \in DOMAIN heap, c \in BOOLEAN :
    /\ TellsApart(a, c) /\ TellsApart(b, c)
    /\ Finite(a) /\ Finite(b)
    => (Compare(Memory(0), a, b, c) <=> Alike(a, b, c))
=============================================================================
