----------------------------- MODULE CJsonText -----------------------------
(***************************************************************************)
(* cJSON_Parse and cJSON_Print of src/cJSON.c.  A text is a sequence of    *)
(* tokens: a string, a number, a punctuation mark, a blank, a NUL.  The    *)
(* parser builds the items while it reads and frees them when it fails;    *)
(* the printer writes into a buffer that it grows, or was given, and that  *)
(* it asks for room before each write.  Numbers are compared as doubles    *)
(* are, up to rounding, here and in cJSON_Compare.                         *)
(***************************************************************************)
EXTENDS CJsonItems

CONSTANTS
  Numbers,             \* number tokens
  BadString,           \* starts like a string: not closed, or badly escaped
  BadNumber,           \* starts like a number: a lone minus sign
  Blanks,              \* white space
  Width,               \* how many characters a token is
  Infinite,            \* the positive numbers too big for a double
  Double,              \* by finite number: the double, in units of its last bit
  Short,               \* by finite number: what it is with 15 digits
  InverseEpsilon,      \* 1 / DBL_EPSILON
  CJSON_NESTING_LIMIT,
  default_buffer_size,
  INT_MAX

ASSUME NumbersAssumption ==
  /\ Infinite \subseteq Numbers /\ InverseEpsilon \in Nat \ {0}
  /\ Double \in [Numbers \ Infinite -> Int]
  /\ Short \in [Numbers \ Infinite -> Numbers \ Infinite]

Words == {"null", "true", "false"}
NUL == "NUL"
BOM == "BOM"

(* A parse_buffer is the memory with an offset "at" and a depth.           *)
Readable(text, m) == m.at < Len(text)
Token(text, m) == IF Readable(text, m) THEN text[m.at + 1] ELSE "end"
Skip(m, n) == [m EXCEPT !.at = @ + n]

(* NUL counts as white space, and the last character is never skipped.     *)
buffer_skip_whitespace(text, m) ==
  LET stops == {i \in m.at .. Len(text) :
                  i = Len(text) \/ text[i + 1] \notin Blanks \cup {NUL}}
      stop == CHOOSE i \in stops : \A j \in stops : i <= j
  IN IF ~Readable(text, m) THEN m
     ELSE [m EXCEPT !.at = IF stop = Len(text) THEN stop - 1 ELSE stop]

NextToken(text, m) == buffer_skip_whitespace(text, Skip(m, 1))

-----------------------------------------------------------------------------
(* Parsing.                                                                *)

(* The temporary copy that strtod reads is an allocation like any other.   *)
parse_number(text, m, item) ==
  LET t == Token(text, m)
      used == [m EXCEPT !.left = @ - 1]
  IN IF m.left = 0 THEN Ret(m, FALSE)
     ELSE IF t \notin Numbers THEN Ret(used, FALSE)
     ELSE Ret([Skip(used, 1) EXCEPT !.heap[item].type = "number",
                                    !.heap[item].value = t], TRUE)

parse_string(text, m, item) ==
  LET t == Token(text, m)
      copy == strdup(m, t)
  IN IF t \notin Names \/ copy.res = NULL THEN Ret(m, FALSE)
     ELSE Ret([Skip(copy.mem, 1) EXCEPT !.heap[item].type = "string",
                                        !.heap[item].value = t], TRUE)

(* The name of a member is parsed as the value, then moved.                *)
parse_name(text, m, item) ==
  LET read == parse_string(text, NextToken(text, m), item)
      after == buffer_skip_whitespace(text, read.mem)
      moved == [after EXCEPT !.heap[item].string = after.heap[item].value,
                             !.heap[item].value = NULL]
  IN IF m.at + 1 >= Len(text) THEN Ret(m, FALSE)
     ELSE IF ~read.res THEN read
     ELSE Ret(moved, Token(text, moved) = ":")

RECURSIVE parse_value(_, _, _), Elements(_, _, _, _, _, _)

(* The list is done: item becomes its container.                           *)
ContainWithoutTail(m, item, type, head, last) ==      \* faulty
  Ret([Skip(m, 1) EXCEPT !.depth = @ - 1, !.heap[item].type = type,
                         !.heap[item].child = head], TRUE)
ContainStaysDeep(m, item, type, head, last) ==        \* faulty
  LET closed == IF head = NULL THEN m ELSE Set(m, head, "prev", last)
  IN Ret([Skip(closed, 1) EXCEPT !.heap[item].type = type,
                                 !.heap[item].child = head], TRUE)
Contain(m, item, type, head, last) ==
  LET closed == IF head = NULL THEN m ELSE Set(m, head, "prev", last)
  IN Ret([Skip(closed, 1) EXCEPT !.depth = @ - 1, !.heap[item].type = type,
                                 !.heap[item].child = head], TRUE)

(* One more element behind last; it is in the list before it is parsed.    *)
Elements(text, m, item, type, head, last) ==
  LET new == New_Item(m)
      list == IF head = NULL THEN new.res ELSE head
      linked == IF head = NULL THEN new.mem
                ELSE suffix_object(new.mem, last, new.res)
      named == IF type = "object" THEN parse_name(text, linked, new.res)
               ELSE Ret(linked, TRUE)
      value == parse_value(text, NextToken(text, named.mem), new.res)
      after == buffer_skip_whitespace(text, value.mem)
      close == IF type = "object" THEN "}" ELSE "]"
  IN IF new.res = NULL THEN Ret(Delete(m, head), FALSE)
     ELSE IF ~named.res THEN Ret(Delete(named.mem, list), FALSE)
     ELSE IF ~value.res THEN Ret(Delete(value.mem, list), FALSE)
     ELSE IF Token(text, after) = ","
     THEN Elements(text, after, item, type, list, new.res)
     ELSE IF Token(text, after) = close
     THEN Contain(after, item, type, list, new.res)
     ELSE Ret(Delete(after, list), FALSE)

parse_array(text, m, item) ==
  LET first == NextToken(text, [m EXCEPT !.depth = @ + 1])
  IN IF m.depth >= CJSON_NESTING_LIMIT THEN Ret(m, FALSE)
     ELSE IF Token(text, first) = "]"
     THEN Contain(first, item, "array", NULL, NULL)
     ELSE IF ~Readable(text, first) THEN Ret(Skip(first, -1), FALSE)
     ELSE Elements(text, Skip(first, -1), item, "array", NULL, NULL)

parse_object(text, m, item) ==
  LET first == NextToken(text, [m EXCEPT !.depth = @ + 1])
  IN IF m.depth >= CJSON_NESTING_LIMIT THEN Ret(m, FALSE)
     ELSE IF Token(text, first) = "}"
     THEN Contain(first, item, "object", NULL, NULL)
     ELSE IF ~Readable(text, first) THEN Ret(Skip(first, -1), FALSE)
     ELSE Elements(text, Skip(first, -1), item, "object", NULL, NULL)

parse_value(text, m, item) ==
  LET t == Token(text, m)
  IN CASE t \in Words -> Ret([Skip(m, 1) EXCEPT !.heap[item].type = t], TRUE)
       [] t \in Names \cup {BadString} -> parse_string(text, m, item)
       [] t \in Numbers \cup {BadNumber} -> parse_number(text, m, item)
       [] t = "[" -> parse_array(text, m, item)
       [] t = "{" -> parse_object(text, m, item)
       [] OTHER -> Ret(m, FALSE)

TextWidth(ts) ==
  LET w[i \in 0 .. Len(ts)] == IF i = 0 THEN 0 ELSE w[i - 1] + Width[ts[i]]
  IN w[Len(ts)]

(* A byte order mark of 3 bytes, if two more characters follow.            *)
skip_utf8_bom(text, m) ==
  IF m.at = 0 /\ TextWidth(text) > 4 /\ text[1] = BOM THEN Skip(m, 1) ELSE m

(* The root, or NULL; "at" is where parsing ended, or the error position.  *)
ParseWithLengthOpts(text, m, require_null_terminated) ==
  LET item == New_Item(m)
      start == buffer_skip_whitespace(text, skip_utf8_bom(text, item.mem))
      value == parse_value(text, start, item.res)
      end == IF require_null_terminated
             THEN buffer_skip_whitespace(text, value.mem) ELSE value.mem
      fail(f) == Ret([Delete(f, item.res) EXCEPT
                        !.at = IF f.at < Len(text) THEN f.at
                               ELSE Len(text) - 1],
                     NULL)
  IN IF text = <<>> \/ item.res = NULL THEN Ret(m, NULL)
     ELSE IF ~value.res THEN fail(value.mem)
     ELSE IF require_null_terminated /\ Token(text, end) # NUL THEN fail(end)
     ELSE Ret(end, item.res)

-----------------------------------------------------------------------------
(* Printing.  What is written does not depend on the buffer: a value is a  *)
(* sequence of steps, each of which asks for room and writes tokens, with  *)
(* or without a NUL, and either moves the offset behind them or leaves     *)
(* that to the caller's update_offset ("sync").                            *)

Step(needed, ts, nul, moves) ==
  [do |-> "write", needed |-> needed, ts |-> ts, nul |-> nul, moves |-> moves]
Sync == Step(0, <<>>, 0, FALSE)
Nested == [Sync EXCEPT !.do = "fail"]        \* nesting is too deep
update_offset == [Sync EXCEPT !.do = "sync"]

Token1(t, moves) == <<Step(Width[t] + 1, <<t>>, 1, moves)>>

(* |a - b| <= max * DBL_EPSILON: two infinities differ by NaN, which is    *)
(* not below anything; an infinity and a finite number by an infinity,     *)
(* which is no more than the infinity of the other side.                   *)
Magnitude(x) == IF x < 0 THEN -x ELSE x
compare_double(a, b) ==
  IF {a, b} \subseteq Infinite THEN FALSE
  ELSE \/ {a, b} \cap Infinite # {}
       \/ LET sizes == {Magnitude(Double[a]), Magnitude(Double[b])}
          IN \E max \in sizes :
               Magnitude(Double[a] - Double[b]) * InverseEpsilon <= max

(* With 15 digits, if that is close enough, or else with all of them.      *)
print_number(item) ==
  LET t == item.value
  IN Token1(IF t \in Infinite THEN "null"
            ELSE IF compare_double(Short[t], t) THEN Short[t] ELSE t, TRUE)

PessimisticString(s) ==      \* faulty: room as if all had to be escaped
  <<Step(6 * Width[s], <<s>>, 1, FALSE)>>
print_string_ptr(s) == Token1(IF s = NULL THEN "empty" ELSE s, FALSE)

If(c, ts) == IF c THEN ts ELSE <<>>
Times(t, n) == [i \in 1 .. n |-> t]

RECURSIVE print_value(_, _, _, _), PrintMembers(_, _, _, _)

(* item and those that follow it, with what stands between them.           *)
PrintElements(heap, kids, depth, format) ==
  LET comma == <<",">> \o If(format, <<"space">>)
      one[i \in 0 .. Len(kids)] ==
        IF i = 0 THEN <<>>
        ELSE one[i - 1] \o print_value(heap, kids[i], depth, format)
               \o <<update_offset>>
               \o If(i < Len(kids), <<Step(Len(comma) + 1, comma, 1, TRUE)>>)
  IN one[Len(kids)]

PrintMembers(heap, kids, depth, format) ==
  LET colon == <<":">> \o If(format, <<"tab">>)
      comma(i) == If(i < Len(kids), <<",">>) \o If(format, <<"newline">>)
      one[i \in 0 .. Len(kids)] ==
        IF i = 0 THEN <<>>
        ELSE one[i - 1]
               \o If(format, <<Step(depth, Times("tab", depth), 0, TRUE)>>)
               \o print_string_ptr(heap[kids[i]].string)
               \o <<update_offset, Step(Len(colon), colon, 0, TRUE)>>
               \o print_value(heap, kids[i], depth, format)
               \o <<update_offset, Step(Len(comma(i)) + 1, comma(i), 1, TRUE)>>
  IN one[Len(kids)]

print_array(heap, item, depth, format) ==
  IF depth >= CJSON_NESTING_LIMIT THEN <<Nested>>
  ELSE <<Step(1, <<"[">>, 0, TRUE)>>
         \o PrintElements(heap, Kids(heap, item), depth + 1, format)
         \o <<Step(2, <<"]">>, 1, FALSE)>>

print_object(heap, item, depth, format) ==
  LET open == <<"{">> \o If(format, <<"newline">>)
      close == If(format, Times("tab", depth)) \o <<"}">>
  IN IF depth >= CJSON_NESTING_LIMIT THEN <<Nested>>
     ELSE <<Step(Len(open) + 1, open, 0, TRUE)>>
            \o PrintMembers(heap, Kids(heap, item), depth + 1, format)
            \o <<Step(IF format THEN depth + 2 ELSE 2, close, 1, FALSE)>>

print_value(heap, item, depth, format) ==
  LET n == heap[item]
  IN CASE n.type \in Words -> Token1(n.type, FALSE)
       [] n.type = "number" -> print_number(n)
       [] n.type \in Stringed -> print_string_ptr(n.value)
       [] n.type = "array" -> print_array(heap, item, depth, format)
       [] n.type = "object" -> print_object(heap, item, depth, format)
       [] OTHER -> <<Nested>>

(* A printbuffer: length bytes, of which the first offset hold "out"; what *)
(* follows them up to a NUL is "tail".  "over": a write went past the end. *)
Buffer(length, noalloc, left) ==
  [length |-> length, offset |-> 0, noalloc |-> noalloc, left |-> left,
   out |-> <<>>, tail |-> <<>>, over |-> FALSE]

RoomAtStart(p, needed) ==      \* faulty: as if nothing had been written
  LET all == needed + 1
  IN IF all <= p.length THEN Ret(p, TRUE)
     ELSE IF p.noalloc \/ p.left = 0 THEN Ret(p, FALSE)
     ELSE Ret([p EXCEPT !.length = 2 * all, !.left = @ - 1], TRUE)
ensure(p, needed) ==
  LET all == needed + p.offset + 1
      newsize == IF all > INT_MAX \div 2 THEN INT_MAX ELSE 2 * all
  IN IF (p.length > 0 /\ p.offset >= p.length) \/ needed > INT_MAX
     THEN Ret(p, FALSE)
     ELSE IF all <= p.length THEN Ret(p, TRUE)
     ELSE IF p.noalloc \/ all > INT_MAX \/ p.left = 0 THEN Ret(p, FALSE)
     ELSE Ret([p EXCEPT !.length = newsize, !.left = @ - 1], TRUE)

Write(p, s) ==
  LET w == TextWidth(s.ts)
      q == [p EXCEPT !.over = @ \/ p.offset + w + s.nul > p.length]
  IN IF s.moves
     THEN [q EXCEPT !.out = @ \o s.ts, !.tail = <<>>, !.offset = @ + w]
     ELSE [q EXCEPT !.tail = s.ts]

RunStep(r, s) ==
  LET room == ensure(r.mem, s.needed)
  IN IF ~r.res THEN r
     ELSE IF s.do = "sync"
     THEN Ret([r.mem EXCEPT !.out = @ \o r.mem.tail, !.tail = <<>>,
                            !.offset = @ + TextWidth(r.mem.tail)], TRUE)
     ELSE IF s.do = "fail" \/ ~room.res THEN Ret(room.mem, FALSE)
     ELSE Ret(Write(room.mem, s), TRUE)

(* print_value into the buffer p.                                          *)
PrintInto(p, heap, item, format) ==
  LET steps == print_value(heap, item, 0, format)
      run[i \in 0 .. Len(steps)] ==
        IF i = 0 THEN Ret(p, TRUE) ELSE RunStep(run[i - 1], steps[i])
  IN run[Len(steps)]

Text(p) == p.out \o p.tail

PrintBuffered(heap, item, prebuffer, left, format) ==
  PrintInto(Buffer(prebuffer, FALSE, left), heap, item, format)

PrintPreallocated(heap, item, length, format) ==
  PrintInto(Buffer(length, TRUE, 0), heap, item, format)

(* cJSON_Print and cJSON_PrintUnformatted: the text in memory of its own.  *)
print(heap, item, left, format) ==
  LET r == PrintBuffered(heap, item, default_buffer_size, left - 1, format)
  IN IF left = 0 \/ ~r.res \/ r.mem.left = 0 THEN NULL ELSE Text(r.mem)

-----------------------------------------------------------------------------
(* cJSON_Compare.                                                          *)

RECURSIVE Compare(_, _, _, _)

(* Every member of object a is found in b, with an equal value.            *)
Contained(m, a, b, case_sensitive) ==
  \A i \in DOMAIN Kids(m.heap, a) :
    LET mine == Kids(m.heap, a)[i]
        other == get_object_item(m, b, m.heap[mine].string, case_sensitive)
    IN other # NULL /\ Compare(m, mine, other, case_sensitive)

EqualObjects(m, a, b, case_sensitive) ==
  Contained(m, a, b, case_sensitive) /\ Contained(m, b, a, case_sensitive)

Compare(m, a, b, case_sensitive) ==
  LET x == m.heap[a]
      y == m.heap[b]
      xs == Kids(m.heap, a)
      ys == Kids(m.heap, b)
  IN /\ x.type = y.type
     /\ x.type # "invalid"
     /\ \/ a = b
        \/ x.type \in Words
        \/ x.type = "number" /\ compare_double(x.value, y.value)
        \/ x.type \in Stringed /\ NULL # x.value /\ x.value = y.value
        \/ /\ x.type = "array"
           /\ Len(xs) = Len(ys)
           /\ \A i \in DOMAIN xs : Compare(m, xs[i], ys[i], case_sensitive)
        \/ /\ x.type = "object"
           /\ EqualObjects(m, a, b, case_sensitive)
=============================================================================
