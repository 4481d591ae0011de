-------------------------- MODULE MCCJsonDocument --------------------------
(***************************************************************************)
(* CJsonDocument on every JSON text of up to MaxTokens tokens, and on the  *)
(* shorter ones cut off, after a byte order mark, with a blank in them or  *)
(* with a token replaced.  k and K are names that differ only in case; K   *)
(* has characters to escape.  Doubles have 6 significant bits, the last of *)
(* which is 1/8: 7 is 56 of them, and 7 with one digit is what all three   *)
(* numbers round to, of which 7.125 is next to it and 7.375 is not.        *)
(***************************************************************************)
EXTENDS CJsonDocument, SequencesExt

CONSTANTS MaxTokens, MaxDamaged

MCNames == {"k", "K"}
MCFolded == [n \in MCNames |-> "k"]
MCBlanks == {"space", "tab", "newline"}
Marks == {"[", "]", "{", "}", ",", ":"}
MCWidth ==
  [t \in {"7", "-", NUL} \cup Marks \cup MCBlanks |-> 1] @@
  ("null" :> 4) @@ ("true" :> 4) @@ ("false" :> 5) @@
  ("empty" :> 2) @@ ("k" :> 3) @@ ("K" :> 8) @@
  ("bad string" :> 2) @@ (BOM :> 3) @@
  [t \in {"7.125", "7.375", "1e999"} |-> 5]
MCDouble == ("7" :> 56) @@ ("7.125" :> 57) @@ ("7.375" :> 59)
MCShort == [t \in DOMAIN MCDouble |-> "7"]

Concat(As, Bs) == {a \o b : a \in As, b \in Bs}

(* The values and the lists of elements and of members with n tokens.      *)
RECURSIVE Value(_), List(_, _)
Item(n, member) ==
  IF ~member THEN Value(n)
  ELSE Concat({<<s, ":">> : s \in MCNames}, Value(n - 2))
List(n, member) ==
  IF n <= 0 THEN IF n = 0 THEN {<<>>} ELSE {}
  ELSE Item(n, member) \cup
       UNION {Concat(Concat(Item(i, member), {<<",">>}),
                     List(n - i - 1, member)) :
                i \in 1 .. n - 2}
Value(n) ==
  IF n <= 1 THEN IF n = 1 THEN {<<"null">>, <<"7">>, <<"k">>} ELSE {}
  ELSE Concat({<<"[">>}, Concat(List(n - 2, FALSE), {<<"]">>}))
    \cup Concat({<<"{">>}, Concat(List(n - 2, TRUE), {<<"}">>}))

Valid(n) == UNION {Value(i) : i \in 1 .. n}

Damaged(ts) ==
  {SubSeq(ts, 1, i) : i \in 0 .. Len(ts)}
    \cup {InsertAt(ts, i, "space") : i \in DOMAIN ts}
    \cup {<<BOM>> \o ts}
    \cup {[ts EXCEPT ![i] = t] : i \in DOMAIN ts,
            t \in Marks \cup Numbers \cup
                    {"space", BOM, "-", "k", "K", "bad string"}}

MCTexts ==
  LET texts == Valid(MaxTokens)
                 \cup UNION {Damaged(ts) : ts \in Valid(MaxDamaged)}
  IN texts \cup {Append(ts, NUL) : ts \in texts}
=============================================================================
