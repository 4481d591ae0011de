------------------------------ MODULE MCChunks ------------------------------
(* Instances of Chunks for TLC: 64-bit integers and longs shrunk to 5 bits *)
(* (-16 .. 15), ints and words of the generator to 3 (-4 .. 3), boards of  *)
(* five.                                                                   *)
EXTENDS Chunks, TLC

Number(n, all) == [number |-> n, whole |-> all]
Text == Number(0, FALSE)

(* The number at the start of each word.                                   *)
MCParsed ==
  [w \in {"--uuid", "--nickname", "--code", "--chunk-size", "--workers",
          "--help", "u", "n", "c"} |-> Text]
  @@ ("" :> Number(0, TRUE)) @@ ("2x" :> Number(2, FALSE))
  @@ ("-7" :> Number(-7, TRUE)) @@ ("-1" :> Number(-1, TRUE))
  @@ ("2" :> Number(2, TRUE)) @@ ("3" :> Number(3, TRUE))
  @@ ("7" :> Number(7, TRUE)) @@ ("9" :> Number(9, TRUE))
  @@ ("40" :> Number(40, TRUE))

Account == <<"--uuid", "u", "--nickname", "n", "--code", "">>
Sized(workers, chunk) == <<"--workers", workers, "--chunk-size", chunk>>

(* Sessions with chunks and workers of every relation to the window, and   *)
(* some that wrap round; chunks of zero; numbers that an int cuts off, or  *)
(* that are too large for a long and a uint64_t; an option given twice;    *)
(* values that look like options; and what main must refuse or answer with *)
(* its usage.                                                              *)
MCCommandLines ==
  {Account,
   Account \o Sized("2", "3"), Sized("3", "2") \o Account,
   Account \o Sized("2", "7"), Account \o Sized("3", "7"),
   Account \o <<"--chunk-size", "-1">>,
   Account \o <<"--chunk-size", "c">>, Account \o <<"--chunk-size", "2x">>,
   Account \o <<"--chunk-size", "40">>,
   Account \o <<"--workers", "7">>, Account \o <<"--workers", "9">>,
   Account \o <<"--workers", "40">>, Account \o <<"--workers", "-7">>,
   Account \o <<"--workers", "2x">>, Account \o <<"--workers", "">>,
   Account \o <<"--workers", "-1">>,
   Account \o <<"--code", "c">> \o Sized("2", "2") \o <<"--workers", "3">>,
   <<"--uuid", "--code", "--nickname", "--help", "--code", "--uuid">>,
   <<"--uuid", "u", "--code", "c">>, Account \o <<"--uuid">>, Account \o <<"--workers">>,
   Account \o <<"--help">>, Account \o <<"u">>, <<>>}

(* A word for each index and draw: all eight in turn, in another order for *)
(* each index, so that every rejection ends.                               *)
MCWord(x, k) == (5 * x * x + (3 + 2 * x) * k) % 8
=============================================================================
