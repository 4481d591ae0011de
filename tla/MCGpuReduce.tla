---------------------------- MODULE MCGpuReduce ----------------------------
(* Instances of GpuReduce for TLC: blocks of two warps of four lanes.      *)
EXTENDS GpuReduce

(* Most shuffles have no fixed point, few have many, one window has all.   *)
MCFixedPoints(seed, x) ==
  CASE seed = 1 -> IF x % 3 = 0 THEN (x * x) % 5 ELSE 0
    [] seed = 2 -> IF x = 13 THEN 25 ELSE x % 2
    [] OTHER -> 0

Call(seed, lo, hi) == [seed |-> seed, lo |-> lo, hi |-> hi]

(* No index, or less than none; one; a part of a block; a block and a bit; *)
(* a full grid and more, so that threads stride; nothing that scores, with *)
(* idle lanes; four blocks, a negative int; eight and a bit, which is one  *)
(* when it is cut.                                                         *)
MCWindows ==
  {Call(1, 6, 6), Call(1, 25, 3), Call(1, 3, 4), Call(1, 4, 10),
   Call(1, 2, 12), Call(2, 0, 20), Call(1, 5, 24), Call(3, 2, 11),
   Call(1, 1, 30), Call(1, 2, 68)}

MCWarpOffsets == <<2, 1>>
MCBlockOffsets == <<1>>
=============================================================================
