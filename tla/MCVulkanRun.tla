---------------------------- MODULE MCVulkanRun ----------------------------
(* Instances of VulkanRun for TLC: workgroups of three invocations, and a  *)
(* number of workgroups that is cut to two bits.                           *)
EXTENDS VulkanRun

(* Ties, a perfect score that is not the first of its window, and a seed   *)
(* with which nothing scores.                                              *)
MCFixedPoints(seed, x) ==
  CASE seed = 1 -> (x * x) % 3
    [] seed = 2 -> IF x = 6 THEN 25 ELSE x % 2
    [] OTHER -> 0

Asked(seed, lo, hi) == [seed |-> seed, lo |-> lo, hi |-> hi]

(* No index at all; one; one workgroup and a bit; more than the grid, so   *)
(* that invocations stride; nothing that scores, with idle invocations;    *)
(* five workgroups, cut to one; four, cut to none.                         *)
MCWindows ==
  {Asked(1, 4, 4), Asked(1, 2, 3), Asked(2, 5, 9), Asked(1, 3, 11),
   Asked(3, 2, 4), Asked(1, 1, 14), Asked(1, 0, 12)}

(* For two threads, the least that can get mixed up.                       *)
TwoCalls == {Asked(1, 0, 1), Asked(1, 1, 2)}
=============================================================================
