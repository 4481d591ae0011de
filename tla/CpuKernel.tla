----------------------------- MODULE CpuKernel -----------------------------
(***************************************************************************)
(* The arithmetic of one shuffle: src/compute/compute_cpu.c, and the other *)
(* two forms that its rejection threshold has in the backends for GPUs.    *)
(* Words are those of the generator (uint32_t in the code, modulo WORD     *)
(* here); a board is a permutation of 1 .. BoardSize (25 in the code),     *)
(* indexed from zero as in C.                                              *)
(***************************************************************************)
EXTENDS Integers, FiniteSets

CONSTANTS
  WORD,              \* 2^32: the words of the generator are below it
  BoardSize          \* 25

Words == 0 .. WORD - 1
Position == 0 .. BoardSize - 1

ASSUME KernelAssumption ==
  /\ BoardSize \in Nat \ {0} /\ WORD \in Nat /\ WORD > BoardSize

(* A faulty variant: ~max in place of -max.                                *)
Complemented(max) == WORD - 1 - max

(* (uint32_t)(-max) % max; (2^32) % n; (0xFFFFFFFF % max + 1) % max.       *)
Negated(max) == (WORD - max) % WORD
Threshold(max) == Negated(max) % max
ThresholdOnCuda(max) == WORD % max
ThresholdOnVulkan(max) == (((WORD - 1) % max) + 1) % max

Sorted == [p \in Position |-> p + 1]

(* One round of the shuffle, with the word x that was not rejected.        *)
Swap(arr, i, x) ==
  LET j == x % (i + 1)
  IN  [arr EXCEPT ![i] = arr[j], ![j] = arr[i]]

Correct(arr) == Cardinality({p \in Position : arr[p] = p + 1})
=============================================================================
