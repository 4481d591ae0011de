------------------------------ MODULE MCLease ------------------------------
(* Instances of Lease for TLC.                                             *)
EXTENDS LeaseInvariant

(* Scores with ties, and with the best shuffle at the end of a window.     *)
MCFixedPoints(seed, x) == (seed + x * x) % 4

(* A window that ends in a partial chunk of two, in worker 0's slice, and  *)
(* a shorter one of which worker 1 has the partial chunk.                  *)
ShrinkingLeases == <<[seed |-> 1, count |-> 5], [seed |-> 2, count |-> 3]>>

(* The same first window, handed over when it is exhausted, and one more   *)
(* shuffle: for the liveness properties.                                   *)
TwoLeases == <<[seed |-> 1, count |-> 5], [seed |-> 2, count |-> 1]>>

(* Two leases of which each has one shuffle for each of two workers.       *)
EqualLeases == <<[seed |-> 1, count |-> 2], [seed |-> 2, count |-> 2]>>
=============================================================================
