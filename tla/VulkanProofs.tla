---------------------------- MODULE VulkanProofs ----------------------------
(***************************************************************************)
(* The Vulkan backend, called by one thread: whatever the windows, their   *)
(* order, the size of a workgroup, the number of workgroups and the order  *)
(* of the invocations, no rule of Vulkan is broken, and what compute_run   *)
(* returns is a best shuffle of its own window.                            *)
(*                                                                         *)
(* With two threads this is false, as a run of VulkanRun shows.            *)
(***************************************************************************)
EXTENDS VulkanRun, WellFoundedInduction, TLAPS

-----------------------------------------------------------------------------
(* Induction over the numbers, from the least element of a set.            *)

LEMMA LeastOf ==
  ASSUME NEW T \in SUBSET Nat, T # {}
  PROVE  \E n \in T : \A m \in T : n <= m
<1>1. PICK R : /\ IsWellFoundedOn(R, Nat)
               /\ \A x, y \in Nat : y < x => <<y, x>> \in R
  BY NatLessThanWellFounded DEF OpToRel
<1>2. PICK n \in T : \A m \in T : ~(<<m, n>> \in R)
  BY <1>1, WFMin
<1>3. ASSUME NEW m \in T
      PROVE  n <= m
  <2>1. n \in Nat /\ m \in Nat
    OBVIOUS
  <2>2. ~(m < n)
    BY <1>1, <1>2, <2>1
  <2> QED
    BY <2>1, <2>2
<1> QED
  BY <1>3

LEMMA GreatestOf ==
  ASSUME NEW n \in Nat, NEW T \in SUBSET (0 .. n), T # {}
  PROVE  \E m \in T : \A k \in T : k <= m
<1> DEFINE D == {n - k : k \in T}
<1>1. D \in SUBSET Nat /\ D # {}
  <2>1. \A k \in T : n - k \in Nat
    OBVIOUS
  <2>2. PICK k \in T : TRUE
    OBVIOUS
  <2>3. n - k \in D
    OBVIOUS
  <2> QED
    BY <2>1, <2>3
<1> HIDE DEF D
<1>2. PICK d \in D : \A e \in D : d <= e
  BY <1>1, LeastOf
<1>3. PICK m \in T : d = n - m
  BY DEF D
<1>4. ASSUME NEW k \in T
      PROVE  k <= m
  <2>1. n - k \in D
    BY DEF D
  <2> QED
    BY <1>2, <1>3, <2>1
<1> QED
  BY <1>4

LEMMA AllNumbers ==
  ASSUME NEW S \in SUBSET Nat, 0 \in S, \A n \in S : n + 1 \in S
  PROVE  S = Nat
<1> SUFFICES ASSUME S # Nat PROVE FALSE
  OBVIOUS
<1> DEFINE T == Nat \ S
<1>1. PICK n \in T : \A m \in T : n <= m
  BY LeastOf
<1>2. n - 1 \in Nat /\ n - 1 \notin T
  BY <1>1
<1> QED
  BY <1>1, <1>2

-----------------------------------------------------------------------------
(* The loop over the workgroups' results, which is a fold.                 *)

IsFold(f, base, n) ==
  \A s \in SUBSET (1 .. n) :
    f[s] = IF s = {} THEN base ELSE Better(f[s \ {Max(s)}], Max(s) - 1)

LEMMA LastIsMax ==
  ASSUME NEW n \in Nat, NEW s \in SUBSET (1 .. n), n \in s
  PROVE  Max(s) = n
<1>1. \A y \in s : n >= y /\ y \in Nat
  OBVIOUS
<1>2. Max(s) \in s /\ \A y \in s : Max(s) >= y
  BY <1>1 DEF Max
<1>3. Max(s) \in Nat /\ Max(s) >= n /\ n >= Max(s)
  BY <1>1, <1>2
<1> QED
  BY <1>3

LEMMA FoldExists ==
  ASSUME NEW base, NEW n \in Nat
  PROVE  \E f : IsFold(f, base, n)
<1> DEFINE S == {m \in Nat : \E f : IsFold(f, base, m)}
<1>1. 0 \in S
  <2>1. 1 .. 0 = {}
    OBVIOUS
  <2>2. IsFold([s \in SUBSET (1 .. 0) |-> base], base, 0)
    BY <2>1 DEF IsFold
  <2> QED
    BY <2>2
<1>2. ASSUME NEW m \in S
      PROVE  m + 1 \in S
  <2>1. PICK f : IsFold(f, base, m)
    OBVIOUS
  <2> DEFINE h == [s \in SUBSET (1 .. m + 1) |->
                     IF m + 1 \in s THEN Better(f[s \ {m + 1}], m) ELSE f[s]]
  <2>2. ASSUME NEW s \in SUBSET (1 .. m + 1), m + 1 \notin s
        PROVE  s \in SUBSET (1 .. m) /\ h[s] = f[s]
    BY <2>2
  <2>3. ASSUME NEW s \in SUBSET (1 .. m + 1), m + 1 \in s
        PROVE  h[s] = Better(f[s \ {m + 1}], m)
    BY <2>3
  <2> HIDE DEF h
  <2>4. ASSUME NEW s \in SUBSET (1 .. m + 1)
        PROVE  h[s] = IF s = {} THEN base
                      ELSE Better(h[s \ {Max(s)}], Max(s) - 1)
    <3>1. CASE m + 1 \in s
      <4>1. Max(s) = m + 1 /\ Max(s) - 1 = m
        BY <3>1, LastIsMax
      <4>2. h[s \ {m + 1}] = f[s \ {m + 1}]
        BY <2>2
      <4> QED
        BY <2>3, <3>1, <4>1, <4>2
    <3>2. CASE m + 1 \notin s
      <4>1. s \in SUBSET (1 .. m) /\ h[s] = f[s]
        BY <2>2, <3>2
      <4>2. CASE s = {}
        BY <2>1, <4>1, <4>2 DEF IsFold
      <4>3. CASE s # {}
        <5>1. f[s] = Better(f[s \ {Max(s)}], Max(s) - 1)
          BY <2>1, <4>1, <4>3 DEF IsFold
        <5>2. h[s \ {Max(s)}] = f[s \ {Max(s)}]
          BY <2>2, <3>2
        <5> QED
          BY <4>1, <4>3, <5>1, <5>2
      <4> QED
        BY <4>2, <4>3
    <3> QED
      BY <3>1, <3>2
  <2>5. IsFold(h, base, m + 1)
    BY <2>4 DEF IsFold
  <2> QED
    BY <2>5
<1> HIDE DEF S
<1>3. S = Nat
  BY <1>1, <1>2, AllNumbers DEF S
<1> QED
  BY <1>3 DEF S

(* The fold over n workgroups, step by step.                               *)
LEMMA FoldSteps ==
  ASSUME NEW base, NEW n \in Nat
  PROVE  \E p : /\ p[0] = base
                /\ \A k \in 1 .. n : p[k] = Better(p[k-1], k - 1)
                /\ FoldLeft(Better, base, [k \in 1 .. n |-> k - 1]) = p[n]
<1> DEFINE seq == [k \in 1 .. n |-> k - 1]
           IsSolution(f) ==
             f = [s \in SUBSET (1 .. n) |->
                    IF s = {} THEN base
                    ELSE Better(f[s \ {Max(s)}], seq[Max(s)])]
           It == CHOOSE f : IsSolution(f)
<1>1. DOMAIN seq = 1 .. n
  OBVIOUS
<1>2. FoldLeft(Better, base, seq) = It[1 .. n]
  BY <1>1 DEF FoldLeft, MapThenFoldSet
<1>3. \A s \in SUBSET (1 .. n) : s # {} => seq[Max(s)] = Max(s) - 1
  <2> SUFFICES ASSUME NEW s \in SUBSET (1 .. n), s # {}
               PROVE  Max(s) \in 1 .. n
    OBVIOUS
  <2>1. s \in SUBSET (0 .. n)
    OBVIOUS
  <2>2. PICK m \in s : \A y \in s : y <= m
    BY <2>1, GreatestOf
  <2>3. \A y \in s : m >= y
    BY <2>2
  <2>4. Max(s) \in s
    BY <2>3 DEF Max
  <2> QED
    BY <2>4
<1>4. PICK f : IsFold(f, base, n)
  BY FoldExists
<1> DEFINE r == [s \in SUBSET (1 .. n) |-> f[s]]
<1>5. IsSolution(r)
  <2>1. \A s \in SUBSET (1 .. n) :
          r[s] = IF s = {} THEN base ELSE Better(r[s \ {Max(s)}], seq[Max(s)])
    BY <1>3, <1>4 DEF IsFold
  <2> QED
    BY <2>1
<1>6. IsSolution(It)
  BY <1>5
<1> HIDE DEF It
<1>7. IsFold(It, base, n)
  BY <1>3, <1>6 DEF IsFold
<1> DEFINE p == [k \in 0 .. n |-> It[1 .. k]]
<1>8. p[0] = base
  <2>1. 1 .. 0 = {}
    OBVIOUS
  <2> QED
    BY <1>7, <2>1 DEF IsFold
<1>9. ASSUME NEW k \in 1 .. n
      PROVE  p[k] = Better(p[k-1], k - 1)
  <2>1. 1 .. k \in SUBSET (1 .. n) /\ 1 .. k # {} /\ k - 1 \in 0 .. n
    OBVIOUS
  <2>2. Max(1 .. k) = k
    BY LastIsMax
  <2>3. (1 .. k) \ {k} = 1 .. k - 1
    OBVIOUS
  <2> QED
    BY <1>7, <2>1, <2>2, <2>3 DEF IsFold
<1>10. p[n] = It[1 .. n]
  OBVIOUS
<1> HIDE DEF p, seq
<1>11. FoldLeft(Better, base, seq) = p[n]
  BY <1>2, <1>10
<1> QED
  BY <1>8, <1>9, <1>11 DEF seq

(* What the loop leaves: the first of the best workgroups.                 *)
ResultOf(g) ==
  [best_correct |-> results[g].best_c, best_index |-> results[g].best_i,
   best_arr |-> results[g].best_arr]
BestGroup(g, n) ==
  /\ g \in 0 .. n - 1
  /\ \A h \in 0 .. n - 1 :
       /\ results[h].best_c <= results[g].best_c
       /\ h < g => results[h].best_c < results[g].best_c

LEMMA FoldFindsBest ==
  ASSUME NEW n \in Nat \ {0}, NEW lo,
         \A g \in 0 .. n - 1 : results[g].best_c \in Nat
  PROVE  \E g : /\ BestGroup(g, n)
                /\ FoldLeft(Better, EmptyResult(lo), [k \in 1 .. n |-> k - 1])
                     = ResultOf(g)
<1>1. PICK p : /\ p[0] = EmptyResult(lo)
               /\ \A k \in 1 .. n : p[k] = Better(p[k-1], k - 1)
               /\ FoldLeft(Better, EmptyResult(lo),
                           [k \in 1 .. n |-> k - 1]) = p[n]
  BY FoldSteps
<1> DEFINE S == {k \in Nat : k + 1 <= n =>
                   \E g : BestGroup(g, k + 1) /\ p[k + 1] = ResultOf(g)}
<1>2. 0 \in S
  <2>1. p[1] = Better(p[0], 0) /\ results[0].best_c > -1
    BY <1>1
  <2>2. p[0].best_correct = -1
    BY <1>1 DEF EmptyResult
  <2>3. results[0].best_c > p[0].best_correct
    BY <2>1, <2>2
  <2>4. p[1] = ResultOf(0)
    BY <2>1, <2>3 DEF Better, ResultOf
  <2>5. BestGroup(0, 1)
    BY DEF BestGroup
  <2> QED
    BY <2>4, <2>5
<1>3. ASSUME NEW k \in S
      PROVE  k + 1 \in S
  <2> SUFFICES ASSUME k + 2 <= n
               PROVE  \E g : BestGroup(g, k + 2) /\ p[k + 2] = ResultOf(g)
    OBVIOUS
  <2>1. PICK g : BestGroup(g, k + 1) /\ p[k + 1] = ResultOf(g)
    OBVIOUS
  <2>2. p[k + 2] = Better(p[k + 1], k + 1)
    <3>1. k + 2 \in 1 .. n /\ (k + 2) - 1 = k + 1
      OBVIOUS
    <3> QED
      BY <1>1, <3>1
  <2>3. /\ g \in 0 .. k /\ \A h \in 0 .. k + 1 : results[h].best_c \in Nat
        /\ \A h \in 0 .. k + 1 : h = k + 1 \/ h \in 0 .. k
    BY <2>1 DEF BestGroup
  <2>4. CASE results[k + 1].best_c > results[g].best_c
    <3>1. p[k + 2] = ResultOf(k + 1)
      BY <2>1, <2>2, <2>4 DEF Better, ResultOf
    <3>2. BestGroup(k + 1, k + 2)
      BY <2>1, <2>3, <2>4 DEF BestGroup
    <3> QED
      BY <3>1, <3>2
  <2>5. CASE ~(results[k + 1].best_c > results[g].best_c)
    <3>1. p[k + 2] = ResultOf(g)
      BY <2>1, <2>2, <2>5 DEF Better, ResultOf
    <3>2. BestGroup(g, k + 2)
      BY <2>1, <2>3, <2>5 DEF BestGroup
    <3> QED
      BY <3>1, <3>2
  <2> QED
    BY <2>4, <2>5
<1> HIDE DEF S
<1>4. S = Nat
  <2>1. S \in SUBSET Nat
    BY DEF S
  <2> QED
    BY <1>2, <1>3, <2>1, AllNumbers
<1>5. n - 1 \in S /\ (n - 1) + 1 = n
  BY <1>4
<1> QED
  BY <1>1, <1>5 DEF S

-----------------------------------------------------------------------------
(* What one invocation finds.                                              *)

(* A dispatch over a window whose shuffles have scores.                    *)
Dispatched ==
  /\ params.base_index \in Nat /\ params.total_work \in Nat
  /\ params.seed \in Nat /\ dispatch.groups \in Nat \ {0}
  /\ \A x \in params.base_index .. End - 1 :
       FixedPoints(params.seed, x) \in 0 .. 25

IsBestOf(b, idx) ==
  /\ b.best_c \in 0 .. 25
  /\ \A x \in Visited(idx) : FixedPoints(params.seed, x) <= b.best_c
  /\ b.best_c > 0 =>
       /\ b.best_i \in Visited(idx)
       /\ b.best_c = FixedPoints(params.seed, b.best_i)
       /\ b.best_arr = <<params.seed, b.best_i>>
  /\ b.best_c = 0 => b.best_i = idx

LEMMA BestFound ==
  ASSUME Dispatched, NEW idx \in Nat, idx >= params.base_index
  PROVE  InvocationBest(idx) \in Candidate /\ IsBestOf(InvocationBest(idx), idx)
<1> DEFINE score(x) == FixedPoints(params.seed, x)
           V == Visited(idx)
           best == {x \in V :
                      /\ score(x) > 0
                      /\ \A y \in V : score(y) <= score(x)
                                      /\ (y < x => score(y) < score(x))}
<1>1. V \in SUBSET Nat /\ \A x \in V : score(x) \in 0 .. 25
  BY DEF Visited, Dispatched, End
<1>2. InvocationBest(idx) =
        IF best = {}
        THEN [best_c |-> 0, best_i |-> idx, best_arr |-> Sorted]
        ELSE LET x == CHOOSE x \in best : TRUE
             IN  [best_c |-> score(x), best_i |-> x,
                  best_arr |-> <<params.seed, x>>]
  BY DEF InvocationBest
<1> HIDE DEF V
<1>3. CASE best = {}
  <2>1. \A x \in V : score(x) <= 0
    <3> SUFFICES ASSUME NEW z \in V, score(z) > 0 PROVE FALSE
      BY <1>1
    <3> DEFINE T == {score(x) : x \in V}
    <3>1. T \in SUBSET (0 .. 25) /\ T # {}
      BY <1>1
    <3>2. PICK m \in T : \A k \in T : k <= m
      BY <3>1, GreatestOf
    <3> DEFINE U == {x \in V : score(x) = m}
    <3>3. U \in SUBSET Nat /\ U # {}
      BY <1>1
    <3>4. PICK x \in U : \A y \in U : x <= y
      BY <3>3, LeastOf
    <3>5. ASSUME NEW y \in V
          PROVE  score(y) <= score(x) /\ (y < x => score(y) < score(x))
      <4>1. score(y) <= m /\ score(x) = m /\ score(y) \in 0 .. 25
            /\ m \in 0 .. 25 /\ y \in Nat /\ x \in Nat
        BY <1>1, <3>1, <3>2, <3>4
      <4>2. score(y) = m => x <= y
        BY <3>4
      <4> QED
        BY <4>1, <4>2
    <3>6. score(x) > 0
      BY <1>1, <3>5
    <3>7. x \in best
      BY <3>5, <3>6
    <3> QED
      BY <1>3, <3>7
  <2>2. IsBestOf([best_c |-> 0, best_i |-> idx, best_arr |-> Sorted], idx)
    BY <2>1 DEF IsBestOf, V
  <2> QED
    BY <1>2, <1>3, <2>2 DEF Candidate
<1>4. CASE best # {}
  <2>1. PICK x \in best : InvocationBest(idx) =
          [best_c |-> score(x), best_i |-> x, best_arr |-> <<params.seed, x>>]
    BY <1>2, <1>4
  <2>2. x \in V /\ x \in Nat /\ score(x) \in 0 .. 25 /\ score(x) > 0
    BY <1>1
  <2>3. \A y \in V : score(y) <= score(x)
    OBVIOUS
  <2>4. IsBestOf(InvocationBest(idx), idx)
    BY <2>1, <2>2, <2>3 DEF IsBestOf, V
  <2> QED
    BY <2>1, <2>2, <2>4 DEF Candidate, Dispatched
<1> QED
  BY <1>3, <1>4

(* Invocations that stride miss no index.                                  *)
LEMMA Covered ==
  ASSUME NEW n \in Nat \ {0}, NEW lo \in Nat, NEW x \in Nat, lo <= x
  PROVE  LET r == (x - lo) % (GroupSize * n)
             g == r \div GroupSize
             idx == lo + g * GroupSize + (r % GroupSize)
         IN  /\ g \in 0 .. n - 1 /\ r % GroupSize \in Invocation
             /\ idx \in Nat /\ idx <= x /\ (x - idx) % (GroupSize * n) = 0
<1> DEFINE s == GroupSize * n
           r == (x - lo) % s
           q == (x - lo) \div s
           g == r \div GroupSize
           t == r % GroupSize
<1>1. GroupSize \in Nat \ {0} /\ s \in Nat \ {0}
  BY VulkanAssumption
<1>2. s = n * GroupSize
  BY <1>1
<1> HIDE DEF s
<1>3. q \in Nat /\ r \in 0 .. s - 1 /\ x - lo = q * s + r
  BY <1>1
<1> HIDE DEF q, r
<1>4. g \in Nat /\ t \in 0 .. GroupSize - 1 /\ r = g * GroupSize + t
  BY <1>1, <1>3
<1> HIDE DEF g, t
<1>5. g < n
  <2> SUFFICES ASSUME g >= n PROVE FALSE
    BY <1>4
  <2>1. g * GroupSize >= n * GroupSize /\ g * GroupSize \in Nat
    BY <1>1, <1>4
  <2> QED
    BY <1>2, <1>3, <1>4, <2>1
<1>6. lo + g * GroupSize + t = lo + r /\ x - (lo + r) = q * s
  BY <1>1, <1>3, <1>4
<1>7. q * s \in Nat /\ (q * s) % s = 0
  BY <1>1, <1>3
<1>8. lo + r \in Nat /\ lo + r <= x
  BY <1>3, <1>6, <1>7
<1>9. (x - (lo + r)) % s = 0
  BY <1>6, <1>7
<1>10. /\ g \in 0 .. n - 1 /\ t \in Invocation
       /\ lo + g * GroupSize + t \in Nat /\ lo + g * GroupSize + t <= x
       /\ (x - (lo + g * GroupSize + t)) % s = 0
  BY <1>4, <1>5, <1>6, <1>8, <1>9 DEF Invocation
<1> QED
  BY <1>10 DEF s, r, g, t

-----------------------------------------------------------------------------
(* The inductive invariant, for one thread.                                *)

A == args[0]
W == Workgroups(args[0])
In(places) == pc[0] \in places

Written == {"begin", "record", "submit", "wait", "map results", "read"}
Sized == Written \cup {"map params", "write params"}
Places == Sized \cup {"idle", "init", "create", "size", "grow"}
Entered == {"max", "claim", "write", "done"}

Types ==
  /\ TypeOK
  /\ pc \in [Workers -> Places]
  /\ args \in [Workers -> Windows \cup {NoWindow}]
  /\ DOMAIN result = Workers
  /\ ipc \in [Group -> [Invocation -> {"off", "scan"} \cup Entered]]

(* The device, and a call that goes on.                                    *)
SetUp ==
  /\ device = IF vulkan_initialized THEN 1 ELSE 0
  /\ In({"create"}) => ~vulkan_initialized
  /\ In(Sized \cup {"size", "grow"}) => vulkan_initialized
  /\ ~In({"idle"}) => A \in Windows /\ A.lo < A.hi

(* The buffers are those of the device and of the descriptor set, and      *)
(* large enough, except while they are exchanged.                          *)
Buffered ==
  /\ ~In({"grow"}) =>
       IF buffers.made = 0
       THEN buffers = NoBuffers /\ current_max_workgroups = 0
       ELSE /\ vulkan_initialized /\ buffers.device = device
            /\ descriptorSet = buffers.made
  /\ In({"grow"}) => NeedsGrowth(0)
  /\ In(Sized) => W <= current_max_workgroups
  /\ In({"read"}) => W > 0
  /\ mapped = IF In({"write params"}) THEN {"params"}
              ELSE IF In({"read"}) THEN {"results"} ELSE {}
  /\ In(Written) => params = [seed |-> A.seed, base_index |-> A.lo,
                              total_work |-> A.hi - A.lo]

Commanded ==
  /\ In({"record"}) => commandBuffer.state = "recording"
  /\ In({"submit"}) =>
       commandBuffer = [state |-> "executable", groups |-> W,
                        made |-> buffers.made]
  /\ In({"wait"}) =>
       commandBuffer.state = IF NotInUse THEN "invalid" ELSE "pending"
  /\ ~In({"record", "submit", "wait"}) =>
       commandBuffer.state \in {"initial", "invalid"}
  /\ ~NotInUse => In({"wait"}) /\ dispatch = [groups |-> W, by |-> 0]

(* The shared memory of workgroup g, once invocation 0 has cleared it.     *)
Counted(g) == {t \in Invocation : ipc[g][t] \in {"claim", "write", "done"}}
Claimed(g) == {t \in Invocation : ipc[g][t] \in {"write", "done"}}
Score(g, t) == found[g][t].best_c
MaxSoFar(g) ==
  /\ \A t \in Counted(g) : Score(g, t) <= sh_max_c[g]
  /\ sh_max_c[g] = 0 \/ \E t \in Counted(g) : Score(g, t) = sh_max_c[g]
MinSoFar(g) ==
  /\ \A t \in Claimed(g) : Score(g, t) = sh_max_c[g] => sh_best_tid[g] <= t
  /\ \/ sh_best_tid[g] = GroupSize
     \/ /\ sh_best_tid[g] \in Claimed(g)
        /\ Score(g, sh_best_tid[g]) = sh_max_c[g]

Start(g, t) == params.base_index + g * GroupSize + t
InGroup(g) ==
  /\ \A t \in Invocation :
       /\ ipc[g][t] # "off"
       /\ ipc[g][t] # "scan" => IsBestOf(found[g][t], Start(g, t))
       /\ ipc[g][t] \in {"claim", "write", "done"} => AllScanned(g)
       /\ ipc[g][t] \in {"write", "done"} => AllCounted(g)
       /\ ipc[g][t] = "done" =>
            /\ AllClaimed(g)
            /\ t = sh_best_tid[g] => results[g] = found[g][t]
  /\ ipc[g][0] # "scan" => MaxSoFar(g) /\ MinSoFar(g)

Dispatching ==
  \A g \in Group :
    IF NotInUse \/ g >= dispatch.groups
    THEN \A t \in Invocation : ipc[g][t] = "off"
    ELSE InGroup(g)

(* What workgroup g left, after its dispatch.                              *)
GroupOf(x) == ((x - A.lo) % (GroupSize * W)) \div GroupSize
Replays(r) ==
  /\ r.best_i \in Window(0) /\ r.best_c = FixedPoints(A.seed, r.best_i)
  /\ r.best_arr = <<A.seed, r.best_i>>
GroupDone(g) ==
  /\ \A x \in Window(0) :
       GroupOf(x) = g => FixedPoints(A.seed, x) <= results[g].best_c
  /\ results[g].best_c > 0 => Replays(results[g])
  /\ results[g].best_c = 0 /\ g = 0 => results[g].best_i = A.lo

Answered ==
  /\ NotInUse /\ In({"wait", "map results", "read"}) =>
       \A g \in 0 .. W - 1 : GroupDone(g)
  /\ IndexInWindow /\ ScoreReplays /\ BestOfWindow

IInv ==
  /\ Types /\ ValidUsage
  /\ Up => SetUp /\ Buffered /\ Commanded /\ Dispatching /\ Answered

-----------------------------------------------------------------------------
(* The steps of the thread.                                                *)

Solo == num_workers = 1

LEMMA Sizes ==
  \A win \in [seed : Nat, lo : Nat, hi : Nat] : Workgroups(win) \in 0 .. MaxGroups
<1> SUFFICES ASSUME NEW win \in [seed : Nat, lo : Nat, hi : Nat]
             PROVE  Workgroups(win) \in 0 .. MaxGroups
  OBVIOUS
<1>1. GroupsFor(win) \in Int
  BY VulkanAssumption DEF GroupsFor
<1>2. CutOff(win) \in Nat
  BY <1>1, VulkanAssumption DEF CutOff
<1> QED
  BY <1>2, VulkanAssumption DEF Workgroups

LEMMA OneWorker ==
  ASSUME Solo
  PROVE  Workers = {0}
<1>1. 0 .. 0 = {0}
  OBVIOUS
<1>2. num_workers - 1 = 0
  BY DEF Solo
<1> QED
  BY <1>1, <1>2 DEF Workers

LEMMA OneThread ==
  ASSUME Solo, Types
  PROVE  /\ Workers = {0} /\ pc[0] \in Places
         /\ A \in [seed : Nat, lo : Nat, hi : Nat]
         /\ A \in Windows \cup {NoWindow} /\ W \in 0 .. MaxGroups
<1>1. Workers = {0}
  BY OneWorker
<1>2. A \in Windows \cup {NoWindow} /\ pc[0] \in Places
  BY <1>1 DEF Types, A
<1>3. A \in [seed : Nat, lo : Nat, hi : Nat]
  BY <1>2, VulkanAssumption DEF NoWindow
<1> QED
  BY <1>1, <1>2, <1>3, Sizes DEF A, W

(* Nothing is on the device, and nothing gets there.                       *)
LEMMA DeviceAtRest ==
  ASSUME Dispatching, NotInUse, UNCHANGED gpu
  PROVE  Dispatching'
BY DEF Dispatching, NotInUse, gpu

(* In the midst of a call, nothing has been answered.                      *)
LEMMA InTheMidst ==
  ASSUME Solo, pc'[0] \notin {"wait", "map results", "read", "idle"}
  PROVE  Answered'
<1>1. Workers = {0}
  BY OneWorker
<1>2. \A w \in Workers : ~Returned(w)'
  BY <1>1 DEF Returned
<1>3. IndexInWindow' /\ ScoreReplays' /\ BestOfWindow'
  BY <1>2 DEF IndexInWindow, ScoreReplays, BestOfWindow
<1> QED
  BY <1>3 DEF Answered, In

LEMMA CallStep ==
  ASSUME Solo, IInv, NEW w \in Workers, NEW win \in Windows, Call(w, win)
  PROVE  IInv'
<1>1. w = 0 /\ Up /\ Types /\ pc[0] = "idle"
  BY OneThread DEF IInv, Call, At
<1>2. /\ pc' = [pc EXCEPT ![0] = IF win.hi <= win.lo THEN "idle" ELSE "init"]
      /\ args' = [args EXCEPT ![0] = win]
      /\ result' = [result EXCEPT ![0] = EmptyResult(win.lo)]
      /\ UNCHANGED <<process, objects, commandBuffer, memory, gpu>>
  BY <1>1 DEF Call, GoTo
<1>3. /\ Workers = {0} /\ pc'[0] = IF win.hi <= win.lo THEN "idle" ELSE "init"
      /\ args'[0] = win /\ win \in [seed : Nat, lo : Nat, hi : Nat]
  BY <1>1, <1>2, OneThread, VulkanAssumption DEF Types
<1>4. Types'
  BY <1>1, <1>2, <1>3 DEF Types, TypeOK, Places, objects, setup, sizes, memory,
                          contents, gpu, shared
<1>5. NotInUse /\ Up'
  BY <1>1, <1>2 DEF IInv, Commanded, In, Up
<1>6. /\ vulkan_initialized' = vulkan_initialized /\ device' = device
      /\ buffers' = buffers /\ descriptorSet' = descriptorSet
      /\ current_max_workgroups' = current_max_workgroups
      /\ mapped' = mapped /\ dispatch' = dispatch
      /\ commandBuffer' = commandBuffer
  BY <1>2 DEF objects, setup, sizes, memory, gpu
<1>7. SetUp'
  <2>1. device' = IF vulkan_initialized' THEN 1 ELSE 0
    BY <1>1, <1>6 DEF IInv, SetUp
  <2>2. pc'[0] # "idle" => args'[0].lo < args'[0].hi
    BY <1>3
  <2> QED
    BY <1>3, <2>1, <2>2 DEF SetUp, In, A, Sized, Written
<1>8. Buffered' /\ Commanded'
  <2>1. /\ IF buffers.made = 0
           THEN buffers = NoBuffers /\ current_max_workgroups = 0
           ELSE /\ vulkan_initialized /\ buffers.device = device
                /\ descriptorSet = buffers.made
        /\ mapped = {}
    BY <1>1 DEF IInv, Buffered, In
  <2>2. commandBuffer.state \in {"initial", "invalid"}
    BY <1>1 DEF IInv, Commanded, In
  <2>3. Buffered'
    BY <1>3, <1>6, <2>1 DEF Buffered, In, Sized, Written
  <2>4. Commanded'
    BY <1>3, <1>5, <1>6, <2>2 DEF Commanded, In, NotInUse
  <2> QED
    BY <2>3, <2>4
<1>9. Dispatching'
  BY <1>1, <1>2, <1>5, DeviceAtRest DEF IInv
<1>10. Answered'
  <2>1. CASE win.hi <= win.lo
    <3>1. ~Launched(0)'
      BY <1>3, <2>1 DEF Launched
    <3> QED
      BY <1>3, <2>1, <3>1 DEF Answered, In, Returned, IndexInWindow,
                              ScoreReplays, BestOfWindow
  <2>2. CASE ~(win.hi <= win.lo)
    BY <1>3, <2>2, InTheMidst
  <2> QED
    BY <2>1, <2>2
<1>11. ValidUsage'
  BY <1>5 DEF ValidUsage, Up
<1> QED
  BY <1>4, <1>7, <1>8, <1>9, <1>10, <1>11 DEF IInv

(* A step of the thread that goes on to a place in the midst of its call.  *)
LEMMA GoesOn ==
  ASSUME Solo, IInv, Up, NotInUse, NEW place \in Places,
         place \notin {"wait", "map results", "read", "idle"},
         pc' = [pc EXCEPT ![0] = place],
         UNCHANGED <<process, gpu, args, result>>,
         TypeOK',
         /\ device' = IF vulkan_initialized' THEN 1 ELSE 0
         /\ place = "create" => ~vulkan_initialized'
         /\ place \in Sized \cup {"size", "grow"} => vulkan_initialized',
         pc[0] # "idle",
         pc'[0] = place => Buffered' /\ Commanded'
  PROVE  IInv'
<1>1. Types /\ Workers = {0}
  BY OneThread DEF IInv
<1>2. pc'[0] = place /\ pc' \in [Workers -> Places] /\ Up'
  BY <1>1 DEF Types, Up
<1>3. Types'
  BY <1>1, <1>2 DEF Types, gpu
<1>4. SetUp'
  BY <1>2 DEF IInv, SetUp, In, A
<1>5. Dispatching'
  BY DeviceAtRest DEF IInv
<1>6. Answered'
  BY <1>2, InTheMidst
<1>7. ValidUsage'
  BY <1>2 DEF ValidUsage, Up
<1> QED
  BY <1>2, <1>3, <1>4, <1>5, <1>6, <1>7 DEF IInv

(* What holds of the objects while nothing is on the device.               *)
LEMMA Quiet ==
  ASSUME Solo, IInv, Up, pc[0] # "wait"
  PROVE  /\ Types /\ TypeOK /\ NotInUse
         /\ A \in [seed : Nat, lo : Nat, hi : Nat]
         /\ W \in Nat /\ W <= MaxGroups
         /\ device = IF vulkan_initialized THEN 1 ELSE 0
         /\ pc[0] # "idle" => A.lo < A.hi
         /\ pc[0] # "grow" =>
              IF buffers.made = 0
              THEN buffers = NoBuffers /\ current_max_workgroups = 0
              ELSE /\ vulkan_initialized /\ buffers.device = device
                   /\ descriptorSet = buffers.made
         /\ pc[0] \notin {"write params", "read"} => mapped = {}
         /\ pc[0] \notin {"record", "submit"} =>
              commandBuffer.state \in {"initial", "invalid"}
<1>1. Types /\ TypeOK /\ NotInUse
  BY DEF IInv, Types, Commanded, In
<1>2. /\ A \in [seed : Nat, lo : Nat, hi : Nat]
      /\ W \in Nat /\ W <= MaxGroups
  BY <1>1, OneThread, VulkanAssumption
<1>3. /\ device = IF vulkan_initialized THEN 1 ELSE 0
      /\ pc[0] # "idle" => A.lo < A.hi
  BY DEF IInv, SetUp, In
<1>4. /\ pc[0] # "grow" =>
           IF buffers.made = 0
           THEN buffers = NoBuffers /\ current_max_workgroups = 0
           ELSE /\ vulkan_initialized /\ buffers.device = device
                /\ descriptorSet = buffers.made
      /\ pc[0] \notin {"write params", "read"} => mapped = {}
  BY DEF IInv, Buffered, In
<1>5. pc[0] \notin {"record", "submit"} =>
        commandBuffer.state \in {"initial", "invalid"}
  BY DEF IInv, Commanded, In
<1> QED
  BY <1>1, <1>2, <1>3, <1>4, <1>5

LEMMA LookInitializedStep ==
  ASSUME Solo, IInv, LookInitialized(0)
  PROVE  IInv'
<1> DEFINE place == IF vulkan_initialized THEN "size" ELSE "create"
<1>1. /\ Up /\ pc[0] = "init" /\ pc' = [pc EXCEPT ![0] = place]
      /\ UNCHANGED <<process, objects, commandBuffer, memory, gpu, calls>>
  BY DEF LookInitialized, At, GoTo
<1>2. /\ vulkan_initialized' = vulkan_initialized /\ device' = device
      /\ buffers' = buffers /\ descriptorSet' = descriptorSet
      /\ current_max_workgroups' = current_max_workgroups
      /\ mapped' = mapped /\ dispatch' = dispatch
      /\ args' = args /\ result' = result /\ UNCHANGED gpu
  BY <1>1 DEF objects, setup, sizes, memory, gpu, calls
<1>3. TypeOK'
  BY <1>1, <1>2, Quiet DEF TypeOK, memory, contents, gpu, shared
<1>4. pc'[0] = place => Buffered'
  <2>1. place \in {"size", "create"}
    OBVIOUS
  <2> QED
    BY <1>1, <1>2, <2>1, Quiet DEF Buffered, In, Sized, Written
<1>5. pc'[0] = place => Commanded'
  BY <1>1, <1>2, Quiet DEF Commanded, In, NotInUse
<1>6. /\ device' = IF vulkan_initialized' THEN 1 ELSE 0
      /\ place = "create" => ~vulkan_initialized'
      /\ place \in Sized \cup {"size", "grow"} => vulkan_initialized'
  BY <1>1, <1>2, Quiet DEF Sized, Written
<1>7. place \in Places /\ place \notin {"wait", "map results", "read", "idle"}
  BY DEF Places
<1> QED
  BY <1>1, <1>2, <1>3, <1>4, <1>5, <1>6, <1>7, Quiet, GoesOn

LEMMA InitVulkanStep ==
  ASSUME Solo, IInv, InitVulkan(0)
  PROVE  IInv'
<1>1. /\ Up /\ pc[0] = "create" /\ pc' = [pc EXCEPT ![0] = "size"]
      /\ device' = device + 1 /\ commandBuffer' = FreshCommands
      /\ descriptorSet' = 0 /\ vulkan_initialized' = TRUE
      /\ UNCHANGED <<process, buffers, current_max_workgroups, memory, gpu,
                     calls>>
  BY DEF InitVulkan, At, GoTo
<1>2. /\ mapped' = mapped /\ dispatch' = dispatch
      /\ args' = args /\ result' = result
  BY <1>1 DEF memory, gpu, calls
<1>3. device' = 1 /\ buffers = NoBuffers /\ current_max_workgroups = 0
  <2>1. ~vulkan_initialized
    BY <1>1 DEF IInv, SetUp, In
  <2> QED
    BY <1>1, <2>1, Quiet
<1>4. TypeOK'
  BY <1>1, <1>2, Quiet, VulkanAssumption
     DEF TypeOK, memory, contents, gpu, shared, FreshCommands
<1>5. pc'[0] = "size" => Buffered'
  BY <1>1, <1>2, <1>3, Quiet DEF Buffered, In, Sized, Written, NoBuffers
<1>6. pc'[0] = "size" => Commanded'
  BY <1>1, <1>2, Quiet DEF Commanded, In, NotInUse, FreshCommands
<1> QED
  BY <1>1, <1>2, <1>3, <1>4, <1>5, <1>6, Quiet, GoesOn DEF Places

(* When the buffers are exchanged, nothing works on them.                  *)
LEMMA DestroyBuffersStep ==
  ASSUME Solo, IInv, DestroyBuffers(0)
  PROVE  IInv'
<1>1. /\ Up /\ pc[0] = "size"
      /\ UNCHANGED <<process, setup, descriptorSet, current_max_workgroups,
                     commandBuffer, contents, gpu, calls>>
  BY DEF DestroyBuffers, At
<1>2. /\ vulkan_initialized' = vulkan_initialized /\ device' = device
      /\ args' = args /\ result' = result /\ dispatch' = dispatch
  BY <1>1 DEF setup, calls, gpu
<1>3. vulkan_initialized /\ device = 1
  BY <1>1, Quiet DEF IInv, SetUp, In
<1>4. CASE NeedsGrowth(0)
  <2>1. /\ buffers' = [buffers EXCEPT !.device = 0] /\ mapped' = {}
        /\ pc' = [pc EXCEPT ![0] = "grow"]
    BY <1>4 DEF DestroyBuffers, GoTo
  <2>2. TypeOK'
    BY <1>1, <1>2, <2>1, Quiet DEF TypeOK, contents, gpu, shared
  <2>3. pc'[0] = "grow" => Buffered'
    BY <1>1, <1>2, <1>4, <2>1 DEF Buffered, In, Sized, Written, NeedsGrowth
  <2>4. pc'[0] = "grow" => Commanded'
    BY <1>1, <1>2, Quiet DEF Commanded, In, NotInUse
  <2> QED
    BY <1>1, <1>2, <1>3, <2>1, <2>2, <2>3, <2>4, Quiet, GoesOn DEF Places
<1>5. CASE ~NeedsGrowth(0)
  <2>1. /\ buffers' = buffers /\ mapped' = mapped
        /\ pc' = [pc EXCEPT ![0] = "map params"]
    BY <1>5 DEF DestroyBuffers, GoTo
  <2>2. TypeOK'
    BY <1>1, <1>2, <2>1, Quiet DEF TypeOK, contents, gpu, shared
  <2>3. W' <= current_max_workgroups'
    BY <1>1, <1>2, <1>5, Quiet DEF W, NeedsGrowth, TypeOK
  <2>4. pc'[0] = "map params" => Buffered'
    BY <1>1, <1>2, <2>1, <2>3, Quiet DEF Buffered, In, Sized, Written
  <2>5. pc'[0] = "map params" => Commanded'
    BY <1>1, <1>2, Quiet DEF Commanded, In, NotInUse
  <2>6. "map params" \in Places
    BY DEF Places, Sized
  <2> QED
    BY <1>1, <1>2, <1>3, <2>1, <2>2, <2>4, <2>5, <2>6, Quiet, GoesOn
<1> QED
  BY <1>4, <1>5

LEMMA CreateBuffersStep ==
  ASSUME Solo, IInv, CreateBuffers(0)
  PROVE  IInv'
<1>1. /\ Up /\ pc[0] = "grow" /\ pc' = [pc EXCEPT ![0] = "map params"]
      /\ params' = NoParams /\ results' = Fresh(Unwritten)
      /\ UNCHANGED <<process, setup, commandBuffer, mapped, gpu, calls>>
  BY DEF CreateBuffers, At, GoTo
<1>2. /\ buffers' = [made |-> buffers.made + 1, device |-> device]
      /\ descriptorSet' = buffers.made + 1
      /\ current_max_workgroups' = W
  BY DEF CreateBuffers, W
<1>3. /\ vulkan_initialized' = vulkan_initialized /\ device' = device
      /\ args' = args /\ result' = result /\ dispatch' = dispatch
      /\ process' = process /\ mapped' = mapped
      /\ commandBuffer' = commandBuffer
  BY <1>1 DEF setup, calls, gpu
<1>4. vulkan_initialized /\ device = 1
  BY <1>1, Quiet DEF IInv, SetUp, In
<1>5. /\ TypeOK /\ dispatch = NoDispatch /\ buffers.made \in Nat
      /\ W \in Nat /\ W <= MaxGroups /\ W' = W /\ mapped = {}
  <2>1. TypeOK /\ NotInUse /\ W \in Nat /\ W <= MaxGroups /\ mapped = {}
    BY <1>1, Quiet
  <2>2. W' = W
    BY <1>3 DEF W
  <2> QED
    BY <2>1, <2>2 DEF TypeOK, NotInUse
<1>6. TypeOK'
  <2>1. Fresh(Unwritten) \in [Group -> Candidate]
    BY DEF Fresh, Unwritten, Candidate
  <2>2. dispatch' \in [groups : 0 .. current_max_workgroups',
                       by : Workers \cup {-1}]
    BY <1>3, <1>2, <1>5 DEF NoDispatch
  <2>3. current_max_workgroups' \in 0 .. MaxGroups
    BY <1>2, <1>5, VulkanAssumption
  <2>4. descriptorSet' \in 0 .. buffers'.made
    BY <1>2, <1>5
  <2>5. params' \in [seed : Nat, base_index : Nat, total_work : Nat]
    BY <1>1 DEF NoParams
  <2>6. results' \in [Group -> Candidate]
    BY <1>1, <2>1
  <2>7. /\ found' = found /\ sh_max_c' = sh_max_c
        /\ sh_best_tid' = sh_best_tid
    BY <1>1 DEF gpu, shared
  <2>8. buffers' \in [made : Nat, device : Nat]
    BY <1>4, <1>5, <1>2
  <2> QED
    BY <1>3, <1>5, <2>2, <2>3, <2>4, <2>5, <2>6, <2>7, <2>8 DEF TypeOK
<1>7. pc'[0] = "map params" => Buffered'
  <2>1. W' <= current_max_workgroups'
    BY <1>5, <1>2
  <2>2. buffers'.made # 0 /\ buffers'.device = device'
        /\ descriptorSet' = buffers'.made /\ mapped' = {}
    BY <1>3, <1>5, <1>2
  <2> QED
    BY <1>1, <1>3, <1>4, <2>1, <2>2 DEF Buffered, In, Sized, Written
<1>8. pc'[0] = "map params" => Commanded'
  BY <1>1, <1>3, Quiet DEF Commanded, In, NotInUse
<1>9. "map params" \in Places
  BY DEF Places, Sized
<1> QED
  BY <1>1, <1>3, <1>4, <1>6, <1>7, <1>8, <1>9, Quiet, GoesOn

(* Once the buffers are large enough.                                      *)
LEMMA Ready ==
  ASSUME Solo, IInv, Up, pc[0] \in Sized
  PROVE  /\ vulkan_initialized /\ device = 1
         /\ W <= current_max_workgroups
         /\ pc[0] \in Written =>
              params = [seed |-> A.seed, base_index |-> A.lo,
                        total_work |-> A.hi - A.lo]
         /\ IF buffers.made = 0
            THEN buffers = NoBuffers /\ current_max_workgroups = 0
            ELSE buffers.device = device /\ descriptorSet = buffers.made
<1>1. vulkan_initialized /\ device = 1
  BY DEF IInv, SetUp, In
<1>2. pc[0] # "grow"
  BY DEF Sized, Written
<1> QED
  BY <1>1, <1>2 DEF IInv, Buffered, In

LEMMA MapParamsStep ==
  ASSUME Solo, IInv, MapParams(0)
  PROVE  IInv'
<1>1. /\ Up /\ pc[0] = "map params" /\ pc' = [pc EXCEPT ![0] = "write params"]
      /\ mapped' = mapped \cup {"params"}
      /\ UNCHANGED <<process, objects, commandBuffer, contents, gpu, calls>>
  BY DEF MapParams, At, GoTo
<1>2. /\ vulkan_initialized' = vulkan_initialized /\ device' = device
      /\ buffers' = buffers /\ descriptorSet' = descriptorSet
      /\ current_max_workgroups' = current_max_workgroups
      /\ args' = args /\ result' = result /\ dispatch' = dispatch
  BY <1>1 DEF objects, setup, sizes, gpu, calls
<1>3. "map params" \in Sized /\ "write params" \in Sized \cap Places
  BY DEF Sized, Places
<1>4. TypeOK'
  BY <1>1, <1>2, Quiet DEF TypeOK, contents, gpu, shared
<1>5. pc'[0] = "write params" => Buffered'
  <2>1. W' = W
    BY <1>2 DEF W
  <2>2. W <= current_max_workgroups /\ mapped' = {"params"}
    BY <1>1, <1>3, Quiet, Ready
  <2> QED
    BY <1>1, <1>2, <2>1, <2>2, Quiet DEF Buffered, In, Written
<1>6. pc'[0] = "write params" => Commanded'
  BY <1>1, <1>2, Quiet DEF Commanded, In, NotInUse
<1> QED
  BY <1>1, <1>2, <1>3, <1>4, <1>5, <1>6, Quiet, Ready, GoesOn

LEMMA WriteParamsStep ==
  ASSUME Solo, IInv, WriteParams(0)
  PROVE  IInv'
<1>1. /\ Up /\ pc[0] = "write params" /\ pc' = [pc EXCEPT ![0] = "begin"]
      /\ params' = [seed |-> A.seed, base_index |-> A.lo,
                    total_work |-> A.hi - A.lo]
      /\ mapped' = mapped \ {"params"}
      /\ UNCHANGED <<process, objects, commandBuffer, results, gpu, calls>>
  BY DEF WriteParams, At, GoTo, A
<1>2. /\ vulkan_initialized' = vulkan_initialized /\ device' = device
      /\ buffers' = buffers /\ descriptorSet' = descriptorSet
      /\ current_max_workgroups' = current_max_workgroups
      /\ args' = args /\ result' = result /\ dispatch' = dispatch
  BY <1>1 DEF objects, setup, sizes, gpu, calls
<1>3. "write params" \in Sized /\ "begin" \in Sized \cap Places
  BY DEF Sized, Places, Written
<1>4. mapped' = {}
  <2>1. mapped = {"params"}
    BY <1>1 DEF IInv, Buffered, In
  <2> QED
    BY <1>1, <2>1
<1>5. TypeOK'
  <2>1. A.hi - A.lo \in Nat /\ A.seed \in Nat /\ A.lo \in Nat
    <3>1. A.seed \in Nat /\ A.lo \in Nat /\ A.hi \in Nat
      BY <1>1, Quiet
    <3>2. A.lo < A.hi
      BY <1>1, Quiet
    <3> QED
      BY <3>1, <3>2
  <2>2. params' \in [seed : Nat, base_index : Nat, total_work : Nat]
    BY <1>1, <2>1
  <2> QED
    BY <1>1, <1>2, <1>4, <2>2, Quiet DEF TypeOK, gpu, shared
<1>6. pc'[0] = "begin" => Buffered'
  <2>1. W' = W /\ A' = A
    BY <1>2 DEF W, A
  <2>2. W <= current_max_workgroups
    BY <1>1, <1>3, Ready
  <2>3. params' = [seed |-> A'.seed, base_index |-> A'.lo,
                   total_work |-> A'.hi - A'.lo]
    BY <1>1, <2>1
  <2> QED
    BY <1>1, <1>2, <1>4, <2>1, <2>2, <2>3, Quiet DEF Buffered, In
<1>7. pc'[0] = "begin" => Commanded'
  BY <1>1, <1>2, Quiet DEF Commanded, In, NotInUse
<1> QED
  BY <1>1, <1>2, <1>3, <1>5, <1>6, <1>7, Quiet, Ready, GoesOn

LEMMA BeginCommandsStep ==
  ASSUME Solo, IInv, BeginCommands(0)
  PROVE  IInv'
<1>1. /\ Up /\ pc[0] = "begin" /\ pc' = [pc EXCEPT ![0] = "record"]
      /\ commandBuffer' = [FreshCommands EXCEPT !.state = "recording"]
      /\ UNCHANGED <<process, objects, memory, gpu, calls>>
  BY DEF BeginCommands, At, GoTo
<1>2. /\ vulkan_initialized' = vulkan_initialized /\ device' = device
      /\ buffers' = buffers /\ descriptorSet' = descriptorSet
      /\ current_max_workgroups' = current_max_workgroups
      /\ mapped' = mapped /\ params' = params
      /\ args' = args /\ result' = result /\ dispatch' = dispatch
  BY <1>1 DEF objects, setup, sizes, memory, contents, gpu, calls
<1>3. /\ "begin" \in Sized \cap Written
      /\ "record" \in Sized \cap Places \cap Written
  BY DEF Sized, Places, Written
<1>4. TypeOK'
  BY <1>1, <1>2, Quiet, VulkanAssumption
     DEF TypeOK, memory, contents, gpu, shared, FreshCommands
<1>5. pc'[0] = "record" => Buffered'
  <2>1. W' = W /\ A' = A
    BY <1>2 DEF W, A
  <2>2. W <= current_max_workgroups
    BY <1>1, <1>3, Ready
  <2>3. params' = [seed |-> A'.seed, base_index |-> A'.lo,
                   total_work |-> A'.hi - A'.lo]
    BY <1>1, <1>2, <1>3, <2>1, Ready
  <2> QED
    BY <1>1, <1>2, <2>1, <2>2, <2>3, Quiet DEF Buffered, In
<1>6. pc'[0] = "record" => Commanded'
  BY <1>1, <1>2, Quiet DEF Commanded, In, NotInUse, FreshCommands
<1> QED
  BY <1>1, <1>2, <1>3, <1>4, <1>5, <1>6, Quiet, Ready, GoesOn

LEMMA RecordCommandsStep ==
  ASSUME Solo, IInv, RecordCommands(0)
  PROVE  IInv'
<1>1. /\ Up /\ pc[0] = "record" /\ pc' = [pc EXCEPT ![0] = "submit"]
      /\ UNCHANGED <<process, objects, memory, gpu, calls>>
  BY DEF RecordCommands, At, GoTo
<1>2. /\ vulkan_initialized' = vulkan_initialized /\ device' = device
      /\ buffers' = buffers /\ descriptorSet' = descriptorSet
      /\ current_max_workgroups' = current_max_workgroups
      /\ mapped' = mapped /\ params' = params
      /\ args' = args /\ result' = result /\ dispatch' = dispatch
  BY <1>1 DEF objects, setup, sizes, memory, contents, gpu, calls
<1>3. commandBuffer' = [state |-> "executable", groups |-> W,
                        made |-> buffers.made]
  BY DEF RecordCommands, MayRecord, W
<1>4. /\ "record" \in Sized \cap Written
      /\ "submit" \in Sized \cap Places \cap Written
  BY DEF Sized, Places, Written
<1>5. TypeOK'
  <2>1. W \in 0 .. MaxGroups /\ buffers.made \in Nat
    BY <1>1, Quiet, VulkanAssumption DEF TypeOK
  <2>2. commandBuffer' \in
          [state : {"initial", "recording", "executable", "pending", "invalid"},
           groups : 0 .. MaxGroups, made : Nat]
    BY <1>3, <2>1
  <2> QED
    BY <1>1, <1>2, <2>2, Quiet DEF TypeOK, memory, contents, gpu, shared
<1>6. W' = W /\ A' = A
  BY <1>2 DEF W, A
<1>7. pc'[0] = "submit" => Buffered'
  <2>1. W <= current_max_workgroups
    BY <1>1, <1>4, Ready
  <2>2. params' = [seed |-> A'.seed, base_index |-> A'.lo,
                   total_work |-> A'.hi - A'.lo]
    BY <1>1, <1>2, <1>4, <1>6, Ready
  <2> QED
    BY <1>1, <1>2, <1>6, <2>1, <2>2, Quiet DEF Buffered, In
<1>8. pc'[0] = "submit" => Commanded'
  BY <1>1, <1>2, <1>3, <1>6, Quiet DEF Commanded, In, NotInUse
<1> QED
  BY <1>1, <1>2, <1>4, <1>5, <1>7, <1>8, Quiet, Ready, GoesOn

(* The thread waits: the device has its workgroups, and W of them scan.    *)
LEMMA SubmitStep ==
  ASSUME Solo, IInv, Submit(0)
  PROVE  IInv'
<1>1. /\ Up /\ pc[0] = "submit" /\ pc' = [pc EXCEPT ![0] = "wait"]
      /\ UNCHANGED <<process, objects, memory, found, shared, calls>>
  BY DEF Submit, At, GoTo
<1>2. /\ vulkan_initialized' = vulkan_initialized /\ device' = device
      /\ buffers' = buffers /\ descriptorSet' = descriptorSet
      /\ current_max_workgroups' = current_max_workgroups
      /\ mapped' = mapped /\ params' = params /\ results' = results
      /\ process' = process /\ args' = args /\ result' = result
      /\ found' = found /\ sh_max_c' = sh_max_c /\ sh_best_tid' = sh_best_tid
  BY <1>1 DEF objects, setup, sizes, memory, contents, shared, calls
<1>3. commandBuffer = [state |-> "executable", groups |-> W,
                       made |-> buffers.made]
  BY <1>1 DEF IInv, Commanded, In
<1>4. /\ commandBuffer' = [commandBuffer EXCEPT !.state = "pending"]
      /\ dispatch' = [groups |-> W, by |-> 0]
      /\ ipc' = [g \in Group |-> [t \in Invocation |->
                                    IF g < W THEN "scan" ELSE "off"]]
  BY <1>3 DEF Submit
<1>5. /\ "submit" \in Sized \cap Written
      /\ "wait" \in Sized \cap Places \cap Written
  BY DEF Sized, Places, Written
<1>6. /\ Types /\ TypeOK /\ Workers = {0} /\ W \in Nat /\ Up'
      /\ W <= current_max_workgroups /\ W' = W /\ A' = A
      /\ pc'[0] = "wait" /\ pc' \in [Workers -> Places]
  <2>1. Types /\ TypeOK /\ Workers = {0} /\ W \in Nat
        /\ W <= current_max_workgroups
    BY <1>1, <1>5, Quiet, Ready, OneThread
  <2>2. W' = W /\ A' = A /\ Up'
    BY <1>1, <1>2 DEF W, A, Up
  <2>3. pc'[0] = "wait" /\ pc' \in [Workers -> Places]
    BY <1>1, <1>5, <2>1 DEF Types
  <2> QED
    BY <2>1, <2>2, <2>3
<1>7. Types'
  <2>1. ipc' \in [Group -> [Invocation -> {"off", "scan"} \cup Entered]]
    BY <1>4
  <2>2. dispatch' \in [groups : 0 .. current_max_workgroups',
                       by : Workers \cup {-1}]
    <3>1. W \in 0 .. current_max_workgroups'
      BY <1>2, <1>6, VulkanAssumption DEF TypeOK
    <3> QED
      BY <1>4, <1>6, <3>1
  <2>3. commandBuffer' \in
          [state : {"initial", "recording", "executable", "pending", "invalid"},
           groups : 0 .. MaxGroups, made : Nat]
    BY <1>4, <1>6 DEF TypeOK
  <2>4. TypeOK'
    BY <1>2, <1>6, <2>2, <2>3 DEF TypeOK
  <2> QED
    BY <1>2, <1>6, <2>1, <2>4 DEF Types
<1>8. SetUp'
  BY <1>1, <1>2, <1>5, <1>6, Ready DEF IInv, SetUp, In
<1>9. Buffered'
  <2>1. params' = [seed |-> A'.seed, base_index |-> A'.lo,
                   total_work |-> A'.hi - A'.lo]
    BY <1>1, <1>2, <1>5, <1>6, Ready
  <2>2. mapped = {} /\ IF buffers.made = 0
            THEN buffers = NoBuffers /\ current_max_workgroups = 0
            ELSE /\ vulkan_initialized /\ buffers.device = device
                 /\ descriptorSet = buffers.made
    BY <1>1, Quiet
  <2> QED
    BY <1>2, <1>6, <2>1, <2>2 DEF Buffered, In
<1>10. ~NotInUse'
  BY <1>4 DEF NotInUse, NoDispatch
<1>11. Commanded'
  <2>1. commandBuffer'.state = "pending"
    BY <1>3, <1>4
  <2> QED
    BY <1>4, <1>6, <1>10, <2>1 DEF Commanded, In
<1>12. Dispatching'
  <2> SUFFICES ASSUME NEW g \in Group
               PROVE  IF (NotInUse \/ g >= dispatch.groups)'
                      THEN \A t \in Invocation : ipc'[g][t] = "off"
                      ELSE InGroup(g)'
    BY DEF Dispatching
  <2>1. g \in Nat /\ dispatch'.groups = W
    BY <1>4, VulkanAssumption DEF Group
  <2>2. CASE g >= W
    BY <1>4, <1>6, <2>1, <2>2
  <2>3. CASE g < W
    <3>1. 0 \in Invocation /\ \A t \in Invocation : ipc'[g][t] = "scan"
      BY <1>4, <2>3, VulkanAssumption DEF Invocation
    <3>2. InGroup(g)'
      BY <3>1 DEF InGroup
    <3> QED
      BY <1>6, <1>10, <2>1, <2>3, <3>2
  <2> QED
    BY <1>6, <2>1, <2>2, <2>3
<1>13. Answered'
  BY <1>6, <1>10 DEF Answered, IndexInWindow, ScoreReplays, BestOfWindow,
                     Returned
<1>14. ValidUsage'
  BY <1>6 DEF ValidUsage, Up
<1> QED
  BY <1>7, <1>8, <1>9, <1>11, <1>12, <1>13, <1>14 DEF IInv

LEMMA GroupKept ==
  ASSUME args' = args, results' = results, NEW g, GroupDone(g)
  PROVE  GroupDone(g)'
BY DEF GroupDone, GroupOf, Replays, Window, A, W

(* A thread that waits for nothing, and goes on to read what is there.     *)
LEMMA WaitForFenceStep ==
  ASSUME Solo, IInv, WaitForFence(0)
  PROVE  IInv'
<1>1. /\ Up /\ pc[0] = "wait" /\ pc' = [pc EXCEPT ![0] = "map results"]
      /\ UNCHANGED <<process, objects, commandBuffer, memory, gpu, calls>>
  BY DEF WaitForFence, At, GoTo
<1>2. /\ vulkan_initialized' = vulkan_initialized /\ device' = device
      /\ buffers' = buffers /\ descriptorSet' = descriptorSet
      /\ current_max_workgroups' = current_max_workgroups
      /\ commandBuffer' = commandBuffer
      /\ mapped' = mapped /\ params' = params /\ results' = results
      /\ process' = process /\ args' = args /\ result' = result
      /\ dispatch' = dispatch /\ ipc' = ipc /\ UNCHANGED gpu
      /\ found' = found /\ sh_max_c' = sh_max_c /\ sh_best_tid' = sh_best_tid
  BY <1>1 DEF objects, setup, sizes, memory, contents, gpu, shared, calls
<1>3. /\ "wait" \in Sized \cap Written
      /\ "map results" \in Sized \cap Places \cap Written
  BY DEF Sized, Places, Written
<1>4. NotInUse
  <2>1. dispatch.by # 0
    BY DEF WaitForFence, Signaled
  <2>2. Commanded
    BY <1>1 DEF IInv
  <2>3. ~NotInUse => dispatch = [groups |-> W, by |-> 0]
    BY <2>2 DEF Commanded
  <2> QED
    BY <2>1, <2>3
<1>5. Types /\ TypeOK /\ W' = W /\ A' = A /\ Up'
      /\ pc'[0] = "map results" /\ pc' \in [Workers -> Places]
  <2>1. Types /\ TypeOK /\ Workers = {0}
    BY OneThread DEF IInv, Types
  <2>2. W' = W /\ A' = A /\ Up'
    BY <1>1, <1>2 DEF W, A, Up
  <2> QED
    BY <1>1, <1>3, <2>1, <2>2 DEF Types
<1>6. Types'
  BY <1>2, <1>5 DEF Types, TypeOK
<1>7. SetUp'
  BY <1>1, <1>2, <1>3, <1>5, Ready DEF IInv, SetUp, In
<1>8. Buffered'
  <2>1. params' = [seed |-> A'.seed, base_index |-> A'.lo,
                   total_work |-> A'.hi - A'.lo]
    BY <1>1, <1>2, <1>3, <1>5, Ready
  <2>2. mapped = {} /\ IF buffers.made = 0
            THEN buffers = NoBuffers /\ current_max_workgroups = 0
            ELSE /\ vulkan_initialized /\ buffers.device = device
                 /\ descriptorSet = buffers.made
    BY <1>1 DEF IInv, Buffered, In
  <2>3. W <= current_max_workgroups
    BY <1>1, <1>3, Ready
  <2> QED
    BY <1>2, <1>5, <2>1, <2>2, <2>3 DEF Buffered, In
<1>9. Commanded'
  <2>1. commandBuffer.state = "invalid"
    BY <1>1, <1>4 DEF IInv, Commanded, In
  <2> QED
    BY <1>2, <1>4, <1>5, <2>1 DEF Commanded, In, NotInUse
<1>10. Dispatching'
  BY <1>1, <1>2, <1>4, DeviceAtRest DEF IInv
<1>11. Answered'
  <2>1. \A g \in 0 .. W - 1 : GroupDone(g)
    BY <1>1, <1>4 DEF IInv, Answered, In
  <2>2. \A g \in 0 .. W' - 1 : GroupDone(g)'
    BY <1>2, <1>5, <2>1, GroupKept
  <2>3. \A w \in Workers : ~Returned(w)'
    BY <1>5, OneWorker DEF Returned
  <2> QED
    BY <2>2, <2>3 DEF Answered, IndexInWindow, ScoreReplays, BestOfWindow
<1>12. ValidUsage'
  BY <1>5 DEF ValidUsage, Up
<1> QED
  BY <1>6, <1>7, <1>8, <1>9, <1>10, <1>11, <1>12 DEF IInv

LEMMA MapResultsStep ==
  ASSUME Solo, IInv, MapResults(0)
  PROVE  IInv'
<1>1. /\ Up /\ pc[0] = "map results" /\ pc' = [pc EXCEPT ![0] = "read"]
      /\ mapped' = mapped \cup {"results"}
      /\ UNCHANGED <<process, objects, commandBuffer, contents, gpu, calls>>
  BY DEF MapResults, At, GoTo
<1>2. /\ vulkan_initialized' = vulkan_initialized /\ device' = device
      /\ buffers' = buffers /\ descriptorSet' = descriptorSet
      /\ current_max_workgroups' = current_max_workgroups
      /\ commandBuffer' = commandBuffer
      /\ params' = params /\ results' = results
      /\ process' = process /\ args' = args /\ result' = result
      /\ dispatch' = dispatch /\ ipc' = ipc /\ UNCHANGED gpu
      /\ found' = found /\ sh_max_c' = sh_max_c /\ sh_best_tid' = sh_best_tid
  BY <1>1 DEF objects, setup, sizes, contents, gpu, shared, calls
<1>3. /\ "map results" \in Sized \cap Written
      /\ "read" \in Sized \cap Places \cap Written
  BY DEF Sized, Places, Written
<1>4. NotInUse /\ mapped' = {"results"} /\ W > 0
  <2>1. W > 0
    BY DEF MapResults, MayMapResults, W
  <2> QED
    BY <1>1, <2>1, Quiet
<1>5. Types /\ TypeOK /\ W' = W /\ A' = A /\ Up'
      /\ pc'[0] = "read" /\ pc' \in [Workers -> Places]
  <2>1. Types /\ TypeOK /\ Workers = {0}
    BY OneThread DEF IInv, Types
  <2>2. W' = W /\ A' = A /\ Up'
    BY <1>1, <1>2 DEF W, A, Up
  <2> QED
    BY <1>1, <1>3, <2>1, <2>2 DEF Types
<1>6. Types'
  BY <1>2, <1>4, <1>5 DEF Types, TypeOK
<1>7. SetUp'
  BY <1>1, <1>2, <1>3, <1>5, Ready DEF IInv, SetUp, In
<1>8. Buffered'
  <2>1. params' = [seed |-> A'.seed, base_index |-> A'.lo,
                   total_work |-> A'.hi - A'.lo]
    BY <1>1, <1>2, <1>3, <1>5, Ready
  <2>2. IF buffers.made = 0
        THEN buffers = NoBuffers /\ current_max_workgroups = 0
        ELSE /\ vulkan_initialized /\ buffers.device = device
             /\ descriptorSet = buffers.made
    BY <1>1, Quiet
  <2>3. W <= current_max_workgroups
    BY <1>1, <1>3, Ready
  <2> QED
    BY <1>2, <1>4, <1>5, <2>1, <2>2, <2>3 DEF Buffered, In
<1>9. Commanded'
  <2>1. commandBuffer.state \in {"initial", "invalid"}
    BY <1>1, Quiet
  <2> QED
    BY <1>2, <1>4, <1>5, <2>1 DEF Commanded, In, NotInUse
<1>10. Dispatching'
  BY <1>1, <1>2, <1>4, DeviceAtRest DEF IInv
<1>11. Answered'
  <2>1. \A g \in 0 .. W - 1 : GroupDone(g)
    BY <1>1, <1>4 DEF IInv, Answered, In
  <2>2. \A g \in 0 .. W' - 1 : GroupDone(g)'
    BY <1>2, <1>5, <2>1, GroupKept
  <2>3. \A w \in Workers : ~Returned(w)'
    BY <1>5, OneWorker DEF Returned
  <2> QED
    BY <2>2, <2>3 DEF Answered, IndexInWindow, ScoreReplays, BestOfWindow
<1>12. ValidUsage'
  BY <1>5 DEF ValidUsage, Up
<1> QED
  BY <1>6, <1>7, <1>8, <1>9, <1>10, <1>11, <1>12 DEF IInv

(* Every index of the window belongs to a workgroup of the dispatch.       *)
LEMMA EveryIndexHasAGroup ==
  ASSUME Solo, Types, W > 0, NEW x \in Window(0)
  PROVE  GroupOf(x) \in 0 .. W - 1
<1>1. A.lo \in Nat /\ A.hi \in Nat /\ W \in Nat \ {0}
  BY OneThread, VulkanAssumption
<1>2. x \in Nat /\ A.lo <= x
  BY <1>1 DEF Window, A
<1> QED
  BY <1>1, <1>2, Covered DEF GroupOf

LEMMA ResultsAreScored ==
  ASSUME TypeOK, NEW n \in Nat, n <= MaxGroups
  PROVE  \A h \in 0 .. n - 1 : results[h].best_c \in Nat
<1> SUFFICES ASSUME NEW h \in 0 .. n - 1 PROVE results[h].best_c \in Nat
  OBVIOUS
<1>1. h \in Group
  BY VulkanAssumption DEF Group
<1>2. results[h] \in Candidate
  BY <1>1 DEF TypeOK
<1> QED
  BY <1>2 DEF Candidate

LEMMA ReadResultsStep ==
  ASSUME Solo, IInv, ReadResults(0)
  PROVE  IInv'
<1>1. /\ Up /\ pc[0] = "read" /\ pc' = [pc EXCEPT ![0] = "idle"]
      /\ mapped' = mapped \ {"results"}
      /\ UNCHANGED <<process, objects, commandBuffer, contents, gpu, args>>
  BY DEF ReadResults, At, GoTo
<1>2. /\ vulkan_initialized' = vulkan_initialized /\ device' = device
      /\ buffers' = buffers /\ descriptorSet' = descriptorSet
      /\ current_max_workgroups' = current_max_workgroups
      /\ commandBuffer' = commandBuffer
      /\ params' = params /\ results' = results
      /\ process' = process /\ args' = args
      /\ dispatch' = dispatch /\ ipc' = ipc /\ UNCHANGED gpu
      /\ found' = found /\ sh_max_c' = sh_max_c /\ sh_best_tid' = sh_best_tid
  BY <1>1 DEF objects, setup, sizes, contents, gpu, shared
<1>3. /\ Types /\ TypeOK /\ Workers = {0} /\ NotInUse
      /\ A.seed \in Nat /\ A.lo \in Nat /\ A.hi \in Nat /\ A.lo < A.hi
      /\ A \in Windows /\ W \in Nat /\ W <= MaxGroups /\ W > 0
  <2>1. Types /\ TypeOK /\ NotInUse /\ W \in Nat /\ W <= MaxGroups
    BY <1>1, Quiet
  <2>2. A \in [seed : Nat, lo : Nat, hi : Nat] /\ A.lo < A.hi
    BY <1>1, Quiet
  <2>3. A \in Windows
    BY <1>1 DEF IInv, SetUp, In
  <2>4. W > 0
    BY <1>1 DEF IInv, Buffered, In
  <2> QED
    BY <2>1, <2>2, <2>3, <2>4, OneWorker
<1>4. mapped' = {} /\ pc'[0] = "idle" /\ pc' \in [Workers -> Places] /\ Up'
  <2>1. mapped = {"results"}
    BY <1>1 DEF IInv, Buffered, In
  <2> QED
    BY <1>1, <1>2, <1>3, <2>1 DEF Types, Places, Up
<1>5. PICK g : BestGroup(g, W) /\ result'[0] = ResultOf(g)
  <2>1. \A h \in 0 .. W - 1 : results[h].best_c \in Nat
    BY <1>3, ResultsAreScored
  <2>2. W \in Nat \ {0}
    BY <1>3
  <2>3. PICK g : /\ BestGroup(g, W)
                 /\ FoldLeft(Better, EmptyResult(A.lo),
                             [k \in 1 .. W |-> k - 1]) = ResultOf(g)
    BY <2>1, <2>2, FoldFindsBest
  <2>4. result'[0] = FoldLeft(Better, EmptyResult(A.lo),
                              [k \in 1 .. W |-> k - 1])
    BY <1>3 DEF ReadResults, GroupsToRead, A, W, Types
  <2> QED
    BY <2>3, <2>4
<1>6. Types'
  <2>1. DOMAIN result' = Workers
    BY <1>3 DEF ReadResults, Types
  <2>2. TypeOK'
    BY <1>2, <1>3, <1>4 DEF TypeOK
  <2> QED
    BY <1>2, <1>3, <1>4, <2>1, <2>2 DEF Types
<1>7. SetUp'
  BY <1>1, <1>2, <1>4, Quiet DEF SetUp, In, Sized, Written
<1>8. Buffered'
  <2>1. IF buffers.made = 0
        THEN buffers = NoBuffers /\ current_max_workgroups = 0
        ELSE /\ vulkan_initialized /\ buffers.device = device
             /\ descriptorSet = buffers.made
    BY <1>1, Quiet
  <2> QED
    BY <1>2, <1>4, <2>1 DEF Buffered, In, Sized, Written
<1>9. Commanded'
  <2>1. commandBuffer.state \in {"initial", "invalid"}
    BY <1>1, Quiet
  <2> QED
    BY <1>2, <1>3, <1>4, <2>1 DEF Commanded, In, NotInUse
<1>10. Dispatching'
  BY <1>1, <1>2, <1>3, DeviceAtRest DEF IInv
<1>11. \A h \in 0 .. W - 1 : GroupDone(h)
  BY <1>1, <1>3 DEF IInv, Answered, In
<1>12. /\ g \in 0 .. W - 1 /\ results[g].best_c \in Nat
       /\ result'[0].best_correct = results[g].best_c
       /\ result'[0].best_index = results[g].best_i
       /\ result'[0].best_arr = results[g].best_arr
       /\ \A h \in 0 .. W - 1 :
            /\ results[h].best_c \in Nat
            /\ results[h].best_c <= results[g].best_c
       /\ results[g].best_c = 0 => g = 0
  <2>1. \A h \in 0 .. W - 1 : results[h].best_c \in Nat
    BY <1>3, ResultsAreScored
  <2>2. g \in 0 .. W - 1 /\ 0 \in 0 .. W - 1
    BY <1>3, <1>5 DEF BestGroup
  <2>3. results[g].best_c = 0 => g = 0
    <3> SUFFICES ASSUME results[g].best_c = 0, g # 0 PROVE FALSE
      OBVIOUS
    <3>1. 0 < g
      BY <1>3, <2>2
    <3>2. results[0].best_c < results[g].best_c
      BY <1>5, <2>2, <3>1 DEF BestGroup
    <3> QED
      BY <2>1, <2>2, <3>2
  <2> QED
    BY <1>5, <2>1, <2>2, <2>3 DEF BestGroup, ResultOf
<1>13. /\ results[g].best_c > 0 => Replays(results[g])
       /\ results[g].best_c = 0 => results[g].best_i = A.lo
  BY <1>11, <1>12 DEF GroupDone
<1>14. /\ Window(0)' = Window(0) /\ A' = A /\ args'[0].seed = A.seed
       /\ A.lo \in Window(0) /\ \A x \in Window(0) :
            FixedPoints(A.seed, x) \in 0 .. 25
  BY <1>2, <1>3, VulkanAssumption DEF Window, A
<1>15. result'[0].best_index \in Window(0)
  BY <1>12, <1>13, <1>14 DEF Replays
<1>16. result'[0].best_correct > 0 =>
         /\ result'[0].best_correct
              = FixedPoints(A.seed, result'[0].best_index)
         /\ result'[0].best_arr = <<A.seed, result'[0].best_index>>
  BY <1>12, <1>13 DEF Replays
<1>17. \A x \in Window(0) :
         result'[0].best_correct >= FixedPoints(A.seed, x)
  <2> SUFFICES ASSUME NEW x \in Window(0)
               PROVE  result'[0].best_correct >= FixedPoints(A.seed, x)
    OBVIOUS
  <2>1. GroupOf(x) \in 0 .. W - 1
    BY <1>3, EveryIndexHasAGroup
  <2>2. FixedPoints(A.seed, x) <= results[GroupOf(x)].best_c
    BY <1>11, <2>1 DEF GroupDone
  <2>3. /\ results[GroupOf(x)].best_c <= results[g].best_c
        /\ results[GroupOf(x)].best_c \in Nat
    BY <1>12, <2>1
  <2>4. FixedPoints(A.seed, x) \in Nat
    BY <1>14
  <2> QED
    BY <1>12, <2>2, <2>3, <2>4
<1>18. \E x \in Window(0) : result'[0].best_correct = FixedPoints(A.seed, x)
  <2>1. CASE results[g].best_c > 0
    BY <1>12, <1>13, <2>1 DEF Replays
  <2>2. CASE results[g].best_c = 0
    <3>1. FixedPoints(A.seed, A.lo) \in Nat
          /\ result'[0].best_correct >= FixedPoints(A.seed, A.lo)
      BY <1>14, <1>17
    <3>2. result'[0].best_correct = FixedPoints(A.seed, A.lo)
      BY <1>12, <2>2, <3>1
    <3> QED
      BY <1>14, <3>2
  <2> QED
    BY <1>12, <2>1, <2>2
<1>19. Answered'
  <2>1. IndexInWindow'
    BY <1>3, <1>14, <1>15 DEF IndexInWindow
  <2>2. ScoreReplays'
    BY <1>3, <1>14, <1>16 DEF ScoreReplays
  <2>3. BestOfWindow'
    BY <1>3, <1>14, <1>17, <1>18 DEF BestOfWindow
  <2> QED
    BY <1>4, <2>1, <2>2, <2>3 DEF Answered, In
<1>20. ValidUsage'
  BY <1>4 DEF ValidUsage, Up
<1> QED
  BY <1>6, <1>7, <1>8, <1>9, <1>10, <1>19, <1>20 DEF IInv

(* No rule is broken in a call that has something to do.                   *)
LEMMA MisuseStep ==
  ASSUME Solo, IInv, Misuse(0)
  PROVE  IInv'
<1>1. Up
  BY DEF Misuse, At
<1>2. /\ process' = "undefined"
      /\ UNCHANGED <<objects, commandBuffer, memory, gpu, host>>
  BY DEF Misuse
<1>3. Types /\ TypeOK /\ Workers = {0} /\ W \in Nat
      /\ A.lo \in Nat /\ A.hi \in Nat
  <2>1. Types
    BY DEF IInv
  <2> QED
    BY <2>1, OneThread, VulkanAssumption DEF Types
<1>4. ASSUME W > 0, A.lo < A.hi
      PROVE  FALSE
  <2>1. pc[0] \in Sized => buffers.made > 0 /\ vulkan_initialized
                           /\ buffers.device = device
                           /\ descriptorSet = buffers.made
                           /\ W <= current_max_workgroups
    <3> SUFFICES ASSUME pc[0] \in Sized
                 PROVE  /\ buffers.made > 0 /\ vulkan_initialized
                        /\ buffers.device = device
                        /\ descriptorSet = buffers.made
                        /\ W <= current_max_workgroups
      OBVIOUS
    <3>1. W <= current_max_workgroups /\ vulkan_initialized
      BY <1>1, Ready
    <3>2. buffers.made # 0
      BY <1>1, <1>3, <1>4, <3>1, Ready
    <3>3. buffers.device = device /\ descriptorSet = buffers.made
      BY <1>1, <3>2, Ready
    <3>4. buffers.made \in Nat
      BY <1>3 DEF TypeOK
    <3> QED
      BY <3>1, <3>2, <3>3, <3>4
  <2>2. pc[0] # "wait" => NotInUse
    BY <1>1, Quiet
  <2>3. /\ pc[0] \notin {"write params", "read"} => mapped = {}
        /\ pc[0] = "write params" => mapped = {"params"}
        /\ pc[0] = "read" => mapped = {"results"}
    BY <1>1 DEF IInv, Buffered, In
  <2>4. /\ pc[0] = "begin" => commandBuffer.state \in {"initial", "invalid"}
        /\ pc[0] = "record" => commandBuffer.state = "recording"
        /\ pc[0] = "submit" =>
             commandBuffer = [state |-> "executable", groups |-> W,
                              made |-> buffers.made]
    BY <1>1 DEF IInv, Commanded, In
  <2>5. CASE At(0, "size") \/ At(0, "grow")
    BY <2>2, <2>5 DEF Misuse, At
  <2>6. CASE pc[0] \in {"map params", "write params", "map results", "read"}
    BY <1>4, <2>1, <2>3, <2>6 DEF Misuse, At, MayMapParams, MayMapResults,
                                  Usable, W, Sized, Written
  <2>7. CASE pc[0] \in {"begin", "record", "submit"}
    <3>1. pc[0] \in Sized
      BY <2>7 DEF Sized, Written
    <3>2. Usable /\ descriptorSet = buffers.made
          /\ Workgroups(args[0]) <= current_max_workgroups
      BY <2>1, <3>1 DEF Usable, W
    <3>3. CASE pc[0] = "begin"
      BY <2>4, <3>3 DEF Misuse, At, MayBegin
    <3>4. CASE pc[0] = "record"
      BY <2>4, <3>2, <3>4 DEF Misuse, At, MayRecord
    <3>5. CASE pc[0] = "submit"
      <4>1. commandBuffer.state = "executable"
            /\ commandBuffer.made = buffers.made
        BY <2>4, <3>5
      <4> QED
        BY <3>2, <3>5, <4>1 DEF Misuse, At, MaySubmit
    <3> QED
      BY <2>7, <3>3, <3>4, <3>5
  <2> QED
    BY <2>5, <2>6, <2>7 DEF Misuse, At
<1>5. ~Launched(0)
  BY <1>3, <1>4 DEF Launched, A, W
<1>6. ValidUsage'
  <2>1. ~Launched(0)'
    BY <1>2, <1>5 DEF Launched, host, calls
  <2> QED
    BY <1>3, <2>1 DEF ValidUsage
<1>7. Types'
  BY <1>2, <1>3 DEF Types, TypeOK, objects, setup, sizes, memory, contents,
                    gpu, shared, host, calls
<1>8. ~Up'
  BY <1>2 DEF Up
<1> QED
  BY <1>6, <1>7, <1>8 DEF IInv

LEMMA ExitStep ==
  ASSUME IInv, ExitOnFailure(0)
  PROVE  IInv'
<1>1. /\ process' = "exited"
      /\ UNCHANGED <<objects, commandBuffer, memory, gpu, host>>
  BY DEF ExitOnFailure
<1>2. Types'
  BY <1>1 DEF IInv, Types, TypeOK, objects, setup, sizes, memory, contents,
              gpu, shared, host, calls
<1> QED
  BY <1>1, <1>2 DEF IInv, ValidUsage, Up

-----------------------------------------------------------------------------
(* The steps of the device.                                                *)

(* What may be said of a workgroup that did not move.                      *)
LEMMA OtherGroups ==
  ASSUME NEW g, InGroup(g), params' = params, dispatch' = dispatch,
         ipc'[g] = ipc[g], found'[g] = found[g], results'[g] = results[g],
         sh_max_c'[g] = sh_max_c[g], sh_best_tid'[g] = sh_best_tid[g]
  PROVE  InGroup(g)'
<1>1. \A b, idx : IsBestOf(b, idx) => IsBestOf(b, idx)'
  BY DEF IsBestOf, Visited, End
<1> QED
  BY <1>1 DEF InGroup, AllScanned, AllCounted, AllClaimed, Reached, MaxSoFar,
              MinSoFar, Counted, Claimed, Score, Start

(* While an invocation runs, the thread waits for the dispatch of its own  *)
(* window.                                                                 *)
LEMMA Midway ==
  ASSUME Solo, IInv, Up, NEW g \in Group, NEW t \in Invocation,
         ipc[g][t] # "off"
  PROVE  /\ Types /\ TypeOK /\ ~NotInUse /\ pc[0] = "wait"
         /\ dispatch = [groups |-> W, by |-> 0] /\ g < W /\ W \in Nat
         /\ params = [seed |-> A.seed, base_index |-> A.lo,
                      total_work |-> A.hi - A.lo]
         /\ InGroup(g) /\ Dispatched
<1>1. ~NotInUse /\ InGroup(g) /\ g < dispatch.groups
  <2>1. ~(NotInUse \/ g >= dispatch.groups)
    BY DEF IInv, Dispatching
  <2>2. dispatch.groups \in Int /\ g \in Int
    BY VulkanAssumption DEF IInv, Types, TypeOK, Group
  <2> QED
    BY <2>1, <2>2 DEF IInv, Dispatching
<1>2. Types /\ TypeOK /\ pc[0] = "wait" /\ dispatch = [groups |-> W, by |-> 0]
  BY <1>1 DEF IInv, Types, Commanded, In
<1>3. params = [seed |-> A.seed, base_index |-> A.lo,
                total_work |-> A.hi - A.lo]
  BY <1>2, Ready DEF Sized, Written
<1>4. /\ A \in Windows /\ A.lo < A.hi
      /\ A.seed \in Nat /\ A.lo \in Nat /\ A.hi \in Nat
  <2>1. A \in Windows /\ A.lo < A.hi
    BY <1>2 DEF IInv, SetUp, In
  <2> QED
    BY <2>1, VulkanAssumption
<1>5. W \in Nat /\ g < W /\ W > 0
  <2>1. W \in Nat /\ g \in Nat
    BY <1>2, OneThread, VulkanAssumption DEF Group
  <2> QED
    BY <1>1, <1>2, <2>1
<1>6. Dispatched
  <2>1. End = A.hi /\ A.hi - A.lo \in Nat
    BY <1>3, <1>4 DEF End
  <2>2. \A x \in A.lo .. A.hi - 1 : FixedPoints(A.seed, x) \in 0 .. 25
    BY <1>4, VulkanAssumption
  <2> QED
    BY <1>2, <1>3, <1>4, <1>5, <2>1, <2>2 DEF Dispatched
<1> QED
  BY <1>1, <1>2, <1>3, <1>5, <1>6

(* It is enough to look at the workgroup that moves.                       *)
LEMMA GroupMoves ==
  ASSUME Solo, IInv, Up, NEW g \in Group, NEW t \in Invocation,
         ipc[g][t] # "off",
         UNCHANGED <<process, objects, commandBuffer, mapped, params,
                     dispatch, host>>,
         ipc' \in [Group -> [Invocation -> {"off", "scan"} \cup Entered]],
         TypeOK', InGroup(g)',
         \A h \in Group \ {g} :
           /\ ipc'[h] = ipc[h] /\ found'[h] = found[h]
           /\ results'[h] = results[h]
           /\ sh_max_c'[h] = sh_max_c[h] /\ sh_best_tid'[h] = sh_best_tid[h]
  PROVE  IInv'
<1>1. /\ vulkan_initialized' = vulkan_initialized /\ device' = device
      /\ buffers' = buffers /\ descriptorSet' = descriptorSet
      /\ current_max_workgroups' = current_max_workgroups
      /\ commandBuffer' = commandBuffer /\ mapped' = mapped
      /\ params' = params /\ process' = process /\ dispatch' = dispatch
      /\ pc' = pc /\ args' = args /\ result' = result
  BY DEF objects, setup, sizes, host, calls
<1>2. Types /\ ~NotInUse /\ pc[0] = "wait"
  BY Midway
<1>3. Types'
  BY <1>1, <1>2 DEF Types
<1>4. SetUp'
  BY <1>1 DEF IInv, SetUp, In, A
<1>5. Buffered'
  BY <1>1 DEF IInv, Buffered, In, A, W, NeedsGrowth
<1>6. Commanded'
  BY <1>1 DEF IInv, Commanded, In, W, NotInUse
<1>7. ~NotInUse' /\ Up'
  BY <1>1, <1>2 DEF NotInUse, Up
<1>8. Dispatching'
  <2> SUFFICES ASSUME NEW h \in Group
               PROVE  IF (NotInUse \/ h >= dispatch.groups)'
                      THEN \A u \in Invocation : ipc'[h][u] = "off"
                      ELSE InGroup(h)'
    BY DEF Dispatching
  <2>1. g < dispatch.groups /\ g \in Int /\ dispatch.groups \in Int
    BY Midway, VulkanAssumption DEF Group
  <2>2. CASE h = g
    BY <1>1, <1>7, <2>1, <2>2
  <2>3. CASE h # g
    <3>1. CASE h >= dispatch.groups
      BY <1>1, <2>3, <3>1 DEF IInv, Dispatching
    <3>2. CASE ~(h >= dispatch.groups)
      <4>1. InGroup(h)
        BY <1>2, <3>2 DEF IInv, Dispatching
      <4>2. InGroup(h)'
        BY <1>1, <2>3, <4>1, OtherGroups
      <4> QED
        BY <1>1, <1>7, <3>2, <4>2
    <3> QED
      BY <3>1, <3>2
  <2> QED
    BY <2>2, <2>3
<1>9. Answered'
  <2>1. \A w \in Workers : ~Returned(w)'
    BY <1>1, <1>2, OneWorker DEF Returned
  <2> QED
    BY <1>7, <2>1 DEF Answered, IndexInWindow, ScoreReplays, BestOfWindow
<1>10. ValidUsage'
  BY <1>7 DEF ValidUsage, Up
<1> QED
  BY <1>3, <1>4, <1>5, <1>6, <1>8, <1>9, <1>10 DEF IInv

(* One invocation goes to the next place, alone.                           *)
LEMMA InvocationMoves ==
  ASSUME Types, NEW g \in Group, NEW t \in Invocation, NEW place \in Entered,
         InvocationGoTo(g, t, place)
  PROVE  /\ ipc' \in [Group -> [Invocation -> {"off", "scan"} \cup Entered]]
         /\ \A h \in Group \ {g} : ipc'[h] = ipc[h]
         /\ \A u \in Invocation :
              ipc'[g][u] = IF u = t THEN place ELSE ipc[g][u]
<1>1. ipc \in [Group -> [Invocation -> {"off", "scan"} \cup Entered]]
  BY DEF Types
<1>2. ipc' = [ipc EXCEPT ![g] = [ipc[g] EXCEPT ![t] = place]]
  BY DEF InvocationGoTo
<1> QED
  BY <1>1, <1>2

LEMMA SameBest ==
  ASSUME params' = params, dispatch' = dispatch
  PROVE  /\ \A b, idx : IsBestOf(b, idx)' <=> IsBestOf(b, idx)
         /\ \A g, t : Start(g, t)' = Start(g, t)
BY DEF IsBestOf, Visited, End, Start

LEMMA ScanStep ==
  ASSUME Solo, IInv, NEW g \in Group, NEW t \in Invocation, Scan(g, t)
  PROVE  IInv'
<1> DEFINE best == InvocationBest(Start(g, t))
<1>1. /\ Up /\ ipc[g][t] = "scan" /\ InvocationGoTo(g, t, "max")
      /\ found' = [found EXCEPT ![g][t] = best]
      /\ IF t = 0
         THEN /\ sh_max_c' = [sh_max_c EXCEPT ![g] = 0]
              /\ sh_best_tid' = [sh_best_tid EXCEPT ![g] = GroupSize]
         ELSE UNCHANGED <<sh_max_c, sh_best_tid>>
      /\ UNCHANGED <<process, objects, commandBuffer, memory, dispatch, host>>
  BY DEF Scan, InvocationAt, AfterLoop, Start
<1>2. /\ mapped' = mapped /\ params' = params /\ results' = results
      /\ dispatch' = dispatch /\ UNCHANGED <<objects, host>>
  BY <1>1 DEF memory, contents
<1>3. Types /\ TypeOK /\ InGroup(g) /\ Dispatched
  BY <1>1, Midway
<1>4. /\ ipc' \in [Group -> [Invocation -> {"off", "scan"} \cup Entered]]
      /\ \A h \in Group \ {g} : ipc'[h] = ipc[h]
      /\ \A u \in Invocation :
           ipc'[g][u] = IF u = t THEN "max" ELSE ipc[g][u]
  BY <1>1, <1>3, InvocationMoves DEF Entered
<1>5. best \in Candidate /\ IsBestOf(best, Start(g, t))
  <2>1. /\ params.base_index \in Nat /\ g \in Nat /\ t \in Nat
        /\ GroupSize \in Nat
    BY <1>3, VulkanAssumption DEF Dispatched, Group, Invocation
  <2>2. g * GroupSize \in Nat
    BY <2>1
  <2>3. Start(g, t) \in Nat /\ Start(g, t) >= params.base_index
    BY <2>1, <2>2 DEF Start
  <2> QED
    BY <1>3, <2>3, BestFound
<1> HIDE DEF best
<1>6. /\ found' \in [Group -> [Invocation -> Candidate]]
      /\ \A u \in Invocation :
           found'[g][u] = IF u = t THEN best ELSE found[g][u]
      /\ \A h \in Group \ {g} : found'[h] = found[h]
  <2>1. found' = [found EXCEPT ![g] = [found[g] EXCEPT ![t] = best]]
    BY <1>1
  <2>2. found \in [Group -> [Invocation -> Candidate]]
    BY <1>3 DEF TypeOK
  <2> QED
    BY <1>5, <2>1, <2>2
<1>7. /\ sh_max_c' \in [Group -> 0 .. 25]
      /\ sh_best_tid' \in [Group -> 0 .. GroupSize]
      /\ \A h \in Group \ {g} : /\ sh_max_c'[h] = sh_max_c[h]
                                /\ sh_best_tid'[h] = sh_best_tid[h]
      /\ t = 0 => sh_max_c'[g] = 0 /\ sh_best_tid'[g] = GroupSize
      /\ t # 0 => /\ sh_max_c'[g] = sh_max_c[g]
                  /\ sh_best_tid'[g] = sh_best_tid[g]
  <2>1. /\ sh_max_c \in [Group -> 0 .. 25]
        /\ sh_best_tid \in [Group -> 0 .. GroupSize]
        /\ GroupSize \in 0 .. GroupSize
    BY <1>3, VulkanAssumption DEF TypeOK
  <2> QED
    BY <1>1, <2>1
<1>8. TypeOK'
  BY <1>1, <1>2, <1>3, <1>6, <1>7 DEF TypeOK, objects, setup, sizes, host, calls
<1>9. \A u \in Invocation : ipc[g][u] \in {"scan", "max"}
  <2> SUFFICES ASSUME NEW u \in Invocation
               PROVE  ipc[g][u] \in {"scan", "max"}
    OBVIOUS
  <2>1. ~AllScanned(g)
    BY <1>1 DEF AllScanned, Reached
  <2>2. ipc[g][u] \notin {"off", "claim", "write", "done"}
    BY <1>3, <2>1 DEF InGroup
  <2> QED
    BY <1>3, <2>2 DEF Types, Entered
<1>10. \A u \in Invocation : ipc'[g][u] \in {"scan", "max"}
  BY <1>4, <1>9
<1>11. /\ Counted(g) = {} /\ Claimed(g) = {}
       /\ Counted(g)' = {} /\ Claimed(g)' = {}
  BY <1>9, <1>10 DEF Counted, Claimed
<1>12. ipc'[g][0] # "scan" => sh_max_c'[g] = 0 /\ sh_best_tid'[g] = GroupSize
  <2>1. 0 \in Invocation
    BY VulkanAssumption DEF Invocation
  <2>2. CASE t = 0
    BY <1>7, <2>2
  <2>3. CASE t # 0
    <3>1. ipc[g][0] # "scan" => sh_max_c[g] = 0 /\ sh_best_tid[g] = GroupSize
      BY <1>3, <1>11 DEF InGroup, MaxSoFar, MinSoFar
    <3> QED
      BY <1>4, <1>7, <2>1, <2>3, <3>1
  <2> QED
    BY <2>2, <2>3
<1>13. \A u \in Invocation :
         (ipc[g][u] # "scan" => IsBestOf(found[g][u], Start(g, u)))'
  BY <1>2, <1>3, <1>4, <1>5, <1>6, SameBest DEF InGroup
<1>14. InGroup(g)'
  BY <1>10, <1>11, <1>12, <1>13 DEF InGroup, MaxSoFar, MinSoFar
<1> QED
  BY <1>1, <1>2, <1>4, <1>6, <1>7, <1>8, <1>14, GroupMoves

(* The scores, and where an invocation goes, as numbers.                   *)
LEMMA GroupTypes ==
  ASSUME TypeOK, NEW g \in Group
  PROVE  /\ \A t \in Invocation : Score(g, t) \in 0 .. 25 /\ t \in Nat
         /\ sh_max_c[g] \in 0 .. 25 /\ sh_best_tid[g] \in 0 .. GroupSize
         /\ GroupSize \in Nat /\ 0 \in Invocation
<1>1. found \in [Group -> [Invocation -> Candidate]]
  BY DEF TypeOK
<1>2. \A t \in Invocation : found[g][t] \in Candidate
  BY <1>1
<1> QED
  BY <1>2, VulkanAssumption DEF TypeOK, Score, Candidate, Invocation

LEMMA AtomicMaxStep ==
  ASSUME Solo, IInv, NEW g \in Group, NEW t \in Invocation, AtomicMax(g, t)
  PROVE  IInv'
<1>1. /\ Up /\ ipc[g][t] = "max" /\ AllScanned(g)
      /\ InvocationGoTo(g, t, "claim")
      /\ sh_max_c' = [sh_max_c EXCEPT ![g] = Higher(sh_max_c[g], Score(g, t))]
      /\ UNCHANGED <<process, objects, commandBuffer, memory, dispatch, found,
                     sh_best_tid, host>>
  BY DEF AtomicMax, InvocationAt, Score
<1>2. /\ mapped' = mapped /\ params' = params /\ results' = results
      /\ dispatch' = dispatch /\ UNCHANGED <<objects, host>>
      /\ found' = found /\ sh_best_tid' = sh_best_tid
  BY <1>1 DEF memory, contents
<1>3. Types /\ TypeOK /\ InGroup(g)
  BY <1>1, Midway
<1>4. /\ ipc' \in [Group -> [Invocation -> {"off", "scan"} \cup Entered]]
      /\ \A h \in Group \ {g} : ipc'[h] = ipc[h]
      /\ \A u \in Invocation :
           ipc'[g][u] = IF u = t THEN "claim" ELSE ipc[g][u]
  BY <1>1, <1>3, InvocationMoves DEF Entered
<1>5. /\ sh_max_c'[g] \in 0 .. 25 /\ sh_max_c'[g] >= sh_max_c[g]
      /\ sh_max_c'[g] >= Score(g, t)
      /\ sh_max_c'[g] = sh_max_c[g] \/ sh_max_c'[g] = Score(g, t)
      /\ \A h \in Group \ {g} : sh_max_c'[h] = sh_max_c[h]
      /\ sh_max_c' \in [Group -> 0 .. 25]
  <2>1. sh_max_c[g] \in 0 .. 25 /\ Score(g, t) \in 0 .. 25
    BY <1>3, GroupTypes
  <2>2. sh_max_c \in [Group -> 0 .. 25]
    BY <1>3 DEF TypeOK
  <2> QED
    BY <1>1, <2>1, <2>2 DEF Higher
<1>6. TypeOK'
  BY <1>1, <1>2, <1>3, <1>5 DEF TypeOK, objects, setup, sizes, host, calls
<1>7. \A u \in Invocation : ipc[g][u] \in {"max", "claim"}
  <2>1. ~AllCounted(g)
    BY <1>1 DEF AllCounted, Reached
  <2>2. \A u \in Invocation : ipc[g][u] \notin {"write", "done"}
    BY <1>3, <2>1 DEF InGroup
  <2> QED
    BY <1>1, <2>2 DEF AllScanned, Reached
<1>8. \A u \in Invocation : ipc'[g][u] \in {"max", "claim"}
  BY <1>4, <1>7
<1>9. /\ Claimed(g) = {} /\ Claimed(g)' = {}
      /\ Counted(g)' = Counted(g) \cup {t}
      /\ Counted(g) \subseteq Invocation
  BY <1>4, <1>7, <1>8 DEF Counted, Claimed
<1>10. MaxSoFar(g) /\ MinSoFar(g)
  BY <1>3, <1>7, GroupTypes DEF InGroup
<1>11. MaxSoFar(g)'
  <2>1. \A u : Score(g, u)' = Score(g, u)
    BY <1>2 DEF Score
  <2>2. \A u \in Invocation : Score(g, u) \in 0 .. 25
    BY <1>3, GroupTypes
  <2>3. sh_max_c[g] \in 0 .. 25
    BY <1>3, GroupTypes
  <2>4. \A u \in Counted(g)' : Score(g, u)' <= sh_max_c'[g]
    <3> SUFFICES ASSUME NEW u \in Counted(g) \cup {t}
                 PROVE  Score(g, u) <= sh_max_c'[g]
      BY <1>9, <2>1
    <3>1. CASE u = t
      BY <1>5, <2>2, <3>1
    <3>2. CASE u # t
      BY <1>5, <1>9, <1>10, <2>2, <2>3, <3>2 DEF MaxSoFar
    <3> QED
      BY <3>1, <3>2
  <2>5. sh_max_c'[g] = 0 \/ \E u \in Counted(g)' : Score(g, u)' = sh_max_c'[g]
    BY <1>5, <1>9, <1>10, <2>1 DEF MaxSoFar
  <2> QED
    BY <2>4, <2>5 DEF MaxSoFar
<1>12. MinSoFar(g)'
  BY <1>2, <1>9, <1>10 DEF MinSoFar
<1>13. AllScanned(g)'
  BY <1>8 DEF AllScanned, Reached
<1>14. \A u \in Invocation :
         (ipc[g][u] # "scan" => IsBestOf(found[g][u], Start(g, u)))'
  BY <1>2, <1>3, <1>7, SameBest DEF InGroup
<1>15. InGroup(g)'
  BY <1>8, <1>11, <1>12, <1>13, <1>14 DEF InGroup
<1> QED
  BY <1>1, <1>2, <1>4, <1>5, <1>6, <1>15, GroupMoves

LEMMA AtomicMinStep ==
  ASSUME Solo, IInv, NEW g \in Group, NEW t \in Invocation, AtomicMin(g, t)
  PROVE  IInv'
<1>1. /\ Up /\ ipc[g][t] = "claim" /\ AllCounted(g)
      /\ InvocationGoTo(g, t, "write")
      /\ sh_best_tid' = IF Score(g, t) = sh_max_c[g]
                        THEN [sh_best_tid EXCEPT ![g] = Lower(sh_best_tid[g], t)]
                        ELSE sh_best_tid
      /\ UNCHANGED <<process, objects, commandBuffer, memory, dispatch, found,
                     sh_max_c, host>>
  BY DEF AtomicMin, InvocationAt, Score
<1>2. /\ mapped' = mapped /\ params' = params /\ results' = results
      /\ dispatch' = dispatch /\ UNCHANGED <<objects, host>>
      /\ found' = found /\ sh_max_c' = sh_max_c
  BY <1>1 DEF memory, contents
<1>3. Types /\ TypeOK /\ InGroup(g)
  BY <1>1, Midway
<1>4. /\ ipc' \in [Group -> [Invocation -> {"off", "scan"} \cup Entered]]
      /\ \A h \in Group \ {g} : ipc'[h] = ipc[h]
      /\ \A u \in Invocation :
           ipc'[g][u] = IF u = t THEN "write" ELSE ipc[g][u]
  BY <1>1, <1>3, InvocationMoves DEF Entered
<1>5. /\ sh_best_tid[g] \in 0 .. GroupSize /\ t \in Nat /\ t < GroupSize
      /\ sh_best_tid \in [Group -> 0 .. GroupSize] /\ GroupSize \in Nat
  BY <1>3, GroupTypes, VulkanAssumption DEF TypeOK, Invocation
<1>6. /\ sh_best_tid'[g] \in 0 .. GroupSize /\ sh_best_tid'[g] <= sh_best_tid[g]
      /\ Score(g, t) = sh_max_c[g] => sh_best_tid'[g] <= t
      /\ \/ sh_best_tid'[g] = sh_best_tid[g]
         \/ sh_best_tid'[g] = t /\ Score(g, t) = sh_max_c[g]
      /\ \A h \in Group \ {g} : sh_best_tid'[h] = sh_best_tid[h]
      /\ sh_best_tid' \in [Group -> 0 .. GroupSize]
  <2>1. CASE Score(g, t) = sh_max_c[g]
    <3>1. Lower(sh_best_tid[g], t) \in 0 .. GroupSize
      BY <1>5 DEF Lower
    <3> QED
      BY <1>1, <1>5, <2>1, <3>1 DEF Lower
  <2>2. CASE Score(g, t) # sh_max_c[g]
    BY <1>1, <1>5, <2>2
  <2> QED
    BY <2>1, <2>2
<1>7. TypeOK'
  BY <1>1, <1>2, <1>3, <1>6 DEF TypeOK, objects, setup, sizes, host, calls
<1>8. \A u \in Invocation : ipc[g][u] \in {"claim", "write"}
  <2>1. ~AllClaimed(g)
    BY <1>1 DEF AllClaimed, Reached
  <2>2. \A u \in Invocation : ipc[g][u] # "done"
    BY <1>3, <2>1 DEF InGroup
  <2> QED
    BY <1>1, <2>2 DEF AllCounted, Reached
<1>9. \A u \in Invocation : ipc'[g][u] \in {"claim", "write"}
  BY <1>4, <1>8
<1>10. /\ Counted(g)' = Counted(g) /\ Claimed(g)' = Claimed(g) \cup {t}
       /\ Claimed(g) \subseteq Invocation
  BY <1>4, <1>8, <1>9 DEF Counted, Claimed
<1>11. MaxSoFar(g) /\ MinSoFar(g)
  BY <1>3, <1>8, GroupTypes DEF InGroup
<1>12. \A u : Score(g, u)' = Score(g, u)
  BY <1>2 DEF Score
<1>13. MaxSoFar(g)'
  BY <1>2, <1>10, <1>11, <1>12 DEF MaxSoFar
<1>14. MinSoFar(g)'
  <2>1. \A u \in Claimed(g)' :
          Score(g, u)' = sh_max_c'[g] => sh_best_tid'[g] <= u
    <3> SUFFICES ASSUME NEW u \in Claimed(g) \cup {t},
                        Score(g, u) = sh_max_c[g]
                 PROVE  sh_best_tid'[g] <= u
      BY <1>2, <1>10, <1>12
    <3>1. CASE u = t
      BY <1>6, <3>1
    <3>2. CASE u # t
      <4>1. sh_best_tid[g] <= u /\ u \in Nat
        BY <1>3, <1>10, <1>11, <3>2, GroupTypes DEF MinSoFar
      <4> QED
        BY <1>5, <1>6, <4>1
    <3> QED
      BY <3>1, <3>2
  <2>2. \/ sh_best_tid'[g] = GroupSize
        \/ /\ sh_best_tid'[g] \in Claimed(g)'
           /\ Score(g, sh_best_tid'[g]) = sh_max_c'[g]
    BY <1>2, <1>6, <1>10, <1>11 DEF MinSoFar
  <2>3. \/ sh_best_tid'[g] = GroupSize
        \/ /\ sh_best_tid'[g] \in Claimed(g)'
           /\ Score(g, sh_best_tid[g])' = sh_max_c'[g]
    BY <1>2, <2>2 DEF Score
  <2> QED
    BY <2>1, <2>3 DEF MinSoFar
<1>15. AllScanned(g)' /\ AllCounted(g)'
  BY <1>9 DEF AllScanned, AllCounted, Reached
<1>16. \A u \in Invocation :
         (ipc[g][u] # "scan" => IsBestOf(found[g][u], Start(g, u)))'
  BY <1>2, <1>3, <1>8, SameBest DEF InGroup
<1>17. InGroup(g)'
  BY <1>9, <1>13, <1>14, <1>15, <1>16 DEF InGroup
<1> QED
  BY <1>1, <1>2, <1>4, <1>6, <1>7, <1>17, GroupMoves

LEMMA WriteResultStep ==
  ASSUME Solo, IInv, NEW g \in Group, NEW t \in Invocation, WriteResult(g, t)
  PROVE  IInv'
<1>1. /\ Up /\ ipc[g][t] = "write" /\ AllClaimed(g)
      /\ InvocationGoTo(g, t, "done")
      /\ results' = IF t = sh_best_tid[g]
                    THEN [results EXCEPT ![g] = found[g][t]]
                    ELSE results
      /\ UNCHANGED <<process, objects, commandBuffer, mapped, params, dispatch,
                     found, shared, host>>
  BY DEF WriteResult, InvocationAt
<1>2. /\ mapped' = mapped /\ params' = params
      /\ dispatch' = dispatch /\ UNCHANGED <<objects, host>>
      /\ found' = found /\ sh_max_c' = sh_max_c /\ sh_best_tid' = sh_best_tid
  BY <1>1 DEF shared
<1>3. Types /\ TypeOK /\ InGroup(g)
  BY <1>1, Midway
<1>4. /\ ipc' \in [Group -> [Invocation -> {"off", "scan"} \cup Entered]]
      /\ \A h \in Group \ {g} : ipc'[h] = ipc[h]
      /\ \A u \in Invocation :
           ipc'[g][u] = IF u = t THEN "done" ELSE ipc[g][u]
  BY <1>1, <1>3, InvocationMoves DEF Entered
<1>5. /\ results' \in [Group -> Candidate]
      /\ \A h \in Group \ {g} : results'[h] = results[h]
      /\ results'[g] = IF t = sh_best_tid[g] THEN found[g][t] ELSE results[g]
  <2>1. results \in [Group -> Candidate] /\ found[g][t] \in Candidate
    BY <1>3 DEF TypeOK
  <2> QED
    BY <1>1, <2>1
<1>6. TypeOK'
  BY <1>1, <1>2, <1>3, <1>5 DEF TypeOK, objects, setup, sizes, host, calls
<1>7. \A u \in Invocation : ipc[g][u] \in {"write", "done"}
  BY <1>1 DEF AllClaimed, Reached
<1>8. \A u \in Invocation : ipc'[g][u] \in {"write", "done"}
  BY <1>4, <1>7
<1>9. Counted(g)' = Counted(g) /\ Claimed(g)' = Claimed(g)
  BY <1>7, <1>8 DEF Counted, Claimed
<1>10. MaxSoFar(g) /\ MinSoFar(g)
  BY <1>3, <1>7, GroupTypes DEF InGroup
<1>11. MaxSoFar(g)' /\ MinSoFar(g)'
  BY <1>2, <1>9, <1>10 DEF MaxSoFar, MinSoFar, Score
<1>12. AllScanned(g)' /\ AllCounted(g)' /\ AllClaimed(g)'
  BY <1>8 DEF AllScanned, AllCounted, AllClaimed, Reached
<1>13. \A u \in Invocation :
         (ipc[g][u] # "scan" => IsBestOf(found[g][u], Start(g, u)))'
  BY <1>2, <1>3, <1>7, SameBest DEF InGroup
<1>14. \A u \in Invocation :
         ipc'[g][u] = "done" /\ u = sh_best_tid'[g] =>
           results'[g] = found'[g][u]
  <2> SUFFICES ASSUME NEW u \in Invocation, ipc'[g][u] = "done",
                      u = sh_best_tid[g]
               PROVE  results'[g] = found[g][u]
    BY <1>2
  <2>1. CASE u = t
    BY <1>5, <2>1
  <2>2. CASE u # t
    BY <1>3, <1>4, <1>5, <2>2 DEF InGroup
  <2> QED
    BY <2>1, <2>2
<1>15. InGroup(g)'
  BY <1>8, <1>11, <1>12, <1>13, <1>14 DEF InGroup
<1> QED
  BY <1>1, <1>2, <1>4, <1>5, <1>6, <1>15, GroupMoves

(* When all invocations are through, the lowest of the best has written:   *)
(* invocation 0 if nothing scored.                                         *)
LEMMA WriterOfGroup ==
  ASSUME Types, NEW g \in Group, InGroup(g),
         \A t \in Invocation : ipc[g][t] = "done"
  PROVE  LET b == sh_best_tid[g]
         IN  /\ b \in Invocation /\ results[g] = found[g][b]
             /\ Score(g, b) = sh_max_c[g] /\ (sh_max_c[g] = 0 => b = 0)
             /\ \A t \in Invocation : Score(g, t) <= Score(g, b)
<1> DEFINE b == sh_best_tid[g]
<1>1. /\ \A t \in Invocation : Score(g, t) \in 0 .. 25 /\ t \in Nat
      /\ sh_max_c[g] \in 0 .. 25 /\ b \in 0 .. GroupSize
      /\ GroupSize \in Nat \ {0} /\ 0 \in Invocation
      /\ \A t \in Invocation : t < GroupSize
  BY GroupTypes, VulkanAssumption DEF Types, Invocation
<1>2. Counted(g) = Invocation /\ Claimed(g) = Invocation
  BY DEF Counted, Claimed
<1>3. MaxSoFar(g) /\ MinSoFar(g)
  BY <1>1 DEF InGroup
<1>4. sh_max_c[g] = 0 => b = 0
  <2> SUFFICES ASSUME sh_max_c[g] = 0 PROVE b = 0
    OBVIOUS
  <2>1. Score(g, 0) = 0
    BY <1>1, <1>2, <1>3 DEF MaxSoFar
  <2>2. b <= 0
    BY <1>1, <1>2, <1>3, <2>1 DEF MinSoFar
  <2> QED
    BY <1>1, <2>2
<1>5. b # GroupSize
  <2>1. CASE sh_max_c[g] = 0
    BY <1>1, <1>4, <2>1
  <2>2. CASE sh_max_c[g] # 0
    <3>1. PICK t \in Invocation : Score(g, t) = sh_max_c[g]
      BY <1>2, <1>3, <2>2 DEF MaxSoFar
    <3>2. b <= t
      BY <1>2, <1>3, <3>1 DEF MinSoFar
    <3> QED
      BY <1>1, <3>2
  <2> QED
    BY <2>1, <2>2
<1>6. b \in Invocation /\ Score(g, b) = sh_max_c[g]
  BY <1>2, <1>3, <1>5 DEF MinSoFar
<1>7. results[g] = found[g][b]
  BY <1>6 DEF InGroup
<1>8. \A t \in Invocation : Score(g, t) <= Score(g, b)
  BY <1>2, <1>3, <1>6 DEF MaxSoFar
<1> QED
  BY <1>4, <1>6, <1>7, <1>8

LEMMA GroupIsDone ==
  ASSUME Solo, IInv, Up, NEW g \in Group,
         \A t \in Invocation : ipc[g][t] = "done"
  PROVE  GroupDone(g)
<1> DEFINE b == sh_best_tid[g]
<1>1. 0 \in Invocation /\ GroupSize \in Nat \ {0} /\ g \in Nat
  BY VulkanAssumption DEF Invocation, Group
<1>2. /\ Types /\ TypeOK /\ InGroup(g) /\ Dispatched /\ W \in Nat /\ g < W
      /\ dispatch = [groups |-> W, by |-> 0] /\ pc[0] = "wait"
      /\ params = [seed |-> A.seed, base_index |-> A.lo,
                   total_work |-> A.hi - A.lo]
  BY <1>1, Midway
<1>3. A.lo \in Nat /\ A.hi \in Nat /\ A.seed \in Nat /\ A.lo < A.hi
  <2>1. A.lo \in Nat /\ A.hi \in Nat /\ A.seed \in Nat
    BY <1>2, OneThread
  <2> QED
    BY <1>2, <2>1 DEF IInv, SetUp, In
<1>4. /\ b \in Invocation /\ results[g] = found[g][b]
      /\ Score(g, b) = sh_max_c[g] /\ (sh_max_c[g] = 0 => b = 0)
      /\ \A t \in Invocation : Score(g, t) <= Score(g, b)
  BY <1>2, WriterOfGroup
<1> HIDE DEF b
<1>5. \A t \in Invocation : IsBestOf(found[g][t], Start(g, t))
  BY <1>2 DEF InGroup
<1>6. /\ End = A.hi /\ params.base_index = A.lo /\ params.seed = A.seed
      /\ dispatch.groups = W
  BY <1>2, <1>3 DEF End
<1>7. \A t \in Invocation : Start(g, t) \in Nat /\ Start(g, t) >= A.lo
  <2> SUFFICES ASSUME NEW t \in Invocation
               PROVE  Start(g, t) \in Nat /\ Start(g, t) >= A.lo
    OBVIOUS
  <2>1. g * GroupSize \in Nat /\ t \in Nat
    BY <1>1 DEF Invocation
  <2> QED
    BY <1>3, <1>6, <2>1 DEF Start
<1>8. \A x \in Window(0) :
        GroupOf(x) = g => FixedPoints(A.seed, x) <= results[g].best_c
  <2> SUFFICES ASSUME NEW x \in Window(0), GroupOf(x) = g
               PROVE  FixedPoints(A.seed, x) <= results[g].best_c
    OBVIOUS
  <2> DEFINE t == ((x - A.lo) % (GroupSize * W)) % GroupSize
  <2>1. x \in Nat /\ A.lo <= x /\ x <= A.hi - 1 /\ W \in Nat \ {0}
    BY <1>1, <1>2, <1>3 DEF Window, A
  <2>2. LET r == (x - A.lo) % (GroupSize * W)
            h == r \div GroupSize
            idx == A.lo + h * GroupSize + (r % GroupSize)
        IN  /\ h \in 0 .. W - 1 /\ r % GroupSize \in Invocation
            /\ idx \in Nat /\ idx <= x /\ (x - idx) % (GroupSize * W) = 0
    BY <1>3, <2>1, Covered
  <2>3. /\ t \in Invocation /\ A.lo + g * GroupSize + t <= x
        /\ (x - (A.lo + g * GroupSize + t)) % (GroupSize * W) = 0
    BY <2>2 DEF GroupOf
  <2> HIDE DEF t
  <2>4. Start(g, t) = A.lo + g * GroupSize + t
    BY <1>6 DEF Start
  <2>5. x \in Visited(Start(g, t))
    <3>1. x \in Start(g, t) .. End - 1
      BY <1>3, <1>6, <1>7, <2>1, <2>3, <2>4
    <3> QED
      BY <1>6, <2>3, <2>4, <3>1 DEF Visited
  <2>6. FixedPoints(A.seed, x) <= Score(g, t)
    BY <1>5, <1>6, <2>3, <2>5 DEF IsBestOf, Score
  <2>7. /\ FixedPoints(A.seed, x) \in Int
        /\ Score(g, t) \in Int /\ Score(g, b) \in Int
    <3>1. x \in A.lo .. A.hi - 1
      BY <1>3, <2>1
    <3>2. FixedPoints(A.seed, x) \in 0 .. 25
      BY <1>2, <1>6, <3>1 DEF Dispatched
    <3> QED
      BY <1>2, <1>4, <2>3, <3>2, GroupTypes
  <2> QED
    BY <1>4, <2>3, <2>6, <2>7 DEF Score
<1>9. results[g].best_c > 0 => Replays(results[g])
  <2> SUFFICES ASSUME results[g].best_c > 0 PROVE Replays(results[g])
    OBVIOUS
  <2>1. IsBestOf(results[g], Start(g, b))
    BY <1>4, <1>5
  <2>2. results[g].best_i \in Visited(Start(g, b))
    BY <2>1 DEF IsBestOf
  <2>3. results[g].best_i \in Window(0)
    BY <1>3, <1>4, <1>6, <1>7, <2>2 DEF Visited, Window, A
  <2> QED
    BY <1>6, <2>1, <2>3 DEF IsBestOf, Replays
<1>10. results[g].best_c = 0 /\ g = 0 => results[g].best_i = A.lo
  <2> SUFFICES ASSUME results[g].best_c = 0, g = 0
               PROVE  results[g].best_i = A.lo
    OBVIOUS
  <2>1. b = 0
    BY <1>4 DEF Score
  <2>2. results[g].best_i = Start(g, b)
    BY <1>4, <1>5 DEF IsBestOf
  <2>3. Start(0, 0) = A.lo
    BY <1>1, <1>3, <1>6 DEF Start
  <2> QED
    BY <2>1, <2>2, <2>3
<1> QED
  BY <1>8, <1>9, <1>10 DEF GroupDone

LEMMA CompleteStep ==
  ASSUME Solo, IInv, Complete
  PROVE  IInv'
<1>1. /\ Up /\ ~NotInUse /\ dispatch' = NoDispatch
      /\ \A g \in 0 .. dispatch.groups - 1 : Reached(g, {"done", "returned"})
      /\ commandBuffer' = [commandBuffer EXCEPT !.state = "invalid"]
      /\ ipc' = Everywhere("off") /\ found' = Everywhere(Unwritten)
      /\ sh_max_c' = Fresh(0) /\ sh_best_tid' = Fresh(GroupSize)
  BY DEF Complete, NotInUse
<1>2. /\ vulkan_initialized' = vulkan_initialized /\ device' = device
      /\ buffers' = buffers /\ descriptorSet' = descriptorSet
      /\ current_max_workgroups' = current_max_workgroups
      /\ mapped' = mapped /\ params' = params /\ results' = results
      /\ process' = process /\ args' = args /\ result' = result /\ pc' = pc
  BY DEF Complete, objects, setup, sizes, memory, contents, host, calls
<1>3. /\ Types /\ TypeOK /\ pc[0] = "wait" /\ W \in Nat /\ W <= MaxGroups
      /\ dispatch = [groups |-> W, by |-> 0]
  <2>1. Types /\ TypeOK /\ pc[0] = "wait" /\ dispatch = [groups |-> W, by |-> 0]
    BY <1>1 DEF IInv, Types, Commanded, In
  <2> QED
    BY <2>1, OneThread, VulkanAssumption
<1>4. \A g \in 0 .. W - 1 : GroupDone(g)
  <2> SUFFICES ASSUME NEW g \in 0 .. W - 1 PROVE GroupDone(g)
    OBVIOUS
  <2>1. g \in Group
    BY <1>3, VulkanAssumption DEF Group
  <2>2. \A t \in Invocation : ipc[g][t] \in {"done", "returned"}
    BY <1>1, <1>3 DEF Reached
  <2>3. \A t \in Invocation : ipc[g][t] = "done"
    BY <1>3, <2>1, <2>2 DEF Types, Entered
  <2> QED
    BY <1>1, <2>1, <2>3, GroupIsDone
<1>5. W' = W /\ A' = A /\ Up' /\ NotInUse'
  BY <1>1, <1>2 DEF W, A, Up, NotInUse
<1>6. Types'
  <2>1. /\ ipc' \in [Group -> [Invocation -> {"off", "scan"} \cup Entered]]
        /\ found' \in [Group -> [Invocation -> Candidate]]
    BY <1>1 DEF Everywhere, Fresh, Unwritten, Candidate
  <2>2. /\ sh_max_c' \in [Group -> 0 .. 25]
        /\ sh_best_tid' \in [Group -> 0 .. GroupSize]
    BY <1>1, VulkanAssumption DEF Fresh
  <2>3. dispatch' \in [groups : 0 .. current_max_workgroups',
                       by : Workers \cup {-1}]
    BY <1>1, <1>2, <1>3, VulkanAssumption DEF TypeOK, NoDispatch
  <2>4. commandBuffer' \in
          [state : {"initial", "recording", "executable", "pending", "invalid"},
           groups : 0 .. MaxGroups, made : Nat]
    BY <1>1, <1>3 DEF TypeOK
  <2>5. TypeOK'
    BY <1>2, <1>3, <2>1, <2>2, <2>3, <2>4 DEF TypeOK
  <2> QED
    BY <1>2, <1>3, <2>1, <2>5 DEF Types
<1>7. SetUp'
  BY <1>1, <1>2 DEF IInv, SetUp, In, A
<1>8. Buffered'
  BY <1>1, <1>2 DEF IInv, Buffered, In, A, W, NeedsGrowth
<1>9. Commanded'
  <2>1. commandBuffer'.state = "invalid"
    BY <1>1, <1>3 DEF TypeOK
  <2> QED
    BY <1>2, <1>3, <1>5, <2>1 DEF Commanded, In
<1>10. Dispatching'
  BY <1>1, <1>5 DEF Dispatching, Everywhere, Fresh
<1>11. Answered'
  <2>1. \A g \in 0 .. W' - 1 : GroupDone(g)'
    BY <1>2, <1>4, <1>5, GroupKept
  <2>2. \A w \in Workers : ~Returned(w)'
    BY <1>2, <1>3, OneWorker DEF Returned
  <2> QED
    BY <2>1, <2>2 DEF Answered, IndexInWindow, ScoreReplays, BestOfWindow
<1>12. ValidUsage'
  BY <1>5 DEF ValidUsage, Up
<1> QED
  BY <1>6, <1>7, <1>8, <1>9, <1>10, <1>11, <1>12 DEF IInv

-----------------------------------------------------------------------------
(* The theorems.                                                           *)

LEMMA StartsAtRest ==
  ASSUME Solo, Init
  PROVE  IInv
<1>1. Workers = {0} /\ pc[0] = "idle" /\ args[0] = NoWindow
  BY OneWorker DEF Init
<1>2. TypeOK
  <2>1. NoDispatch \in [groups : 0 .. 0, by : Workers \cup {-1}]
    BY DEF NoDispatch
  <2>2. /\ Fresh(Unwritten) \in [Group -> Candidate]
        /\ Everywhere(Unwritten) \in [Group -> [Invocation -> Candidate]]
    BY DEF Everywhere, Fresh, Unwritten, Candidate
  <2>3. /\ Fresh(0) \in [Group -> 0 .. 25]
        /\ Fresh(GroupSize) \in [Group -> 0 .. GroupSize]
        /\ 0 \in 0 .. MaxGroups
    BY VulkanAssumption DEF Fresh
  <2>4. args \in [Workers -> [seed : Nat, lo : Nat, hi : Nat]]
    BY DEF Init, NoWindow
  <2>5. FreshCommands \in
          [state : {"initial", "recording", "executable", "pending", "invalid"},
           groups : 0 .. MaxGroups, made : Nat]
    BY <2>3 DEF FreshCommands
  <2>6. /\ results \in [Group -> Candidate]
        /\ found \in [Group -> [Invocation -> Candidate]]
        /\ sh_max_c \in [Group -> 0 .. 25]
        /\ sh_best_tid \in [Group -> 0 .. GroupSize]
    BY <2>2, <2>3 DEF Init
  <2>7. /\ current_max_workgroups \in 0 .. MaxGroups
        /\ dispatch \in [groups : 0 .. current_max_workgroups,
                         by : Workers \cup {-1}]
    BY <2>1, <2>3 DEF Init
  <2>8. /\ process \in {"up", "exited", "undefined"}
        /\ vulkan_initialized \in BOOLEAN /\ device \in Nat
        /\ mapped \subseteq {"params", "results"}
    BY DEF Init
  <2>9. /\ buffers \in [made : Nat, device : Nat]
        /\ descriptorSet \in 0 .. buffers.made
    BY DEF Init, NoBuffers
  <2>10. params \in [seed : Nat, base_index : Nat, total_work : Nat]
    BY DEF Init, NoParams
  <2>11. commandBuffer = FreshCommands
    BY DEF Init
  <2> QED
    BY <2>4, <2>5, <2>6, <2>7, <2>8, <2>9, <2>10, <2>11 DEF TypeOK
<1>3. Types
  BY <1>2 DEF Init, Types, Places, Everywhere, Fresh
<1>4. NotInUse
  BY DEF Init, NotInUse
<1>5. SetUp /\ Buffered /\ Commanded
  BY <1>1, <1>4 DEF Init, SetUp, Buffered, Commanded, In, Sized, Written,
                    NoBuffers, FreshCommands
<1>6. Dispatching
  BY <1>4 DEF Init, Dispatching, Everywhere, Fresh
<1>7. \A w \in Workers : ~Returned(w)
  BY <1>1 DEF Returned, Launched, NoWindow
<1>8. Answered
  BY <1>1, <1>7 DEF Answered, In, IndexInWindow, ScoreReplays, BestOfWindow
<1>9. ValidUsage
  BY DEF Init, ValidUsage
<1> QED
  BY <1>3, <1>5, <1>6, <1>8, <1>9 DEF IInv

LEMMA NothingMoves ==
  ASSUME IInv, UNCHANGED vars
  PROVE  IInv'
<1>1. /\ UNCHANGED <<process, vulkan_initialized, device, buffers>>
      /\ UNCHANGED <<descriptorSet, current_max_workgroups, commandBuffer>>
      /\ UNCHANGED <<mapped, params, results, dispatch, ipc, found>>
      /\ UNCHANGED <<sh_max_c, sh_best_tid, pc, args, result>>
  BY DEF vars, objects, setup, sizes, memory, contents, gpu, shared, host, calls
<1>2. Types' /\ ValidUsage'
  BY <1>1 DEF IInv, Types, TypeOK, ValidUsage, Launched
<1>3. Up' = Up
  BY <1>1 DEF Up
<1>4. Up => SetUp' /\ Buffered' /\ Commanded'
  BY <1>1 DEF IInv, SetUp, Buffered, Commanded, In, A, W, NeedsGrowth, NotInUse
<1>5. Up => Dispatching'
  <2> SUFFICES ASSUME Up, NEW g \in Group
               PROVE  IF (NotInUse \/ g >= dispatch.groups)'
                      THEN \A u \in Invocation : ipc'[g][u] = "off"
                      ELSE InGroup(g)'
    BY DEF Dispatching
  <2>1. CASE NotInUse \/ g >= dispatch.groups
    BY <1>1, <2>1 DEF IInv, Dispatching, NotInUse
  <2>2. CASE ~(NotInUse \/ g >= dispatch.groups)
    <3>1. InGroup(g)
      BY <2>2 DEF IInv, Dispatching
    <3>2. InGroup(g)'
      BY <1>1, <3>1, OtherGroups
    <3> QED
      BY <1>1, <2>2, <3>2 DEF NotInUse
  <2> QED
    BY <2>1, <2>2
<1>6. Up => Answered'
  <2> SUFFICES ASSUME Up PROVE Answered'
    OBVIOUS
  <2>1. W' = W /\ (NotInUse /\ In({"wait", "map results", "read"}) =>
          \A g \in 0 .. W - 1 : GroupDone(g))
    BY <1>1 DEF IInv, Answered, W
  <2>2. (NotInUse /\ In({"wait", "map results", "read"}) =>
          \A g \in 0 .. W - 1 : GroupDone(g))'
    BY <1>1, <2>1, GroupKept DEF NotInUse, In
  <2>3. IndexInWindow' /\ ScoreReplays' /\ BestOfWindow'
    BY <1>1 DEF IInv, Answered, IndexInWindow, ScoreReplays, BestOfWindow,
                Returned, Launched, Up, Window
  <2> QED
    BY <2>2, <2>3 DEF Answered
<1> QED
  BY <1>2, <1>3, <1>4, <1>5, <1>6 DEF IInv

LEMMA EveryStep ==
  ASSUME Solo, IInv, [Next]_vars
  PROVE  IInv'
<1>1. CASE UNCHANGED vars
  BY <1>1, NothingMoves
<1>2. CASE Next
  <2>1. ASSUME NEW w \in Workers,
               (\E win \in Windows : Call(w, win))
                 \/ HostStep(w) \/ ExitOnFailure(w)
        PROVE  IInv'
    <3>1. w = 0
      BY OneWorker
    <3>2. CASE \E win \in Windows : Call(w, win)
      BY <3>2, CallStep
    <3>3. CASE HostStep(0)
      BY <3>3, LookInitializedStep, InitVulkanStep, DestroyBuffersStep,
         CreateBuffersStep, MapParamsStep, WriteParamsStep, BeginCommandsStep,
         RecordCommandsStep, SubmitStep, WaitForFenceStep, MapResultsStep,
         ReadResultsStep, MisuseStep DEF HostStep
    <3>4. CASE ExitOnFailure(0)
      BY <3>4, ExitStep
    <3> QED
      BY <2>1, <3>1, <3>2, <3>3, <3>4
  <2>2. CASE DeviceStep
    BY <2>2, ScanStep, AtomicMaxStep, AtomicMinStep, WriteResultStep,
       CompleteStep DEF DeviceStep
  <2> QED
    BY <1>2, <2>1, <2>2 DEF Next
<1> QED
  BY <1>1, <1>2

LEMMA VulkanInvariance ==
  ASSUME Solo
  PROVE  Spec => []IInv
<1>1. Init => IInv
  BY StartsAtRest
<1>2. IInv /\ [Next]_vars => IInv'
  BY EveryStep
<1> QED
  BY <1>1, <1>2, PTL DEF Spec

(* However calls of one thread follow one another, growing and shrinking,  *)
(* no buffer is destroyed, mapped, bound or recorded while it is missing   *)
(* or in use, and no command buffer is recorded or submitted out of turn,  *)
(* as long as every call is cut to at least one workgroup.                 *)
THEOREM VulkanIsUsedValidly ==
  ASSUME Solo
  PROVE  Spec => []ValidUsage
<1>1. IInv => ValidUsage
  BY DEF IInv
<1> QED
  BY <1>1, VulkanInvariance, PTL

(* What compute_run returns names an index of the window that was asked    *)
(* for and replays, whatever the buffers hold of earlier calls, and a      *)
(* dispatch never has more workgroups than its buffer has results.         *)
THEOREM VulkanResultsReplay ==
  ASSUME Solo
  PROVE  Spec => []Inv
<1>1. IInv => Inv
  BY DEF IInv, Types, Inv, Answered, IndexInWindow, ScoreReplays, Returned
<1> QED
  BY <1>1, VulkanInvariance, PTL

(* No shuffle of the window is missed, for any number and size of          *)
(* workgroups, any order of their invocations, and any scores.             *)
THEOREM VulkanMissesNothing ==
  ASSUME Solo
  PROVE  Spec => []BestOfWindow
<1>1. IInv => BestOfWindow
  BY DEF IInv, Answered, BestOfWindow, Returned
<1> QED
  BY <1>1, VulkanInvariance, PTL
=============================================================================
