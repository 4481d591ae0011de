-------------------------- MODULE GpuReduceProofs --------------------------
(***************************************************************************)
(* compute_run of the CUDA and HIP backends returns a best shuffle of its  *)
(* window, for every number of lanes, warps and blocks whose reductions    *)
(* halve, every window, and every order in which warps and blocks finish.  *)
(*                                                                         *)
(* After the round with offset d, a lane holds the best of the lanes whose *)
(* numbers differ from its own by multiples of d: all of them, after the   *)
(* round with offset 1.  The rest is an invariant with a part for every    *)
(* stage that a result passes: lane, warp, block, grid.                    *)
(***************************************************************************)
EXTENDS GpuReduce, WellFoundedInduction, TLAPS

-----------------------------------------------------------------------------
(* Induction over the numbers, from the least element of a set.            *)

LEMMA LeastOf ==
  ASSUME NEW T \in SUBSET Nat, T # {}
  PROVE  \E n \in T : \A m \in T : n <= m
<1>1. PICK R : /\ IsWellFoundedOn(R, Nat)
               /\ \A x, y \in Nat : y < x => <<y, x>> \in R
  BY NatLessThanWellFounded DEF OpToRel
<1>2. PICK n \in T : \A m \in T : ~(<<m, n>> \in R)
  BY <1>1, WFMin
<1>3. ASSUME NEW m \in T
      PROVE  n <= m
  <2>1. n \in Nat /\ m \in Nat
    OBVIOUS
  <2>2. ~(m < n)
    BY <1>1, <1>2, <2>1
  <2> QED
    BY <2>1, <2>2
<1> QED
  BY <1>3

LEMMA GreatestOf ==
  ASSUME NEW n \in Nat, NEW T \in SUBSET (0 .. n), T # {}
  PROVE  \E m \in T : \A k \in T : k <= m
<1> DEFINE D == {n - k : k \in T}
<1>1. D \in SUBSET Nat /\ D # {}
  <2>1. \A k \in T : n - k \in Nat
    OBVIOUS
  <2>2. PICK k \in T : TRUE
    OBVIOUS
  <2>3. n - k \in D
    OBVIOUS
  <2> QED
    BY <2>1, <2>3
<1> HIDE DEF D
<1>2. PICK d \in D : \A e \in D : d <= e
  BY <1>1, LeastOf
<1>3. PICK m \in T : d = n - m
  BY DEF D
<1>4. ASSUME NEW k \in T
      PROVE  k <= m
  <2>1. n - k \in D
    BY DEF D
  <2> QED
    BY <1>2, <1>3, <2>1
<1> QED
  BY <1>4

LEMMA AllNumbers ==
  ASSUME NEW S \in SUBSET Nat, 0 \in S, \A n \in S : n + 1 \in S
  PROVE  S = Nat
<1> SUFFICES ASSUME S # Nat PROVE FALSE
  OBVIOUS
<1> DEFINE T == Nat \ S
<1>1. PICK n \in T : \A m \in T : n <= m
  BY LeastOf
<1>2. n - 1 \in Nat /\ n - 1 \notin T
  BY <1>1
<1> QED
  BY <1>1, <1>2

-----------------------------------------------------------------------------
(* The rounds of a reduction, which are a fold.                            *)

IsFold(f, base, offsets, n) ==
  \A s \in SUBSET (1 .. n) :
    f[s] = IF s = {} THEN base
           ELSE Exchange(f[s \ {Max(s)}], offsets[Max(s)])

LEMMA LastIsMax ==
  ASSUME NEW n \in Nat, NEW s \in SUBSET (1 .. n), n \in s
  PROVE  Max(s) = n
<1>1. \A y \in s : n >= y /\ y \in Nat
  OBVIOUS
<1>2. Max(s) \in s /\ \A y \in s : Max(s) >= y
  BY <1>1 DEF Max
<1>3. Max(s) \in Nat /\ Max(s) >= n /\ n >= Max(s)
  BY <1>1, <1>2
<1> QED
  BY <1>3

LEMMA FoldExists ==
  ASSUME NEW base, NEW offsets, NEW n \in Nat
  PROVE  \E f : IsFold(f, base, offsets, n)
<1> DEFINE S == {m \in Nat : \E f : IsFold(f, base, offsets, m)}
<1>1. 0 \in S
  <2>1. 1 .. 0 = {}
    OBVIOUS
  <2>2. IsFold([s \in SUBSET (1 .. 0) |-> base], base, offsets, 0)
    BY <2>1 DEF IsFold
  <2> QED
    BY <2>2
<1>2. ASSUME NEW m \in S
      PROVE  m + 1 \in S
  <2>1. PICK f : IsFold(f, base, offsets, m)
    OBVIOUS
  <2> DEFINE h == [s \in SUBSET (1 .. m + 1) |->
                     IF m + 1 \in s
                     THEN Exchange(f[s \ {m + 1}], offsets[m + 1]) ELSE f[s]]
  <2>2. ASSUME NEW s \in SUBSET (1 .. m + 1), m + 1 \notin s
        PROVE  s \in SUBSET (1 .. m) /\ h[s] = f[s]
    BY <2>2
  <2>3. ASSUME NEW s \in SUBSET (1 .. m + 1), m + 1 \in s
        PROVE  h[s] = Exchange(f[s \ {m + 1}], offsets[m + 1])
    BY <2>3
  <2> HIDE DEF h
  <2>4. ASSUME NEW s \in SUBSET (1 .. m + 1)
        PROVE  h[s] = IF s = {} THEN base
                      ELSE Exchange(h[s \ {Max(s)}], offsets[Max(s)])
    <3>1. CASE m + 1 \in s
      <4>1. Max(s) = m + 1
        BY <3>1, LastIsMax
      <4>2. h[s \ {m + 1}] = f[s \ {m + 1}]
        BY <2>2
      <4> QED
        BY <2>3, <3>1, <4>1, <4>2
    <3>2. CASE m + 1 \notin s
      <4>1. s \in SUBSET (1 .. m) /\ h[s] = f[s]
        BY <2>2, <3>2
      <4>2. CASE s = {}
        BY <2>1, <4>1, <4>2 DEF IsFold
      <4>3. CASE s # {}
        <5>1. f[s] = Exchange(f[s \ {Max(s)}], offsets[Max(s)])
          BY <2>1, <4>1, <4>3 DEF IsFold
        <5>2. h[s \ {Max(s)}] = f[s \ {Max(s)}]
          BY <2>2, <3>2
        <5> QED
          BY <4>1, <4>3, <5>1, <5>2
      <4> QED
        BY <4>2, <4>3
    <3> QED
      BY <3>1, <3>2
  <2>5. IsFold(h, base, offsets, m + 1)
    BY <2>4 DEF IsFold
  <2> QED
    BY <2>5
<1> HIDE DEF S
<1>3. S = Nat
  BY <1>1, <1>2, AllNumbers DEF S
<1> QED
  BY <1>3 DEF S

LEMMA Prefix ==
  ASSUME NEW n \in Nat, NEW k \in 1 .. n
  PROVE  /\ 1 .. k \in SUBSET (1 .. n) /\ 1 .. k # {} /\ k - 1 \in 0 .. n
         /\ Max(1 .. k) = k /\ (1 .. k) \ {k} = 1 .. k - 1 /\ k \in 0 .. n
<1>1. Max(1 .. k) = k
  BY LastIsMax
<1> QED
  BY <1>1

LEMMA EmptyPrefix ==
  ASSUME NEW n \in Nat
  PROVE  1 .. 0 = {} /\ 1 .. 0 \in SUBSET (1 .. n) /\ 0 \in 0 .. n /\ n \in 0 .. n
OBVIOUS

AllRounds(base, offsets) == FoldLeft(Exchange, base, offsets)

(* What the lanes hold after each round.                                   *)
LEMMA FoldSteps ==
  ASSUME NEW base, NEW offsets, NEW n \in Nat, DOMAIN offsets = 1 .. n
  PROVE  \E p : /\ p[0] = base
                /\ \A k \in 1 .. n : p[k] = Exchange(p[k-1], offsets[k])
                /\ AllRounds(base, offsets) = p[n]
<1> DEFINE IsSolution(f) ==
             f = [s \in SUBSET (1 .. n) |->
                    IF s = {} THEN base
                    ELSE Exchange(f[s \ {Max(s)}], offsets[Max(s)])]
           It == CHOOSE f : IsSolution(f)
<1>1. DOMAIN offsets = 1 .. n
  OBVIOUS
<1>2. AllRounds(base, offsets) = It[1 .. n]
  BY <1>1 DEF AllRounds, FoldLeft, MapThenFoldSet
<1>3. PICK f : IsFold(f, base, offsets, n)
  BY FoldExists
<1> DEFINE r == [s \in SUBSET (1 .. n) |-> f[s]]
<1>4. IsSolution(r)
  <2>1. \A s \in SUBSET (1 .. n) :
          r[s] = IF s = {} THEN base
                 ELSE Exchange(r[s \ {Max(s)}], offsets[Max(s)])
    BY <1>3 DEF IsFold
  <2> QED
    BY <2>1
<1>5. IsSolution(It)
  BY <1>4
<1> HIDE DEF It
<1>6. IsFold(It, base, offsets, n)
  BY <1>5 DEF IsFold
<1> DEFINE p == [k \in 0 .. n |-> It[1 .. k]]
<1>7. p[0] = base
  BY <1>6, EmptyPrefix DEF IsFold
<1>8. ASSUME NEW k \in 1 .. n
      PROVE  p[k] = Exchange(p[k-1], offsets[k])
  <2>1. It[1 .. k] = Exchange(It[(1 .. k) \ {k}], offsets[k])
    BY <1>6, Prefix DEF IsFold
  <2>2. p[k] = It[1 .. k] /\ p[k-1] = It[(1 .. k) \ {k}]
    BY Prefix
  <2> QED
    BY <2>1, <2>2
<1>9. p[n] = It[1 .. n]
  BY EmptyPrefix
<1> HIDE DEF p
<1> QED
  BY <1>2, <1>7, <1>8, <1>9
-----------------------------------------------------------------------------
(* A reduction.                                                            *)

(* The lane that lane l looks at.                                          *)
Partner(l, off) == IF (l \div off) % 2 = 0 THEN l + off ELSE l - off

LEMMA PartnerIsALane ==
  ASSUME NEW n \in Nat, NEW off \in Nat \ {0}, NEW q \in Nat,
         n = q * (2 * off), NEW l \in 0 .. n - 1
  PROVE  Partner(l, off) \in 0 .. n - 1
<1> DEFINE u == l \div off
           r == l % off
<1>1. u \in Nat /\ r \in 0 .. off - 1 /\ l = u * off + r
  OBVIOUS
<1> HIDE DEF u, r
<1>2. PICK v \in Nat, e \in {0, 1} : u = 2 * v + e /\ u % 2 = e
  <2>1. u = 2 * (u \div 2) + (u % 2) /\ u % 2 \in {0, 1} /\ u \div 2 \in Nat
    BY <1>1
  <2> QED
    BY <2>1
<1>3. v < q
  <2> SUFFICES ASSUME v >= q PROVE FALSE
    OBVIOUS
  <2>1. v * (2 * off) >= q * (2 * off)
    OBVIOUS
  <2>2. l = v * (2 * off) + e * off + r /\ e * off \in Nat
    BY <1>1, <1>2
  <2> QED
    BY <1>1, <2>1, <2>2
<1>4. (v + 1) * (2 * off) <= n
  <2>1. v + 1 <= q /\ v + 1 \in Nat
    BY <1>3
  <2> QED
    BY <2>1
<1>5. v * (2 * off) \in Nat /\ (v + 1) * (2 * off) = v * (2 * off) + 2 * off
  OBVIOUS
<1>6. CASE e = 0
  <2>1. l = v * (2 * off) + r
    BY <1>1, <1>2, <1>6
  <2> QED
    BY <1>1, <1>2, <1>4, <1>5, <1>6, <2>1 DEF Partner, u
<1>7. CASE e = 1
  <2>1. l = v * (2 * off) + off + r
    BY <1>1, <1>2, <1>7
  <2> QED
    BY <1>1, <1>2, <1>4, <1>5, <1>7, <2>1 DEF Partner, u
<1> QED
  BY <1>6, <1>7

(* n lanes began with start and hold s: each the best of the lanes that    *)
(* are multiples of d away, and its own, unless that one is better.        *)
Spread(start, s, d, n) ==
  /\ DOMAIN s = 0 .. n - 1
  /\ \A l \in 0 .. n - 1 :
       /\ \E m \in 0 .. n - 1 : s[l] = start[m]
       /\ \A j \in Int : l + j * d \in 0 .. n - 1 =>
            start[l + j * d].best_c <= s[l].best_c
       /\ s[l].best_c = start[l].best_c => s[l] = start[l]

LEMMA RoundSpreads ==
  ASSUME NEW n \in Nat, NEW off \in Nat \ {0}, NEW q \in Nat,
         n = q * (2 * off), NEW start, NEW s, Spread(start, s, 2 * off, n),
         \A m \in 0 .. n - 1 : start[m].best_c \in Nat
  PROVE  Spread(start, Exchange(s, off), off, n)
<1> DEFINE t == Exchange(s, off)
<1>1. DOMAIN s = 0 .. n - 1
  BY DEF Spread
<1>2. DOMAIN t = 0 .. n - 1
  BY <1>1 DEF Exchange
<1>3. ASSUME NEW l \in 0 .. n - 1
      PROVE  t[l] = IF s[Partner(l, off)].best_c > s[l].best_c
                    THEN s[Partner(l, off)] ELSE s[l]
  BY <1>1 DEF Exchange, Partner
<1> HIDE DEF t
<1>4. ASSUME NEW l \in 0 .. n - 1
      PROVE  /\ \E m \in 0 .. n - 1 : t[l] = start[m]
             /\ \A j \in Int : l + j * off \in 0 .. n - 1 =>
                  start[l + j * off].best_c <= t[l].best_c
             /\ t[l].best_c = start[l].best_c => t[l] = start[l]
  <2> DEFINE m == Partner(l, off)
  <2>1. m \in 0 .. n - 1
    BY PartnerIsALane
  <2>2. m = l + off \/ m = l - off
    BY DEF Partner
  <2> HIDE DEF m
  <2>3. \A k \in 0 .. n - 1 :
          /\ \E i \in 0 .. n - 1 : s[k] = start[i]
          /\ \A i \in Int : k + i * (2 * off) \in 0 .. n - 1 =>
               start[k + i * (2 * off)].best_c <= s[k].best_c
          /\ s[k].best_c = start[k].best_c => s[k] = start[k]
    BY DEF Spread
  <2>4. s[l].best_c \in Nat /\ s[m].best_c \in Nat
    BY <2>1, <2>3
  <2>5. t[l] = IF s[m].best_c > s[l].best_c THEN s[m] ELSE s[l]
    BY <1>3 DEF m
  <2>6. /\ t[l].best_c >= s[l].best_c /\ t[l].best_c >= s[m].best_c
        /\ t[l].best_c \in Nat
    BY <2>4, <2>5
  <2>7. \E i \in 0 .. n - 1 : t[l] = start[i]
    BY <2>1, <2>3, <2>5
  <2>8. ASSUME NEW j \in Int, l + j * off \in 0 .. n - 1
        PROVE  start[l + j * off].best_c <= t[l].best_c
    <3>1. PICK i \in Int, e \in {0, 1} : j = 2 * i + e
      <4>1. j = 2 * (j \div 2) + (j % 2) /\ j % 2 \in {0, 1} /\ j \div 2 \in Int
        OBVIOUS
      <4> QED
        BY <4>1
    <3>2. start[l + j * off].best_c \in Nat
      BY <2>8
    <3>3. CASE e = 0
      <4>1. l + j * off = l + i * (2 * off)
        BY <3>1, <3>3
      <4>2. start[l + j * off].best_c <= s[l].best_c
        BY <2>3, <2>8, <4>1
      <4> QED
        BY <2>4, <2>6, <3>2, <4>2
    <3>4. CASE e = 1
      <4>1. \E k \in Int : l + j * off = m + k * (2 * off)
        <5>1. j * off = i * (2 * off) + off /\ i * (2 * off) \in Int
          BY <3>1, <3>4
        <5>2. (i + 1) * (2 * off) = i * (2 * off) + 2 * off
          OBVIOUS
        <5>3. CASE m = l + off
          <6>1. l + j * off = m + i * (2 * off)
            BY <5>1, <5>3
          <6> QED
            BY <6>1
        <5>4. CASE m = l - off
          <6>1. l + j * off = m + (i + 1) * (2 * off) /\ i + 1 \in Int
            BY <5>1, <5>2, <5>4
          <6> QED
            BY <6>1
        <5> QED
          BY <2>2, <5>3, <5>4
      <4>2. start[l + j * off].best_c <= s[m].best_c
        BY <2>1, <2>3, <2>8, <4>1
      <4> QED
        BY <2>4, <2>6, <3>2, <4>2
    <3> QED
      BY <3>3, <3>4
  <2>9. ASSUME t[l].best_c = start[l].best_c
        PROVE  t[l] = start[l]
    <3>1. start[l].best_c <= s[l].best_c
      <4>1. l + 0 * (2 * off) = l
        OBVIOUS
      <4>2. 0 \in Int /\ l + 0 * (2 * off) \in 0 .. n - 1
        BY <4>1
      <4>3. start[l + 0 * (2 * off)].best_c <= s[l].best_c
        BY <2>3, <4>2, Zenon
      <4> QED
        BY <4>1, <4>3
    <3>2. ~(s[m].best_c > s[l].best_c)
      BY <2>4, <2>5, <2>9, <3>1
    <3> QED
      BY <2>3, <2>5, <2>9, <3>2
  <2> QED
    BY <2>7, <2>8, <2>9
<1> QED
  BY <1>2, <1>4 DEF Spread, t

(* n lanes bring a candidate each.                                         *)
Brought(v, n) == DOMAIN v = 0 .. n - 1 /\ \A m \in 0 .. n - 1 : v[m] \in Candidate

(* What lane 0 holds in the end: the best of all lanes, as it was, and its *)
(* own if nobody has a better one.                                         *)
LEMMA ReducedIsBest ==
  ASSUME NEW n \in Nat \ {0}, NEW offsets, Halves(offsets, n),
         NEW v, Brought(v, n)
  PROVE  /\ \E m \in 0 .. n - 1 : Reduced(v, offsets) = v[m]
         /\ \A m \in 0 .. n - 1 : v[m].best_c <= Reduced(v, offsets).best_c
         /\ Reduced(v, offsets).best_c = v[0].best_c =>
              Reduced(v, offsets) = v[0]
<1> DEFINE start == [l \in 0 .. n - 1 |-> [best_c |-> v[l].best_c,
                       best_i |-> v[l].best_i, best_lane |-> l]]
           len == Len(offsets)
           width(k) == IF k = 0 THEN n ELSE offsets[k]
<1>1. /\ offsets \in Seq(Nat \ {0}) /\ width(len) = 1 /\ len \in Nat
      /\ \A k \in 1 .. len : width(k - 1) = 2 * offsets[k]
                             /\ offsets[k] \in Nat \ {0}
  <2>1. /\ offsets \in Seq(Nat \ {0}) /\ width(len) = 1
        /\ \A k \in DOMAIN offsets : width(k - 1) = 2 * offsets[k]
    BY DEF Halves
  <2> HIDE DEF width
  <2>2. len \in Nat /\ DOMAIN offsets = 1 .. len
    BY <2>1
  <2>3. \A k \in 1 .. len : offsets[k] \in Nat \ {0}
    BY <2>1
  <2> QED
    BY <2>1, <2>2, <2>3
<1>2. Reduced(v, offsets) =
        LET end == AllRounds(start, offsets)[0]
        IN  [best_c |-> end.best_c, best_i |-> end.best_i,
             best_arr |-> v[end.best_lane].best_arr]
  BY DEF Reduced, Brought, AllRounds
<1> HIDE DEF start, len, width
<1>3. PICK p : /\ p[0] = start
               /\ \A k \in 1 .. len : p[k] = Exchange(p[k-1], offsets[k])
               /\ AllRounds(start, offsets) = p[len]
  <2>1. len \in Nat /\ DOMAIN offsets = 1 .. len
    BY <1>1 DEF len
  <2> QED
    BY <2>1, FoldSteps
<1>4. /\ DOMAIN start = 0 .. n - 1
      /\ \A l \in 0 .. n - 1 :
           start[l] = [best_c |-> v[l].best_c, best_i |-> v[l].best_i,
                       best_lane |-> l]
  BY DEF start
<1>5. \A l \in 0 .. n - 1 : v[l] \in Candidate /\ v[l].best_c \in 0 .. 25
  BY DEF Brought, Candidate
<1>6. \A l \in 0 .. n - 1 : start[l].best_c \in Nat
  <2>1. \A l \in 0 .. n - 1 : start[l].best_c = v[l].best_c
    BY <1>4
  <2> QED
    BY <1>5, <2>1
<1> DEFINE S == {k \in Nat : k <= len =>
                   /\ Spread(start, p[k], width(k), n)
                   /\ \E q \in Nat : n = q * width(k)}
<1>7. 0 \in S
  <2>1. width(0) = n
    BY DEF width
  <2>2. n = 1 * width(0)
    BY <2>1
  <2>3. ASSUME NEW l \in 0 .. n - 1, NEW j \in Int, l + j * n \in 0 .. n - 1
        PROVE  l + j * n = l
    <3>1. j >= 1 => j * n >= n
      OBVIOUS
    <3>2. j <= -1 => j * n <= -n
      <4>1. j <= -1 => (-j) * n >= n /\ (-j) * n = -(j * n)
        OBVIOUS
      <4>2. j * n \in Int
        OBVIOUS
      <4> QED
        BY <4>1, <4>2
    <3>3. j * n \in Int
      OBVIOUS
    <3> QED
      BY <2>3, <3>1, <3>2, <3>3
  <2>4. Spread(start, start, n, n)
    <3>1. ASSUME NEW l \in 0 .. n - 1
          PROVE  start[l].best_c <= start[l].best_c
      BY <1>6
    <3> QED
      BY <1>4, <2>3, <3>1 DEF Spread
  <2> QED
    BY <1>3, <2>1, <2>2, <2>4
<1>8. ASSUME NEW k \in S
      PROVE  k + 1 \in S
  <2> SUFFICES ASSUME k + 1 <= len
               PROVE  /\ Spread(start, p[k + 1], width(k + 1), n)
                      /\ \E q \in Nat : n = q * width(k + 1)
    OBVIOUS
  <2>1. k \in Nat /\ k + 1 \in 1 .. len /\ (k + 1) - 1 = k
    BY <1>1
  <2>2. k <= len
    BY <1>1
  <2>3. /\ Spread(start, p[k], width(k), n)
        /\ \E q \in Nat : n = q * width(k)
    BY <2>2
  <2> PICK q \in Nat : n = q * width(k)
    BY <2>3
  <2>4. /\ width(k) = 2 * offsets[k + 1] /\ offsets[k + 1] \in Nat \ {0}
        /\ width(k + 1) = offsets[k + 1]
    <3>1. width(k + 1) = offsets[k + 1]
      BY <2>1 DEF width
    <3> QED
      BY <1>1, <2>1, <3>1
  <2>5. p[k + 1] = Exchange(p[k], offsets[k + 1])
    BY <1>3, <2>1
  <2>6. Spread(start, p[k + 1], offsets[k + 1], n)
    <3>1. n = q * (2 * offsets[k + 1])
      BY <2>4
    <3>2. Spread(start, p[k], 2 * offsets[k + 1], n)
      BY <2>3, <2>4
    <3> QED
      BY <1>6, <2>4, <2>5, <3>1, <3>2, RoundSpreads
  <2>7. n = (2 * q) * offsets[k + 1] /\ 2 * q \in Nat
    BY <2>4
  <2> QED
    BY <2>4, <2>6, <2>7
<1> HIDE DEF S
<1>9. S = Nat
  <2>1. S \in SUBSET Nat
    BY DEF S
  <2> QED
    BY <1>7, <1>8, <2>1, AllNumbers
<1>10. Spread(start, p[len], 1, n)
  <2>1. len \in Nat /\ width(len) = 1
    BY <1>1
  <2>2. len \in S /\ len <= len
    BY <1>9, <2>1
  <2>3. Spread(start, p[len], width(len), n)
    BY <2>2 DEF S
  <2> QED
    BY <2>1, <2>3
<1> DEFINE end == p[len][0]
<1>11. PICK m \in 0 .. n - 1 : end = start[m]
  BY <1>10 DEF Spread
<1>12. \A k \in 0 .. n - 1 : start[k].best_c <= end.best_c
  <2> SUFFICES ASSUME NEW k \in 0 .. n - 1
               PROVE  start[k].best_c <= end.best_c
    OBVIOUS
  <2>1. 0 + k * 1 = k /\ k \in Int
    OBVIOUS
  <2>2. 0 \in 0 .. n - 1
    OBVIOUS
  <2>3. 0 + k * 1 \in 0 .. n - 1 => start[0 + k * 1].best_c <= end.best_c
    BY <1>10, <2>1, <2>2 DEF Spread
  <2> QED
    BY <2>1, <2>3
<1>13. end.best_c = start[0].best_c => end = start[0]
  <2>1. 0 \in 0 .. n - 1
    OBVIOUS
  <2> QED
    BY <1>10, <2>1 DEF Spread
<1>14. ASSUME NEW k \in 0 .. n - 1, end = start[k]
       PROVE  Reduced(v, offsets) = v[k]
  <2>1. v[k] = [best_c |-> v[k].best_c, best_i |-> v[k].best_i,
                best_arr |-> v[k].best_arr]
    BY <1>5 DEF Candidate
  <2>2. /\ end.best_c = v[k].best_c /\ end.best_i = v[k].best_i
        /\ end.best_lane = k
    BY <1>4, <1>14
  <2> QED
    BY <1>2, <1>3, <2>1, <2>2
<1>15. Reduced(v, offsets) = v[m]
  BY <1>11, <1>14
<1>16. Reduced(v, offsets).best_c = end.best_c
  BY <1>4, <1>11, <1>15
<1>17. \A k \in 0 .. n - 1 : v[k].best_c <= Reduced(v, offsets).best_c
  BY <1>4, <1>12, <1>16
<1>18. Reduced(v, offsets).best_c = v[0].best_c => Reduced(v, offsets) = v[0]
  <2>1. 0 \in 0 .. n - 1
    OBVIOUS
  <2> QED
    BY <1>4, <1>13, <1>14, <1>16, <2>1
<1> QED
  BY <1>15, <1>17, <1>18
-----------------------------------------------------------------------------
(* The invariant: what has been found at each stage.                       *)

(* The part of the window that thread t of a grid of g blocks looks at.    *)
Seen(t, win, g) ==
  {x \in win.lo .. win.hi - 1 : (x - win.lo) % (g * BlockDim) = t}
Beats(r, t, win, g) ==
  \A x \in Seen(t, win, g) : FixedPoints(win.seed, x) <= r.best_c

(* A shuffle of the window, or none, which scores 0.                       *)
Sound(r, win) ==
  /\ r \in Candidate
  /\ r.best_c > 0 => /\ r.best_i \in win.lo .. win.hi - 1
                     /\ r.best_c = FixedPoints(win.seed, r.best_i)
                     /\ r.best_arr = <<win.seed, r.best_i>>

(* The best of a thread, of a warp, of a block; when nothing scores, it is *)
(* the index that the first thread began with.                             *)
Starts(r, t, win) == r.best_c = 0 => r.best_i = win.lo + t
ThreadDone(r, t, win, g) ==
  Sound(r, win) /\ Beats(r, t, win, g) /\ Starts(r, t, win)
WarpDone(r, b, w, win, g) ==
  /\ Sound(r, win) /\ Starts(r, ThreadId(b, w, 0), win)
  /\ \A l \in Lane : Beats(r, ThreadId(b, w, l), win, g)
BlockDone(r, b, win, g) ==
  /\ Sound(r, win) /\ Starts(r, ThreadId(b, 0, 0), win)
  /\ \A w \in Warp, l \in Lane : Beats(r, ThreadId(b, w, l), win, g)

Launched == grid > 0 => window \in Filled /\ grid = Grid(window)

(* Only blocks of the grid run, and of those only warp 0 leaves; nobody is *)
(* beyond the first barrier before all are at it, and warp 0 is beyond the *)
(* second one only when all others are at it.                              *)
Barriers ==
  \A b \in Block, w \in Warp :
    IF b >= grid THEN wpc[b][w] = "off"
    ELSE /\ w # 0 => wpc[b][w] # "off"
         /\ wpc[b][w] \in {"published", "off"} => AllShuffled(b)
         /\ wpc[b][0] = "off" /\ w # 0 => wpc[b][w] = "published"

LanesDone ==
  \A b \in Block, w \in Warp : b < grid /\ wpc[b][w] # "shuffle" =>
    \A l \in Lane :
      ThreadDone(found[b][w][l], ThreadId(b, w, l), window, grid)
WarpsDone ==
  \A b \in Block, w \in Warp : b < grid /\ wpc[b][w] \in {"published", "off"} =>
    WarpDone(shared[b][w], b, w, window, grid)
BlocksDone ==
  \A b \in Block : b < grid /\ wpc[b][0] = "off" =>
    BlockDone(out[b], b, window, grid)

(* The atomic maximum is that of the blocks that have left.                *)
Left(b) == b < grid /\ wpc[b][0] = "off"
Maximum ==
  grid > 0 =>
    /\ \A b \in Block : Left(b) => out[b].best_c <= best_and_bid[1]
    /\ \/ best_and_bid = <<0, 0>>
       \/ /\ Left(best_and_bid[2])
          /\ out[best_and_bid[2]].best_c = best_and_bid[1]

Answer == IndexInWindow /\ BestOfWindow /\ ScoreReplays

IInv ==
  /\ TypeOK /\ Launched /\ Barriers
  /\ LanesDone /\ WarpsDone /\ BlocksDone /\ Maximum
  /\ Answer

-----------------------------------------------------------------------------
(* The grid and its threads.                                               *)

LEMMA Sizes ==
  /\ Lanes \in Nat \ {0} /\ Warps \in Nat \ {0} /\ MaxBlocks \in Nat \ {0}
  /\ BlockDim \in Nat \ {0} /\ BlockDim = Warps * Lanes
  /\ 0 \in Lane /\ 0 \in Warp /\ 0 \in Block
BY GpuAssumption DEF BlockDim, Lane, Warp, Block

LEMMA WindowsAre ==
  ASSUME NEW win \in Filled
  PROVE  /\ win \in [seed : Nat, lo : Nat, hi : Nat]
         /\ win.seed \in Nat /\ win.lo \in Nat /\ win.hi \in Nat
         /\ win.lo < win.hi
         /\ \A x \in win.lo .. win.hi - 1 :
              x \in Nat /\ FixedPoints(win.seed, x) \in 0 .. 25
BY GpuAssumption DEF Filled

LEMMA ThreadIds ==
  ASSUME NEW b \in Nat, NEW w \in Warp, NEW l \in Lane
  PROVE  ThreadId(b, w, l) \in Nat
<1>1. w \in Nat /\ l \in Nat
  BY DEF Warp, Lane
<1>2. b * Warps \in Nat
  BY Sizes
<1>3. (b * Warps + w) * Lanes \in Nat
  BY <1>1, <1>2, Sizes
<1> QED
  BY <1>1, <1>3 DEF ThreadId

(* Every index of the window is looked at by a thread of the grid.         *)
LEMMA EveryIndexIsSeen ==
  ASSUME NEW win \in Filled, NEW g \in Nat \ {0},
         NEW x \in win.lo .. win.hi - 1
  PROVE  \E b \in 0 .. g - 1, w \in Warp, l \in Lane :
           x \in Seen(ThreadId(b, w, l), win, g)
<1> DEFINE s == g * BlockDim
           t == (x - win.lo) % s
           u == t \div Lanes
           l == t % Lanes
           b == u \div Warps
           w == u % Warps
<1>1. x - win.lo \in Nat
  BY WindowsAre
<1>2. s \in Nat \ {0} /\ s = (g * Warps) * Lanes /\ g * Warps \in Nat
  BY Sizes
<1> HIDE DEF s
<1>3. t \in 0 .. s - 1
  BY <1>1, <1>2
<1> HIDE DEF t
<1>4. u \in Nat /\ l \in 0 .. Lanes - 1 /\ t = u * Lanes + l
  BY <1>2, <1>3, Sizes
<1> HIDE DEF u, l
<1>5. b \in Nat /\ w \in 0 .. Warps - 1 /\ u = b * Warps + w
  BY <1>4, Sizes
<1> HIDE DEF b, w
<1>6. u < g * Warps
  <2> SUFFICES ASSUME u >= g * Warps PROVE FALSE
    BY <1>2, <1>4
  <2>1. u * Lanes >= (g * Warps) * Lanes /\ u * Lanes \in Nat
    BY <1>2, <1>4, Sizes
  <2> QED
    BY <1>2, <1>3, <1>4, <2>1
<1>7. b < g
  <2> SUFFICES ASSUME b >= g PROVE FALSE
    BY <1>5
  <2>1. b * Warps >= g * Warps /\ b * Warps \in Nat
    BY <1>5, Sizes
  <2> QED
    BY <1>2, <1>4, <1>5, <1>6, <2>1
<1>8. t = ThreadId(b, w, l)
  BY <1>4, <1>5 DEF ThreadId
<1>9. x \in Seen(t, win, g)
  BY DEF Seen, t, s
<1> QED
  BY <1>4, <1>5, <1>7, <1>8, <1>9 DEF Warp, Lane

(* The first thread of every block of a grid begins inside the window.     *)
LEMMA BlocksBeginInWindow ==
  ASSUME NEW win \in Filled, Grid(win) > 0
  PROVE  /\ Grid(win) \in 1 .. MaxBlocks
         /\ \A b \in 0 .. Grid(win) - 1 :
              win.lo + ThreadId(b, 0, 0) \in win.lo .. win.hi - 1
<1> DEFINE n == win.hi - win.lo
           q == BlocksFor(win)
           g == Grid(win)
<1>1. n \in Nat \ {0} /\ win.lo \in Nat /\ win.hi \in Nat /\ win.hi = win.lo + n
  BY WindowsAre
<1> HIDE DEF n
<1>2. q = (n + BlockDim - 1) \div BlockDim
  BY DEF BlocksFor, n
<1> HIDE DEF q
<1>3. q \in Nat /\ q * BlockDim <= n + BlockDim - 1
  BY <1>1, <1>2, Sizes
<1>4. g \in 1 .. MaxBlocks /\ g <= q
  <2> DEFINE c == q % (2 * INT)
  <2>1. INT \in Nat \ {0} /\ MaxBlocks \in Nat
    BY GpuAssumption
  <2>2. c \in Nat /\ c <= q /\ c < 2 * INT
    BY <1>3, <2>1
  <2> HIDE DEF c
  <2>3. CutOff(win) = IF c < INT THEN c ELSE c - 2 * INT
    BY DEF CutOff, c, q
  <2>4. g = IF CutOff(win) > MaxBlocks THEN MaxBlocks ELSE CutOff(win)
    BY DEF Grid
  <2>5. g > 0
    OBVIOUS
  <2> HIDE DEF g
  <2> QED
    BY <1>3, <2>1, <2>2, <2>3, <2>4, <2>5
<1> HIDE DEF g
<1>5. ASSUME NEW b \in 0 .. g - 1
      PROVE  win.lo + ThreadId(b, 0, 0) \in win.lo .. win.hi - 1
  <2>1. ThreadId(b, 0, 0) = b * BlockDim
    BY <1>4, Sizes DEF ThreadId
  <2>2. b + 1 <= q /\ b + 1 \in Nat /\ b \in Nat
    BY <1>3, <1>4
  <2>3. (b + 1) * BlockDim <= q * BlockDim
    BY <1>3, <2>2, Sizes
  <2>4. (b + 1) * BlockDim = b * BlockDim + BlockDim /\ b * BlockDim \in Nat
    BY <2>2, Sizes
  <2>5. b * BlockDim <= n - 1
    <3>1. q * BlockDim \in Nat
      BY <1>3, Sizes
    <3> QED
      BY <1>1, <1>3, <2>3, <2>4, <3>1, Sizes
  <2> QED
    BY <1>1, <2>1, <2>4, <2>5
<1> QED
  BY <1>4, <1>5 DEF g
-----------------------------------------------------------------------------
(* What a thread, a warp and a block find.                                 *)

LEMMA ThreadFindsBest ==
  ASSUME window \in Filled, NEW t \in Nat
  PROVE  ThreadDone(ThreadBest(t), t, window, grid)
<1> DEFINE score(x) == FixedPoints(window.seed, x)
           V == Visited(t)
           best == {x \in V :
                      /\ score(x) > 0
                      /\ \A y \in V : score(y) <= score(x)
                                      /\ (y < x => score(y) < score(x))}
<1>1. /\ window.seed \in Nat /\ window.lo \in Nat
      /\ V \in SUBSET (window.lo .. window.hi - 1)
      /\ V \in SUBSET Nat /\ \A x \in V : score(x) \in 0 .. 25
  BY WindowsAre DEF Visited
<1>2. V = Seen(t, window, grid)
  BY DEF Visited, Seen, Stride
<1>3. ThreadBest(t) =
        IF best = {}
        THEN [best_c |-> 0, best_i |-> window.lo + t, best_arr |-> Sorted]
        ELSE LET x == CHOOSE x \in best : TRUE
             IN  [best_c |-> score(x), best_i |-> x,
                  best_arr |-> <<window.seed, x>>]
  BY DEF ThreadBest
<1> HIDE DEF V
<1>4. CASE best = {}
  <2>1. \A x \in V : score(x) <= 0
    <3> SUFFICES ASSUME NEW z \in V, score(z) > 0 PROVE FALSE
      BY <1>1
    <3> DEFINE T == {score(x) : x \in V}
    <3>1. T \in SUBSET (0 .. 25) /\ T # {}
      BY <1>1
    <3>2. PICK m \in T : \A k \in T : k <= m
      BY <3>1, GreatestOf
    <3> DEFINE U == {x \in V : score(x) = m}
    <3>3. U \in SUBSET Nat /\ U # {}
      BY <1>1
    <3>4. PICK x \in U : \A y \in U : x <= y
      BY <3>3, LeastOf
    <3>5. ASSUME NEW y \in V
          PROVE  score(y) <= score(x) /\ (y < x => score(y) < score(x))
      <4>1. score(y) <= m /\ score(x) = m /\ score(y) \in 0 .. 25
            /\ m \in 0 .. 25 /\ y \in Nat /\ x \in Nat
        BY <1>1, <3>1, <3>2, <3>4
      <4>2. score(y) = m => x <= y
        BY <3>4
      <4> QED
        BY <4>1, <4>2
    <3>6. score(x) > 0
      BY <1>1, <3>5
    <3>7. x \in best
      BY <3>5, <3>6
    <3> QED
      BY <1>4, <3>7
  <2> DEFINE r == [best_c |-> 0, best_i |-> window.lo + t, best_arr |-> Sorted]
  <2>2. r \in Candidate
    BY <1>1 DEF Candidate
  <2>3. r.best_c = 0 /\ r.best_i = window.lo + t
    OBVIOUS
  <2>4. ThreadBest(t) = r
    BY <1>3, <1>4
  <2> HIDE DEF r
  <2>5. ThreadDone(r, t, window, grid)
    BY <1>2, <2>1, <2>2, <2>3 DEF ThreadDone, Sound, Beats, Starts
  <2> QED
    BY <2>4, <2>5
<1>5. CASE best # {}
  <2>1. PICK x \in best : ThreadBest(t) =
          [best_c |-> score(x), best_i |-> x, best_arr |-> <<window.seed, x>>]
    BY <1>3, <1>5
  <2> DEFINE r == ThreadBest(t)
  <2>2. x \in V /\ x \in Nat /\ score(x) \in 0 .. 25 /\ score(x) > 0
    BY <1>1
  <2>3. \A y \in V : score(y) <= score(x)
    OBVIOUS
  <2>4. r \in Candidate
    BY <1>1, <2>1, <2>2 DEF Candidate
  <2>5. r.best_c = score(x) /\ r.best_i = x /\ r.best_arr = <<window.seed, x>>
    BY <2>1
  <2> HIDE DEF r
  <2>6. Sound(r, window) /\ Starts(r, t, window)
    BY <1>1, <2>2, <2>4, <2>5 DEF Sound, Starts
  <2>7. Beats(r, t, window, grid)
    BY <1>2, <2>3, <2>5 DEF Beats
  <2> QED
    BY <2>6, <2>7 DEF ThreadDone, r
<1> QED
  BY <1>4, <1>5

LEMMA Scores ==
  ASSUME NEW r, NEW win, Sound(r, win)
  PROVE  r \in Candidate /\ r.best_c \in 0 .. 25
BY DEF Sound, Candidate

LEMMA BeatsMore ==
  ASSUME NEW win \in Filled, NEW g, NEW t, NEW r, NEW s,
         Sound(r, win), Sound(s, win), r.best_c <= s.best_c,
         Beats(r, t, win, g)
  PROVE  Beats(s, t, win, g)
<1>1. r.best_c \in 0 .. 25 /\ s.best_c \in 0 .. 25
  BY Scores
<1>2. ASSUME NEW x \in Seen(t, win, g)
      PROVE  FixedPoints(win.seed, x) <= s.best_c
  <2>1. FixedPoints(win.seed, x) <= r.best_c
    BY DEF Beats
  <2>2. FixedPoints(win.seed, x) \in 0 .. 25
    BY WindowsAre DEF Seen
  <2> QED
    BY <1>1, <2>1, <2>2
<1> QED
  BY <1>2 DEF Beats

(* The shuffles of a warp keep score, index and board together.            *)
LEMMA WarpFindsBest ==
  ASSUME NEW win \in Filled, NEW g, NEW b, NEW w, NEW v, DOMAIN v = Lane,
         \A l \in Lane : ThreadDone(v[l], ThreadId(b, w, l), win, g)
  PROVE  WarpDone(Reduced(v, WarpOffsets), b, w, win, g)
<1> DEFINE r == Reduced(v, WarpOffsets)
<1>1. \A l \in Lane : /\ Sound(v[l], win)
                      /\ Beats(v[l], ThreadId(b, w, l), win, g)
                      /\ Starts(v[l], ThreadId(b, w, l), win)
                      /\ v[l].best_c \in 0 .. 25
  BY Scores DEF ThreadDone
<1>2. Brought(v, Lanes)
  BY <1>1, Scores DEF Brought, Lane
<1>3. Halves(WarpOffsets, Lanes) /\ Lanes \in Nat \ {0}
  BY GpuAssumption
<1>4. /\ \E l \in Lane : r = v[l]
      /\ \A l \in Lane : v[l].best_c <= r.best_c
      /\ r.best_c = v[0].best_c => r = v[0]
  BY <1>2, <1>3, ReducedIsBest DEF Lane
<1> HIDE DEF r
<1>5. Sound(r, win) /\ r.best_c \in 0 .. 25
  BY <1>1, <1>4
<1>6. \A l \in Lane : Beats(r, ThreadId(b, w, l), win, g)
  BY <1>1, <1>4, <1>5, BeatsMore
<1>7. Starts(r, ThreadId(b, w, 0), win)
  <2> SUFFICES ASSUME r.best_c = 0
               PROVE  r.best_i = win.lo + ThreadId(b, w, 0)
    BY DEF Starts
  <2>1. 0 \in Lane
    BY Sizes
  <2>2. v[0].best_c = 0
    BY <1>1, <1>4, <2>1
  <2>3. r = v[0]
    BY <1>4, <2>2
  <2> QED
    BY <1>1, <2>1, <2>2, <2>3 DEF Starts
<1> QED
  BY <1>5, <1>6, <1>7 DEF WarpDone, r

(* So do those over the warps.                                             *)
LEMMA BlockFindsBest ==
  ASSUME NEW win \in Filled, NEW g, NEW b, NEW v, DOMAIN v = Warp,
         \A w \in Warp : WarpDone(v[w], b, w, win, g)
  PROVE  BlockDone(Reduced(v, BlockOffsets), b, win, g)
<1> DEFINE r == Reduced(v, BlockOffsets)
<1>1. \A w \in Warp : /\ Sound(v[w], win)
                      /\ \A l \in Lane : Beats(v[w], ThreadId(b, w, l), win, g)
                      /\ Starts(v[w], ThreadId(b, w, 0), win)
                      /\ v[w].best_c \in 0 .. 25
  BY Scores DEF WarpDone
<1>2. Brought(v, Warps)
  BY <1>1, Scores DEF Brought, Warp
<1>3. Halves(BlockOffsets, Warps) /\ Warps \in Nat \ {0}
  BY GpuAssumption
<1>4. /\ \E w \in Warp : r = v[w]
      /\ \A w \in Warp : v[w].best_c <= r.best_c
      /\ r.best_c = v[0].best_c => r = v[0]
  BY <1>2, <1>3, ReducedIsBest DEF Warp
<1> HIDE DEF r
<1>5. Sound(r, win) /\ r.best_c \in 0 .. 25
  BY <1>1, <1>4
<1>6. \A w \in Warp, l \in Lane : Beats(r, ThreadId(b, w, l), win, g)
  BY <1>1, <1>4, <1>5, BeatsMore
<1>7. Starts(r, ThreadId(b, 0, 0), win)
  <2> SUFFICES ASSUME r.best_c = 0
               PROVE  r.best_i = win.lo + ThreadId(b, 0, 0)
    BY DEF Starts
  <2>1. 0 \in Warp
    BY Sizes
  <2>2. v[0].best_c = 0
    BY <1>1, <1>4, <2>1
  <2>3. r = v[0]
    BY <1>4, <2>2
  <2> QED
    BY <1>1, <2>1, <2>2, <2>3 DEF Starts
<1> QED
  BY <1>5, <1>6, <1>7 DEF BlockDone, r
-----------------------------------------------------------------------------
(* The steps of the host.                                                  *)

At == {"off", "shuffle", "reduce", "published"}

LEMMA UnwrittenIsCandidate == Unwritten \in Candidate
BY DEF Unwritten, Candidate

(* While no kernel runs, nothing is due of blocks and warps.               *)
LEMMA AtRest ==
  ASSUME grid = 0, \A b \in Block, w \in Warp : wpc[b][w] = "off"
  PROVE  /\ Launched /\ Barriers /\ LanesDone /\ WarpsDone /\ BlocksDone
         /\ Maximum
<1>1. \A b \in Block : b >= grid /\ ~(b < grid)
  BY DEF Block
<1> QED
  BY <1>1 DEF Launched, Barriers, LanesDone, WarpsDone, BlocksDone, Maximum

LEMMA GridIsInt ==
  ASSUME NEW win \in Filled
  PROVE  Grid(win) \in Int
<1>1. win.hi - win.lo + BlockDim - 1 \in Nat
  BY WindowsAre, Sizes
<1>2. BlocksFor(win) \in Nat
  BY <1>1, Sizes DEF BlocksFor
<1>3. INT \in Nat \ {0} /\ MaxBlocks \in Nat
  BY GpuAssumption
<1>4. BlocksFor(win) % (2 * INT) \in Nat
  BY <1>2, <1>3
<1>5. CutOff(win) \in Int
  BY <1>3, <1>4 DEF CutOff
<1> QED
  BY <1>3, <1>5 DEF Grid

LEMMA InitIInv == Init => IInv
<1> SUFFICES ASSUME Init PROVE IInv
  OBVIOUS
<1>1. grid = 0 /\ result = NoResult /\ window = NoWindow
      /\ allocated_blocks = 0 /\ best_and_bid = <<0, 0>>
      /\ out = [b \in Block |-> Unwritten]
      /\ wpc = [b \in Block |-> [w \in Warp |-> "off"]]
      /\ found = [b \in Block |-> [w \in Warp |-> [l \in Lane |-> Unwritten]]]
      /\ shared = [b \in Block |-> [w \in Warp |-> Unwritten]]
  BY DEF Init, AllWarps
<1>2. \A b \in Block, w \in Warp : wpc[b][w] = "off"
  BY <1>1
<1>3. TypeOK
  <2>1. /\ window \in [seed : Nat, lo : Nat, hi : Nat]
        /\ grid \in 0 .. MaxBlocks
        /\ allocated_blocks \in 0 .. MaxBlocks /\ grid <= allocated_blocks
    BY <1>1, Sizes DEF NoWindow
  <2>2. best_and_bid \in (0 .. 25) \X Block
    BY <1>1, Sizes
  <2>3. /\ out \in [Block -> Candidate]
        /\ shared \in [Block -> [Warp -> Candidate]]
        /\ found \in [Block -> [Warp -> [Lane -> Candidate]]]
        /\ wpc \in [Block -> [Warp -> At]]
    BY <1>1, UnwrittenIsCandidate DEF At
  <2> QED
    BY <2>1, <2>2, <2>3 DEF TypeOK, At
<1>4. Answer
  BY <1>1 DEF Answer, Returned, IndexInWindow, BestOfWindow, ScoreReplays
<1> QED
  BY <1>1, <1>2, <1>3, <1>4, AtRest DEF IInv

LEMMA LaunchStep ==
  ASSUME IInv, NEW win \in Filled, Launch(win)
  PROVE  IInv'
<1>1. /\ grid = 0 /\ Grid(win) > 0 /\ window' = win /\ grid' = Grid(win)
      /\ best_and_bid' = <<0, 0>>
      /\ wpc' = [b \in Block |-> [w \in Warp |->
                   IF b < Grid(win) THEN "shuffle" ELSE "off"]]
      /\ found' = found /\ shared' = shared /\ result' = result
  BY DEF Launch, Cleared
<1>2. Grid(win) \in 1 .. MaxBlocks
  BY <1>1, BlocksBeginInWindow
<1>3. \A b \in Block, w \in Warp :
        wpc'[b][w] = IF b < grid' THEN "shuffle" ELSE "off"
  BY <1>1
<1>4. \A b \in Block : b \in Int /\ (b >= grid' <=> ~(b < grid'))
  BY <1>1, <1>2 DEF Block
<1>5. TypeOK'
  <2>1. window' \in [seed : Nat, lo : Nat, hi : Nat]
    BY <1>1, WindowsAre
  <2>2. /\ grid' \in 0 .. MaxBlocks /\ allocated_blocks' \in 0 .. MaxBlocks
        /\ grid' <= allocated_blocks'
    <3>1. allocated_blocks \in 0 .. MaxBlocks /\ MaxBlocks \in Nat
      BY Sizes DEF IInv, TypeOK
    <3>2. allocated_blocks' = IF Grid(win) > allocated_blocks THEN Grid(win)
                              ELSE allocated_blocks
      BY DEF Launch
    <3> QED
      BY <1>1, <1>2, <3>1, <3>2
  <2>3. best_and_bid' \in (0 .. 25) \X Block
    BY <1>1, Sizes
  <2>4. out' \in [Block -> Candidate]
    <3>1. out \in [Block -> Candidate]
      BY DEF IInv, TypeOK
    <3>2. out' = out \/ out' = [b \in Block |-> Unwritten]
      BY DEF Launch
    <3> QED
      BY <3>1, <3>2, UnwrittenIsCandidate
  <2>5. wpc' \in [Block -> [Warp -> At]]
    BY <1>1 DEF At
  <2>6. /\ shared' \in [Block -> [Warp -> Candidate]]
        /\ found' \in [Block -> [Warp -> [Lane -> Candidate]]]
    BY <1>1 DEF IInv, TypeOK
  <2> QED
    BY <2>1, <2>2, <2>3, <2>4, <2>5, <2>6 DEF TypeOK, At
<1>6. Launched'
  BY <1>1 DEF Launched
<1>7. Barriers'
  <2>1. ASSUME NEW b \in Block, NEW w \in Warp
        PROVE  IF b >= grid' THEN wpc'[b][w] = "off"
               ELSE wpc'[b][w] = "shuffle" /\ wpc'[b][0] = "shuffle"
    BY <1>3, <1>4, Sizes
  <2> QED
    BY <2>1 DEF Barriers
<1>8. LanesDone' /\ WarpsDone' /\ BlocksDone'
  BY <1>3, Sizes DEF LanesDone, WarpsDone, BlocksDone
<1>9. Maximum'
  <2>1. \A b \in Block : b < grid' => wpc'[b][0] # "off"
    BY <1>3, Sizes
  <2>2. \A b \in Block : ~Left(b)'
    BY <2>1 DEF Left
  <2> QED
    BY <1>1, <2>2 DEF Maximum
<1>10. Answer'
  <2>1. grid' # 0
    BY <1>1, <1>2
  <2> QED
    BY <2>1 DEF Answer, Returned, IndexInWindow, BestOfWindow, ScoreReplays
<1> QED
  BY <1>5, <1>6, <1>7, <1>8, <1>9, <1>10 DEF IInv

LEMMA ReturnEmptyStep ==
  ASSUME IInv, NEW win \in Windows, ReturnEmpty(win)
  PROVE  IInv'
<1>1. /\ grid = 0 /\ win \notin Filled /\ window' = win
      /\ UNCHANGED <<grid, allocated_blocks, best_and_bid, out, wpc, found,
                     shared>>
  BY DEF ReturnEmpty, device
<1>2. TypeOK'
  <2>1. window' \in [seed : Nat, lo : Nat, hi : Nat]
    BY <1>1, GpuAssumption
  <2> QED
    BY <1>1, <2>1 DEF IInv, TypeOK
<1>3. Answer'
  <2>1. ~Returned'
    BY <1>1 DEF Returned, Filled
  <2> QED
    BY <2>1 DEF Answer, IndexInWindow, BestOfWindow, ScoreReplays
<1>4. \A b \in Block, w \in Warp : wpc'[b][w] = "off"
  <2>1. \A b \in Block : b >= grid
    BY <1>1 DEF Block
  <2> QED
    BY <1>1, <2>1 DEF IInv, Barriers
<1>5. /\ Launched' /\ Barriers' /\ LanesDone' /\ WarpsDone' /\ BlocksDone'
      /\ Maximum'
  <2>1. \A b \in Block : b >= grid' /\ ~(b < grid')
    BY <1>1 DEF Block
  <2> QED
    BY <1>1, <1>4, <2>1 DEF Launched, Barriers, LanesDone, WarpsDone,
         BlocksDone, Maximum
<1> QED
  BY <1>2, <1>3, <1>5 DEF IInv

LEMMA LaunchRefusedStep ==
  ASSUME IInv, NEW win \in Filled, LaunchRefused(win)
  PROVE  IInv'
<1>1. /\ grid = 0 /\ grid' = 0 /\ Grid(win) <= 0 /\ window' = win
      /\ best_and_bid' \in {best_and_bid, <<0, 0>>}
      /\ allocated_blocks' = allocated_blocks /\ out' = out /\ wpc' = wpc
      /\ found' = found /\ shared' = shared
  BY DEF LaunchRefused, Cleared
<1>2. \A b \in Block, w \in Warp : wpc'[b][w] = "off"
  <2>1. \A b \in Block : b >= grid
    BY <1>1 DEF Block
  <2> QED
    BY <1>1, <2>1 DEF IInv, Barriers
<1>3. TypeOK'
  <2>1. window' \in [seed : Nat, lo : Nat, hi : Nat]
    BY <1>1, WindowsAre
  <2>2. best_and_bid' \in (0 .. 25) \X Block
    <3>1. best_and_bid \in (0 .. 25) \X Block
      BY DEF IInv, TypeOK
    <3>2. <<0, 0>> \in (0 .. 25) \X Block
      BY Sizes
    <3> QED
      BY <1>1, <3>1, <3>2
  <2>3. /\ grid' \in 0 .. MaxBlocks /\ allocated_blocks' \in 0 .. MaxBlocks
        /\ grid' <= allocated_blocks' /\ out' \in [Block -> Candidate]
        /\ shared' \in [Block -> [Warp -> Candidate]]
        /\ found' \in [Block -> [Warp -> [Lane -> Candidate]]]
        /\ wpc' \in [Block -> [Warp -> At]]
    BY <1>1 DEF IInv, TypeOK, At
  <2> QED
    BY <2>1, <2>2, <2>3 DEF TypeOK, At
<1>4. Answer'
  <2>1. ~(Grid(window') > 0)
    BY <1>1, GridIsInt
  <2>2. ~Returned'
    BY <2>1 DEF Returned, Grid, CutOff, BlocksFor
  <2> QED
    BY <2>2 DEF Answer, IndexInWindow, BestOfWindow, ScoreReplays
<1>5. /\ Launched' /\ Barriers' /\ LanesDone' /\ WarpsDone' /\ BlocksDone'
      /\ Maximum'
  <2>1. \A b \in Block : b >= grid' /\ ~(b < grid')
    BY <1>1 DEF Block
  <2> QED
    BY <1>1, <1>2, <2>1 DEF Launched, Barriers, LanesDone, WarpsDone,
         BlocksDone, Maximum
<1> QED
  BY <1>3, <1>4, <1>5 DEF IInv
(* What was read back is the result of the block with the highest score.   *)
LEMMA ReadBackStep ==
  ASSUME IInv, ReadBack
  PROVE  IInv'
<1>1. /\ grid > 0 /\ \A b \in 0 .. grid - 1 : wpc[b][0] = "off"
      /\ grid' = 0 /\ window' = window
      /\ allocated_blocks' = allocated_blocks /\ out' = out
      /\ best_and_bid' = best_and_bid
      /\ wpc' = [b \in Block |-> [w \in Warp |-> "off"]]
      /\ found' = [b \in Block |-> [w \in Warp |-> [l \in Lane |-> Unwritten]]]
      /\ shared' = [b \in Block |-> [w \in Warp |-> Unwritten]]
  BY DEF ReadBack, AllWarps, device
<1> DEFINE top == best_and_bid[2]
           r == out[top]
<1>2. result' = [best_correct |-> best_and_bid[1], best_index |-> r.best_i,
                 best_arr |-> r.best_arr]
  BY DEF ReadBack
<1>3. /\ window \in Filled /\ grid = Grid(window) /\ grid \in 1 .. MaxBlocks
      /\ \A b \in 0 .. grid - 1 :
           window.lo + ThreadId(b, 0, 0) \in window.lo .. window.hi - 1
  <2>1. window \in Filled /\ grid = Grid(window)
    BY <1>1 DEF IInv, Launched
  <2> QED
    BY <1>1, <2>1, BlocksBeginInWindow
<1>4. \A b \in 0 .. grid - 1 : b \in Block /\ Left(b)
                              /\ BlockDone(out[b], b, window, grid)
  <2>1. \A b \in 0 .. grid - 1 : b \in Block /\ b < grid
    <3>1. grid \in 1 .. MaxBlocks /\ MaxBlocks \in Nat
      BY <1>3, Sizes
    <3> QED
      BY <3>1 DEF Block
  <2> QED
    BY <1>1, <2>1 DEF IInv, BlocksDone, Left
<1>5. \A b \in 0 .. grid - 1 : /\ out[b].best_c \in 0 .. 25
                              /\ out[b].best_c <= best_and_bid[1]
  <2>1. \A b \in 0 .. grid - 1 : out[b].best_c \in 0 .. 25
    BY <1>4, Scores DEF BlockDone
  <2>2. \A b \in 0 .. grid - 1 : out[b].best_c <= best_and_bid[1]
    BY <1>1, <1>4 DEF IInv, Maximum
  <2> QED
    BY <2>1, <2>2
<1>6. /\ top \in 0 .. grid - 1 /\ r.best_c = best_and_bid[1]
      /\ best_and_bid[1] \in 0 .. 25
  <2>1. best_and_bid[1] \in 0 .. 25 /\ top \in Block
    BY DEF IInv, TypeOK
  <2>2. CASE best_and_bid = <<0, 0>>
    <3>1. top = 0 /\ best_and_bid[1] = 0 /\ 0 \in 0 .. grid - 1
      BY <1>3, <2>2
    <3> QED
      BY <1>5, <3>1
  <2>3. CASE Left(top) /\ r.best_c = best_and_bid[1]
    BY <1>3, <2>1, <2>3 DEF Left, Block
  <2> QED
    BY <1>1, <2>2, <2>3 DEF IInv, Maximum
<1>7. /\ BlockDone(r, top, window, grid) /\ Sound(r, window)
      /\ Starts(r, ThreadId(top, 0, 0), window)
  BY <1>4, <1>6 DEF BlockDone
<1>8. /\ result'.best_correct = r.best_c /\ result'.best_index = r.best_i
      /\ result'.best_arr = r.best_arr /\ r.best_c \in 0 .. 25
  BY <1>2, <1>6
<1> HIDE DEF top, r
<1>9. /\ r.best_i \in window.lo .. window.hi - 1
      /\ r.best_c > 0 => /\ r.best_c = FixedPoints(window.seed, r.best_i)
                         /\ r.best_arr = <<window.seed, r.best_i>>
  <2>1. CASE r.best_c > 0
    BY <1>7, <2>1 DEF Sound
  <2>2. CASE r.best_c = 0
    <3>1. r.best_i = window.lo + ThreadId(top, 0, 0)
      BY <1>7, <2>2 DEF Starts
    <3> QED
      BY <1>3, <1>6, <2>2, <3>1
  <2> QED
    BY <1>8, <2>1, <2>2
<1>10. \A x \in window.lo .. window.hi - 1 :
         FixedPoints(window.seed, x) <= r.best_c
  <2> SUFFICES ASSUME NEW x \in window.lo .. window.hi - 1
               PROVE  FixedPoints(window.seed, x) <= r.best_c
    OBVIOUS
  <2>1. PICK b \in 0 .. grid - 1, w \in Warp, l \in Lane :
          x \in Seen(ThreadId(b, w, l), window, grid)
    BY <1>3, EveryIndexIsSeen
  <2>2. FixedPoints(window.seed, x) <= out[b].best_c
    BY <1>4, <2>1 DEF BlockDone, Beats
  <2>3. FixedPoints(window.seed, x) \in 0 .. 25
    BY <1>3, WindowsAre
  <2>4. out[b].best_c <= r.best_c /\ out[b].best_c \in 0 .. 25
    BY <1>5, <1>6
  <2> QED
    BY <1>8, <2>2, <2>3, <2>4
<1>11. \E x \in window.lo .. window.hi - 1 :
         r.best_c = FixedPoints(window.seed, x)
  <2>1. CASE r.best_c > 0
    BY <1>9, <2>1
  <2>2. CASE r.best_c = 0
    <3>1. FixedPoints(window.seed, r.best_i) <= 0
      BY <1>9, <1>10, <2>2
    <3>2. FixedPoints(window.seed, r.best_i) \in 0 .. 25
      BY <1>3, <1>9, WindowsAre
    <3>3. FixedPoints(window.seed, r.best_i) = 0
      BY <3>1, <3>2
    <3> QED
      BY <1>9, <2>2, <3>3
  <2> QED
    BY <1>8, <2>1, <2>2
<1>12. Answer'
  <2>1. IndexInWindow'
    BY <1>1, <1>8, <1>9 DEF IndexInWindow, Window
  <2>2. ScoreReplays'
    BY <1>1, <1>8, <1>9 DEF ScoreReplays
  <2>3. \A x \in window.lo .. window.hi - 1 :
          r.best_c >= FixedPoints(window.seed, x)
    <3>1. \A x \in window.lo .. window.hi - 1 :
            FixedPoints(window.seed, x) \in 0 .. 25
      BY <1>3, WindowsAre
    <3> QED
      BY <1>8, <1>10, <3>1
  <2>4. BestOfWindow'
    BY <1>1, <1>8, <1>11, <2>3 DEF BestOfWindow, Window
  <2> QED
    BY <2>1, <2>2, <2>4 DEF Answer
<1>13. TypeOK'
  <2>1. /\ window' \in [seed : Nat, lo : Nat, hi : Nat]
        /\ grid' \in 0 .. MaxBlocks /\ allocated_blocks' \in 0 .. MaxBlocks
        /\ grid' <= allocated_blocks' /\ out' \in [Block -> Candidate]
        /\ best_and_bid' \in (0 .. 25) \X Block
    BY <1>1, Sizes DEF IInv, TypeOK
  <2>2. /\ shared' \in [Block -> [Warp -> Candidate]]
        /\ found' \in [Block -> [Warp -> [Lane -> Candidate]]]
        /\ wpc' \in [Block -> [Warp -> At]]
    BY <1>1, UnwrittenIsCandidate DEF At
  <2> QED
    BY <2>1, <2>2 DEF TypeOK, At
<1>14. /\ Launched' /\ Barriers' /\ LanesDone' /\ WarpsDone' /\ BlocksDone'
       /\ Maximum'
  <2>1. \A b \in Block : b >= grid' /\ ~(b < grid')
    BY <1>1 DEF Block
  <2>2. \A b \in Block, w \in Warp : wpc'[b][w] = "off"
    BY <1>1
  <2> QED
    BY <1>1, <2>1, <2>2 DEF Launched, Barriers, LanesDone, WarpsDone,
         BlocksDone, Maximum
<1> QED
  BY <1>12, <1>13, <1>14 DEF IInv
-----------------------------------------------------------------------------
(* The steps of the kernel.                                                *)

(* A kernel's steps leave the call alone.                                  *)
LEMMA NoAnswerYet ==
  ASSUME grid > 0, grid' = grid, grid \in Nat
  PROVE  Answer'
<1>1. grid' # 0
  OBVIOUS
<1> QED
  BY <1>1 DEF Answer, Returned, IndexInWindow, BestOfWindow, ScoreReplays

(* A warp that is not off belongs to the grid.                             *)
LEMMA InTheGrid ==
  ASSUME IInv, NEW b \in Block, NEW w \in Warp, wpc[b][w] # "off"
  PROVE  b < grid /\ grid > 0 /\ grid \in Nat /\ b \in Nat
         /\ window \in Filled
<1>1. b \in Nat /\ grid \in Nat
  BY DEF IInv, TypeOK, Block
<1>2. ~(b >= grid)
  BY DEF IInv, Barriers
<1> QED
  BY <1>1, <1>2 DEF IInv, Launched

LEMMA ShuffleStep ==
  ASSUME IInv, NEW b \in Block, NEW w \in Warp, Shuffle(b, w)
  PROVE  IInv'
<1> DEFINE regs == [l \in Lane |-> ThreadBest(ThreadId(b, w, l))]
<1>1. /\ wpc[b][w] = "shuffle"
      /\ found' = [found EXCEPT ![b][w] = regs]
      /\ shared' = [shared EXCEPT ![b] = [v \in Warp |-> Unwritten]]
      /\ wpc' = [wpc EXCEPT ![b][w] = "reduce"]
      /\ window' = window /\ grid' = grid /\ result' = result
      /\ allocated_blocks' = allocated_blocks /\ out' = out
      /\ best_and_bid' = best_and_bid
  BY DEF Shuffle, device
<1>2. /\ b < grid /\ grid > 0 /\ grid \in Nat /\ b \in Nat
      /\ window \in Filled
  BY <1>1, InTheGrid
<1>3. \A l \in Lane :
        ThreadDone(regs[l], ThreadId(b, w, l), window, grid)
        /\ regs[l] \in Candidate
  <2> SUFFICES ASSUME NEW l \in Lane
               PROVE  ThreadDone(ThreadBest(ThreadId(b, w, l)),
                                 ThreadId(b, w, l), window, grid)
                      /\ ThreadBest(ThreadId(b, w, l)) \in Candidate
    OBVIOUS
  <2>1. ThreadDone(ThreadBest(ThreadId(b, w, l)), ThreadId(b, w, l), window,
                   grid)
    BY <1>2, ThreadIds, ThreadFindsBest
  <2> QED
    BY <2>1 DEF ThreadDone, Sound
<1>4. regs \in [Lane -> Candidate]
  BY <1>3
<1> HIDE DEF regs
<1>5. /\ wpc \in [Block -> [Warp -> At]]
      /\ found \in [Block -> [Warp -> [Lane -> Candidate]]]
      /\ shared \in [Block -> [Warp -> Candidate]]
  BY DEF IInv, TypeOK, At
<1>6. \A c \in Block, v \in Warp :
        /\ wpc'[c][v] = IF c = b /\ v = w THEN "reduce" ELSE wpc[c][v]
        /\ found'[c][v] = IF c = b /\ v = w THEN regs ELSE found[c][v]
        /\ c # b => shared'[c] = shared[c]
  BY <1>1, <1>5
<1>7. ~AllShuffled(b)
  BY <1>1 DEF AllShuffled
<1>8. \A v \in Warp : wpc[b][v] \notin {"published", "off"}
  BY <1>2, <1>7 DEF IInv, Barriers
<1>9. \A v \in Warp : wpc'[b][v] \notin {"published", "off"}
  BY <1>6, <1>8
<1>10. \A c \in Block : AllShuffled(c) => AllShuffled(c)'
  BY <1>6 DEF AllShuffled
<1>11. TypeOK'
  <2>1. wpc' \in [Block -> [Warp -> At]]
    BY <1>1, <1>5 DEF At
  <2>2. found' \in [Block -> [Warp -> [Lane -> Candidate]]]
    BY <1>1, <1>4, <1>5
  <2>3. shared' \in [Block -> [Warp -> Candidate]]
    <3>1. [v \in Warp |-> Unwritten] \in [Warp -> Candidate]
      BY UnwrittenIsCandidate
    <3> QED
      BY <1>1, <1>5, <3>1
  <2>4. /\ window' \in [seed : Nat, lo : Nat, hi : Nat]
        /\ grid' \in 0 .. MaxBlocks /\ allocated_blocks' \in 0 .. MaxBlocks
        /\ grid' <= allocated_blocks' /\ out' \in [Block -> Candidate]
        /\ best_and_bid' \in (0 .. 25) \X Block
    BY <1>1 DEF IInv, TypeOK
  <2> QED
    BY <2>1, <2>2, <2>3, <2>4 DEF TypeOK, At
<1>12. Launched'
  BY <1>1 DEF IInv, Launched, Grid, CutOff, BlocksFor
<1>13. Barriers'
  <2> SUFFICES ASSUME NEW c \in Block, NEW v \in Warp
               PROVE  (IF c >= grid THEN wpc[c][v] = "off"
                       ELSE /\ v # 0 => wpc[c][v] # "off"
                            /\ wpc[c][v] \in {"published", "off"} => AllShuffled(c)
                            /\ wpc[c][0] = "off" /\ v # 0 => wpc[c][v] = "published")'
    BY DEF Barriers
  <2>1. IF c >= grid THEN wpc[c][v] = "off"
        ELSE /\ v # 0 => wpc[c][v] # "off"
             /\ wpc[c][v] \in {"published", "off"} => AllShuffled(c)
             /\ wpc[c][0] = "off" /\ v # 0 => wpc[c][v] = "published"
    BY DEF IInv, Barriers
  <2>2. CASE c = b
    BY <1>1, <1>2, <1>9, <2>2, Sizes
  <2>3. CASE c # b
    BY <1>1, <1>6, <1>10, <2>1, <2>3, Sizes
  <2> QED
    BY <2>2, <2>3
<1>14. LanesDone'
  <2> SUFFICES ASSUME NEW c \in Block, NEW v \in Warp, c < grid,
                      wpc'[c][v] # "shuffle", NEW l \in Lane
               PROVE  ThreadDone(found'[c][v][l], ThreadId(c, v, l), window, grid)
    BY <1>1 DEF LanesDone
  <2>1. CASE c = b /\ v = w
    BY <1>3, <1>6, <2>1
  <2>2. CASE ~(c = b /\ v = w)
    BY <1>6, <2>2 DEF IInv, LanesDone
  <2> QED
    BY <2>1, <2>2
<1>15. WarpsDone'
  <2> SUFFICES ASSUME NEW c \in Block, NEW v \in Warp, c < grid,
                      wpc'[c][v] \in {"published", "off"}
               PROVE  WarpDone(shared'[c][v], c, v, window, grid)
    BY <1>1 DEF WarpsDone
  <2>1. c # b
    BY <1>9
  <2> QED
    BY <1>6, <2>1 DEF IInv, WarpsDone
<1>16. \A c \in Block : Left(c)' <=> Left(c)
  BY <1>1, <1>6, <1>8, <1>9, Sizes DEF Left
<1>17. BlocksDone'
  BY <1>1, <1>16 DEF IInv, BlocksDone, Left
<1>18. Maximum'
  <2>1. best_and_bid[2] \in Block
    BY DEF IInv, TypeOK
  <2> QED
    BY <1>1, <1>16, <2>1 DEF IInv, Maximum
<1>19. Answer'
  BY <1>1, <1>2, NoAnswerYet
<1> QED
  BY <1>11, <1>12, <1>13, <1>14, <1>15, <1>17, <1>18, <1>19 DEF IInv
LEMMA PublishStep ==
  ASSUME IInv, NEW b \in Block, NEW w \in Warp, Publish(b, w)
  PROVE  IInv'
<1> DEFINE best == Reduced(found[b][w], WarpOffsets)
<1>1. /\ wpc[b][w] = "reduce" /\ AllShuffled(b)
      /\ shared' = [shared EXCEPT ![b][w] = best]
      /\ wpc' = [wpc EXCEPT ![b][w] = "published"]
      /\ window' = window /\ grid' = grid /\ result' = result
      /\ allocated_blocks' = allocated_blocks /\ out' = out
      /\ best_and_bid' = best_and_bid /\ found' = found
  BY DEF Publish, device
<1>2. /\ b < grid /\ grid > 0 /\ grid \in Nat /\ b \in Nat
      /\ window \in Filled
  BY <1>1, InTheGrid
<1>3. /\ wpc \in [Block -> [Warp -> At]]
      /\ found \in [Block -> [Warp -> [Lane -> Candidate]]]
      /\ shared \in [Block -> [Warp -> Candidate]]
  BY DEF IInv, TypeOK, At
<1>4. WarpDone(best, b, w, window, grid)
  <2>1. DOMAIN found[b][w] = Lane
    BY <1>3
  <2>2. \A l \in Lane :
          ThreadDone(found[b][w][l], ThreadId(b, w, l), window, grid)
    BY <1>1, <1>2 DEF IInv, LanesDone
  <2> QED
    BY <1>2, <2>1, <2>2, WarpFindsBest
<1>5. best \in Candidate
  BY <1>4 DEF WarpDone, Sound
<1> HIDE DEF best
<1>6. \A c \in Block, v \in Warp :
        /\ wpc'[c][v] = IF c = b /\ v = w THEN "published" ELSE wpc[c][v]
        /\ shared'[c][v] = IF c = b /\ v = w THEN best ELSE shared[c][v]
  BY <1>1, <1>3
<1>7. \A c \in Block : AllShuffled(c) => AllShuffled(c)'
  BY <1>6 DEF AllShuffled
<1>8. AllShuffled(b)'
  BY <1>1, <1>7
<1>9. w # 0 => wpc[b][0] # "off"
  BY <1>1, <1>2 DEF IInv, Barriers
<1>10. TypeOK'
  <2>1. wpc' \in [Block -> [Warp -> At]]
    BY <1>1, <1>3 DEF At
  <2>2. shared' \in [Block -> [Warp -> Candidate]]
    BY <1>1, <1>3, <1>5
  <2>3. /\ window' \in [seed : Nat, lo : Nat, hi : Nat]
        /\ grid' \in 0 .. MaxBlocks /\ allocated_blocks' \in 0 .. MaxBlocks
        /\ grid' <= allocated_blocks' /\ out' \in [Block -> Candidate]
        /\ best_and_bid' \in (0 .. 25) \X Block
        /\ found' \in [Block -> [Warp -> [Lane -> Candidate]]]
    BY <1>1 DEF IInv, TypeOK
  <2> QED
    BY <2>1, <2>2, <2>3 DEF TypeOK, At
<1>11. Launched'
  BY <1>1 DEF IInv, Launched, Grid, CutOff, BlocksFor
<1>12. Barriers'
  <2> SUFFICES ASSUME NEW c \in Block, NEW v \in Warp
               PROVE  (IF c >= grid THEN wpc[c][v] = "off"
                       ELSE /\ v # 0 => wpc[c][v] # "off"
                            /\ wpc[c][v] \in {"published", "off"} => AllShuffled(c)
                            /\ wpc[c][0] = "off" /\ v # 0 => wpc[c][v] = "published")'
    BY DEF Barriers
  <2>1. IF c >= grid THEN wpc[c][v] = "off"
        ELSE /\ v # 0 => wpc[c][v] # "off"
             /\ wpc[c][v] \in {"published", "off"} => AllShuffled(c)
             /\ wpc[c][0] = "off" /\ v # 0 => wpc[c][v] = "published"
    BY DEF IInv, Barriers
  <2>2. CASE c = b
    BY <1>1, <1>2, <1>6, <1>8, <1>9, <2>1, <2>2, Sizes
  <2>3. CASE c # b
    BY <1>1, <1>6, <1>7, <2>1, <2>3, Sizes
  <2> QED
    BY <2>2, <2>3
<1>13. LanesDone'
  <2> SUFFICES ASSUME NEW c \in Block, NEW v \in Warp, c < grid,
                      wpc'[c][v] # "shuffle", NEW l \in Lane
               PROVE  ThreadDone(found[c][v][l], ThreadId(c, v, l), window, grid)
    BY <1>1 DEF LanesDone
  <2>1. wpc[c][v] # "shuffle"
    BY <1>1, <1>6
  <2> QED
    BY <2>1 DEF IInv, LanesDone
<1>14. WarpsDone'
  <2> SUFFICES ASSUME NEW c \in Block, NEW v \in Warp, c < grid,
                      wpc'[c][v] \in {"published", "off"}
               PROVE  WarpDone(shared'[c][v], c, v, window, grid)
    BY <1>1 DEF WarpsDone
  <2>1. CASE c = b /\ v = w
    BY <1>4, <1>6, <2>1
  <2>2. CASE ~(c = b /\ v = w)
    BY <1>6, <2>2 DEF IInv, WarpsDone
  <2> QED
    BY <2>1, <2>2
<1>15. \A c \in Block : Left(c)' <=> Left(c)
  BY <1>1, <1>6, Sizes DEF Left
<1>16. BlocksDone'
  BY <1>1, <1>15 DEF IInv, BlocksDone, Left
<1>17. Maximum'
  <2>1. best_and_bid[2] \in Block
    BY DEF IInv, TypeOK
  <2> QED
    BY <1>1, <1>15, <2>1 DEF IInv, Maximum
<1>18. Answer'
  BY <1>1, <1>2, NoAnswerYet
<1> QED
  BY <1>10, <1>11, <1>12, <1>13, <1>14, <1>16, <1>17, <1>18 DEF IInv

LEMMA FinishBlockStep ==
  ASSUME IInv, NEW b \in Block, FinishBlock(b)
  PROVE  IInv'
<1> DEFINE best == Reduced(shared[b], BlockOffsets)
           higher == \/ best.best_c > best_and_bid[1]
                     \/ best.best_c = best_and_bid[1] /\ b > best_and_bid[2]
<1>1. /\ wpc[b][0] = "published" /\ \A v \in Warp : wpc[b][v] = "published"
      /\ out' = [out EXCEPT ![b] = best]
      /\ best_and_bid' = IF higher THEN <<best.best_c, b>> ELSE best_and_bid
      /\ wpc' = [wpc EXCEPT ![b][0] = "off"]
      /\ window' = window /\ grid' = grid /\ result' = result
      /\ allocated_blocks' = allocated_blocks
      /\ found' = found /\ shared' = shared
  BY DEF FinishBlock, AllPublished
<1>2. /\ b < grid /\ grid > 0 /\ grid \in Nat /\ b \in Nat
      /\ window \in Filled /\ 0 \in Warp
  BY <1>1, InTheGrid, Sizes
<1>3. /\ wpc \in [Block -> [Warp -> At]] /\ out \in [Block -> Candidate]
      /\ shared \in [Block -> [Warp -> Candidate]]
  BY DEF IInv, TypeOK, At
<1>4. BlockDone(best, b, window, grid)
  <2>1. DOMAIN shared[b] = Warp
    BY <1>3
  <2>2. \A v \in Warp : WarpDone(shared[b][v], b, v, window, grid)
    BY <1>1, <1>2 DEF IInv, WarpsDone
  <2> QED
    BY <1>2, <2>1, <2>2, BlockFindsBest
<1>5. best \in Candidate /\ best.best_c \in 0 .. 25
  BY <1>4, Scores DEF BlockDone
<1> HIDE DEF best
<1>6. \A c \in Block, v \in Warp :
        wpc'[c][v] = IF c = b /\ v = 0 THEN "off" ELSE wpc[c][v]
  BY <1>1, <1>2, <1>3
<1>7. \A c \in Block : out'[c] = IF c = b THEN best ELSE out[c]
  BY <1>1, <1>3
<1>8. \A c \in Block : AllShuffled(c) => AllShuffled(c)'
  BY <1>6 DEF AllShuffled
<1>9. /\ best_and_bid[1] \in 0 .. 25 /\ best_and_bid[2] \in Block
      /\ best_and_bid = <<best_and_bid[1], best_and_bid[2]>>
  BY DEF IInv, TypeOK
<1>10. TypeOK'
  <2>1. wpc' \in [Block -> [Warp -> At]]
    BY <1>1, <1>2, <1>3 DEF At
  <2>2. out' \in [Block -> Candidate]
    BY <1>1, <1>3, <1>5
  <2>3. best_and_bid' \in (0 .. 25) \X Block
    <3>1. best_and_bid \in (0 .. 25) \X Block
      BY DEF IInv, TypeOK
    <3>2. <<best.best_c, b>> \in (0 .. 25) \X Block
      BY <1>5
    <3> QED
      BY <1>1, <3>1, <3>2
  <2>4. /\ window' \in [seed : Nat, lo : Nat, hi : Nat]
        /\ grid' \in 0 .. MaxBlocks /\ allocated_blocks' \in 0 .. MaxBlocks
        /\ grid' <= allocated_blocks'
        /\ shared' \in [Block -> [Warp -> Candidate]]
        /\ found' \in [Block -> [Warp -> [Lane -> Candidate]]]
    BY <1>1 DEF IInv, TypeOK
  <2> QED
    BY <2>1, <2>2, <2>3, <2>4 DEF TypeOK, At
<1>11. Launched'
  BY <1>1 DEF IInv, Launched, Grid, CutOff, BlocksFor
<1>12. Barriers'
  <2> SUFFICES ASSUME NEW c \in Block, NEW v \in Warp
               PROVE  (IF c >= grid THEN wpc[c][v] = "off"
                       ELSE /\ v # 0 => wpc[c][v] # "off"
                            /\ wpc[c][v] \in {"published", "off"} => AllShuffled(c)
                            /\ wpc[c][0] = "off" /\ v # 0 => wpc[c][v] = "published")'
    BY DEF Barriers
  <2>1. IF c >= grid THEN wpc[c][v] = "off"
        ELSE /\ v # 0 => wpc[c][v] # "off"
             /\ wpc[c][v] \in {"published", "off"} => AllShuffled(c)
             /\ wpc[c][0] = "off" /\ v # 0 => wpc[c][v] = "published"
    BY DEF IInv, Barriers
  <2>2. CASE c = b
    <3>1. wpc[b][v] = "published" /\ ~(b >= grid)
      BY <1>1, <1>2
    <3>2. AllShuffled(b)'
      BY <1>8, <2>1, <2>2, <3>1
    <3> QED
      BY <1>1, <1>6, <2>2, <3>1, <3>2
  <2>3. CASE c # b
    BY <1>1, <1>2, <1>6, <1>8, <2>1, <2>3
  <2> QED
    BY <2>2, <2>3
<1>13. LanesDone'
  <2> SUFFICES ASSUME NEW c \in Block, NEW v \in Warp, c < grid,
                      wpc'[c][v] # "shuffle", NEW l \in Lane
               PROVE  ThreadDone(found[c][v][l], ThreadId(c, v, l), window, grid)
    BY <1>1 DEF LanesDone
  <2>1. wpc[c][v] # "shuffle"
    BY <1>1, <1>6
  <2> QED
    BY <2>1 DEF IInv, LanesDone
<1>14. WarpsDone'
  <2> SUFFICES ASSUME NEW c \in Block, NEW v \in Warp, c < grid,
                      wpc'[c][v] \in {"published", "off"}
               PROVE  WarpDone(shared[c][v], c, v, window, grid)
    BY <1>1 DEF WarpsDone
  <2>1. wpc[c][v] \in {"published", "off"}
    BY <1>1, <1>6
  <2> QED
    BY <2>1 DEF IInv, WarpsDone
<1>15. \A c \in Block : Left(c)' <=> Left(c) \/ c = b
  BY <1>1, <1>2, <1>6 DEF Left
<1>16. BlocksDone'
  <2> SUFFICES ASSUME NEW c \in Block, Left(c)'
               PROVE  BlockDone(out'[c], c, window, grid)
    BY <1>1 DEF BlocksDone, Left
  <2>1. CASE c = b
    BY <1>4, <1>7, <2>1
  <2>2. CASE c # b
    <3>1. c < grid /\ wpc[c][0] = "off"
      BY <1>15, <2>2 DEF Left
    <3> QED
      BY <1>7, <2>2, <3>1 DEF IInv, BlocksDone
  <2> QED
    BY <2>1, <2>2
<1>17. Maximum'
  <2>1. /\ \A c \in Block : Left(c) => out[c].best_c <= best_and_bid[1]
        /\ \/ best_and_bid = <<0, 0>>
           \/ /\ Left(best_and_bid[2])
              /\ out[best_and_bid[2]].best_c = best_and_bid[1]
    BY <1>2 DEF IInv, Maximum
  <2>2. \A c \in Block : out[c].best_c \in 0 .. 25
    BY <1>3 DEF Candidate
  <2>3. ~Left(b)
    BY <1>1 DEF Left
  <2>4. CASE higher
    <3>1. best_and_bid'[1] = best.best_c /\ best_and_bid'[2] = b
      BY <1>1, <2>4
    <3>2. \A c \in Block : Left(c)' => out'[c].best_c <= best.best_c
      BY <1>5, <1>7, <1>9, <1>15, <2>1, <2>2, <2>4
    <3>3. Left(b)' /\ out'[b].best_c = best.best_c
      BY <1>7, <1>15
    <3> QED
      BY <3>1, <3>2, <3>3 DEF Maximum
  <2>5. CASE ~higher
    <3>1. best_and_bid' = best_and_bid
      BY <1>1, <2>5
    <3>2. best.best_c <= best_and_bid[1]
      BY <1>5, <1>9, <2>5
    <3>3. \A c \in Block : Left(c)' => out'[c].best_c <= best_and_bid[1]
      BY <1>7, <1>15, <2>1, <3>2
    <3>4. \/ best_and_bid = <<0, 0>>
          \/ \E c \in Block : /\ c = best_and_bid[2] /\ Left(c)'
                             /\ out'[c].best_c = best_and_bid[1]
      <4> SUFFICES ASSUME best_and_bid # <<0, 0>>
                   PROVE  \E c \in Block : /\ c = best_and_bid[2] /\ Left(c)'
                                           /\ out'[c].best_c = best_and_bid[1]
        OBVIOUS
      <4>1. PICK c \in Block : c = best_and_bid[2]
        BY <1>9
      <4>2. Left(c) /\ out[c].best_c = best_and_bid[1] /\ c # b
        BY <2>1, <2>3, <4>1
      <4> QED
        BY <1>7, <1>15, <4>1, <4>2
    <3> QED
      BY <3>1, <3>3, <3>4 DEF Maximum
  <2> QED
    BY <2>4, <2>5
<1>18. Answer'
  BY <1>1, <1>2, NoAnswerYet
<1> QED
  BY <1>10, <1>11, <1>12, <1>13, <1>14, <1>16, <1>17, <1>18 DEF IInv
-----------------------------------------------------------------------------
(* The theorems.                                                           *)

LEMMA StepIInv == IInv /\ [Next]_vars => IInv'
<1> SUFFICES ASSUME IInv, [Next]_vars PROVE IInv'
  OBVIOUS
<1>1. ASSUME NEW win \in Windows,
             ReturnEmpty(win) \/ Launch(win) \/ LaunchRefused(win)
      PROVE  IInv'
  <2>1. CASE ReturnEmpty(win)
    BY <2>1, ReturnEmptyStep
  <2>2. CASE Launch(win) \/ LaunchRefused(win)
    <3>1. win \in Filled
      BY <2>2 DEF Launch, LaunchRefused
    <3> QED
      BY <2>2, <3>1, LaunchStep, LaunchRefusedStep
  <2> QED
    BY <1>1, <2>1, <2>2
<1>2. ASSUME NEW b \in Block, FinishBlock(b)
      PROVE  IInv'
  BY <1>2, FinishBlockStep
<1>3. ASSUME NEW b \in Block, NEW w \in Warp, Shuffle(b, w) \/ Publish(b, w)
      PROVE  IInv'
  BY <1>3, ShuffleStep, PublishStep
<1>4. CASE ReadBack
  BY <1>4, ReadBackStep
<1>5. CASE UNCHANGED vars
  <2> USE <1>5 DEF vars, device
  <2>1. TypeOK' /\ Launched' /\ Maximum'
    BY DEF IInv, TypeOK, Launched, Maximum, Left, Grid, CutOff, BlocksFor, Filled
  <2>2. Barriers'
    BY DEF IInv, Barriers, AllShuffled
  <2>3. LanesDone' /\ WarpsDone' /\ BlocksDone'
    BY DEF IInv, LanesDone, WarpsDone, BlocksDone
  <2>4. Answer'
    BY DEF IInv, Answer, IndexInWindow, BestOfWindow, ScoreReplays, Returned,
           Window, Grid, CutOff, BlocksFor, Filled
  <2> QED
    BY <2>1, <2>2, <2>3, <2>4 DEF IInv
<1> QED
  BY <1>1, <1>2, <1>3, <1>4, <1>5 DEF Next

(* The stages of a reduction are what the invariant says, always.          *)
THEOREM ReductionInvariance == Spec => []IInv
BY InitIInv, StepIInv, PTL DEF Spec

(* What a GPU returns can be reported: the result names an index of the    *)
(* window and replays, and no grid is larger than its buffers.             *)
THEOREM GpuResultsReplay == Spec => []Inv
<1>1. IInv => Inv
  BY DEF IInv, Answer, Inv
<1> QED
  BY <1>1, ReductionInvariance, PTL

(* No shuffle of the window is missed, whatever order warps and blocks     *)
(* finish in and however the rounds of the reductions tie.                 *)
THEOREM GpuMissesNothing == Spec => []BestOfWindow
<1>1. IInv => BestOfWindow
  BY DEF IInv, Answer
<1> QED
  BY <1>1, ReductionInvariance, PTL
=============================================================================
