---------------------------- MODULE ChunksProofs ----------------------------
(***************************************************************************)
(* For every width of the words, size of the board and command line: the   *)
(* three forms of the rejection threshold agree, every position is drawn   *)
(* by equally many words, and arrays, chunks and indices stay what they    *)
(* are meant to be, also when indices wrap round.  The session is the one  *)
(* that the command line asks for; compute_run returns the best of the     *)
(* shuffles of its chunk, each as its definition has it, word by word; and *)
(* a window that is finished was shuffled index by index, each once.       *)
(***************************************************************************)
EXTENDS Chunks, FiniteSetTheorems, WellFoundedInduction, TLAPS

-----------------------------------------------------------------------------
(* Arithmetic of the threshold.                                            *)

LEMMA DivideBy ==
  ASSUME NEW m \in Nat \ {0}, NEW a \in Nat
  PROVE  \E q \in Nat, r \in 0 .. m - 1 :
           a = q * m + r /\ a % m = r /\ a \div m = q
<1> DEFINE q == a \div m
           r == a % m
<1>1. q \in Nat /\ r \in 0 .. m - 1 /\ a = q * m + r
  OBVIOUS
<1> QED
  BY <1>1

LEMMA RemainderBy ==
  ASSUME NEW m \in Nat \ {0}, NEW q \in Nat, NEW r \in 0 .. m - 1
  PROVE  (q * m + r) % m = r
OBVIOUS

(* What all three forms compute: 2^32 mod max.                             *)
LEMMA ThresholdsAgree ==
  ASSUME NEW max \in 1 .. BoardSize
  PROVE  /\ Threshold(max) = WORD % max
         /\ ThresholdOnCuda(max) = WORD % max
         /\ ThresholdOnVulkan(max) = WORD % max
<1>1. max \in Nat \ {0} /\ WORD \in Nat /\ max < WORD
  BY KernelAssumption
<1>2. PICK q \in Nat, r \in 0 .. max - 1 :
        WORD = q * max + r /\ WORD % max = r
  BY <1>1, DivideBy
<1>3. q >= 1
  <2>1. CASE q = 0
    BY <1>1, <1>2, <2>1
  <2> QED
    BY <1>2, <2>1
<1>4. Threshold(max) = r
  <2>1. WORD - max \in 0 .. WORD - 1
    BY <1>1
  <2>2. (WORD - max) % WORD = WORD - max
    BY <1>1, <2>1
  <2>3. WORD - max = (q - 1) * max + r /\ q - 1 \in Nat
    BY <1>1, <1>2, <1>3
  <2>4. ((q - 1) * max + r) % max = r
    BY <1>1, <2>3, RemainderBy
  <2> QED
    BY <2>2, <2>3, <2>4 DEF Threshold, Negated
<1>5. ThresholdOnVulkan(max) = r
  <2>1. CASE r = 0
    <3>1. WORD - 1 = (q - 1) * max + (max - 1) /\ q - 1 \in Nat
      BY <1>1, <1>2, <1>3, <2>1
    <3>2. ((q - 1) * max + (max - 1)) % max = max - 1
      BY <1>1, <3>1, RemainderBy
    <3>3. ((max - 1) + 1) = 1 * max + 0
      BY <1>1
    <3>4. (1 * max + 0) % max = 0
      BY <1>1, RemainderBy
    <3> QED
      BY <2>1, <3>1, <3>2, <3>3, <3>4 DEF ThresholdOnVulkan
  <2>2. CASE r > 0
    <3>1. WORD - 1 = q * max + (r - 1) /\ r - 1 \in 0 .. max - 1
      BY <1>1, <1>2, <2>2
    <3>2. (q * max + (r - 1)) % max = r - 1
      BY <1>1, <3>1, RemainderBy
    <3>3. r % max = r
      BY <1>1, <1>2
    <3> QED
      BY <3>1, <3>2, <3>3 DEF ThresholdOnVulkan
  <2> QED
    BY <1>2, <2>1, <2>2
<1> QED
  BY <1>2, <1>4, <1>5 DEF ThresholdOnCuda

(* The words that draw position j.                                         *)
WordsFor(max, j) == {x \in Words : x >= Threshold(max) /\ x % max = j}

(* They are every max-th word from the first one that is not rejected, so  *)
(* each position has as many as any other.                                 *)
LEMMA PositionsEquallyLikely ==
  ASSUME NEW max \in 1 .. BoardSize, NEW j \in 0 .. max - 1
  PROVE  Cardinality(WordsFor(max, j)) = WORD \div max
<1>1. max \in Nat \ {0} /\ WORD \in Nat
  BY KernelAssumption
<1>2. PICK q \in Nat, r \in 0 .. max - 1 :
        WORD = q * max + r /\ WORD % max = r /\ WORD \div max = q
  BY <1>1, DivideBy
<1>3. Threshold(max) = r
  BY <1>2, ThresholdsAgree
<1> DEFINE d == IF j >= r THEN 0 ELSE 1
           S == 0 .. q - 1
           T == WordsFor(max, j)
           f == [n \in S |-> (n + d) * max + j]
<1>4. ASSUME NEW n \in S
      PROVE  f[n] \in T
  <2>1. n + d \in Nat /\ n + 1 <= q /\ n \in Nat
    BY <1>2
  <2>2. ((n + d) * max + j) % max = j
    BY <1>1, <2>1, RemainderBy
  <2>3. n * max \in Nat /\ (n + 1) * max <= q * max
        /\ (n + 1) * max = n * max + max
    BY <1>1, <1>2, <2>1
  <2>4. (n + d) * max + j \in 0 .. WORD - 1 /\ (n + d) * max + j >= r
    <3>1. CASE j >= r
      <4>1. (n + d) * max = n * max
        BY <3>1, <2>1, <1>1
      <4> QED
        BY <1>1, <1>2, <2>3, <3>1, <4>1
    <3>2. CASE j < r
      <4>1. (n + d) * max = n * max + max
        BY <3>2, <2>1, <2>3, <1>1, <1>2
      <4> QED
        BY <1>1, <1>2, <2>3, <3>2, <4>1
    <3> QED
      BY <1>2, <3>1, <3>2
  <2> QED
    BY <1>3, <2>2, <2>4 DEF WordsFor, Words
<1>5. ASSUME NEW x \in T
      PROVE  \E n \in S : f[n] = x
  <2>1. x \in Nat /\ x < WORD /\ x >= r /\ x % max = j
    BY <1>1, <1>3 DEF WordsFor, Words
  <2>2. PICK p \in Nat, s \in 0 .. max - 1 : x = p * max + s /\ x % max = s
    BY <1>1, <2>1, DivideBy
  <2>3. x = p * max + j
    BY <2>1, <2>2
  <2>4. p < q + d
    <3>1. SUFFICES ASSUME p >= q + d PROVE FALSE
      BY <1>2, <2>2
    <3>2. p * max >= (q + d) * max
      BY <1>1, <1>2, <2>2, <3>1
    <3>3. CASE j >= r
      <4>1. (q + d) * max = q * max
        BY <1>1, <1>2, <3>3
      <4> QED
        BY <1>1, <1>2, <2>1, <2>3, <3>2, <3>3, <4>1
    <3>4. CASE j < r
      <4>1. (q + d) * max = q * max + max
        BY <1>1, <1>2, <3>4
      <4> QED
        BY <1>1, <1>2, <2>1, <2>3, <3>2, <3>4, <4>1
    <3> QED
      BY <1>2, <3>3, <3>4
  <2>5. p >= d
    <3>1. CASE p = 0 /\ j < r
      BY <1>1, <2>1, <2>3, <3>1
    <3> QED
      BY <1>2, <2>2, <3>1
  <2>6. p - d \in S /\ f[p - d] = x
    BY <1>1, <1>2, <2>2, <2>3, <2>4, <2>5
  <2> QED
    BY <2>6
<1>6. ASSUME NEW m \in S, NEW n \in S, f[m] = f[n]
      PROVE  m = n
  <2>1. (m + d) * max = (n + d) * max
    BY <1>1, <1>2, <1>6
  <2>2. (m - n) * max = 0
    BY <1>1, <1>2, <2>1
  <2> QED
    BY <1>1, <1>2, <2>2
<1>7. f \in Bijection(S, T)
  BY <1>4, <1>5, <1>6 DEF Bijection, Injection, Surjection, IsInjective
<1>8. IsFiniteSet(S) /\ Cardinality(S) = q
  <2>1. /\ IsFiniteSet(0 .. q - 1)
        /\ Cardinality(0 .. q - 1) = IF 0 > q - 1 THEN 0 ELSE q - 1 - 0 + 1
    BY <1>2, FS_Interval
  <2> QED
    BY <1>2, <2>1
<1>9. ExistsBijection(S, T)
  BY <1>7 DEF ExistsBijection
<1> QED
  BY <1>2, <1>8, <1>9, FS_Bijection

-----------------------------------------------------------------------------
(* The inductive invariant.                                                *)

Indices == 0 .. UINT64 - 1
Bests ==
  [best_correct : Int, best_index : Int, best_arr : [Position -> Int]]
Calls ==
  [tid : DOMAIN next, lo : Indices, hi : Indices, idx : Indices,
   i : Position, k : Nat, arr : [Position -> 1 .. BoardSize], best : Bests,
   at : {"index", "draw", "return"}]

ReadSoFar ==
  /\ argv \in CommandLines /\ arg \in Nat \ {0}
  /\ phase \in {"options", "serve", "refused", "helped"}
  /\ chunk_size \in Indices /\ num_workers \in 1 .. UINT32 \div 2
  /\ phase # "serve" => call = NoCall
DealtOut ==
  /\ count \in Indices /\ next \in [DOMAIN next -> Indices]
  /\ total_done_all \in Indices
CallSound ==
  call # NoCall =>
    /\ call \in Calls
    /\ {call.arr[p] : p \in Position} = 1 .. BoardSize
    /\ call.lo < count /\ call.hi <= count
IInv == ReadSoFar /\ DealtOut /\ CallSound

(* The generator gives words.                                              *)
GivesWords == \A index \in Indices, k \in Nat : Word(index, k) \in Words

LEMMA Cut == \A n \in Int : AsUint64(n) \in Indices
BY ChunksAssumption DEF AsUint64, Indices

LEMMA PositionIsFinite == IsFiniteSet(Position)
BY FS_Interval, KernelAssumption DEF Position

LEMMA CorrectIsNat == \A arr : Correct(arr) \in Nat
<1> SUFFICES ASSUME NEW arr PROVE Correct(arr) \in Nat
  OBVIOUS
<1> DEFINE Right == {p \in Position : arr[p] = p + 1}
<1>1. IsFiniteSet(Right)
  BY PositionIsFinite, FS_Subset
<1>2. Cardinality(Right) \in Nat
  BY <1>1, FS_CardinalityType
<1> QED
  BY <1>2 DEF Correct

(* A long, an int and a uint64_t are made of a number.                     *)
LEMMA NumbersAreCut ==
  ASSUME NEW word, Parsed[word].number \in Int
  PROVE  /\ strtol(word) \in Int /\ AsInt(strtol(word)) \in Int
         /\ strtoull(word) \in Indices
<1>1. LONG_MAX \in Int /\ UINT64 \in Nat \ {0} /\ UINT32 \in Nat \ {0}
  BY ChunksAssumption DEF LONG_MAX
<1>2. strtol(word) \in Int
  BY <1>1 DEF strtol
<1>3. \A n \in Int : AsInt(n) \in Int
  BY <1>1 DEF AsInt
<1>4. UINT64 - 1 \in Indices
  BY <1>1 DEF Indices
<1> QED
  BY <1>2, <1>3, <1>4, Cut DEF strtoull

(* A number that an int holds stays what it is.                            *)
LEMMA IntIsKept ==
  ASSUME NEW word, Parsed[word].number \in Int, AnIntHolds(Parsed[word].number)
  PROVE  AsInt(strtol(word)) = Parsed[word].number
<1> DEFINE n == Parsed[word].number
           half == UINT32 \div 2
<1>1. n \in Int /\ n >= -half /\ n <= half - 1
  BY ChunksAssumption DEF AnIntHolds
<1>2. /\ UINT32 \in Nat /\ half \in Nat /\ 2 * half <= UINT32
      /\ UINT32 < 2 * half + 2
  BY ChunksAssumption
<1>3. LONG_MAX \in Int /\ half - 1 <= LONG_MAX
  BY ChunksAssumption DEF LONG_MAX
<1> HIDE DEF half
<1>4. strtol(word) = n
  BY <1>1, <1>2, <1>3 DEF strtol
<1> HIDE DEF n
<1>5. AsInt(n) = n
  <2>1. CASE n >= 0
    <3>1. n % UINT32 = n
      BY <1>1, <1>2, <2>1
    <3> QED
      BY <1>1, <1>2, <3>1 DEF AsInt, half
  <2>2. CASE n < 0
    <3>1. n % UINT32 = n + UINT32
      BY <1>1, <1>2, <2>2
    <3> QED
      BY <1>1, <1>2, <3>1, <2>2 DEF AsInt, half
  <2> QED
    BY <1>1, <2>1, <2>2
<1> QED
  BY <1>4, <1>5 DEF n

(* The value of a word of the command line.                                *)
LEMMA ValueIsParsed ==
  ASSUME ReadSoFar, arg <= Len(argv), HasValue
  PROVE  Parsed[Value].number \in Int
<1>1. argv \in Seq(STRING) /\ arg + 1 \in DOMAIN argv
  BY ChunksAssumption DEF ReadSoFar, HasValue
<1>2. Parsed[argv[arg + 1]] \in [number : Int, whole : BOOLEAN]
  BY <1>1, ChunksAssumption DEF ReadSoFar
<1> QED
  BY <1>2 DEF Value

LEMMA SortedIsPermutation ==
  /\ Sorted \in [Position -> 1 .. BoardSize]
  /\ {Sorted[p] : p \in Position} = 1 .. BoardSize
<1>1. Sorted \in [Position -> 1 .. BoardSize]
  BY KernelAssumption DEF Sorted, Position
<1>2. ASSUME NEW v \in 1 .. BoardSize
      PROVE  \E p \in Position : Sorted[p] = v
  <2>1. v - 1 \in Position /\ Sorted[v - 1] = v
    BY KernelAssumption DEF Sorted, Position
  <2> QED
    BY <2>1
<1> QED
  BY <1>1, <1>2

(* A round of the shuffle swaps two elements, or one with itself.          *)
LEMMA SwapKeepsPermutation ==
  ASSUME NEW arr \in [Position -> 1 .. BoardSize],
         {arr[p] : p \in Position} = 1 .. BoardSize,
         NEW i \in Position, NEW x \in Words
  PROVE  /\ Swap(arr, i, x) \in [Position -> 1 .. BoardSize]
         /\ {Swap(arr, i, x)[p] : p \in Position} = 1 .. BoardSize
<1> DEFINE j == x % (i + 1)
           new == Swap(arr, i, x)
<1>1. j \in Position
  BY KernelAssumption DEF Position, Words
<1>2. new = [arr EXCEPT ![i] = arr[j], ![j] = arr[i]]
  BY DEF Swap
<1> HIDE DEF j, new
<1>3. new \in [Position -> 1 .. BoardSize]
  BY <1>1, <1>2
<1>4. ASSUME NEW v \in 1 .. BoardSize
      PROVE  \E p \in Position : new[p] = v
  <2>1. PICK p \in Position : arr[p] = v
    OBVIOUS
  <2>2. new[IF p = i THEN j ELSE IF p = j THEN i ELSE p] = v
    BY <1>1, <1>2, <2>1
  <2> QED
    BY <1>1, <2>2
<1>5. {new[p] : p \in Position} = 1 .. BoardSize
  BY <1>3, <1>4
<1> QED
  BY <1>3, <1>5 DEF new

LEMMA InitIInv == Init => IInv
<1> SUFFICES ASSUME Init PROVE IInv
  OBVIOUS
<1>1. ReadSoFar
  BY ChunksAssumption DEF Init, ReadSoFar, Indices
<1>2. DealtOut
  BY ChunksAssumption DEF Init, DealtOut, Indices
<1>3. CallSound
  BY DEF Init, CallSound
<1> QED
  BY <1>1, <1>2, <1>3 DEF IInv

(* The loop over the command line leaves what the workers share alone.     *)
LEMMA OptionsStep ==
  ASSUME IInv, Options
  PROVE  IInv'
<1> USE DEF IInv
<1>1. CASE ReadCredential
  BY <1>1 DEF ReadCredential, ReadSoFar, DealtOut, CallSound, Calls, work,
              NoCall, AtOption
<1>2. CASE ReadChunkSize
  <2>1. chunk_size' \in Indices
    BY <1>2, ValueIsParsed, NumbersAreCut DEF ReadChunkSize, AtOption
  <2> QED
    BY <1>2, <2>1 DEF ReadChunkSize, ReadSoFar, DealtOut, CallSound, Calls,
                      work, NoCall, AtOption
<1>3. CASE ReadWorkers
  <2>1. num_workers' \in 1 .. UINT32 \div 2
    <3>1. Parsed[Value].number \in Int
      BY <1>3, ValueIsParsed DEF ReadWorkers, AtOption
    <3>2. \A n \in Int : AsInt(n) > 0 => AsInt(n) \in 1 .. UINT32 \div 2
      BY ChunksAssumption DEF AsInt
    <3>3. AsInt(strtol(Value)) \in Int /\ strtol(Value) \in Int
      BY <3>1, NumbersAreCut
    <3> QED
      BY <1>3, <3>1, <3>2, <3>3 DEF ReadWorkers, NotPositive
  <2> QED
    BY <1>3, <2>1 DEF ReadWorkers, ReadSoFar, DealtOut, CallSound, Calls,
                      work, NoCall, AtOption
<1>4. CASE Help
  BY <1>4 DEF Help, ReadSoFar, DealtOut, CallSound, Calls, work, NoCall,
              AtOption
<1>5. CASE Complain
  BY <1>5 DEF Complain, ReadSoFar, DealtOut, CallSound, Calls, work, NoCall
<1>6. CASE Serve
  <2>1. call' = NoCall
    BY <1>6 DEF Serve, ReadSoFar
  <2>2. count' \in Indices
    BY <1>6, ChunksAssumption DEF Serve, Indices
  <2>3. next' \in [DOMAIN next' -> Indices]
    <3>1. ASSUME NEW tid \in 0 .. num_workers - 1
          PROVE  AsUint64(tid * chunk_size) \in Indices
      <4>1. tid \in Int /\ chunk_size \in Int
        BY DEF ReadSoFar, Indices
      <4>2. tid * chunk_size \in Int
        BY <4>1
      <4> QED
        BY <4>2, Cut
    <3> QED
      BY <1>6, <3>1 DEF Serve
  <2> QED
    BY <1>6, <2>1, <2>2, <2>3 DEF Serve, ReadSoFar, DealtOut, CallSound
<1> QED
  BY <1>1, <1>2, <1>3, <1>4, <1>5, <1>6 DEF Options

(* The chunk that compute_run gets lies in the window.                     *)
LEMMA CallComputeRunStep ==
  ASSUME IInv, NEW tid \in DOMAIN next, CallComputeRun(tid)
  PROVE  IInv'
<1> USE DEF IInv
<1>1. next[tid] \in Indices /\ next[tid] < count /\ count \in Indices
  BY DEF CallComputeRun, DealtOut
<1>2. Hi(next[tid]) \in Indices /\ Hi(next[tid]) <= count
  <2>1. AsUint64(next[tid] + chunk_size) \in Indices
    BY <1>1, Cut DEF ReadSoFar, Indices
  <2> QED
    BY <1>1, <2>1 DEF Hi, Indices
<1>3. [NoBest EXCEPT !.best_index = next[tid]] \in Bests
  BY <1>1 DEF NoBest, Bests, Indices
<1>4. 0 \in Position
  BY KernelAssumption DEF Position
<1>5. call' \in Calls
  BY <1>1, <1>2, <1>3, <1>4, SortedIsPermutation DEF CallComputeRun, Calls
<1>6. /\ call'.lo = next[tid] /\ call'.hi = Hi(next[tid])
      /\ call'.arr = Sorted
  BY DEF CallComputeRun
<1>7. UNCHANGED <<options, count, next, total_done_all>>
  BY DEF CallComputeRun
<1>8. CallSound'
  BY <1>1, <1>2, <1>5, <1>6, <1>7, SortedIsPermutation DEF CallSound, Calls
<1>9. ReadSoFar' /\ DealtOut'
  BY <1>7 DEF CallComputeRun, ReadSoFar, DealtOut, options
<1> QED
  BY <1>8, <1>9

(* A step of compute_run changes nothing but its own call.                 *)
LEMMA InsideCall ==
  ASSUME IInv, call # NoCall, UNCHANGED <<options, count, next, total_done_all>>,
         call' \in Calls,
         {call'.arr[p] : p \in Position} = 1 .. BoardSize,
         call'.lo = call.lo, call'.hi = call.hi
  PROVE  IInv'
<1> USE DEF IInv
<1>1. phase = "serve"
  BY DEF ReadSoFar
<1>2. ReadSoFar' /\ DealtOut'
  BY <1>1 DEF ReadSoFar, DealtOut, options
<1>3. CallSound'
  BY DEF CallSound, Calls
<1> QED
  BY <1>2, <1>3

LEMMA StartShuffleStep ==
  ASSUME IInv, StartShuffle
  PROVE  IInv'
<1>1. call # NoCall /\ call \in Calls
      /\ {call.arr[p] : p \in Position} = 1 .. BoardSize
  BY DEF IInv, CallSound, StartShuffle
<1>2. BoardSize - 1 \in Position
  BY KernelAssumption DEF Position
<1>3. CASE call.idx < call.hi
  BY <1>1, <1>2, <1>3, SortedIsPermutation, InsideCall DEF StartShuffle, Calls
<1>4. CASE ~(call.idx < call.hi)
  BY <1>1, <1>4, InsideCall DEF StartShuffle, Calls
<1> QED
  BY <1>3, <1>4

LEMMA DrawWordStep ==
  ASSUME IInv, GivesWords, DrawWord
  PROVE  IInv'
<1> DEFINE x == Word(call.idx, call.k + 1)
<1>1. call # NoCall /\ call \in Calls
      /\ {call.arr[p] : p \in Position} = 1 .. BoardSize
  BY DEF IInv, CallSound, DrawWord
<1>2. x \in Words
  BY <1>1 DEF GivesWords, Calls
<1>3. call.i \in Position /\ call.i >= 1 /\ call.i - 1 \in Position
      /\ call.k + 1 \in Nat
  BY <1>1, KernelAssumption DEF Calls, DrawWord, Position
<1>4. UNCHANGED <<options, count, next, total_done_all>>
  BY DEF DrawWord
<1>5. CASE x < Threshold(call.i + 1)
  <2>1. call' = [call EXCEPT !.k = @ + 1]
    BY <1>5 DEF DrawWord
  <2> QED
    BY <1>1, <1>3, <1>4, <2>1, InsideCall DEF Calls
<1>6. CASE ~(x < Threshold(call.i + 1))
  <2> DEFINE new == Swap(call.arr, call.i, x)
  <2>1. call' = [call EXCEPT !.k = @ + 1, !.i = @ - 1, !.arr = new]
    BY <1>6 DEF DrawWord
  <2>2. new \in [Position -> 1 .. BoardSize]
        /\ {new[p] : p \in Position} = 1 .. BoardSize
    BY <1>1, <1>2, <1>3, SwapKeepsPermutation DEF Calls
  <2> HIDE DEF new
  <2> QED
    BY <1>1, <1>3, <1>4, <2>1, <2>2, InsideCall DEF Calls
<1> QED
  BY <1>5, <1>6

LEMMA ScoreStep ==
  ASSUME IInv, Score
  PROVE  IInv'
<1>1. call # NoCall /\ call \in Calls
      /\ {call.arr[p] : p \in Position} = 1 .. BoardSize
  BY DEF IInv, CallSound, Score
<1>2. Correct(call.arr) \in Nat
  BY CorrectIsNat
<1>3. AsUint64(call.idx + 1) \in Indices
  BY <1>1, Cut DEF Calls, Indices
<1>4. [best_correct |-> Correct(call.arr), best_index |-> call.idx,
       best_arr |-> call.arr] \in Bests
  BY <1>1, <1>2, KernelAssumption DEF Calls, Bests, Indices, Position
<1>5. UNCHANGED <<options, count, next, total_done_all>>
  BY DEF Score
<1>6. PICK best \in Bests, at \in {"return", "index"} :
        call' = [call EXCEPT !.best = best, !.idx = AsUint64(@ + 1), !.at = at]
  BY <1>1, <1>4 DEF Score, Calls
<1> QED
  BY <1>1, <1>3, <1>5, <1>6, InsideCall DEF Calls

LEMMA ReturnStep ==
  ASSUME IInv, Return
  PROVE  IInv'
<1> USE DEF IInv
<1>1. call # NoCall /\ call \in Calls
  BY DEF CallSound, Return
<1>2. total_done_all' \in Indices
  BY <1>1, Cut DEF Return, Calls, DealtOut, Indices
<1>3. AsUint64(next[call.tid] + Stride) \in Indices
  <2>1. Stride \in Int
    BY Cut DEF Stride, ReadSoFar, Indices
  <2> QED
    BY <1>1, <2>1, Cut DEF Calls, DealtOut, Indices
<1>4. next' \in [DOMAIN next' -> Indices]
  BY <1>1, <1>3 DEF Return, DealtOut, Calls
<1> QED
  BY <1>2, <1>4 DEF Return, ReadSoFar, DealtOut, CallSound, options

LEMMA NextIInv ==
  ASSUME IInv, GivesWords, [Next]_vars
  PROVE  IInv'
<1>1. CASE UNCHANGED vars
  BY <1>1 DEF IInv, ReadSoFar, DealtOut, CallSound, Calls, vars, options, work
<1>2. CASE Options
  BY <1>2, OptionsStep
<1>3. CASE Work
  BY <1>3, CallComputeRunStep, StartShuffleStep, DrawWordStep, ScoreStep,
     ReturnStep DEF Work
<1> QED
  BY <1>1, <1>2, <1>3 DEF Next

(* Types, permutations and chunks: an array being shuffled stays a         *)
(* permutation, and a chunk in its window, even when indices wrap round.   *)
THEOREM ShufflesStayInWindow ==
  ASSUME GivesWords
  PROVE  Spec => []TypeOK
<1>1. Init => IInv
  BY InitIInv
<1>2. IInv /\ [Next]_vars => IInv'
  BY NextIInv
<1>3. IInv => TypeOK
  BY DEF IInv, ReadSoFar, DealtOut, CallSound, Indices, TypeOK
<1> QED
  BY <1>1, <1>2, <1>3, PTL DEF Spec

(* The draws of compute_cpu.c:34-38 prefer no position, and those of the   *)
(* GPU backends reject the same words.                                     *)
THEOREM DrawsStayUnbiased ==
  ASSUME GivesWords
  PROVE  Spec => []DrawsAreUnbiased
<1>1. IInv => DrawsAreUnbiased
  <2> SUFFICES ASSUME IInv, call # NoCall, call.i >= 1
               PROVE  LET max == call.i + 1
                      IN  /\ \A j \in 0 .. call.i :
                               Cardinality(WordsFor(max, j)) = WORD \div max
                          /\ ThresholdOnCuda(max) = Threshold(max)
                          /\ ThresholdOnVulkan(max) = Threshold(max)
    BY DEF DrawsAreUnbiased, WordsFor
  <2>1. call.i \in Position
    BY DEF IInv, CallSound, Calls
  <2>2. call.i + 1 \in 1 .. BoardSize /\ call.i = (call.i + 1) - 1
    BY <2>1, KernelAssumption DEF Position
  <2> QED
    BY <2>2, ThresholdsAgree, PositionsEquallyLikely
<1>2. Init => IInv
  BY InitIInv
<1>3. IInv /\ [Next]_vars => IInv'
  BY NextIInv
<1> QED
  BY <1>1, <1>2, <1>3, PTL DEF Spec

-----------------------------------------------------------------------------
(* What the loop over the command line has read before the index arg.      *)

ReadBefore(option) == {k \in PairsOf(option) : k < arg}
IsLast(m, S) == m \in S /\ \A k \in S : k <= m

CredentialRead(f) ==
  IF ReadBefore(f) = {} THEN account_creds[f] = NULL
  ELSE \E m \in ReadBefore(f) :
         IsLast(m, ReadBefore(f)) /\ account_creds[f] = argv[m + 1]

WorkersRead ==
  IF ReadBefore("--workers") = {} THEN num_workers = 1
  ELSE \E m \in ReadBefore("--workers") :
         /\ IsLast(m, ReadBefore("--workers"))
         /\ num_workers = AsInt(strtol(argv[m + 1]))

ChunkSizeRead ==
  IF ReadBefore("--chunk-size") = {} THEN chunk_size = DefaultChunk
  ELSE \E m \in ReadBefore("--chunk-size") :
         /\ IsLast(m, ReadBefore("--chunk-size"))
         /\ chunk_size = strtoull(argv[m + 1])

(* Pairs of options and values so far, the last of several heeded.         *)
PairsRead ==
  /\ argv \in CommandLines
  /\ argv \in Seq(STRING) /\ arg \in Nat /\ arg % 2 = 1 /\ arg <= Len(argv) + 1
  /\ \A k \in Pairs : k < arg =>
       /\ argv[k] \in ValueOptions
       /\ argv[k] = "--workers" =>
            ~NotPositive(argv[k + 1])
  /\ DOMAIN account_creds = Flags
  /\ \A f \in Flags : CredentialRead(f)
  /\ WorkersRead /\ ChunkSizeRead

(* Whether main goes on is decided at the end of the loop, or at the first *)
(* word that does not fit.                                                 *)
Decided ==
  /\ phase = "serve" =>
       arg > Len(argv) /\ \A f \in Flags : account_creds[f] # NULL
  /\ phase = "refused" /\ IntsSuffice => ~Proper
  /\ phase = "helped" => \E k \in Pairs : argv[k] \in {"--help", "-h"}

SessionInv == PairsRead /\ Decided

(* The last element of a set is its maximum.                               *)
LEMMA LastIsMax ==
  ASSUME NEW S \in SUBSET Nat, NEW m, IsLast(m, S)
  PROVE  Max(S) = m
<1>1. m \in S /\ \A k \in S : m >= k
  BY DEF IsLast
<1>2. Max(S) \in S /\ \A k \in S : Max(S) >= k
  BY <1>1 DEF Max
<1>3. m \in Nat /\ Max(S) \in Nat
  BY <1>1, <1>2
<1>4. m >= Max(S) /\ Max(S) >= m
  BY <1>1, <1>2
<1> QED
  BY <1>3, <1>4

(* What a word of the command line says is typed.                          *)
LEMMA WordIsParsed ==
  ASSUME argv \in CommandLines, NEW k \in DOMAIN argv
  PROVE  /\ Parsed[argv[k]].whole \in BOOLEAN /\ Parsed[argv[k]].number \in Int
         /\ AsInt(strtol(argv[k])) \in Int
<1>1. Parsed[argv[k]] \in [number : Int, whole : BOOLEAN]
  BY ChunksAssumption
<1>2. Parsed[argv[k]].whole \in BOOLEAN /\ Parsed[argv[k]].number \in Int
  BY <1>1
<1> QED
  BY <1>2, NumbersAreCut

(* At an option that has its value.                                        *)
LEMMA AtPair ==
  ASSUME PairsRead, arg <= Len(argv)
  PROVE  /\ arg \in Pairs /\ Len(argv) \in Nat /\ DOMAIN argv = 1 .. Len(argv)
         /\ HasValue => arg + 1 \in DOMAIN argv /\ argv[arg + 1] \in STRING
BY DEF PairsRead, Pairs, HasValue

LEMMA ReadOn ==
  ASSUME PairsRead, arg <= Len(argv), HasValue, argv' = argv, arg' = arg + 2,
         NEW option
  PROVE  ReadBefore(option)' =
           IF argv[arg] = option THEN ReadBefore(option) \cup {arg} ELSE ReadBefore(option)
<1>1. arg \in Pairs /\ arg \in Nat /\ arg % 2 = 1
  BY AtPair DEF PairsRead
<1>2. \A k \in Pairs : k \in Nat /\ k % 2 = 1
  BY DEF Pairs, PairsRead
<1>3. \A k \in Pairs : k < arg + 2 <=> k < arg \/ k = arg
  BY <1>1, <1>2
<1>4. PairsOf(option)' = PairsOf(option)
  BY DEF PairsOf, Pairs
<1>5. ReadBefore(option)' = {k \in PairsOf(option) : k < arg \/ k = arg}
  BY <1>3, <1>4 DEF ReadBefore, PairsOf
<1> QED
  BY <1>1, <1>5 DEF ReadBefore, PairsOf

(* The last of the pairs read is the new one.                              *)
LEMMA NewIsLast ==
  ASSUME PairsRead, arg <= Len(argv), NEW option
  PROVE  IsLast(arg, ReadBefore(option) \cup {arg})
<1>1. \A k \in ReadBefore(option) : k \in Nat /\ k < arg
  BY DEF ReadBefore, PairsOf, Pairs, PairsRead
<1> QED
  BY <1>1 DEF IsLast, PairsRead

(* A pair of the loop.                                                     *)
LEMMA PairStep ==
  ASSUME PairsRead, Decided, phase = "options", phase' = "options",
         arg <= Len(argv), HasValue,
         argv[arg] \in ValueOptions,
         argv[arg] = "--workers" => ~NotPositive(Value),
         argv' = argv, arg' = arg + 2,
         DOMAIN account_creds' = Flags,
         \A f \in Flags : account_creds'[f] = IF argv[arg] = f THEN Value ELSE account_creds[f],
         num_workers' = IF argv[arg] = "--workers" THEN AsInt(strtol(Value))
                        ELSE num_workers,
         chunk_size' = IF argv[arg] = "--chunk-size" THEN strtoull(Value)
                       ELSE chunk_size
  PROVE  SessionInv'
<1>1. /\ argv \in Seq(STRING) /\ arg \in Nat /\ arg % 2 = 1 /\ arg \in Pairs
      /\ Len(argv) \in Nat /\ arg + 1 <= Len(argv) /\ Pairs' = Pairs
  BY AtPair DEF PairsRead, HasValue, Pairs
<1>2. arg' \in Nat /\ arg' % 2 = 1 /\ arg' <= Len(argv') + 1
  BY <1>1
<1>3. ASSUME NEW k \in Pairs, k < arg + 2
      PROVE  argv[k] \in ValueOptions /\ (argv[k] = "--workers" => ~NotPositive(argv[k + 1]))
  <2>1. k < arg \/ k = arg
    BY <1>1, <1>3 DEF Pairs
  <2> QED
    BY <2>1 DEF PairsRead, Value
<1>4. ASSUME NEW f \in Flags
      PROVE  CredentialRead(f)'
  <2>1. CASE argv[arg] = f
    <3>1. ReadBefore(f)' = ReadBefore(f) \cup {arg}
      BY <2>1, ReadOn
    <3>2. IsLast(arg, ReadBefore(f)') /\ account_creds'[f] = argv'[arg + 1]
      BY <2>1, <3>1, NewIsLast DEF Value
    <3> QED
      BY <3>1, <3>2 DEF CredentialRead, IsLast
  <2>2. CASE argv[arg] # f
    <3>1. ReadBefore(f)' = ReadBefore(f)
      BY <2>2, ReadOn
    <3>2. account_creds'[f] = account_creds[f] /\ CredentialRead(f)
      BY <2>2 DEF PairsRead
    <3> QED
      BY <3>1, <3>2 DEF CredentialRead, IsLast
  <2> QED
    BY <2>1, <2>2
<1>5. WorkersRead'
  <2>1. CASE argv[arg] = "--workers"
    <3>1. ReadBefore("--workers")' = ReadBefore("--workers") \cup {arg}
      BY <2>1, ReadOn
    <3>2. /\ IsLast(arg, ReadBefore("--workers")')
          /\ num_workers' = AsInt(strtol(argv'[arg + 1]))
      BY <2>1, <3>1, NewIsLast DEF Value
    <3> QED
      BY <3>1, <3>2 DEF WorkersRead, IsLast, AsInt, strtol, LONG_MAX
  <2>2. CASE argv[arg] # "--workers"
    <3>1. ReadBefore("--workers")' = ReadBefore("--workers")
      BY <2>2, ReadOn
    <3> QED
      BY <2>2, <3>1 DEF WorkersRead, IsLast, PairsRead, AsInt, strtol, LONG_MAX
  <2> QED
    BY <2>1, <2>2
<1>6. ChunkSizeRead'
  <2>1. CASE argv[arg] = "--chunk-size"
    <3>1. ReadBefore("--chunk-size")' = ReadBefore("--chunk-size") \cup {arg}
      BY <2>1, ReadOn
    <3>2. /\ IsLast(arg, ReadBefore("--chunk-size")')
          /\ chunk_size' = strtoull(argv'[arg + 1])
      BY <2>1, <3>1, NewIsLast DEF Value
    <3> QED
      BY <3>1, <3>2 DEF ChunkSizeRead, IsLast, strtoull, AsUint64
  <2>2. CASE argv[arg] # "--chunk-size"
    <3>1. ReadBefore("--chunk-size")' = ReadBefore("--chunk-size")
      BY <2>2, ReadOn
    <3> QED
      BY <2>2, <3>1 DEF ChunkSizeRead, IsLast, PairsRead, strtoull, AsUint64
  <2> QED
    BY <2>1, <2>2
<1>7. PairsRead'
  BY <1>1, <1>2, <1>3, <1>4, <1>5, <1>6 DEF PairsRead, NotPositive, AsInt,
     strtol, LONG_MAX
<1>8. Decided'
  BY DEF Decided
<1> QED
  BY <1>7, <1>8 DEF SessionInv

(* Nothing more is read.                                                   *)
LEMMA ReadingDone ==
  ASSUME PairsRead,
         UNCHANGED <<argv, arg, account_creds, num_workers, chunk_size>>
  PROVE  PairsRead'
BY DEF PairsRead, Pairs, CredentialRead, WorkersRead, ChunkSizeRead, ReadBefore,
   PairsOf, IsLast, NotPositive, AsInt, strtol, LONG_MAX, strtoull, AsUint64

(* What main complains of is improper, if no int is too short for it.      *)
LEMMA ComplainIsJust ==
  ASSUME PairsRead, Complain, IntsSuffice
  PROVE  ~Proper
<1>1. argv \in CommandLines /\ argv \in Seq(STRING) /\ arg \in Nat /\ arg % 2 = 1 /\ Len(argv) \in Nat
  BY DEF PairsRead
<1>2. CASE AtOption(ValueOptions) /\ ~HasValue
  <2>1. arg = Len(argv)
    BY <1>1, <1>2 DEF AtOption, HasValue
  <2> QED
    BY <1>1, <2>1 DEF Proper, NamesAccount
<1>3. CASE AtOption({"--workers"}) /\ HasValue /\ NotPositive(Value)
  <2> DEFINE word == argv[arg + 1]
  <2>1. arg \in PairsOf("--workers") /\ arg < Len(argv) /\ Value = word
    BY <1>3, AtPair DEF AtOption, PairsOf, Value, HasValue
  <2>2. word \in Given("--workers")
    BY <2>1 DEF Given
  <2>3. Parsed[word].whole \in BOOLEAN /\ Parsed[word].number \in Int
    BY <1>1, <1>3, AtPair, WordIsParsed DEF AtOption
  <2>4. AnIntHolds(Parsed[word].number)
    BY <2>2 DEF IntsSuffice
  <2> HIDE DEF word
  <2>5. AsInt(strtol(word)) = Parsed[word].number
    BY <2>3, <2>4, IntIsKept
  <2>6. ~(Parsed[word].whole /\ Parsed[word].number > 0)
    BY <1>3, <2>1, <2>3, <2>5 DEF NotPositive
  <2> QED
    BY <2>2, <2>6 DEF Proper
<1>4. CASE arg <= Len(argv) /\ ~AtOption(ValueOptions \cup {"--help", "-h"})
  <2>1. arg \in Pairs /\ argv[arg] \notin ValueOptions
    BY <1>4, AtPair DEF AtOption, Complain
  <2> QED
    BY <2>1 DEF Proper, NamesAccount
<1>5. CASE arg > Len(argv) /\ \E f \in Flags : account_creds[f] = NULL
  <2>1. PICK f \in Flags : account_creds[f] = NULL
    BY <1>5
  <2>2. \A k \in PairsOf(f) : k < arg /\ k % 2 = 1 /\ k \in DOMAIN argv
    BY <1>1, <1>5 DEF PairsOf, Pairs
  <2>3. SUFFICES ASSUME Proper PROVE FALSE
    OBVIOUS
  <2>4. ReadBefore(f) = PairsOf(f) /\ PairsOf(f) # {}
    BY <2>2, <2>3 DEF ReadBefore, Proper, NamesAccount
  <2>5. PICK m \in PairsOf(f) : account_creds[f] = argv[m + 1]
    BY <2>1, <2>4 DEF PairsRead, CredentialRead
  <2>6. m + 1 \in DOMAIN argv
    BY <1>1, <2>2, <2>3 DEF Proper, NamesAccount
  <2>7. argv[m + 1] \in STRING
    BY <1>1, <2>6
  <2> QED
    BY <2>1, <2>5, <2>7, ChunksAssumption
<1> QED
  BY <1>2, <1>3, <1>4, <1>5 DEF Complain

LEMMA SessionStep ==
  ASSUME SessionInv, [Next]_vars
  PROVE  SessionInv'
<1> USE DEF SessionInv
<1>1. CASE ReadCredential
  <2>1. /\ phase = "options" /\ arg <= Len(argv) /\ HasValue /\ argv[arg] \in Flags
        /\ UNCHANGED <<argv, phase, num_workers, chunk_size>> /\ arg' = arg + 2
        /\ account_creds' = [account_creds EXCEPT ![argv[arg]] = Value]
    BY <1>1 DEF ReadCredential, AtOption
  <2>2. DOMAIN account_creds = Flags
    BY DEF PairsRead
  <2>3. /\ DOMAIN account_creds' = Flags
        /\ \A f \in Flags : account_creds'[f] =
             IF argv[arg] = f THEN Value ELSE account_creds[f]
    BY <2>1, <2>2
  <2>4. argv[arg] \in ValueOptions \ {"--workers", "--chunk-size"}
    BY <2>1 DEF Flags, ValueOptions
  <2> QED
    BY <2>1, <2>3, <2>4, PairStep
<1>2. CASE ReadChunkSize
  <2>1. /\ phase = "options" /\ arg <= Len(argv) /\ HasValue /\ argv[arg] = "--chunk-size"
        /\ UNCHANGED <<argv, phase, num_workers, account_creds>> /\ arg' = arg + 2
        /\ chunk_size' = strtoull(Value)
    BY <1>2 DEF ReadChunkSize, AtOption
  <2>2. DOMAIN account_creds = Flags
    BY DEF PairsRead
  <2>3. /\ argv[arg] \in ValueOptions /\ argv[arg] # "--workers"
        /\ \A f \in Flags : argv[arg] # f
    BY <2>1 DEF Flags, ValueOptions
  <2> QED
    BY <2>1, <2>2, <2>3, PairStep
<1>3. CASE ReadWorkers
  <2>1. /\ phase = "options" /\ arg <= Len(argv) /\ HasValue /\ argv[arg] = "--workers"
        /\ ~NotPositive(Value) /\ num_workers' = AsInt(strtol(Value))
        /\ UNCHANGED <<argv, phase, account_creds, chunk_size>> /\ arg' = arg + 2
    BY <1>3 DEF ReadWorkers, AtOption
  <2>2. DOMAIN account_creds = Flags
    BY DEF PairsRead
  <2>3. argv[arg] \in ValueOptions /\ \A f \in Flags : argv[arg] # f
    BY <2>1 DEF Flags, ValueOptions
  <2> QED
    BY <2>1, <2>2, <2>3, PairStep
<1>4. CASE Help
  <2>1. arg \in Pairs /\ argv[arg] \in {"--help", "-h"}
    BY <1>4, AtPair DEF Help, AtOption
  <2>2. Decided'
    BY <1>4, <2>1 DEF Help, Decided, Pairs
  <2> QED
    BY <1>4, <2>2, ReadingDone DEF Help
<1>5. CASE Complain
  <2>1. Proper' = Proper /\ IntsSuffice' = IntsSuffice
    BY <1>5 DEF Complain, Proper, NamesAccount, Pairs, PairsOf, Given,
       IntsSuffice, AnIntHolds
  <2>2. Decided'
    BY <1>5, <2>1, ComplainIsJust DEF Complain, Decided
  <2> QED
    BY <1>5, <2>2, ReadingDone DEF Complain
<1>6. CASE Serve
  <2>1. Decided'
    BY <1>6 DEF Serve, Decided
  <2> QED
    BY <1>6, <2>1, ReadingDone DEF Serve
<1>7. CASE UNCHANGED options
  <2>1. Decided'
    BY <1>7 DEF options, Decided, Proper, NamesAccount, Pairs, PairsOf, Given,
       IntsSuffice, AnIntHolds
  <2> QED
    BY <1>7, <2>1, ReadingDone DEF options
<1>8. Work => UNCHANGED options
  BY DEF Work, CallComputeRun, StartShuffle, DrawWord, Score, Return
<1> QED
  BY <1>1, <1>2, <1>3, <1>4, <1>5, <1>6, <1>7, <1>8 DEF Next, Options, vars

LEMMA InitSession == Init => SessionInv
<1> SUFFICES ASSUME Init PROVE SessionInv
  OBVIOUS
<1>1. argv \in CommandLines /\ argv \in Seq(STRING) /\ arg = 1 /\ phase = "options" /\ num_workers = 1
      /\ chunk_size = DefaultChunk
      /\ account_creds = [f \in Flags |-> NULL]
  BY ChunksAssumption DEF Init
<1>2. \A k \in Pairs : ~(k < arg)
  BY <1>1 DEF Pairs
<1>3. \A option : ReadBefore(option) = {}
  BY <1>2 DEF ReadBefore, PairsOf
<1>4. PairsRead
  BY <1>1, <1>2, <1>3 DEF PairsRead, CredentialRead, WorkersRead,
     ChunkSizeRead
<1> QED
  BY <1>1, <1>4 DEF SessionInv, Decided

(* Main, started with any words in any order, serves exactly the account   *)
(* that the command line asks for, in chunks of the size asked for (if a   *)
(* uint64_t holds it) and with as many workers (if an int holds that): the *)
(* last of several options counts, a value may look like an option, and    *)
(* nothing that is asked for properly is refused.                          *)
THEOREM CommandLineIsObeyed == Spec => []SessionIsAsAsked
<1>1. ASSUME PairsRead, Decided, phase = "serve"
      PROVE  /\ NamesAccount /\ AsLongChunks
             /\ \A f \in Flags : account_creds[f] = Asked(f)
             /\ IntsSuffice => Proper /\ AsManyWorkers
  <2>1. /\ argv \in Seq(STRING) /\ arg \in Nat /\ arg % 2 = 1 /\ Len(argv) \in Nat
        /\ arg = Len(argv) + 1 /\ \A f \in Flags : account_creds[f] # NULL
    BY <1>1 DEF PairsRead, Decided
  <2>2. \A k \in Pairs : k \in Nat /\ k < arg
    BY <2>1 DEF Pairs
  <2>3. \A option : ReadBefore(option) = PairsOf(option) /\ PairsOf(option) \in SUBSET Nat
    BY <2>2 DEF ReadBefore, PairsOf
  <2>4. ASSUME NEW f \in Flags
        PROVE  PairsOf(f) # {} /\ account_creds[f] = Asked(f)
    <3>1. PICK m \in PairsOf(f) : IsLast(m, PairsOf(f)) /\ account_creds[f] = argv[m + 1]
      BY <1>1, <2>1, <2>3 DEF PairsRead, CredentialRead
    <3>2. Max(PairsOf(f)) = m
      BY <2>3, <3>1, LastIsMax
    <3> QED
      BY <3>1, <3>2 DEF Asked
  <2>5. Len(argv) % 2 = 0
    BY <2>1
  <2>6. NamesAccount
    <3>1. \A k \in Pairs : argv[k] \in ValueOptions
      BY <1>1, <2>2 DEF PairsRead
    <3> QED
      BY <2>4, <2>5, <3>1 DEF NamesAccount
  <2>7. ASSUME NEW option, NEW k \in PairsOf(option)
        PROVE  /\ k \in Pairs /\ k < Len(argv) /\ argv[k + 1] \in Given(option)
               /\ Parsed[argv[k + 1]].whole \in BOOLEAN
               /\ Parsed[argv[k + 1]].number \in Int
    <3>1. k \in Pairs /\ k \in Nat /\ k % 2 = 1 /\ k <= Len(argv)
      BY <2>1, <2>2 DEF PairsOf, Pairs
    <3>2. k < Len(argv) /\ k + 1 \in DOMAIN argv
      BY <2>1, <2>5, <3>1
    <3> QED
      BY <1>1, <3>1, <3>2, WordIsParsed DEF Given, PairsRead
  <2>8. AsLongChunks
    <3>1. CASE PairsOf("--chunk-size") = {}
      BY <1>1, <2>3, <3>1 DEF PairsRead, ChunkSizeRead, AsLongChunks
    <3>2. CASE PairsOf("--chunk-size") # {}
      <4>1. PICK m \in PairsOf("--chunk-size") :
              /\ IsLast(m, PairsOf("--chunk-size"))
              /\ chunk_size = strtoull(argv[m + 1])
        BY <1>1, <2>3, <3>2 DEF PairsRead, ChunkSizeRead
      <4>2. Asked("--chunk-size") = argv[m + 1]
        BY <2>3, <4>1, LastIsMax DEF Asked
      <4>3. chunk_size = strtoull(Asked("--chunk-size"))
        BY <4>1, <4>2
      <4>4. ASSUME NumberAsked("--chunk-size") \in 0 .. UINT64 - 1
            PROVE  chunk_size = NumberAsked("--chunk-size")
        <5> DEFINE n == Parsed[Asked("--chunk-size")].number
        <5>1. n \in 0 .. UINT64 - 1 /\ UINT64 \in Nat
          BY <4>4, ChunksAssumption DEF NumberAsked
        <5>2. strtoull(Asked("--chunk-size")) =
                IF n \in 1 - UINT64 .. UINT64 - 1 THEN AsUint64(n) ELSE UINT64 - 1
          BY DEF strtoull
        <5> HIDE DEF n
        <5>3. n \in 1 - UINT64 .. UINT64 - 1 /\ AsUint64(n) = n
          BY <5>1 DEF AsUint64
        <5>4. n = NumberAsked("--chunk-size")
          BY DEF n, NumberAsked
        <5> QED
          BY <4>3, <5>2, <5>3, <5>4
      <4> QED
        BY <3>2, <4>4 DEF AsLongChunks
    <3> QED
      BY <3>1, <3>2
  <2>9. ASSUME IntsSuffice
        PROVE  Proper /\ AsManyWorkers
    <3>1. ASSUME NEW k \in PairsOf("--workers")
          PROVE  /\ Parsed[argv[k + 1]].whole /\ Parsed[argv[k + 1]].number > 0
                 /\ AsInt(strtol(argv[k + 1])) = Parsed[argv[k + 1]].number
      <4> DEFINE word == argv[k + 1]
      <4>1. /\ word \in Given("--workers") /\ Parsed[word].whole \in BOOLEAN
            /\ Parsed[word].number \in Int /\ k \in Pairs
        BY <2>7
      <4>2. ~NotPositive(word)
        BY <1>1, <2>2, <4>1 DEF PairsRead, PairsOf
      <4> HIDE DEF word
      <4>3. AsInt(strtol(word)) = Parsed[word].number
        BY <2>9, <4>1, IntIsKept DEF IntsSuffice
      <4>4. Parsed[word].whole /\ Parsed[word].number > 0
        BY <4>1, <4>2, <4>3 DEF NotPositive
      <4> QED
        BY <4>3, <4>4 DEF word
    <3>2. Proper
      BY <2>6, <3>1 DEF Proper, Given
    <3>3. CASE PairsOf("--workers") = {}
      BY <1>1, <2>3, <3>2, <3>3 DEF PairsRead, WorkersRead, AsManyWorkers
    <3>4. CASE PairsOf("--workers") # {}
      <4>1. PICK m \in PairsOf("--workers") :
              /\ IsLast(m, PairsOf("--workers"))
              /\ num_workers = AsInt(strtol(argv[m + 1]))
        BY <1>1, <2>3, <3>4 DEF PairsRead, WorkersRead
      <4>2. Asked("--workers") = argv[m + 1]
        BY <2>3, <4>1, LastIsMax DEF Asked
      <4> QED
        BY <3>1, <3>2, <3>4, <4>1, <4>2 DEF AsManyWorkers, NumberAsked
    <3> QED
      BY <3>2, <3>3, <3>4
  <2> QED
    BY <2>4, <2>6, <2>8, <2>9
<1>2. SessionInv => SessionIsAsAsked
  <2> SUFFICES ASSUME PairsRead, Decided PROVE SessionIsAsAsked
    BY DEF SessionInv
  <2>1. /\ phase = "refused" /\ IntsSuffice => ~Proper
        /\ phase = "helped" => \E k \in Pairs : argv[k] \in {"--help", "-h"}
    BY DEF Decided
  <2> QED
    BY <1>1, <2>1, Zenon DEF SessionIsAsAsked, WorkersAreAsAsked
<1>3. SessionInv /\ [Next]_vars => SessionInv'
  BY SessionStep
<1> QED
  BY <1>2, <1>3, InitSession, PTL DEF Spec

-----------------------------------------------------------------------------
(* Induction over the numbers, from the least element of a set.            *)

(* The least number of a set.                                              *)
LEMMA LeastOf ==
  ASSUME NEW T \in SUBSET Nat, T # {}
  PROVE  \E n \in T : \A m \in T : n <= m
<1>1. PICK R : /\ IsWellFoundedOn(R, Nat)
               /\ \A x, y \in Nat : y < x => <<y, x>> \in R
  BY NatLessThanWellFounded DEF OpToRel
<1>2. PICK n \in T : \A m \in T : ~(<<m, n>> \in R)
  BY <1>1, WFMin
<1>3. ASSUME NEW m \in T
      PROVE  n <= m
  <2>1. n \in Nat /\ m \in Nat
    OBVIOUS
  <2>2. ~(m < n)
    BY <1>1, <1>2, <2>1
  <2> QED
    BY <2>1, <2>2
<1> QED
  BY <1>3

(* Induction.                                                              *)
LEMMA AllNumbers ==
  ASSUME NEW S \in SUBSET Nat, 0 \in S, \A n \in S : n + 1 \in S
  PROVE  S = Nat
<1> SUFFICES ASSUME S # Nat PROVE FALSE
  OBVIOUS
<1> DEFINE T == Nat \ S
<1>1. PICK n \in T : \A m \in T : n <= m
  BY LeastOf
<1>2. n - 1 \in Nat /\ n - 1 \notin T
  BY <1>1
<1> QED
  BY <1>1, <1>2

-----------------------------------------------------------------------------
(* one_shuffle, round by round.                                            *)

NextRound(x, r, d) ==
  LET max == BoardSize - r + 1
      k == FirstKept(x, d.k, max)
  IN  [k |-> k, arr |-> Swap(d.arr, max - 1, Word(x, k))]
AreRounds(x, n, g) ==
  /\ g[0] = [k |-> 0, arr |-> Sorted]
  /\ \A r \in 1 .. n : g[r] = NextRound(x, r, g[r-1])

(* The recursive definition of one_shuffle defines something.              *)
LEMMA RoundsExist ==
  ASSUME NEW x, NEW n \in Nat
  PROVE  \E g : AreRounds(x, n, g)
<1> DEFINE S == {m \in Nat : \E g : AreRounds(x, m, g)}
<1>1. 0 \in S
  <2>1. AreRounds(x, 0, [r \in {0} |-> [k |-> 0, arr |-> Sorted]])
    BY DEF AreRounds
  <2> QED
    BY <2>1
<1>2. ASSUME NEW m \in S
      PROVE  m + 1 \in S
  <2>1. PICK g : AreRounds(x, m, g)
    OBVIOUS
  <2> DEFINE h == [r \in 0 .. m + 1 |->
                     IF r = m + 1 THEN NextRound(x, m + 1, g[m]) ELSE g[r]]
  <2>2. \A r \in 0 .. m : h[r] = g[r]
    OBVIOUS
  <2>3. h[m + 1] = NextRound(x, m + 1, g[m])
    OBVIOUS
  <2> HIDE DEF h
  <2>4. ASSUME NEW r \in 1 .. m + 1
        PROVE  h[r] = NextRound(x, r, h[r-1])
    <3>1. CASE r = m + 1
      BY <2>2, <2>3, <3>1
    <3>2. CASE r # m + 1
      <4>1. r \in 1 .. m /\ r \in 0 .. m /\ r - 1 \in 0 .. m
        BY <3>2
      <4> QED
        BY <2>1, <2>2, <4>1 DEF AreRounds
    <3> QED
      BY <3>1, <3>2
  <2>5. AreRounds(x, m + 1, h)
    BY <2>1, <2>2, <2>4 DEF AreRounds
  <2> QED
    BY <2>5
<1> HIDE DEF S
<1>3. S = Nat
  BY <1>1, <1>2, AllNumbers DEF S
<1> QED
  BY <1>3 DEF S

LEMMA RoundByRound ==
  ASSUME NEW x
  PROVE  AreRounds(x, BoardSize - 1, Rounds(x))
<1> DEFINE D == 0 .. BoardSize - 1
           IsSolution(f) ==
             f = [r \in D |->
                    IF r = 0 THEN [k |-> 0, arr |-> Sorted]
                    ELSE NextRound(x, r, f[r-1])]
<1>1. BoardSize - 1 \in Nat
  BY KernelAssumption
<1>2. PICK g : AreRounds(x, BoardSize - 1, g)
  BY <1>1, RoundsExist
<1>3. IsSolution([r \in D |-> g[r]])
  <2> DEFINE f == [r \in D |-> g[r]]
  <2>1. \A r \in D : r # 0 => r \in 1 .. BoardSize - 1 /\ r - 1 \in D
    BY <1>1
  <2>2. \A r \in D : f[r] = IF r = 0 THEN [k |-> 0, arr |-> Sorted]
                            ELSE NextRound(x, r, f[r-1])
    BY <1>2, <2>1 DEF AreRounds
  <2> QED
    BY <2>2
<1>4. Rounds(x) = CHOOSE f : IsSolution(f)
  BY DEF Rounds, NextRound
<1>5. IsSolution(Rounds(x))
  BY <1>3, <1>4
<1> QED
  BY <1>1, <1>5 DEF AreRounds

(* Among any 2^32 words that follow each other, one is kept: the bound of  *)
(* FirstKept, which the code, drawing until it keeps one, has not.  As no  *)
(* more than 24 of the 2^32 words are rejected, a generator breaks this    *)
(* only if it gives these few, and no other, 2^32 times in a row.          *)
KeepsWords ==
  \A index \in Indices, k \in Nat, max \in 2 .. BoardSize :
    \E m \in k + 1 .. k + WORD : Word(index, m) >= WORD % max

(* The word that ends a row of rejected ones is the first that is kept.    *)
LEMMA KeptIsFirst ==
  ASSUME GivesWords, KeepsWords, NEW x \in Indices, NEW max \in 2 .. BoardSize,
         NEW before \in Nat, NEW k \in Nat, before <= k,
         \A m \in before + 1 .. k : Word(x, m) < WORD % max,
         ~(Word(x, k + 1) < WORD % max)
  PROVE  FirstKept(x, before, max) = k + 1
<1> DEFINE S == {m \in before + 1 .. before + WORD : Word(x, m) >= WORD % max}
<1>1. WORD \in Nat /\ max \in Nat \ {0} /\ WORD % max \in Nat
  BY KernelAssumption
<1>2. \A m \in Nat : Word(x, m) \in Nat
  BY <1>1 DEF GivesWords, Words
<1>3. \A m \in S : m \in Nat /\ m >= k + 1
  <2> SUFFICES ASSUME NEW m \in S, m <= k PROVE FALSE
    BY <1>1
  <2>1. m \in before + 1 .. k /\ m \in Nat /\ Word(x, m) >= WORD % max
    BY <1>1
  <2> QED
    BY <1>1, <1>2, <2>1
<1>4. k + 1 \in S
  <2>1. PICK m \in before + 1 .. before + WORD : Word(x, m) >= WORD % max
    BY DEF KeepsWords
  <2>2. m \in S /\ m \in Nat
    BY <1>1, <2>1
  <2>3. k + 1 \in before + 1 .. before + WORD
    BY <1>1, <1>3, <2>2
  <2>4. Word(x, k + 1) >= WORD % max
    BY <1>1, <1>2
  <2> QED
    BY <2>3, <2>4
<1> HIDE DEF S
<1>5. Min(S) \in S /\ \A m \in S : Min(S) <= m
  BY <1>3, <1>4 DEF Min
<1>6. Min(S) = k + 1
  BY <1>3, <1>4, <1>5
<1> QED
  BY <1>6 DEF S, FirstKept

-----------------------------------------------------------------------------
(* What compute_run has found out so far.                                  *)

BestOf(boards) ==
  LET best == call.best
  IN  IF boards = {} THEN best.best_correct = -1 /\ best.best_index = call.lo
      ELSE /\ best.best_index \in boards
           /\ best.best_arr = Shuffled[best.best_index]
           /\ best.best_correct = Correct(Shuffled[best.best_index])
           /\ \A x \in boards : Correct(Shuffled[x]) <= best.best_correct

(* In the midst of a shuffle: as many rounds as BoardSize - 1 - call.i are *)
(* done, and the words since then were rejected.                           *)
Done == Rounds(call.idx)[BoardSize - 1 - call.i]
HalfShuffled ==
  /\ call.arr = Done.arr /\ Done.k \in Nat /\ Done.k <= call.k
  /\ call.i >= 1 =>
       \A m \in Done.k + 1 .. call.k : Word(call.idx, m) < WORD % (call.i + 1)

ExactInv ==
  call # NoCall =>
    /\ call.at \in {"index", "draw"} =>
         /\ call.lo <= call.idx /\ BestOf(call.lo .. call.idx - 1)
         /\ call.idx = call.lo \/ call.idx <= call.hi
    /\ call.at = "draw" => call.idx < call.hi /\ HalfShuffled
    /\ call.at = "return" => BestOf(call.lo .. call.hi - 1)

LEMMA ExactStart ==
  ASSUME IInv, ExactInv, StartShuffle
  PROVE  ExactInv'
<1>1. /\ call # NoCall /\ call \in Calls /\ call.at = "index"
      /\ call.lo <= call.idx /\ BestOf(call.lo .. call.idx - 1)
      /\ call.idx = call.lo \/ call.idx <= call.hi
  BY DEF IInv, CallSound, StartShuffle, ExactInv
<1>2. call.lo \in Nat /\ call.idx \in Nat /\ call.hi \in Nat
  BY <1>1 DEF Calls, Indices
<1>3. CASE call.idx < call.hi
  <2>1. call' = [call EXCEPT !.at = "draw", !.i = BoardSize - 1, !.k = 0,
                             !.arr = Sorted]
    BY <1>3 DEF StartShuffle
  <2>2. /\ call'.at = "draw" /\ call'.i = BoardSize - 1 /\ call'.k = 0
        /\ call'.arr = Sorted /\ call'.best = call.best
        /\ call'.lo = call.lo /\ call'.hi = call.hi /\ call'.idx = call.idx
    BY <1>1, <2>1 DEF Calls
  <2>3. Rounds(call.idx)[0] = [k |-> 0, arr |-> Sorted]
    BY RoundByRound DEF AreRounds
  <2>4. Done' = [k |-> 0, arr |-> Sorted]
    BY <2>2, <2>3, KernelAssumption DEF Done
  <2>5. HalfShuffled'
    BY <2>2, <2>4 DEF HalfShuffled
  <2>6. BestOf(call.lo .. call.idx - 1)'
    BY <1>1, <2>2 DEF BestOf
  <2> QED
    BY <1>1, <1>3, <2>2, <2>5, <2>6 DEF ExactInv
<1>4. CASE ~(call.idx < call.hi)
  <2>1. /\ call'.at = "return" /\ call'.best = call.best
        /\ call'.lo = call.lo /\ call'.hi = call.hi
    BY <1>1, <1>4 DEF StartShuffle, Calls
  <2>2. call.lo .. call.idx - 1 = call.lo .. call.hi - 1
    BY <1>1, <1>2, <1>4
  <2>3. BestOf(call.lo .. call.hi - 1)'
    BY <1>1, <2>1, <2>2 DEF BestOf
  <2> QED
    BY <2>1, <2>3 DEF ExactInv
<1> QED
  BY <1>3, <1>4

LEMMA ExactDraw ==
  ASSUME IInv, GivesWords, KeepsWords, ExactInv, DrawWord
  PROVE  ExactInv'
<1> DEFINE x == Word(call.idx, call.k + 1)
           max == call.i + 1
<1>1. /\ call # NoCall /\ call \in Calls /\ call.at = "draw" /\ call.i >= 1
      /\ call.lo <= call.idx /\ BestOf(call.lo .. call.idx - 1)
      /\ call.idx < call.hi /\ HalfShuffled
  BY DEF IInv, CallSound, DrawWord, ExactInv
<1>2. /\ call.idx \in Indices /\ call.i \in Nat /\ call.k \in Nat
      /\ call.lo \in Nat /\ call.hi \in Nat /\ call.idx \in Nat
      /\ max \in 2 .. BoardSize /\ call.i <= BoardSize - 1
  BY <1>1, KernelAssumption DEF Calls, Indices, Position
<1>3. Threshold(max) = WORD % max
  BY <1>2, ThresholdsAgree
<1>4. /\ call.arr = Done.arr /\ Done.k \in Nat /\ Done.k <= call.k
      /\ \A m \in Done.k + 1 .. call.k : Word(call.idx, m) < WORD % max
  BY <1>1 DEF HalfShuffled
<1> SUFFICES /\ call'.at = "draw" /\ call'.best = call.best
             /\ call'.lo = call.lo /\ call'.hi = call.hi /\ call'.idx = call.idx
             /\ HalfShuffled'
  BY <1>1, <1>2 DEF ExactInv, BestOf
<1>5. CASE x < Threshold(max)
  <2>1. call' = [call EXCEPT !.k = @ + 1]
    BY <1>5 DEF DrawWord
  <2>2. /\ call'.at = "draw" /\ call'.best = call.best
        /\ call'.lo = call.lo /\ call'.hi = call.hi /\ call'.idx = call.idx
        /\ call'.k = call.k + 1 /\ call'.i = call.i /\ call'.arr = call.arr
    BY <1>1, <2>1 DEF Calls
  <2>3. Done' = Done
    BY <2>2 DEF Done
  <2>4. ASSUME NEW m \in Done.k + 1 .. call.k + 1
        PROVE  Word(call.idx, m) < WORD % max
    <3>1. m = call.k + 1 \/ m \in Done.k + 1 .. call.k
      BY <1>2, <1>4
    <3> QED
      BY <1>3, <1>4, <1>5, <3>1
  <2>5. HalfShuffled'
    BY <1>2, <1>4, <2>2, <2>3, <2>4 DEF HalfShuffled
  <2> QED
    BY <2>2, <2>5
<1>6. CASE ~(x < Threshold(max))
  <2>1. call' = [call EXCEPT !.k = @ + 1, !.i = @ - 1,
                             !.arr = Swap(@, call.i, x)]
    BY <1>6 DEF DrawWord
  <2>2. /\ call'.at = "draw" /\ call'.best = call.best
        /\ call'.lo = call.lo /\ call'.hi = call.hi /\ call'.idx = call.idx
        /\ call'.k = call.k + 1 /\ call'.i = call.i - 1
        /\ call'.arr = Swap(call.arr, call.i, x)
    BY <1>1, <2>1 DEF Calls
  <2> DEFINE r == BoardSize - call.i
  <2>3. /\ r \in 1 .. BoardSize - 1 /\ BoardSize - r + 1 = max
        /\ r - 1 = BoardSize - 1 - call.i /\ r = BoardSize - 1 - (call.i - 1)
    <3>1. BoardSize \in Nat /\ call.i \in 1 .. BoardSize - 1
      BY <1>1, <1>2, KernelAssumption
    <3> QED
      BY <3>1
  <2>4. Rounds(call.idx)[r] = NextRound(call.idx, r, Done)
    BY <2>3, RoundByRound DEF AreRounds, Done
  <2>5. FirstKept(call.idx, Done.k, max) = call.k + 1
    BY <1>2, <1>3, <1>4, <1>6, KeptIsFirst
  <2>6. NextRound(call.idx, r, Done) =
          [k |-> call.k + 1, arr |-> Swap(Done.arr, call.i, x)]
    <3>1. max - 1 = call.i
      BY <1>2
    <3> QED
      BY <2>3, <2>5, <3>1 DEF NextRound
  <2>7. Done' = [k |-> call.k + 1, arr |-> Swap(call.arr, call.i, x)]
    BY <1>4, <2>2, <2>3, <2>4, <2>6 DEF Done
  <2>8. HalfShuffled'
    BY <1>2, <2>2, <2>7 DEF HalfShuffled
  <2> QED
    BY <2>2, <2>8
<1> QED
  BY <1>5, <1>6

(* No score is above BoardSize.                                            *)
LEMMA ScoreIsBounded == \A arr : Correct(arr) \in Nat /\ Correct(arr) <= BoardSize
<1> SUFFICES ASSUME NEW arr PROVE Correct(arr) <= BoardSize
  BY CorrectIsNat
<1> DEFINE Right == {p \in Position : arr[p] = p + 1}
<1>1. IsFiniteSet(Position) /\ Cardinality(Position) = BoardSize
  BY FS_Interval, KernelAssumption DEF Position
<1>2. Cardinality(Right) <= Cardinality(Position)
  BY <1>1, FS_Subset
<1> QED
  BY <1>1, <1>2 DEF Correct

(* After the last round, the board is what one_shuffle makes of the index. *)
LEMMA ShuffleDone ==
  ASSUME IInv, ExactInv, call # NoCall, call.at = "draw", call.i = 0
  PROVE  call.arr = Shuffled[call.idx] /\ AsUint64(call.idx + 1) = call.idx + 1
<1>1. /\ call \in Calls /\ call.idx < call.hi /\ HalfShuffled
      /\ call.idx \in Nat /\ call.idx \in Indices
  BY DEF IInv, CallSound, ExactInv, Calls, Indices
<1>2. call.arr = Shuffled[call.idx]
  <2>1. BoardSize - 1 - call.i = BoardSize - 1
    BY KernelAssumption
  <2> QED
    BY <1>1, <2>1 DEF HalfShuffled, Done, Shuffled, OneShuffle, Indices
<1>3. AsUint64(call.idx + 1) = call.idx + 1
  <2>1. call.idx + 1 \in 0 .. UINT64 - 1
    <3>1. call.hi \in 0 .. UINT64 - 1
      BY <1>1 DEF Calls, Indices
    <3> QED
      BY <1>1, <3>1, ChunksAssumption
  <2> QED
    BY <2>1, ChunksAssumption DEF AsUint64
<1> QED
  BY <1>2, <1>3

LEMMA ExactScore ==
  ASSUME IInv, ExactInv, Score
  PROVE  ExactInv'
<1> DEFINE correct == Correct(call.arr)
           better == correct > call.best.best_correct
           found == [best_correct |-> correct, best_index |-> call.idx,
                     best_arr |-> call.arr]
<1>1. /\ call # NoCall /\ call \in Calls /\ call.at = "draw" /\ call.i = 0
      /\ call.lo <= call.idx /\ BestOf(call.lo .. call.idx - 1)
      /\ call.idx < call.hi /\ HalfShuffled /\ call.hi <= count
  BY DEF IInv, CallSound, Score, ExactInv
<1>2. /\ call.lo \in Nat /\ call.hi \in Nat /\ call.idx \in Nat
      /\ call.idx \in Indices /\ call.best.best_correct \in Int
  BY <1>1 DEF Calls, Indices, Bests
<1>3. call.arr = Shuffled[call.idx] /\ AsUint64(call.idx + 1) = call.idx + 1
  BY <1>1, ShuffleDone
<1>5. /\ call'.best = IF better THEN found ELSE call.best
      /\ call'.idx = call.idx + 1
      /\ call'.at = IF better /\ correct = BoardSize THEN "return" ELSE "index"
      /\ call'.lo = call.lo /\ call'.hi = call.hi
  BY <1>1, <1>3 DEF Score, Calls, Better, BreaksAt
<1>6. correct \in Nat /\ \A y : Correct(Shuffled[y]) \in Nat
  BY CorrectIsNat
<1>7. call.lo .. call'.idx - 1 = (call.lo .. call.idx - 1) \cup {call.idx}
  BY <1>1, <1>2, <1>5
<1>8. BestOf(call.lo .. call.idx - 1)'
  <2> DEFINE old == call.lo .. call.idx - 1
  <2>1. \A y \in old : Correct(Shuffled[y]) <= call'.best.best_correct
    <3> SUFFICES ASSUME NEW y \in old
                 PROVE  Correct(Shuffled[y]) <= call'.best.best_correct
      OBVIOUS
    <3>1. Correct(Shuffled[y]) <= call.best.best_correct
      BY <1>1 DEF BestOf
    <3> QED
      BY <1>2, <1>5, <1>6, <3>1
  <2>2. Correct(Shuffled[call.idx]) <= call'.best.best_correct
    BY <1>2, <1>3, <1>5, <1>6
  <2>3. CASE better
    BY <1>3, <1>5, <1>7, <2>1, <2>2, <2>3 DEF BestOf
  <2>4. CASE ~better
    <3>1. old # {}
      BY <1>1, <1>2, <1>6, <2>4 DEF BestOf
    <3>2. /\ call.best.best_index \in old
          /\ call.best.best_arr = Shuffled[call.best.best_index]
          /\ call.best.best_correct = Correct(Shuffled[call.best.best_index])
      BY <1>1, <3>1 DEF BestOf
    <3> QED
      BY <1>5, <1>7, <2>1, <2>2, <2>4, <3>2 DEF BestOf
  <2> QED
    BY <2>3, <2>4
<1>9. CASE better /\ correct = BoardSize
  <2>1. call.idx \in call.lo .. call.hi - 1
    BY <1>1, <1>2
  <2>2. \A y : Correct(Shuffled[y]) <= BoardSize
    BY ScoreIsBounded
  <2>3. BestOf(call.lo .. call.hi - 1)'
    BY <1>3, <1>5, <1>9, <2>1, <2>2 DEF BestOf
  <2> QED
    BY <1>5, <1>9, <2>3 DEF ExactInv
<1>10. CASE ~(better /\ correct = BoardSize)
  BY <1>1, <1>2, <1>5, <1>8, <1>10 DEF ExactInv
<1> QED
  BY <1>9, <1>10

LEMMA ExactStep ==
  ASSUME IInv, GivesWords, KeepsWords, ExactInv, [Next]_vars
  PROVE  ExactInv'
<1>1. CASE call' = call
  BY <1>1 DEF ExactInv, BestOf, HalfShuffled, Done
<1>2. CASE call' = NoCall
  BY <1>2 DEF ExactInv
<1>3. ASSUME NEW tid \in DOMAIN next, CallComputeRun(tid)
      PROVE  ExactInv'
  <2>1. next[tid] \in Nat
    BY <1>3 DEF IInv, DealtOut, Indices
  <2>2. /\ call'.at = "index" /\ call'.lo = next[tid] /\ call'.idx = next[tid]
        /\ call'.best = [NoBest EXCEPT !.best_index = next[tid]]
    BY <1>3 DEF CallComputeRun
  <2>3. next[tid] .. next[tid] - 1 = {}
    BY <2>1
  <2>4. BestOf(call.lo .. call.idx - 1)'
    BY <2>2, <2>3 DEF BestOf, NoBest
  <2> QED
    BY <2>1, <2>2, <2>4 DEF ExactInv
<1>4. Options => call' = call
  BY DEF Options, ReadCredential, ReadChunkSize, ReadWorkers, Help, Complain,
         Serve, work
<1>5. Return => call' = NoCall
  BY DEF Return
<1>6. UNCHANGED vars => call' = call
  BY DEF vars, work
<1> QED
  BY <1>1, <1>2, <1>3, <1>4, <1>5, <1>6, ExactStart, ExactDraw, ExactScore
  DEF Next, Work

(* Whatever the generator's words, the size of the board, the chunk and    *)
(* the width of the indices: what compute_cpu.c:8-80 returns is the best   *)
(* of the shuffles of its chunk as one_shuffle defines them, with its own  *)
(* index and board, also when it stopped early.                            *)
THEOREM ComputeRunReturnsTheBest ==
  ASSUME GivesWords, KeepsWords
  PROVE  Spec => []ComputeRunIsExact
<1>1. Init => ExactInv
  BY DEF Init, ExactInv
<1>2. IInv /\ ExactInv /\ [Next]_vars => ExactInv'
  BY ExactStep
<1>3. IInv /\ [Next]_vars => IInv'
  BY NextIInv
<1>4. ExactInv => ComputeRunIsExact
  BY DEF ExactInv, BestOf, ComputeRunIsExact
<1> QED
  BY <1>1, <1>2, <1>3, <1>4, InitIInv, PTL DEF Spec

-----------------------------------------------------------------------------
(* Arithmetic of the slices: the chunks of c indices are dealt out to n    *)
(* workers in turn, so that each one's chunks are a stride of n * c apart. *)

OwnerOf(x, c, n) == (x \div c) % n

LEMMA FirstChunk ==
  ASSUME NEW c \in Nat \ {0}, NEW n \in Nat \ {0}, NEW tid \in 0 .. n - 1
  PROVE  tid * c \in Nat /\ (tid * c) % c = 0 /\ OwnerOf(tid * c, c, n) = tid
<1>1. tid * c \in Nat /\ (tid * c) \div c = tid /\ (tid * c) % c = 0
  OBVIOUS
<1>2. tid % n = tid
  OBVIOUS
<1> QED
  BY <1>1, <1>2 DEF OwnerOf

LEMMA NextChunk ==
  ASSUME NEW c \in Nat \ {0}, NEW n \in Nat \ {0}, NEW y \in Nat, y % c = 0
  PROVE  /\ n * c \in Nat /\ n * c >= c
         /\ (y + n * c) % c = 0 /\ OwnerOf(y + n * c, c, n) = OwnerOf(y, c, n)
<1> DEFINE q == y \div c
<1>1. q \in Nat /\ y = q * c
  OBVIOUS
<1> HIDE DEF q
<1>2. y + n * c = (q + n) * c
  BY <1>1
<1>3. ((q + n) * c) \div c = q + n /\ ((q + n) * c) % c = 0
  BY <1>1
<1>4. (q + n) % n = q % n
  <2> DEFINE d == q \div n
             r == q % n
  <2>1. d \in Nat /\ r \in 0 .. n - 1 /\ q = d * n + r
    BY <1>1
  <2> HIDE DEF d, r
  <2>2. q + n = (d + 1) * n + r
    BY <2>1
  <2>3. ((d + 1) * n + r) % n = r /\ (d * n + r) % n = r
    BY <2>1, RemainderBy
  <2> QED
    BY <2>1, <2>2, <2>3
<1>5. y \div c = q
  BY <1>1
<1>6. n * c \in Nat /\ n * c >= c
  OBVIOUS
<1> QED
  BY <1>2, <1>3, <1>4, <1>5, <1>6 DEF OwnerOf

LEMMA OneOwner ==
  ASSUME NEW c \in Nat \ {0}, NEW n \in Nat \ {0}, NEW y \in Nat, y % c = 0,
         NEW x \in y .. y + c - 1
  PROVE  OwnerOf(x, c, n) = OwnerOf(y, c, n)
<1> DEFINE q == y \div c
<1>1. q \in Nat /\ y = q * c
  OBVIOUS
<1> HIDE DEF q
<1>2. x \div c = q /\ y \div c = q
  BY <1>1
<1> QED
  BY <1>2 DEF OwnerOf

LEMMA NothingBefore ==
  ASSUME NEW c \in Nat \ {0}, NEW n \in Nat \ {0}, NEW x \in Nat
  PROVE  OwnerOf(x, c, n) \in 0 .. n - 1 /\ OwnerOf(x, c, n) * c <= x
<1> DEFINE q == x \div c
           r == q % n
<1>1. q \in Nat /\ q * c <= x
  OBVIOUS
<1>2. r \in 0 .. n - 1 /\ r <= q
  BY <1>1
<1>3. OwnerOf(x, c, n) = r
  BY DEF OwnerOf
<1> HIDE DEF q, r
<1>4. r * c <= q * c /\ r * c \in Nat /\ q * c \in Nat
  BY <1>1, <1>2
<1> QED
  BY <1>1, <1>2, <1>3, <1>4

LEMMA NothingBetween ==
  ASSUME NEW c \in Nat \ {0}, NEW n \in Nat \ {0}, NEW y \in Nat, y % c = 0,
         NEW x \in Nat, OwnerOf(x, c, n) = OwnerOf(y, c, n), x < y + n * c
  PROVE  x < y + c
<1> DEFINE p == y \div c
           q == x \div c
           d == p \div n
           e == q \div n
           r == p % n
<1>1. p \in Nat /\ q \in Nat /\ y = p * c /\ x < (q + 1) * c /\ q * c <= x
  OBVIOUS
<1>2. q % n = r
  BY DEF OwnerOf
<1> HIDE DEF p, q
<1>3. d \in Nat /\ e \in Nat /\ r \in Nat /\ p = d * n + r /\ q = e * n + r
  BY <1>1, <1>2
<1> HIDE DEF d, e, r
<1>4. q < p + n
  <2> SUFFICES ASSUME q >= p + n PROVE FALSE
    BY <1>1
  <2>1. q * c >= (p + n) * c
    BY <1>1
  <2>2. (p + n) * c = y + n * c
    BY <1>1
  <2>3. n * c \in Nat /\ q * c \in Nat
    BY <1>1
  <2> QED
    BY <1>1, <2>1, <2>2, <2>3
<1>5. e * n < (d + 1) * n
  BY <1>3, <1>4
<1>6. e <= d
  <2> SUFFICES ASSUME e >= d + 1 PROVE FALSE
    BY <1>3
  <2>1. e * n >= (d + 1) * n
    BY <1>3
  <2> QED
    BY <1>3, <1>5, <2>1
<1>7. q <= p
  <2>1. e * n <= d * n
    BY <1>3, <1>6
  <2>2. e * n \in Nat /\ d * n \in Nat
    BY <1>3
  <2> QED
    BY <1>3, <2>1, <2>2
<1>8. (q + 1) * c <= (p + 1) * c
  BY <1>1, <1>7
<1>9. (p + 1) * c = y + c /\ (q + 1) * c \in Nat
  BY <1>1
<1> QED
  BY <1>1, <1>8, <1>9

-----------------------------------------------------------------------------
(* What of the window is dealt out.                                        *)

Owner(x) == OwnerOf(x, chunk_size, num_workers)
Dealt == {x \in 0 .. count - 1 : x < next[Owner(x)]}
Shuffling == IF call = NoCall THEN {} ELSE call.lo .. call.idx - 1
NonePerfect == \A x \in 0 .. count - 1 : ~Perfect(x)

(* A call works on the chunk that its worker has come to, and leaves       *)
(* nothing of it out.                                                      *)
AtNextChunk ==
  call # NoCall =>
    /\ call.lo = next[call.tid] /\ call.lo < count
    /\ call.hi = IF call.lo + chunk_size < count THEN call.lo + chunk_size
                 ELSE count
    /\ call.lo <= call.idx /\ call.idx <= call.hi
    /\ NonePerfect /\ call.at = "return" => call.idx = call.hi

OnBoundary ==
  \A tid \in DOMAIN next : next[tid] % chunk_size = 0 /\ Owner(next[tid]) = tid
VisitedOnce ==
  NonePerfect => \A x \in 0 .. count - 1 :
                   visited[x] = IF x \in Dealt \cup Shuffling THEN 1 ELSE 0
InSlices ==
  /\ DOMAIN next = 0 .. num_workers - 1 /\ AtNextChunk
  /\ IF chunk_size = 0
     THEN total_done_all = 0 /\ \A tid \in DOMAIN next : next[tid] = 0
     ELSE OnBoundary /\ total_done_all = Cardinality(Dealt) /\ VisitedOnce

DealtInv ==
  /\ DOMAIN visited = Indices
  /\ phase # "serve" =>
       total_done_all = 0 /\ \A x \in Indices : visited[x] = 0
  /\ phase = "serve" /\ NoWrap => InSlices

(* While nothing wraps round, the arithmetic is that of the integers.      *)
LEMMA NothingWraps ==
  ASSUME ReadSoFar, DealtOut, NoWrap
  PROVE  /\ chunk_size \in Nat /\ num_workers \in Nat \ {0} /\ count \in Nat
         /\ UINT64 \in Nat \ {0} /\ Stride = num_workers * chunk_size
         /\ num_workers * chunk_size \in Nat
         /\ chunk_size <= num_workers * chunk_size
         /\ \A n \in Nat : n < UINT64 => AsUint64(n) = n
<1>1. /\ chunk_size \in Nat /\ num_workers \in Nat \ {0} /\ count \in Nat
      /\ UINT64 \in Nat \ {0}
  BY ChunksAssumption DEF ReadSoFar, DealtOut, Indices
<1>2. \A n \in Nat : n < UINT64 => AsUint64(n) = n
  BY <1>1 DEF AsUint64
<1>3. num_workers * chunk_size \in Nat /\ chunk_size <= num_workers * chunk_size
  BY <1>1
<1>4. num_workers * chunk_size < UINT64
  BY <1>1, <1>3 DEF NoWrap
<1> QED
  BY <1>1, <1>2, <1>3, <1>4 DEF Stride

(* What is part of a sum that fits, fits.                                  *)
LEMMA PartFits ==
  ASSUME NEW a \in Nat, NEW b \in Nat, NEW d \in Nat, d <= b, NEW U \in Nat,
         a + b < U
  PROVE  /\ d < U /\ a < U /\ \A x \in 0 .. a - 1 : x \in 0 .. U - 1
         /\ a + d < U /\ \A y \in Nat : y < U => y % U = y
OBVIOUS

(* A first job finds every worker at its first chunk.                      *)
LEMMA DealtServe ==
  ASSUME IInv, DealtInv, Serve
  PROVE  DealtInv'
<1>1. /\ phase = "options" /\ phase' = "serve" /\ call = NoCall /\ call' = NoCall
      /\ next' = [tid \in 0 .. num_workers - 1 |-> AsUint64(tid * chunk_size)]
      /\ UNCHANGED <<chunk_size, num_workers, total_done_all, visited>>
  BY DEF Serve, IInv, ReadSoFar
<1>2. total_done_all' = 0 /\ \A x \in Indices : visited'[x] = 0
  BY <1>1 DEF DealtInv
<1> SUFFICES ASSUME NoWrap' PROVE InSlices'
  BY <1>1, <1>2 DEF DealtInv
<1> DEFINE c == chunk_size
           n == num_workers
<1>3. c \in Nat /\ n \in Nat \ {0} /\ UINT64 \in Nat \ {0}
  BY ChunksAssumption DEF IInv, ReadSoFar, Indices
<1>4. count' \in Nat /\ n * c \in Nat /\ count' + n * c < UINT64
  <2>1. count' \in Nat
    BY ChunksAssumption DEF Serve
  <2>2. n * c \in Nat
    BY <1>3
  <2>3. count' + n * c < UINT64
    BY <1>1 DEF NoWrap
  <2> QED
    BY <2>1, <2>2, <2>3
<1>5. ASSUME NEW tid \in 0 .. n - 1
      PROVE  tid * c \in Nat /\ next'[tid] = tid * c
  <2>1. tid * c \in Nat /\ tid * c <= n * c
    BY <1>3
  <2>2. UINT64 \in Nat
    BY <1>3
  <2>3. (tid * c) % UINT64 = tid * c
    BY <1>4, <2>1, <2>2, PartFits
  <2> QED
    BY <1>1, <2>1, <2>3 DEF AsUint64
<1>6. DOMAIN next' = 0 .. n - 1
  BY <1>1
<1>7. AtNextChunk'
  BY <1>1 DEF AtNextChunk
<1>8. CASE c = 0
  <2>1. \A tid \in DOMAIN next' : next'[tid] = 0
    BY <1>3, <1>5, <1>6, <1>8
  <2> QED
    BY <1>1, <1>2, <1>6, <1>7, <1>8, <2>1 DEF InSlices
<1>9. CASE c # 0
  <2>1. \A tid \in 0 .. n - 1 : next'[tid] % c = 0 /\ OwnerOf(next'[tid], c, n) = tid
    BY <1>3, <1>5, <1>9, FirstChunk
  <2>2. OnBoundary'
    BY <1>1, <1>6, <2>1 DEF OnBoundary, Owner
  <2>3. ASSUME NEW x \in 0 .. count' - 1, x < next'[OwnerOf(x, c, n)]
        PROVE  FALSE
    <3>1. x \in Nat
      BY <1>4
    <3>2. OwnerOf(x, c, n) \in 0 .. n - 1 /\ OwnerOf(x, c, n) * c <= x
      BY <1>3, <1>9, <3>1, NothingBefore
    <3> QED
      BY <1>5, <2>3, <3>1, <3>2
  <2>4. Dealt' = {}
    BY <1>1, <2>3 DEF Dealt, Owner
  <2>5. \A x \in 0 .. count' - 1 : visited'[x] = 0
    <3>1. UINT64 \in Nat /\ n * c <= n * c
      BY <1>3, <1>4
    <3>2. \A x \in 0 .. count' - 1 : x \in Indices
      BY <1>4, <3>1, PartFits DEF Indices
    <3> QED
      BY <1>2, <3>2
  <2>6. VisitedOnce'
    BY <1>1, <2>4, <2>5 DEF VisitedOnce, Shuffling
  <2> QED
    BY <1>1, <1>2, <1>6, <1>7, <1>9, <2>2, <2>4, <2>6, FS_EmptySet DEF InSlices
<1> QED
  BY <1>8, <1>9

(* A step of a call that moves no index keeps what is dealt out.           *)
LEMMA QuietCall ==
  ASSUME DealtInv, UNCHANGED <<phase, chunk_size, num_workers, count, next,
                               total_done_all, visited>>,
         phase = "serve" /\ NoWrap /\ InSlices => AtNextChunk',
         Shuffling' = Shuffling
  PROVE  DealtInv'
<1>1. NonePerfect' = NonePerfect
  BY DEF NonePerfect, Perfect
<1>2. Dealt' = Dealt /\ OnBoundary' = OnBoundary
  BY DEF Dealt, Owner, OnBoundary
<1>3. VisitedOnce' = VisitedOnce
  BY <1>1, <1>2 DEF VisitedOnce
<1>4. NoWrap' = NoWrap
  BY DEF NoWrap
<1> QED
  BY <1>2, <1>3, <1>4 DEF DealtInv, InSlices

LEMMA DealtCall ==
  ASSUME IInv, DealtInv, NEW tid \in DOMAIN next, CallComputeRun(tid)
  PROVE  DealtInv'
<1>1. /\ call = NoCall /\ next[tid] < count /\ next[tid] \in Nat
      /\ call' = [tid |-> tid, lo |-> next[tid], hi |-> Hi(next[tid]),
                  idx |-> next[tid], i |-> 0, k |-> 0, arr |-> Sorted,
                  best |-> [NoBest EXCEPT !.best_index = next[tid]],
                  at |-> "index"]
      /\ UNCHANGED <<phase, chunk_size, num_workers, count, next,
                     total_done_all, visited>>
  BY DEF CallComputeRun, options, IInv, DealtOut, Indices
<1>2. /\ call' # NoCall /\ call'.tid = tid /\ call'.lo = next[tid]
      /\ call'.hi = Hi(next[tid]) /\ call'.idx = next[tid] /\ call'.at = "index"
  <2>1. call'.at = "index" /\ "at" \in DOMAIN call'
    BY <1>1
  <2>2. "at" \notin DOMAIN NoCall
    BY DEF NoCall
  <2> QED
    BY <1>1, <2>1, <2>2
<1>3. Shuffling = {} /\ Shuffling' = {}
  BY <1>1, <1>2 DEF Shuffling
<1>4. ASSUME NoWrap
      PROVE  AtNextChunk'
  <2>1. next[tid] + chunk_size \in Nat /\ next[tid] + chunk_size < UINT64
    BY <1>1, <1>4, NothingWraps DEF NoWrap, IInv
  <2>2. Hi(next[tid]) = IF next[tid] + chunk_size < count
                        THEN next[tid] + chunk_size ELSE count
    BY <1>4, <2>1, NothingWraps DEF Hi, IInv
  <2>3. next[tid] <= Hi(next[tid])
    BY <1>1, <1>4, <2>2, NothingWraps DEF IInv
  <2> QED
    BY <1>1, <1>2, <2>2, <2>3 DEF AtNextChunk
<1> QED
  BY <1>1, <1>3, <1>4, QuietCall

LEMMA DealtStart ==
  ASSUME IInv, DealtInv, StartShuffle
  PROVE  DealtInv'
<1>1. /\ call # NoCall /\ call \in Calls /\ call.at = "index" /\ call' # NoCall
      /\ call'.tid = call.tid /\ call'.lo = call.lo /\ call'.hi = call.hi
      /\ call'.idx = call.idx
      /\ call'.at = IF call.idx < call.hi THEN "draw" ELSE "return"
      /\ UNCHANGED <<phase, chunk_size, num_workers, count, next,
                     total_done_all, visited>>
  <2>1. call # NoCall /\ call \in Calls /\ call.at = "index"
    BY DEF StartShuffle, IInv, CallSound
  <2>2. "at" \in DOMAIN call' /\ "at" \notin DOMAIN NoCall
    BY <2>1 DEF StartShuffle, Calls, NoCall
  <2> QED
    BY <2>1, <2>2 DEF StartShuffle, Calls, options
<1>2. Shuffling' = Shuffling
  BY <1>1 DEF Shuffling
<1>3. AtNextChunk => AtNextChunk'
  <2>1. call.idx \in Nat /\ call.hi \in Nat
    BY <1>1 DEF Calls, Indices
  <2> QED
    BY <1>1, <2>1 DEF AtNextChunk
<1> QED
  BY <1>1, <1>2, <1>3, QuietCall DEF InSlices

LEMMA DealtDraw ==
  ASSUME IInv, DealtInv, DrawWord
  PROVE  DealtInv'
<1>1. /\ call # NoCall /\ call \in Calls /\ call.at = "draw" /\ call' # NoCall
      /\ call'.tid = call.tid /\ call'.lo = call.lo /\ call'.hi = call.hi
      /\ call'.idx = call.idx /\ call'.at = "draw"
      /\ UNCHANGED <<phase, chunk_size, num_workers, count, next,
                     total_done_all, visited>>
  <2>1. call # NoCall /\ call \in Calls /\ call.at = "draw"
    BY DEF DrawWord, IInv, CallSound
  <2>2. "at" \in DOMAIN call' /\ "at" \notin DOMAIN NoCall
    BY <2>1 DEF DrawWord, Calls, NoCall
  <2> QED
    BY <2>1, <2>2 DEF DrawWord, Calls, options
<1>2. Shuffling' = Shuffling
  BY <1>1 DEF Shuffling
<1>3. AtNextChunk => AtNextChunk'
  BY <1>1 DEF AtNextChunk
<1> QED
  BY <1>1, <1>2, <1>3, QuietCall DEF InSlices

(* A worker's call works on its own slice, ahead of what is dealt out.     *)
LEMMA CallIsAhead ==
  ASSUME IInv, call # NoCall, phase = "serve", NoWrap, InSlices,
         chunk_size # 0, NEW x \in call.lo .. call.hi - 1
  PROVE  /\ x \in 0 .. count - 1 /\ Owner(x) = call.tid /\ x \notin Dealt
         /\ x \in Indices
<1>1. /\ chunk_size \in Nat \ {0} /\ num_workers \in Nat \ {0} /\ count \in Nat
      /\ count < UINT64 /\ UINT64 \in Nat
  <2>1. count \in 0 .. UINT64 - 1
    BY DEF IInv, DealtOut, Indices
  <2> QED
    BY <2>1, NothingWraps DEF IInv
<1>2. /\ call.tid \in DOMAIN next /\ call.lo = next[call.tid] /\ call.lo \in Nat
      /\ call.hi \in Nat /\ call.hi <= count /\ call.hi <= call.lo + chunk_size
  <2>1. call \in Calls
    BY DEF IInv, CallSound
  <2>2. call.lo \in Nat /\ call.hi \in Nat /\ call.tid \in DOMAIN next
    BY <2>1 DEF Calls, Indices
  <2> QED
    BY <1>1, <2>2 DEF InSlices, AtNextChunk
<1>3. x \in 0 .. count - 1 /\ x \in call.lo .. call.lo + chunk_size - 1
  BY <1>1, <1>2
<1>4. call.lo % chunk_size = 0 /\ Owner(call.lo) = call.tid
  BY <1>2 DEF InSlices, OnBoundary
<1>5. Owner(x) = call.tid
  BY <1>1, <1>2, <1>3, <1>4, OneOwner DEF Owner
<1>6. ~(x < next[call.tid])
  BY <1>2, <1>3
<1>7. x \in Indices
  BY <1>1, <1>3 DEF Indices
<1> QED
  BY <1>3, <1>5, <1>6, <1>7 DEF Dealt

LEMMA DealtScore ==
  ASSUME IInv, ExactInv, DealtInv, Score
  PROVE  DealtInv'
<1>1. /\ call # NoCall /\ call \in Calls /\ call.at = "draw" /\ call.i = 0
      /\ phase = "serve" /\ call.lo <= call.idx /\ call.idx < call.hi
      /\ call.lo \in Nat /\ call.idx \in Nat /\ call.hi \in Nat
  BY DEF Score, IInv, ReadSoFar, CallSound, Calls, Indices, ExactInv
<1>2. call.arr = Shuffled[call.idx] /\ AsUint64(call.idx + 1) = call.idx + 1
  BY <1>1, ShuffleDone
<1>3. /\ call'.tid = call.tid /\ call'.lo = call.lo /\ call'.hi = call.hi
      /\ call'.idx = call.idx + 1 /\ call' # NoCall
      /\ call'.at = "return" => Correct(call.arr) = BoardSize
      /\ UNCHANGED <<phase, chunk_size, num_workers, count, next, total_done_all>>
  <2>1. "at" \in DOMAIN call' /\ "at" \notin DOMAIN NoCall
    BY <1>1 DEF Score, Calls, NoCall
  <2> QED
    BY <1>1, <1>2, <2>1 DEF Score, Calls, options, Better, BreaksAt
<1>4. visited' = IF NoWrap /\ visited[call.idx] < 2
                 THEN [visited EXCEPT ![call.idx] = @ + 1] ELSE visited
  BY DEF Score
<1>5. DOMAIN visited' = Indices
  BY <1>4 DEF DealtInv
<1>6. NoWrap' = NoWrap /\ NonePerfect' = NonePerfect
  BY <1>3 DEF NoWrap, NonePerfect, Perfect
<1> SUFFICES ASSUME NoWrap PROVE InSlices'
  BY <1>1, <1>3, <1>5, <1>6 DEF DealtInv
<1>7. InSlices
  BY <1>1 DEF DealtInv
<1>8. NonePerfect => call'.at # "return"
  <2>1. call.idx \in 0 .. count - 1
    <3>1. call.hi <= count /\ count \in Nat
      BY <1>1 DEF IInv, CallSound, DealtOut, Indices
    <3> QED
      BY <1>1, <3>1
  <2> QED
    BY <1>2, <1>3, <2>1 DEF NonePerfect, Perfect
<1>9. AtNextChunk'
  BY <1>1, <1>3, <1>6, <1>7, <1>8 DEF InSlices, AtNextChunk
<1>10. Dealt' = Dealt /\ OnBoundary' = OnBoundary
  BY <1>3 DEF Dealt, OnBoundary, Owner
<1>11. ASSUME chunk_size # 0
       PROVE  VisitedOnce'
  <2> SUFFICES ASSUME NonePerfect, NEW x \in 0 .. count - 1
               PROVE  visited'[x] =
                        IF x \in Dealt \cup Shuffling' THEN 1 ELSE 0
    BY <1>3, <1>6, <1>10 DEF VisitedOnce
  <2>1. Shuffling' = Shuffling \cup {call.idx}
    BY <1>1, <1>3 DEF Shuffling
  <2>2. call.idx \in call.lo .. call.hi - 1
    BY <1>1
  <2>3. /\ call.idx \in 0 .. count - 1 /\ call.idx \notin Dealt
        /\ call.idx \in Indices
    BY <1>1, <1>7, <1>11, <2>2, CallIsAhead
  <2>4. call.idx \notin Shuffling
    BY <1>1 DEF Shuffling
  <2>5. VisitedOnce
    BY <1>7, <1>11 DEF InSlices
  <2>6. visited[call.idx] = 0
    BY <2>3, <2>4, <2>5 DEF VisitedOnce
  <2>7. visited' = [visited EXCEPT ![call.idx] = 1]
    BY <1>4, <2>6
  <2>8. CASE x = call.idx
    BY <2>1, <2>3, <2>7, <2>8 DEF DealtInv
  <2>9. CASE x # call.idx
    <3>1. visited'[x] = visited[x]
      BY <2>7, <2>9
    <3> QED
      BY <2>1, <2>5, <2>9, <3>1 DEF VisitedOnce
  <2> QED
    BY <2>8, <2>9
<1> QED
  BY <1>3, <1>7, <1>9, <1>10, <1>11 DEF InSlices

(* A chunk that comes back is dealt out whole, and nothing but it.         *)
LEMMA ChunkIsDealt ==
  ASSUME IInv, DealtInv, call # NoCall, Return, phase = "serve", NoWrap,
         chunk_size # 0
  PROVE  /\ Dealt' = Dealt \cup (call.lo .. call.hi - 1)
         /\ OnBoundary'
<1> USE DEF IInv
<1> DEFINE c == chunk_size
           n == num_workers
           t == call.tid
           lo == call.lo
<1>1. /\ call \in Calls /\ t \in DOMAIN next /\ lo \in Nat /\ lo = next[t]
      /\ InSlices /\ lo < count
      /\ call.hi = IF lo + c < count THEN lo + c ELSE count
  BY DEF CallSound, Calls, Indices, DealtInv, InSlices, AtNextChunk
<1>2. /\ c \in Nat \ {0} /\ n \in Nat \ {0} /\ count \in Nat
      /\ Stride = n * c /\ n * c \in Nat /\ count + n * c < UINT64
  BY NothingWraps DEF NoWrap
<1>3. AsUint64(lo + Stride) = lo + n * c
  <2>1. lo + n * c \in Nat /\ lo + n * c < UINT64
    <3> DEFINE stride == n * c
    <3>1. stride \in Nat /\ count + stride < UINT64 /\ UINT64 \in Nat
      BY <1>2, ChunksAssumption
    <3> HIDE DEF stride
    <3>2. lo + stride \in Nat /\ lo + stride < UINT64
      BY <1>1, <1>2, <3>1
    <3> QED
      BY <3>2 DEF stride
  <2> QED
    BY <1>2, <2>1, NothingWraps
<1>4. /\ next' = [next EXCEPT ![t] = lo + n * c]
      /\ UNCHANGED <<count, chunk_size, num_workers>>
  BY <1>1, <1>3 DEF Return, options
<1>5. next'[t] = lo + n * c /\ \A v \in DOMAIN next : v # t => next'[v] = next[v]
  BY <1>1, <1>4
<1>6. lo % c = 0 /\ OwnerOf(lo, c, n) = t
  BY <1>1 DEF InSlices, OnBoundary, Owner
<1>7. OnBoundary'
  <2>1. (lo + n * c) % c = 0 /\ OwnerOf(lo + n * c, c, n) = t
    BY <1>1, <1>2, <1>6, NextChunk
  <2> QED
    BY <1>1, <1>4, <1>5, <2>1 DEF InSlices, OnBoundary, Owner
<1>8. ASSUME NEW x \in 0 .. count - 1
      PROVE  x < next'[OwnerOf(x, c, n)] <=>
               x \in Dealt \cup (lo .. call.hi - 1)
  <2>1. x \in Nat /\ OwnerOf(x, c, n) \in DOMAIN next
    <3>1. x \in Nat
      BY <1>2
    <3> QED
      BY <1>1, <1>2, <3>1, NothingBefore DEF InSlices
  <2>2. x \in Dealt <=> x < next[OwnerOf(x, c, n)]
    BY DEF Dealt, Owner
  <2>3. x \in lo .. call.hi - 1 <=> lo <= x /\ x < lo + c
    BY <1>1, <1>2, <2>1
  <2>4. CASE OwnerOf(x, c, n) = t
    <3>1. x < lo + n * c => x < lo + c
      BY <1>1, <1>2, <1>6, <2>1, <2>4, NothingBetween
    <3>2. n * c >= c /\ n * c \in Nat
      BY <1>1, <1>2, <1>6, NextChunk
    <3>3. x < lo + c => x < lo + n * c
      BY <1>1, <1>2, <2>1, <3>2
    <3> QED
      BY <1>1, <1>2, <1>5, <2>1, <2>2, <2>3, <2>4, <3>1, <3>3
  <2>5. CASE OwnerOf(x, c, n) # t
    <3>1. ~(lo <= x /\ x < lo + c)
      <4> SUFFICES ASSUME lo <= x, x < lo + c PROVE FALSE
        OBVIOUS
      <4>1. x \in lo .. lo + c - 1
        BY <1>1, <1>2, <2>1
      <4> QED
        BY <1>1, <1>2, <1>6, <2>5, <4>1, OneOwner
    <3> QED
      BY <1>5, <2>1, <2>2, <2>3, <2>5, <3>1
  <2> QED
    BY <2>4, <2>5
<1>9. ASSUME NEW x \in Dealt \cup (lo .. call.hi - 1)
      PROVE  x \in 0 .. count - 1
  BY <1>1, <1>2 DEF Dealt
<1>10. Dealt' = {x \in 0 .. count - 1 : x < next'[OwnerOf(x, c, n)]}
  BY <1>4 DEF Dealt, Owner
<1> QED
  BY <1>7, <1>8, <1>9, <1>10

LEMMA IntervalSize ==
  ASSUME NEW a \in Nat, NEW b \in Nat, a < b
  PROVE  IsFiniteSet(a .. b - 1) /\ Cardinality(a .. b - 1) = b - a
<1>1. /\ IsFiniteSet(a .. b - 1)
      /\ Cardinality(a .. b - 1) = IF a > b - 1 THEN 0 ELSE b - 1 - a + 1
  BY FS_Interval
<1> QED
  BY <1>1

LEMMA DealtReturn ==
  ASSUME IInv, DealtInv, Return
  PROVE  DealtInv'
<1> USE DEF IInv
<1>1. /\ call # NoCall /\ call.at = "return" /\ call \in Calls /\ call' = NoCall
      /\ phase = "serve" /\ call.tid \in DOMAIN next /\ call.lo \in Nat
      /\ total_done_all' = AsUint64(total_done_all + call.hi - call.lo)
      /\ next' = [next EXCEPT ![call.tid] = AsUint64(@ + Stride)]
      /\ UNCHANGED <<phase, chunk_size, num_workers, count, visited>>
  BY DEF Return, options, ReadSoFar, CallSound, Calls, Indices
<1>2. NoWrap' = NoWrap /\ NonePerfect' = NonePerfect
  BY <1>1 DEF NoWrap, NonePerfect, Perfect
<1> SUFFICES ASSUME NoWrap PROVE InSlices'
  BY <1>1, <1>2 DEF DealtInv
<1>3. /\ InSlices /\ call.lo = next[call.tid] /\ call.lo < count
      /\ call.hi = IF call.lo + chunk_size < count THEN call.lo + chunk_size
                   ELSE count
      /\ NonePerfect => call.idx = call.hi
  BY <1>1 DEF DealtInv, InSlices, AtNextChunk
<1>4. DOMAIN next' = 0 .. num_workers' - 1 /\ AtNextChunk'
  BY <1>1, <1>3 DEF InSlices, AtNextChunk
<1>5. /\ chunk_size \in Nat /\ num_workers \in Nat \ {0} /\ count \in Nat
      /\ UINT64 \in Nat \ {0} /\ Stride = num_workers * chunk_size
      /\ \A n \in Nat : n < UINT64 => AsUint64(n) = n
      /\ count < UINT64
  <2>1. count \in 0 .. UINT64 - 1
    BY DEF DealtOut, Indices
  <2> QED
    BY <2>1, NothingWraps
<1>6. CASE chunk_size = 0
  <2>1. Stride = 0 /\ call.hi = call.lo
    BY <1>1, <1>3, <1>5, <1>6
  <2>2. total_done_all = 0 /\ \A tid \in DOMAIN next : next[tid] = 0
    BY <1>3, <1>6 DEF InSlices
  <2>3. AsUint64(0) = 0
    BY <1>5
  <2>4. total_done_all' = 0
    BY <1>1, <2>1, <2>2, <2>3
  <2>5. \A tid \in DOMAIN next' : next'[tid] = 0
    BY <1>1, <2>1, <2>2, <2>3
  <2> QED
    BY <1>1, <1>4, <1>6, <2>4, <2>5 DEF InSlices
<1>7. CASE chunk_size # 0
  <2> DEFINE C == call.lo .. call.hi - 1
  <2>1. Dealt' = Dealt \cup C /\ OnBoundary'
    BY <1>1, <1>7, ChunkIsDealt
  <2>2. Dealt \cap C = {}
    BY <1>1, <1>3, <1>7, CallIsAhead
  <2>3. total_done_all' = Cardinality(Dealt')
    <3>1. call.lo < call.hi /\ call.hi \in Nat
      BY <1>1, <1>3, <1>5, <1>7
    <3>2. IsFiniteSet(C) /\ Cardinality(C) = call.hi - call.lo
      BY <1>1, <3>1, IntervalSize
    <3>3. /\ IsFiniteSet(0 .. count - 1) /\ Cardinality(0 .. count - 1) <= count
      <4>1. Cardinality(0 .. count - 1) =
              IF 0 > count - 1 THEN 0 ELSE count - 1 - 0 + 1
        BY <1>5, FS_Interval
      <4> QED
        BY <1>5, <4>1, FS_Interval
    <3>4. IsFiniteSet(Dealt) /\ Cardinality(Dealt) \in Nat
      BY <3>3, FS_Subset, FS_CardinalityType DEF Dealt
    <3>5. Cardinality(Dealt \cup C) =
            Cardinality(Dealt) + Cardinality(C) - Cardinality(Dealt \cap C)
      BY <3>2, <3>4, FS_Union
    <3>6. Cardinality(Dealt \cap C) = 0
      BY <2>2, FS_EmptySet
    <3>7. total_done_all = Cardinality(Dealt)
      BY <1>3, <1>7 DEF InSlices
    <3>8. total_done_all + call.hi - call.lo = Cardinality(Dealt')
      BY <1>1, <2>1, <3>1, <3>2, <3>4, <3>5, <3>6, <3>7
    <3>9. Cardinality(Dealt') <= count /\ Cardinality(Dealt') \in Nat
      <4>1. Dealt' \subseteq 0 .. count - 1
        BY <1>1 DEF Dealt
      <4>2. IsFiniteSet(Dealt') /\ Cardinality(Dealt') <= Cardinality(0 .. count - 1)
        BY <3>3, <4>1, FS_Subset
      <4>3. Cardinality(Dealt') \in Nat /\ Cardinality(0 .. count - 1) \in Nat
        BY <3>3, <4>2, FS_CardinalityType
      <4> QED
        BY <1>5, <3>3, <4>2, <4>3
    <3> QED
      BY <1>1, <1>5, <3>8, <3>9
  <2>4. VisitedOnce'
    <3> SUFFICES ASSUME NonePerfect, NEW x \in 0 .. count - 1
                 PROVE  visited[x] = IF x \in Dealt' THEN 1 ELSE 0
      BY <1>1, <1>2 DEF VisitedOnce, Shuffling
    <3>1. Shuffling = C
      BY <1>1, <1>3 DEF Shuffling
    <3>2. VisitedOnce
      BY <1>3, <1>7 DEF InSlices
    <3> QED
      BY <2>1, <3>1, <3>2 DEF VisitedOnce
  <2> QED
    BY <1>1, <1>4, <1>7, <2>1, <2>3, <2>4 DEF InSlices
<1> QED
  BY <1>6, <1>7

LEMMA DealtStep ==
  ASSUME IInv, ExactInv, DealtInv, [Next]_vars
  PROVE  DealtInv'
<1>1. CASE Serve
  BY <1>1, DealtServe
<1>2. CASE ReadCredential \/ ReadChunkSize \/ ReadWorkers \/ Help \/ Complain
  <2>1. phase # "serve" /\ phase' # "serve" /\ UNCHANGED work
    BY <1>2 DEF ReadCredential, ReadChunkSize, ReadWorkers, Help, Complain,
                AtOption
  <2> QED
    BY <2>1 DEF DealtInv, work
<1>3. CASE UNCHANGED vars
  <2>1. /\ NonePerfect' = NonePerfect /\ Dealt' = Dealt
        /\ OnBoundary' = OnBoundary /\ Shuffling' = Shuffling
        /\ AtNextChunk' = AtNextChunk
        /\ UNCHANGED <<phase, chunk_size, num_workers, count, next,
                       total_done_all, visited>>
    BY <1>3 DEF vars, options, work, NonePerfect, Perfect, Dealt, OnBoundary,
                Shuffling, Owner, AtNextChunk
  <2> QED
    BY <2>1, QuietCall DEF InSlices
<1>4. CASE Work
  BY <1>4, DealtCall, DealtStart, DealtDraw, DealtScore, DealtReturn DEF Work
<1> QED
  BY <1>1, <1>2, <1>3, <1>4 DEF Next, Options

LEMMA InitDealt == Init => DealtInv
BY DEF Init, DealtInv, Indices

(* However the workers' chunks of worker.c:41-67 alternate: unless a       *)
(* uint64_t wraps round, a window that is finished was counted in full,    *)
(* and every index of it shuffled exactly once, if no shuffle was perfect. *)
THEOREM WindowIsDealtOut ==
  ASSUME GivesWords, KeepsWords
  PROVE  Spec => []EachIndexOnce
<1>1. IInv /\ DealtInv => EachIndexOnce
  <2> SUFFICES ASSUME IInv, InSlices, phase = "serve", call = NoCall, NoWrap,
                      \A tid \in DOMAIN next : next[tid] >= count
               PROVE  /\ total_done_all = count
                      /\ NonePerfect =>
                           \A x \in 0 .. count - 1 : visited[x] = 1
    BY DEF EachIndexOnce, Finished, DealtInv, NonePerfect
  <2>1. chunk_size \in Nat /\ num_workers \in Nat \ {0} /\ count \in Nat
    BY NothingWraps DEF IInv
  <2>2. CASE chunk_size = 0
    <3>1. 0 \in DOMAIN next /\ next[0] = 0
      BY <2>1, <2>2 DEF InSlices
    <3>2. count = 0
      BY <2>1, <3>1
    <3>3. total_done_all = 0
      BY <2>2 DEF InSlices
    <3> QED
      BY <3>2, <3>3
  <2>3. CASE chunk_size # 0
    <3>1. ASSUME NEW x \in 0 .. count - 1
          PROVE  x < next[Owner(x)]
      <4>1. x \in Nat
        BY <2>1
      <4>2. Owner(x) \in DOMAIN next
        BY <2>1, <2>3, <4>1, NothingBefore DEF Owner, InSlices
      <4>3. next[Owner(x)] \in Nat /\ next[Owner(x)] >= count
        BY <4>2 DEF IInv, DealtOut, Indices
      <4> QED
        BY <2>1, <4>1, <4>3
    <3>2. Dealt = 0 .. count - 1
      BY <3>1 DEF Dealt
    <3>3. Cardinality(0 .. count - 1) =
            IF 0 > count - 1 THEN 0 ELSE count - 1 - 0 + 1
      BY <2>1, FS_Interval
    <3>4. total_done_all = count
      BY <2>1, <2>3, <3>2, <3>3 DEF InSlices
    <3>5. NonePerfect => \A x \in 0 .. count - 1 : visited[x] = 1
      BY <2>3, <3>2 DEF InSlices, VisitedOnce
    <3> QED
      BY <3>4, <3>5
  <2> QED
    BY <2>2, <2>3
<1>2. IInv /\ ExactInv /\ DealtInv /\ [Next]_vars => DealtInv'
  BY DealtStep
<1>3. IInv /\ ExactInv /\ [Next]_vars => ExactInv'
  BY ExactStep
<1>4. IInv /\ [Next]_vars => IInv'
  BY NextIInv
<1>5. Init => IInv /\ ExactInv /\ DealtInv
  BY InitIInv, InitDealt DEF Init, ExactInv
<1> QED
  BY <1>1, <1>2, <1>3, <1>4, <1>5, PTL DEF Spec
=============================================================================
