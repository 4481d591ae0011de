------------------------------- MODULE Chunks -------------------------------
(***************************************************************************)
(* The way from the command line to the shuffles, with the widths of the   *)
(* code: main (src/main.c) reads the options, worker_thread (src/worker.c) *)
(* deals a window out in chunks of uint64_t indices, and compute_run       *)
(* (src/compute/compute_cpu.c) shuffles what is in a chunk.                *)
(*                                                                         *)
(* Lease models how the threads interleave, and takes no index to wrap     *)
(* round; here indices wrap, one job is dealt out, and since a worker      *)
(* shares nothing with the others before its chunk is computed, one chunk  *)
(* is computed at a time.  A word of the command line is a string, and     *)
(* Parsed tells the number that it begins with, of any size; strtol and    *)
(* strtoull make a long and a uint64_t of it.                              *)
(***************************************************************************)
EXTENDS CpuKernel, Sequences, FiniteSetsExt

CONSTANTS
  UINT64, UINT32,     \* 2^64 and 2^32; a long has as many bits as a uint64_t
  DefaultChunk,       \* 1000000
  Parsed,             \* by word: the number it starts with, and if that is all
  CommandLines, Counts,  \* bounds: the sessions that are tried
  NULL,
  Word(_, _)          \* Word(index, k): the k-th word of the generator

Flags == {"--uuid", "--nickname", "--code"}
ValueOptions == Flags \cup {"--chunk-size", "--workers"}

ASSUME ChunksAssumption ==
  /\ UINT32 \in Nat \ {0, 1} /\ UINT64 \in Nat /\ UINT64 >= UINT32
  /\ DefaultChunk \in 0 .. UINT64 - 1
  /\ CommandLines \subseteq Seq(STRING) /\ NULL \notin STRING
  /\ \A line \in CommandLines : \A k \in DOMAIN line :
       Parsed[line[k]] \in [number : Int, whole : BOOLEAN]
  /\ Counts \subseteq 0 .. UINT64 - 1

VARIABLES
  argv, arg,          \* the command line, and the index of the loop in main
  phase,              \* "options", "serve", or how main returned
  account_creds, chunk_size, num_workers,
  count,              \* of the job
  next,               \* by tid: the i of worker_thread
  call,               \* the call of compute_run that is going on
  total_done_all, global_best,
  visited             \* auxiliary: how often each index was shuffled, up to 2

options == <<argv, arg, phase, account_creds, chunk_size, num_workers>>
work == <<count, next, call, total_done_all, global_best, visited>>
vars == <<options, work>>

NoCall == [tid |-> -1]
NoBest == [best_correct |-> -1, best_index |-> 0,
           best_arr |-> [p \in Position |-> 0]]

Init ==
  /\ argv \in CommandLines /\ arg = 1
  /\ phase = "options"
  /\ account_creds = [f \in Flags |-> NULL]
  /\ chunk_size = DefaultChunk /\ num_workers = 1
  /\ count = 0 /\ next = <<>> /\ call = NoCall
  /\ total_done_all = 0 /\ global_best = NoBest
  /\ visited = [x \in 0 .. UINT64 - 1 |-> 0]

-----------------------------------------------------------------------------
(* Numbers.                                                                *)

LONG_MAX == UINT64 \div 2 - 1

(* What an int and a uint64_t keep of a number.                            *)
AsInt(n) ==
  LET cut == n % UINT32 IN IF cut >= UINT32 \div 2 THEN cut - UINT32 ELSE cut
AsUint64(n) == n % UINT64

(* The number at the start of a word, or the nearest that a long holds.    *)
strtol(word) ==
  LET n == Parsed[word].number
  IN IF n > LONG_MAX THEN LONG_MAX
     ELSE IF n < -LONG_MAX - 1 THEN -LONG_MAX - 1
     ELSE n

(* A minus sign negates modulo 2^64.                                       *)
strtoull(word) ==
  LET n == Parsed[word].number
  IN IF n \in 1 - UINT64 .. UINT64 - 1 THEN AsUint64(n) ELSE UINT64 - 1

(* Faulty variants, each a slip this code invites.                         *)
RestIgnored(value) == AsInt(strtol(value)) <= 0
Uncapped(lo) == (lo + chunk_size) % UINT64
StrideOfOne == chunk_size
StrideOffByOne == ((num_workers - 1) * chunk_size) % UINT64
LowerWins(correct, best) == correct < best \/ best = -1

NotPositive(value) == ~Parsed[value].whole \/ AsInt(strtol(value)) <= 0

-----------------------------------------------------------------------------
(* The loop over the command line: an option, and the value that follows.  *)

AtOption(opts) == phase = "options" /\ arg <= Len(argv) /\ argv[arg] \in opts
HasValue == arg < Len(argv)
Value == argv[arg + 1]

ReadCredential ==
  /\ AtOption(Flags) /\ HasValue
  /\ account_creds' = [account_creds EXCEPT ![argv[arg]] = Value]
  /\ arg' = arg + 2
  /\ UNCHANGED <<argv, phase, chunk_size, num_workers, work>>

ReadChunkSize ==
  /\ AtOption({"--chunk-size"}) /\ HasValue
  /\ chunk_size' = strtoull(Value)
  /\ arg' = arg + 2
  /\ UNCHANGED <<argv, phase, account_creds, num_workers, work>>

ReadWorkers ==
  /\ AtOption({"--workers"}) /\ HasValue
  /\ ~NotPositive(Value)
  /\ num_workers' = AsInt(strtol(Value))
  /\ arg' = arg + 2
  /\ UNCHANGED <<argv, phase, account_creds, chunk_size, work>>

Help ==
  /\ AtOption({"--help", "-h"})
  /\ phase' = "helped"
  /\ UNCHANGED <<argv, arg, account_creds, chunk_size, num_workers, work>>

Complain ==
  /\ phase = "options"
  /\ \/ AtOption(ValueOptions) /\ ~HasValue
     \/ AtOption({"--workers"}) /\ HasValue /\ NotPositive(Value)
     \/ arg <= Len(argv) /\ ~AtOption(ValueOptions \cup {"--help", "-h"})
     \/ arg > Len(argv) /\ \E f \in Flags : account_creds[f] = NULL
  /\ phase' = "refused"
  /\ UNCHANGED <<argv, arg, account_creds, chunk_size, num_workers, work>>

(* The threads start, and the first job comes.                             *)
Serve ==
  /\ phase = "options" /\ arg > Len(argv)
  /\ \A f \in Flags : account_creds[f] # NULL
  /\ phase' = "serve"
  /\ count' \in Counts
  /\ next' = [tid \in 0 .. num_workers - 1 |-> AsUint64(tid * chunk_size)]
  /\ UNCHANGED <<argv, arg, account_creds, chunk_size, num_workers,
                 call, total_done_all, global_best, visited>>

-----------------------------------------------------------------------------
(* worker_thread: the next chunk of worker tid.                            *)

Hi(lo) ==
  LET end == AsUint64(lo + chunk_size) IN IF end < count THEN end ELSE count
Stride == AsUint64(num_workers * chunk_size)

CallComputeRun(tid) ==
  /\ phase = "serve" /\ call = NoCall
  /\ next[tid] < count
  /\ call' = [tid |-> tid, lo |-> next[tid], hi |-> Hi(next[tid]),
              idx |-> next[tid], i |-> 0, k |-> 0, arr |-> Sorted,
              best |-> [NoBest EXCEPT !.best_index = next[tid]],
              at |-> "index"]
  /\ UNCHANGED <<options, count, next, total_done_all, global_best, visited>>

Return ==
  /\ call # NoCall /\ call.at = "return"
  /\ total_done_all' = AsUint64(total_done_all + call.hi - call.lo)
  /\ global_best' = IF call.best.best_correct > global_best.best_correct
                    THEN call.best ELSE global_best
  /\ next' = [next EXCEPT ![call.tid] = AsUint64(@ + Stride)]
  /\ call' = NoCall
  /\ UNCHANGED <<options, count, visited>>

-----------------------------------------------------------------------------
(* compute_run: the loop over the indices, the rounds of one shuffle.      *)

StartShuffle ==
  /\ call # NoCall /\ call.at = "index"
  /\ call' = IF call.idx < call.hi
             THEN [call EXCEPT !.at = "draw", !.i = BoardSize - 1, !.k = 0,
                               !.arr = Sorted]
             ELSE [call EXCEPT !.at = "return"]
  /\ UNCHANGED <<options, count, next, total_done_all, global_best, visited>>

DrawWord ==
  /\ call # NoCall /\ call.at = "draw" /\ call.i >= 1
  /\ LET x == Word(call.idx, call.k + 1)
     IN  call' = IF x < Threshold(call.i + 1)
                 THEN [call EXCEPT !.k = @ + 1]
                 ELSE [call EXCEPT !.k = @ + 1, !.i = @ - 1,
                                   !.arr = Swap(@, call.i, x)]
  /\ UNCHANGED <<options, count, next, total_done_all, global_best, visited>>

(* No uint64_t wraps round: what Lease assumes.                            *)
NoWrap == count + num_workers * chunk_size < UINT64

Better(correct, best) == correct > best
BreaksAt(correct) == correct = BoardSize

Score ==
  /\ call # NoCall /\ call.at = "draw" /\ call.i = 0
  /\ LET correct == Correct(call.arr)
         better == Better(correct, call.best.best_correct)
     IN  call' = [call EXCEPT
           !.best = IF better
                    THEN [best_correct |-> correct, best_index |-> call.idx,
                          best_arr |-> call.arr]
                    ELSE @,
           !.idx = AsUint64(@ + 1),
           !.at = IF better /\ BreaksAt(correct) THEN "return" ELSE "index"]
  /\ visited' = IF NoWrap /\ visited[call.idx] < 2
                THEN [visited EXCEPT ![call.idx] = @ + 1]
                ELSE visited
  /\ UNCHANGED <<options, count, next, total_done_all, global_best>>

-----------------------------------------------------------------------------
(* main, until the threads start.                                          *)
Options ==
  ReadCredential \/ ReadChunkSize \/ ReadWorkers \/ Help \/ Complain \/ Serve

Work ==
  \/ \E tid \in DOMAIN next : CallComputeRun(tid)
  \/ StartShuffle \/ DrawWord \/ Score
  \/ Return

Next == Options \/ Work

Spec == Init /\ [][Next]_vars

(* While a worker has work, some worker runs; which does not matter.       *)
FairSpec == Spec /\ WF_vars(Work)

-----------------------------------------------------------------------------
(* Properties.                                                             *)

(* Everything stays in its width, an array being shuffled a permutation,   *)
(* and a chunk in the window, also when indices wrap round.                *)
TypeOK ==
  /\ phase \in {"options", "serve", "refused", "helped"}
  /\ chunk_size \in 0 .. UINT64 - 1 /\ num_workers \in 1 .. UINT32 \div 2
  /\ \A tid \in DOMAIN next : next[tid] \in 0 .. UINT64 - 1
  /\ total_done_all \in 0 .. UINT64 - 1
  /\ call # NoCall =>
       /\ {call.arr[p] : p \in Position} = 1 .. BoardSize
       /\ call.lo < count /\ call.hi <= count

(* A command line is pairs of an option and a value, whatever the value    *)
(* looks like; the last of several pairs counts, and a number is what it   *)
(* is, not what an int keeps of it.                                        *)
Pairs == {k \in DOMAIN argv : k % 2 = 1}
PairsOf(option) == {k \in Pairs : argv[k] = option}
Given(option) == {argv[k + 1] : k \in {p \in PairsOf(option) : p < Len(argv)}}
Asked(option) == argv[Max(PairsOf(option)) + 1]
NumberAsked(option) == Parsed[Asked(option)].number

NamesAccount ==
  /\ Len(argv) % 2 = 0
  /\ \A k \in Pairs : argv[k] \in ValueOptions
  /\ \A f \in Flags : PairsOf(f) # {}
Proper ==
  /\ NamesAccount
  /\ \A word \in Given("--workers") :
       Parsed[word].whole /\ Parsed[word].number > 0

AsManyWorkers ==
  num_workers = IF PairsOf("--workers") = {} THEN 1 ELSE NumberAsked("--workers")
AsLongChunks ==
  IF PairsOf("--chunk-size") = {} THEN chunk_size = DefaultChunk
  ELSE Parsed[Asked("--chunk-size")].whole
         /\ NumberAsked("--chunk-size") \in 0 .. UINT64 - 1
       => chunk_size = NumberAsked("--chunk-size")

(* main.c:32: all that is asked of --workers is a positive integer.  Who   *)
(* gives one gets that many, and who gives none is not served.  The code   *)
(* keeps this only where an int holds the number: below, it is asked there.*)
WorkersAreAsAsked ==
  /\ phase = "serve" => Proper /\ AsManyWorkers
  /\ phase = "refused" => ~Proper

(* The session that starts has the account and the chunks that the command *)
(* line asks for, where a uint64_t holds the chunk size; and, where an int *)
(* holds the numbers of workers, as many of those, and main refuses no     *)
(* command line that asks properly.                                        *)
AnIntHolds(n) == n \in -(UINT32 \div 2) .. UINT32 \div 2 - 1
IntsSuffice == \A word \in Given("--workers") : AnIntHolds(Parsed[word].number)

SessionIsAsAsked ==
  /\ phase = "serve" =>
       /\ NamesAccount
       /\ \A f \in Flags : account_creds[f] = Asked(f)
       /\ AsLongChunks
  /\ IntsSuffice => WorkersAreAsAsked
  /\ phase = "helped" => \E k \in Pairs : argv[k] \in {"--help", "-h"}

(* BOGO_API.md's one_shuffle, written down from the generator's words: the *)
(* words that count are, round after round, the first that is not below    *)
(* 2^32 mod max.                                                           *)
FirstKept(x, k, max) ==
  Min({m \in k + 1 .. k + WORD : Word(x, m) >= WORD % max})
Rounds(x) ==
  LET drawn[r \in 0 .. BoardSize - 1] ==
        IF r = 0 THEN [k |-> 0, arr |-> Sorted]
        ELSE LET max == BoardSize - r + 1
                 k == FirstKept(x, drawn[r-1].k, max)
             IN  [k |-> k, arr |-> Swap(drawn[r-1].arr, max - 1, Word(x, k))]
  IN  drawn
OneShuffle(x) == Rounds(x)[BoardSize - 1].arr
Shuffled == [x \in 0 .. UINT64 - 1 |-> OneShuffle(x)]

(* BOGO_API.md: the kernel must be byte-identical.  What compute_run comes *)
(* back with is the best of the shuffles of its chunk, with its board.     *)
ComputeRunIsExact ==
  call # NoCall /\ call.at = "return" =>
    LET boards == call.lo .. call.hi - 1
        score(x) == Correct(Shuffled[x])
        best == call.best
    IN  IF boards = {} THEN best.best_correct = -1 /\ best.best_index = call.lo
        ELSE /\ best.best_index \in boards
             /\ best.best_arr = Shuffled[best.best_index]
             /\ best.best_correct = score(best.best_index)
             /\ \A x \in boards : score(x) <= best.best_correct

(* Whatever word the generator gives, an index below max is as likely as   *)
(* any other, in all three forms of the threshold.                         *)
DrawsAreUnbiased ==
  call # NoCall /\ call.at = "draw" /\ call.i >= 1 =>
    LET max == call.i + 1
        words(j) == {x \in Words : x >= Threshold(max) /\ x % max = j}
    IN  /\ \A j \in 0 .. call.i : Cardinality(words(j)) = WORD \div max
        /\ ThresholdOnCuda(max) = Threshold(max)
        /\ ThresholdOnVulkan(max) = Threshold(max)

Finished ==
  /\ phase = "serve" /\ call = NoCall
  /\ \A tid \in DOMAIN next : next[tid] >= count

(* The window is dealt out whole, each index once, unless one of its       *)
(* shuffles is perfect.                                                    *)
Perfect(x) == Correct(Shuffled[x]) = BoardSize
EachIndexOnce ==
  Finished /\ NoWrap =>
    /\ total_done_all = count
    /\ (\A x \in 0 .. count - 1 : ~Perfect(x)) =>
         \A x \in 0 .. count - 1 : visited[x] = 1

(* A window ends after finitely many chunks, unless indices wrap round, or *)
(* --chunk-size is zero or no number at all.                               *)
WindowEnds == phase = "serve" /\ NoWrap /\ chunk_size > 0 ~> Finished
=============================================================================
