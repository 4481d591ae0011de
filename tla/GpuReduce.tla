----------------------------- MODULE GpuReduce -----------------------------
(***************************************************************************)
(* compute_run of the CUDA backend (src/compute/compute_cuda.cu; the HIP   *)
(* backend, compute_hip.hip, has the same kernel and the same calls, but   *)
(* ends the process when one of them fails): a grid of blocks of warps of  *)
(* lanes scores the window [lo, hi), and reduces what it found to one      *)
(* result: lanes by shuffles, warps through the memory shared by a block,  *)
(* blocks through an atomic maximum.                                       *)
(*                                                                         *)
(* The lanes of a warp run in step, so a step is what one warp does        *)
(* between two barriers.  Before the barriers, the shared memory holds the *)
(* boards being shuffled; after them it holds the best of each warp.       *)
(* The number of blocks is cut off to an int.  Errors of the CUDA runtime  *)
(* are not looked at; the one modelled is the refused launch of a grid     *)
(* without any block, or of a negative number of them.                     *)
(***************************************************************************)
EXTENDS Integers, Sequences, SequencesExt

CONSTANTS
  Lanes,              \* lanes of a warp: 32 in the code
  Warps,              \* warps of a block: 8
  MaxBlocks,          \* blocks of a grid: at most 4096
  INT,                \* 2^31: an int is below it
  WarpOffsets,        \* the rounds of the reduction in a warp: 16, 8, 4, 2, 1
  BlockOffsets,       \* and of the one over the warps: 4, 2, 1
  Windows,            \* bound: the calls of compute_run
  FixedPoints(_, _)   \* FixedPoints(seed, index): the score of one shuffle

Lane == 0 .. Lanes - 1
Warp == 0 .. Warps - 1
Block == 0 .. MaxBlocks - 1
BlockDim == Warps * Lanes

(* off = n / 2; off > 0; off >>= 1, where n is a power of two.             *)
Halves(offsets, n) ==
  LET width(k) == IF k = 0 THEN n ELSE offsets[k]
  IN  /\ offsets \in Seq(Nat \ {0}) /\ width(Len(offsets)) = 1
      /\ \A k \in DOMAIN offsets : width(k - 1) = 2 * offsets[k]

ASSUME GpuAssumption ==
  /\ Lanes \in Nat \ {0} /\ Warps \in 1 .. Lanes /\ MaxBlocks \in Nat \ {0}
  /\ INT \in Nat /\ INT > MaxBlocks
  /\ Halves(WarpOffsets, Lanes) /\ Halves(BlockOffsets, Warps)
  /\ \A win \in Windows :
       /\ win \in [seed : Nat, lo : Nat, hi : Nat]
       /\ \A x \in win.lo .. win.hi - 1 : FixedPoints(win.seed, x) \in 0 .. 25

(* Chunks of a worker are empty when the chunk size is 0 or an index wraps    *)
(* round; only the others come to the device.                              *)
Filled == {win \in Windows : win.lo < win.hi}

(* A board is the pair of the seed and the index of its shuffle, except    *)
(* for those no shuffle produced, and for memory not written yet.          *)
Sorted == <<"sorted">>
Zeros == <<"zeros">>
Unwritten == [best_c |-> 0, best_i |-> 0, best_arr |-> <<"unwritten">>]

VARIABLES
  window,             \* the arguments of the call
  grid,               \* blocks launched; 0 while no kernel runs
  allocated_blocks, best_and_bid, out,   \* device memory, kept between calls
  wpc, found, shared, \* by block: where each warp is, its lanes' registers, fys
  result              \* what the last call returned

device == <<allocated_blocks, best_and_bid, out>>
vars == <<window, grid, device, wpc, found, shared, result>>

NoWindow == [seed |-> 0, lo |-> 0, hi |-> 0]
NoResult == [best_correct |-> -1, best_index |-> 0, best_arr |-> Zeros]
AllWarps(at) == [b \in Block |-> [w \in Warp |-> at]]

Init ==
  /\ window = NoWindow /\ grid = 0
  /\ allocated_blocks = 0 /\ best_and_bid = <<0, 0>>
  /\ out = [b \in Block |-> Unwritten]
  /\ wpc = AllWarps("off")
  /\ found = AllWarps([l \in Lane |-> Unwritten])
  /\ shared = AllWarps(Unwritten)
  /\ result = NoResult

-----------------------------------------------------------------------------
(* The host: launch, and read back.                                        *)

BlocksFor(win) == (win.hi - win.lo + BlockDim - 1) \div BlockDim
CutOff(win) ==
  LET n == BlocksFor(win) % (2 * INT) IN IF n < INT THEN n ELSE n - 2 * INT
Grid(win) == IF CutOff(win) > MaxBlocks THEN MaxBlocks ELSE CutOff(win)

Cleared == <<0, 0>>

ReturnEmpty(win) ==
  /\ grid = 0 /\ win \notin Filled
  /\ window' = win
  /\ result' = [NoResult EXCEPT !.best_index = win.lo]
  /\ UNCHANGED <<grid, device, wpc, found, shared>>

Launch(win) ==
  /\ grid = 0 /\ win \in Filled /\ Grid(win) > 0
  /\ window' = win
  /\ grid' = Grid(win)
  /\ IF Grid(win) > allocated_blocks
     THEN allocated_blocks' = Grid(win) /\ out' = [b \in Block |-> Unwritten]
     ELSE UNCHANGED <<allocated_blocks, out>>
  /\ best_and_bid' = Cleared
  /\ wpc' = [b \in Block |-> [w \in Warp |-> IF b < Grid(win) THEN "shuffle" ELSE "off"]]
  /\ UNCHANGED <<found, shared, result>>

(* The kernel does not run, and what is read back is score 0 with whatever *)
(* block 0 left there in an earlier call, or, if there was none, nothing:  *)
(* the variables on the stack are as undefined as they were.               *)
LaunchRefused(win) ==
  /\ grid = 0 /\ win \in Filled /\ Grid(win) <= 0
  /\ window' = win
  /\ IF allocated_blocks > 0
     THEN /\ best_and_bid' = Cleared
          /\ result' = [best_correct |-> 0, best_index |-> out[0].best_i,
                        best_arr |-> out[0].best_arr]
     ELSE /\ UNCHANGED best_and_bid
          /\ result' \in [best_correct : {-1, 25}, best_index : {0},
                          best_arr : {Unwritten.best_arr}]
  /\ UNCHANGED <<grid, allocated_blocks, out, wpc, found, shared>>

(* After cudaDeviceSynchronize: the score and its block, then what that    *)
(* block left.                                                             *)
ReadBack ==
  /\ grid > 0
  /\ \A b \in 0 .. grid - 1 : wpc[b][0] = "off"
  /\ LET top == best_and_bid[2]
     IN  result' = [best_correct |-> best_and_bid[1],
                    best_index |-> out[top].best_i, best_arr |-> out[top].best_arr]
  /\ grid' = 0
  /\ wpc' = AllWarps("off")
  /\ found' = AllWarps([l \in Lane |-> Unwritten])
  /\ shared' = AllWarps(Unwritten)
  /\ UNCHANGED <<window, device>>

-----------------------------------------------------------------------------
(* The kernel.                                                             *)

ThreadId(b, w, l) == (b * Warps + w) * Lanes + l

(* Faulty variants, each a slip this code invites.                         *)
BarrierIgnored(b) == TRUE
ExchangeOnTies(v, off) ==
  [l \in DOMAIN v |->
     LET other == v[IF (l \div off) % 2 = 0 THEN l + off ELSE l - off]
     IN  IF other.best_c >= v[l].best_c THEN other ELSE v[l]]

Stride == grid * BlockDim
Visited(tid) == {x \in window.lo .. window.hi - 1 : (x - window.lo) % Stride = tid}

(* What a thread finds: the first of its best shuffles, and before it has  *)
(* one that scores, no shuffle at all but the sorted board.                *)
ThreadBest(tid) ==
  LET score(x) == FixedPoints(window.seed, x)
      best == {x \in Visited(tid) :
                 /\ score(x) > 0
                 /\ \A y \in Visited(tid) : score(y) <= score(x) /\ (y < x => score(y) < score(x))}
  IN  IF best = {}
      THEN [best_c |-> 0, best_i |-> window.lo + tid, best_arr |-> Sorted]
      ELSE LET x == CHOOSE x \in best : TRUE
           IN  [best_c |-> score(x), best_i |-> x, best_arr |-> <<window.seed, x>>]

(* One round: each lane looks at the lane whose number differs in one bit  *)
(* and takes over score, index and lane of the board if it is better.      *)
Exchange(v, off) ==
  [l \in DOMAIN v |->
     LET other == v[IF (l \div off) % 2 = 0 THEN l + off ELSE l - off]
     IN  IF other.best_c > v[l].best_c THEN other ELSE v[l]]

(* What lane 0 holds after all rounds, with the board of the lane it names.*)
Reduced(v, offsets) ==
  LET start == [l \in DOMAIN v |-> [best_c |-> v[l].best_c, best_i |-> v[l].best_i, best_lane |-> l]]
      end == FoldLeft(Exchange, start, offsets)[0]
  IN  [best_c |-> end.best_c, best_i |-> end.best_i, best_arr |-> v[end.best_lane].best_arr]

(* The two calls of __syncthreads.                                         *)
AllShuffled(b) == \A w \in Warp : wpc[b][w] # "shuffle"
AllPublished(b) == \A w \in Warp : wpc[b][w] = "published"

(* The boards being shuffled lie where the warps' results will.            *)
Shuffle(b, w) ==
  /\ wpc[b][w] = "shuffle"
  /\ found' = [found EXCEPT ![b][w] = [l \in Lane |-> ThreadBest(ThreadId(b, w, l))]]
  /\ shared' = [shared EXCEPT ![b] = [v \in Warp |-> Unwritten]]
  /\ wpc' = [wpc EXCEPT ![b][w] = "reduce"]
  /\ UNCHANGED <<window, grid, device, result>>

Publish(b, w) ==
  /\ wpc[b][w] = "reduce" /\ AllShuffled(b)
  /\ shared' = [shared EXCEPT ![b][w] = Reduced(found[b][w], WarpOffsets)]
  /\ wpc' = [wpc EXCEPT ![b][w] = "published"]
  /\ UNCHANGED <<window, grid, device, found, result>>

(* Warp 0 reduces over the warps; the maximum is over score, then block.   *)
FinishBlock(b) ==
  /\ wpc[b][0] = "published" /\ AllPublished(b)
  /\ LET best == Reduced(shared[b], BlockOffsets)
         higher == \/ best.best_c > best_and_bid[1]
                   \/ best.best_c = best_and_bid[1] /\ b > best_and_bid[2]
     IN  /\ out' = [out EXCEPT ![b] = best]
         /\ best_and_bid' = IF higher THEN <<best.best_c, b>> ELSE best_and_bid
  /\ wpc' = [wpc EXCEPT ![b][0] = "off"]
  /\ UNCHANGED <<window, grid, allocated_blocks, found, shared, result>>

-----------------------------------------------------------------------------
Next ==
  \/ \E win \in Windows : ReturnEmpty(win) \/ Launch(win) \/ LaunchRefused(win)
  \/ \E b \in Block : FinishBlock(b) \/ \E w \in Warp : Shuffle(b, w) \/ Publish(b, w)
  \/ ReadBack

Spec == Init /\ [][Next]_vars

-----------------------------------------------------------------------------
(* Properties.                                                             *)

Candidate == [best_c : 0 .. 25, best_i : Nat,
              best_arr : {Sorted, Unwritten.best_arr} \cup (Nat \X Nat)]

(* No grid is larger than the buffers that were allocated for it.          *)
TypeOK ==
  /\ window \in [seed : Nat, lo : Nat, hi : Nat] /\ grid \in 0 .. MaxBlocks
  /\ allocated_blocks \in 0 .. MaxBlocks /\ grid <= allocated_blocks
  /\ best_and_bid \in (0 .. 25) \X Block
  /\ out \in [Block -> Candidate] /\ shared \in [Block -> [Warp -> Candidate]]
  /\ wpc \in [Block -> [Warp -> {"off", "shuffle", "reduce", "published"}]]
  /\ found \in [Block -> [Warp -> [Lane -> Candidate]]]

(* A window with indices, whose number of blocks was not cut off to none.  *)
Returned ==
  grid = 0 /\ result # NoResult /\ window \in Filled /\ Grid(window) > 0
Window == window.lo .. window.hi - 1

(* BOGO_API.md: best_index is an index of the window, also when nothing    *)
(* scored and when idle lanes stand beyond the end of the window.          *)
IndexInWindow == Returned => result.best_index \in Window

(* No shuffle of the window is missed, whatever order warps and blocks     *)
(* finish in and however the rounds of the reductions tie.                 *)
BestOfWindow ==
  Returned => /\ \A x \in Window : result.best_correct >= FixedPoints(window.seed, x)
              /\ \E x \in Window : result.best_correct = FixedPoints(window.seed, x)

(* Score, index and board travel on different ways (registers, a lane      *)
(* number, shared memory, three buffers that outlive the call), and still  *)
(* belong to one shuffle: what Lease takes compute_run to return.          *)
ScoreReplays ==
  Returned /\ result.best_correct > 0 =>
    /\ result.best_correct = FixedPoints(window.seed, result.best_index)
    /\ result.best_arr = <<window.seed, result.best_index>>

(* What a call returns can be reported: grid and buffers fit each other,   *)
(* and the result names an index of the window and replays.                *)
Inv == TypeOK /\ IndexInWindow /\ ScoreReplays
=============================================================================
