# A verification of bogo-rig in TLA+

bogo-rig is a C client of the bogo coordinator. The coordinator hands it a *lease* (a seed
and an index window `[0, count)`); worker threads compute the shuffles of the window on a CPU or a GPU; a
reporter thread sends cumulative progress and the best shuffle about once a second over one
WebSocket, as JSON. This directory holds TLA+ models of the client, TLC runs that check them on small
instances, and TLAPS proofs for every value of the parameters. Paths below are relative to
the repository.

1. Inventory · 2. Modules · 3. Runs and bounds · 4. Fairness · 5. Proofs ·
6. What the code does not keep · 7. Not modelled · 8. Plan · 9. Running it

## 1. Inventory

| component | code | state | operations | modelled in |
|---|---|---|---|---|
| lease engine | `src/worker.c` | `current_job`, `lease_gen`, `total_done_all`, `global_best`, `global_best_correct_atomic`, `started`; `lease_mutex`, `lease_cond`, `best_mutex` | `worker_push_job`, `worker_thread`, `reporter_thread` | Lease; its index widths in Chunks |
| send queue | `src/server.c` 11-75 | the ring `send_queue`, `send_head`, `send_tail`, `send_count`; `send_mutex` | `queue_push`, `queue_pop` | SendQueue |
| transport | `src/server.c`, `src/main.c` 56-70 | `context`, `conn.wsi`, `running`, libwebsockets' pending wakeups | `server_lws_thread`, `ws_callback`, `client_shutdown`, joins | Transport |
| messages | `src/server.c` 110-245 | `global_stats`, `stats_mutex` | `parse_message` and its handlers | Messages; jobs in Lease, ends of a session in Transport |
| dashboard | `src/dashboard.c` | the ring `log_buf`, `log_head`, `log_count`; `log_mutex` | `dashboard_log`, `dashboard_run` | Dashboard, Messages |
| CPU kernel | `src/compute/compute_cpu.c` | none | `compute_run` | CpuKernel, Chunks |
| CUDA and HIP backends | `src/compute/compute_cuda.cu`, `.hip` | device buffers, kept between calls, one set per thread | `compute_run`, the kernel and its reductions | GpuReduce, CpuKernel (partly, see 7) |
| Vulkan backend | `src/compute/compute_vulkan.cpp`, `.comp` | one set of globals for all threads | `compute_run`, `init_vulkan`, the shader | VulkanRun, CpuKernel (partly, see 7) |
| JSON library | `src/cJSON.c` (vendored) | items linked to lists, print buffers | build, take apart, copy, compare, free; parse, print | CJsonLists, CJsonItems, CJson, CJsonText, CJsonDocument (partly, see 7) |
| start-up | `src/main.c` 11-70 | `account_creds`, `chunk_size`, `num_workers` | option parsing, threads | Chunks, Transport |
| coordinator | `BOGO_API.md` (external) | leases, credited totals | hello → welcome, job; result → credited or rejected | guards in Lease, Transport and Messages |

**How they interact.** Five kinds of threads share memory. The *service* thread sits in
`lws_service` and runs every callback, so also `parse_job` → `worker_push_job`, which starts
the `num_workers` *workers* and the *reporter* on the first job and wakes the workers with
`lease_cond` on later ones. Workers add to the total and merge their best; the reporter reads
both, makes a result, prints it with cJSON and `queue_push`es it, which wakes the service thread with
`lws_cancel_service`; the service thread then asks for a writable callback, pops one message
per callback and asks again while more wait. *main* polls `running`, then joins the service
thread and the *dashboard* thread (not the workers, not the reporter). Every thread logs into
the ring that the dashboard prints together with the account figures.

**What is hard**, and what correctness means for each component:

- *Lease engine.* A new job arrives while workers are anywhere in the old one; job, total and
  best are published, reset, read and written under different locks or none. Each index is
  counted once; score, index and board of a report are those of one shuffle; reports increase;
  totals stay within a bound; an idle engine has exhausted its window; no wakeup is lost.
- *Send queue.* Two producers, one consumer, a ring that fills and wraps: it is a bounded FIFO.
- *Transport.* A wakeup between threads that do not count wakeups; a message dropped in the
  middle; an end of the session from a callback, from the network or from main, while other
  threads still use the context. A queued message gets out or the session ends; main returns.
- *Messages and dashboard.* A ring that wraps while it is read, and log and figures behind two locks: the
  screen is the end of the log, and never older than the log says.
- *Kernels.* Rejection sampling in three spellings of one threshold, widths that wrap: every chunk is shuffled exactly as
  BOGO_API.md writes it down, and no position is preferred.
- *GPU backends.* Barriers, a memory used twice, ties in reductions, objects that are
  replaced when a call is larger than all before, state shared by all threads: the result is a best shuffle of the
  window, with its own index.
- *JSON library.* Tail pointers in the first item of a list, names that the item may or may not own, memory
  that ends anywhere, a print buffer whose writers leave its offset for the next one to correct: nothing is lost,
  freed twice or written past the end.

`PROJECT.json` lists each hazard at its line, with the properties that cover it.

## 2. Modules

| module | what it models |
|---|---|
| `Lease` | `worker.c`. A step is one access to shared memory. State has the names of the code; `wpc`, `rpc` and `push` say where workers, reporter and `worker_push_job` are. `counted` is auxiliary: the set of shuffles that `total_done_all` stands for. |
| `LeaseInvariant` | the inductive invariants of Lease: `IInv`, `SliceInv`, `LateInv`, `FirstLeaseInv` |
| `LeaseProofs` | the theorems about Lease |
| `MCLease` | scores and leases for TLC |
| `BoundedFifo` | the abstract queue: what `queue_push` and `queue_pop` promise |
| `SendQueue` | the ring, each critical section in two steps; `FifoSpec` says that it implements BoundedFifo under the mapping `Contents` |
| `SendQueueProofs` | the ring's invariant and the refinement |
| `Transport` | service thread, reporter, main, dashboard's end; composed with BoundedFifo, which SendQueue implements |
| `TransportProofs` | types, lost wakeups, order on the wire |
| `Dashboard` | the log ring, its writers and its reader |
| `Messages`, `MessagesProofs` | `parse_message` and the figures, on top of Dashboard: the composition of service thread, other loggers and dashboard thread; the theorems about both |
| `CpuKernel` | one round of the shuffle, the threshold in its three forms, the score |
| `Chunks`, `ChunksProofs`, `MCChunks` | from the command line to the shuffles: options with their conversions, the stride arithmetic modulo 2^64, `compute_run` word by word |
| `GpuReduce`, `GpuReduceProofs`, `MCGpuReduce` | CUDA's `compute_run`: launch, kernel, reduction, read-back |
| `VulkanRun`, `VulkanProofs`, `MCVulkanRun` | Vulkan's `compute_run` on the globals all threads share, and the shader |
| `CJsonLists`, `CJsonListsProofs` | what cJSON's functions do to the links of a list: append, insert, take out, replace; `LinksAre`, that the links stand for sequences |
| `CJsonItems` | cJSON's functions on items, on top of CJsonLists, as operators from one memory to the next |
| `JsonTree` | the abstract specification: a forest of nodes with sequences of kids |
| `CJson`, `MCCJson` | a program that calls them in any order; `ListsAreSequences` says that it implements JsonTree |
| `CJsonText` | parser and printer, as operators on token sequences and buffers, and `cJSON_Compare`: with all that depends on what numbers are |
| `CJsonDocument`, `MCCJsonDocument` | a text through the parser, copied, compared, printed and freed |

How the models correspond to the code:

- **Lease.** `PushJob`, `ResetTotal`, `ResetBest`, `StartOrWake` are lines 118-121, 123,
  125-128 and 130-140 of `worker_push_job`. A worker goes through `TakeLease`, `CopyJob` (32-43),
  `ComputeChunk` (45-53), `AddTotal` (55), `PeekBest` (57), `MergeBest` (58-64), with
  `WaitForLease`, `SpuriousWake` (33-36), `LeaveLease` (45-48) and `WorkerExit` (28, 41, 45)
  beside it. The reporter goes through `ReporterLoop` (78), `ReadLeaseGen`, `ReadJob` (81-89),
  `ReadTotal` (91-93), `ReadBest` and `SendResult` (95-112). A critical section that only reads
  holds its mutex over two steps, so that the mutex matters; one that writes is one step, as its
  lock keeps all other readers out and the one variable read without the lock is written last.
  Relaxed atomics are taken to be sequentially consistent: each is a single variable, and what
  orders them with other data in this code is a mutex. A board is the pair of the seed and the
  index it is computed from. `running` is only tested where the code tests it, so a thread may
  finish what it is in. `MidLease` chooses the coordinator: `FALSE` hands out a lease only
  after an accepted report of the whole window (BOGO_API.md:46), `TRUE` at any time.
- **SendQueue.** The first step of a critical section takes `send_mutex` and fills or reads the
  slot, the second moves the indices and releases. `outcome` is auxiliary.
- **Transport.** One action per callback reason. libwebsockets is external: two flags that do
  not count (`cancelled`, `writable`), the state of the connection, callbacks one at a time, and
  a close callback when the context is destroyed with the connection open. `hello` may be longer than the
  4096 bytes that the write buffer holds (its fields come from the command line). A coordinator sends
  no job before it has got a hello. Using a context that is destroyed or null is undefined: the
  model lets the process crash or not. With the process gone, nothing moves (`Live`).
- **Dashboard.** As SendQueue, with the reader's `memcpy` under the mutex as a step of its own.
- **Messages.** `ReceiveMessage` enters `parse_message` with one of the kinds of message it tells apart; a handler with
  figures then takes `stats_mutex` (`SetLifetime`), writes the rest and releases (`SetBest`); `ServiceLogs` and
  `ServiceLogged` are Dashboard's two halves of `dashboard_log`; `ServiceEnds` is `client_shutdown`. `CopyLog`,
  `CopyStats` and `PrintScreen` are the loop of `dashboard_run`. A figure is the number of the message that it came from,
  so that a property can say which is newer; `about` is auxiliary.
- **Chunks.** One action per option of `main`'s loop. `Parsed` is the number a word begins with, of any size; `strtoull` makes a uint64_t of
  it, `strtol` a long, of which `num_workers` keeps an int (`AsInt`) before it is tested. What is asked is a number, not what the code keeps of it. After `Serve`, a worker calls `compute_run` (`CallComputeRun`, worker.c 43-53) and
  goes on to its next chunk (`Return`, 53-67); inside the call, a step draws one word of the generator (`DrawWord`,
  compute_cpu.c 41-62), which is either rejected or swaps two positions. Workers share nothing before a chunk is done, so one chunk is
  computed at a time; Lease has the interleavings. The generator is a constant operator: any word for any index and draw.
- **GpuReduce.** A step is what one warp does between two barriers. The reductions are the
  butterflies of the code, over score, index and lane number, with the board fetched from the
  lane that won. Shuffling boards overwrites the shared memory, as in the code, where the warps'
  results lie on top of the boards. Device buffers survive calls. The number of blocks is cut to an int; a grid without
  blocks is refused, and what the last kernel left is read. A window without an index comes back at once (`ReturnEmpty`). This is CUDA; HIP has the same kernel
  and calls, but ends the process when one fails, so it refuses a grid and is gone.
- **VulkanRun.** A step of a thread is one use of the globals: look whether they are initialised, make the device, destroy and
  create buffers, write the parameters, record, submit, wait, read. Of the Vulkan library the model has the life of the
  objects and the rules of use that this code could break; to break one (`Misuse`) is undefined, and the process is gone.
  A step of the device is what one invocation does between two calls of `barrier`, or one atomic on shared memory.
- **CJsonLists, CJsonItems, CJson.** A memory is the allocated items by address, the number of copied strings, and how many more
  allocations will succeed; each function maps a memory to a memory and a result (`Ret`), with every early return. What a function does
  to links is in CJsonLists, which has no recursion, so that it can be proved about: `InsertBefore` is `cJSON_InsertItemInArray` from
  line 2349 on, `Supplant` is `cJSON_ReplaceItemViaPointer` up to its `cJSON_Delete`. `CJson` calls one
  function per step with memory for any number of allocations. A caller gives an item away once and puts none below itself (`Given`):
  cJSON does not look.
- **CJsonText.** A text is a sequence of tokens. A number is a token; `Double` tells which double it is, counted in units of the last bit, and `Short` what it becomes with
  15 digits. `compare_double` is that of the code, on doubles of six bits (`InverseEpsilon`), and infinities have no equal. The parser's offset and depth belong to its memory; an element is linked in
  before it is parsed, as in the code, so a failure deep inside frees the list it is in. What the printer writes does not depend on
  the buffer, so printing is a sequence of steps (room asked for, tokens, with or without a NUL, offset moved or
  left to `update_offset`), run on a buffer of a given size. Between calls, the document's texts are constants and each call is one step:
  the library is single-threaded.

Each module defines, next to the definition it corrupts, a faulty variant of one definition
(`LockIgnored`, `StrideTooLong`, ...). No specification uses them; `PROJECT.json` pairs
each with a property that breaks when it takes the place of the definition.

## 3. Runs and bounds

| run | instance | states | what it shows |
|---|---|---|---|
| `lease` | 2 workers, chunks of 2, leases of 5 and 3, the second at any time | 6 450 450 | `IInv`; every shuffle is counted once; totals exceed a lease's count by at most one chunk per worker, and not at all before a job overtakes; reports are of one shuffle, increase, and replay on the first lease; idle workers mean an exhausted window with its best found |
| `lease_live` | 2 workers, chunks of 2, leases of 5 and 1, the second when the first is reported | 136 144 | every worker gets to the newest lease; the first lease is reported to its end; after a shutdown all threads end or sleep |
| `lease_stale_best` | 2 workers, 2 leases of 2 in sequence | — | a violation, see 6 |
| `send_queue` | 3 slots, 3 messages, 2 threads | 2 906 | the ring's invariant, and that it is a bounded FIFO |
| `transport` | queue of 2, 5 results | 28 301 | no wakeup is lost, results leave in order; queued results get out or the session ends; main returns |
| `messages` | ring of 3, two logging threads, 6 lines, 4 messages | 582 113 | every frame is the end of the log; no screen shows half an update, or a line about figures newer than those it shows |
| `chunks` | boards of 5, words and ints of 3 bits, indices of 5; 24 command lines, 5 counts | 773 763 | the session has the account and the chunks asked for, and the workers where ints hold the numbers; every chunk is exactly what BOGO_API.md says; draws are unbiased; each index is dealt out once and the window ends, unless indices wrap or chunks are empty |
| `gpu_reduce` | 2 blocks of 2 warps of 4 lanes, 10 windows, calls in any order | 15 309 | the result names an index of the window, is its best score, and replays if it scores |
| `vulkan` | 1 thread, 2 workgroups of 3, 7 windows, calls in any order | 28 748 | the same; no rule of Vulkan is broken while buffers grow; the call comes back |
| `vulkan_shared` | 2 threads, 1 workgroup of 1 | — | a violation, see 6 |
| `json_items` | 4 items, 1 name, 2 held at a time | 39 770 | no dangling pointer, leak or second owner, whatever fails; every call is an operation on the sequences of JsonTree |
| `json_text` | every text of up to 8 tokens, damaged ones of up to 5, nesting of 2, doubles of 6 bits | 108 418 | what is accepted is the grammar; nothing is lost; printing gives the text back, numbers up to rounding, and stays inside; comparing is equality, but for infinities |

Why the bounds are enough. Two workers are what a race needs, and the proofs cover any number.
A window of 5 with chunks of 2 gives uneven slices and a partial last chunk for worker 0, the shorter one of 3 a partial chunk for worker 1;
two leases give overtaking, and a third adds nothing the reporter or a worker remembers (each keeps one
generation). Scores have ties and put the best at the end of a window. A queue of 2 or 3 fills, refuses and wraps; 5 results
are more than twice what the queue of Transport holds. 6 lines turn the ring of 3 twice, and 4 messages are a welcome, two credits and
one to end with. The command lines of `chunks` have chunks and workers of every relation to the window, some whose indices
wrap round (a window of 30 of the 32 numbers, dealt out in strides of 21), zero, numbers that an int cuts or a long and a uint64_t do not hold, options given twice and values that look like options; its generator gives every word
in turn, in another order for each index, so rejections happen and end. The windows of
`gpu_reduce` are empty, less than that, one index, a part of a block, a block and a bit, more than the grid (threads stride),
one with a perfect score, one that scores nothing while lanes stand idle, and two whose number of blocks the int cuts, to a negative
number and to a smaller grid; those of `vulkan` add the empty one. Four items are an array, a kid at both ends and in the middle, or two lists
and an item that moves between them; each call gets memory for 0, 1, ... allocations, up to more than it can use. The texts of
`json_text` nest as deep as the limit and one deeper, with objects of two members whose names differ in case only; each text ends at every place, has a blank at
every place, a byte order mark before it, and each of its tokens replaced by every other. Of its numbers, one is next to what it is with fewer digits, one is not, and one is infinite. Its buffers are of every size from 0 to 8 and may grow 0 to 12 times, and
`INT_MAX` is so small that some texts reach it.
The bounds are named `MaxLeases`, `MaxResults`, `MaxLines`, `MaxMessages`, `CommandLines`, `Counts`, `Windows`, `Addresses`, `MaxRoots`,
`MaxTokens`, `MaxDamaged`, `Plenty`. `json_items` declares its addresses symmetric: no function
compares two, and a new item gets any one of the free addresses, which as long as `WellLinked` holds no item names.

`CHECK_DEADLOCK FALSE` stands where the program really stops: Lease ends with workers asleep or
exited, Transport with main returned or the process crashed, Messages with the dashboard's thread gone, Chunks with
the window done or the command line refused, VulkanRun with the process gone, CJsonDocument with everything freed.

## 4. Fairness

*Lease* (`FairSpec`): strong fairness of `worker_push_job` once it has begun, of each worker and
of the reporter. The kernel runs every thread that can run; strong rather than weak because a
mutex may be taken by others again and again between two tries, and its critical sections
are a few instructions. No fairness for a job's arrival, a shutdown or a spurious wakeup.

*Transport* (`FairSpec`): weak fairness of the threads' own steps; `lws_service` returns (it has a
timeout of 50 ms). Strong fairness of the two callbacks for pending requests, as libwebsockets
serves them between other events; for a writable request that means that the peer of an open
connection reads on. No fairness for connecting, for a loss of the connection, for messages of the
coordinator or for a new result.

*Chunks* (`FairSpec`): weak fairness of all work together: some worker runs while there is work. *VulkanRun* (`FairSpec`): weak
fairness of each thread inside `compute_run` and of the device as a whole; none for the next call, nor for a failure that ends the process.

The other modules state no fairness and no liveness.

## 5. Proofs

All with TLAPS, for every value of the constants under the assumptions named in the modules.

- **`LeaseProofs`** (assumes at least one worker, chunks of at least 1, scores in 0..25, a seed per
  lease: `ParametersAssumption`, `LeasesAssumption`, `FreshSeedsAssumption`). `Invariance` is
  `Spec => []IInv`; from it `TypeCorrect`, `ReportsComeFromOneShuffle`, `SnapshotsArePaired`, and the
  action properties `ReportsStrictlyIncrease` and `BestScoreOnlyImproves`. `TypeOK` is not
  inductive: a result's score is in range only if the worker holds its generation's job
  (`WorkersPaired`), which needs that no job changes while the worker copies it (`LocksHeld`) and
  that there is one (`AfterFirstJob`). Reports are of one shuffle because `global_best` and every
  result on the way to it are (`ResultsWhole`), and nobody merges while the reporter holds
  `best_mutex`. They increase because the reporter remembers what it reported for the generation it is
  on, and never comes back to an older one (`ReportsRemembered`). One lemma per conjunct and one step per action.
  Then the slices: `NothingCountedTwice`, that `total_done_all` is the cardinality of `counted`.
  Chunk *q* belongs to worker *q* mod `num_workers`; a worker stands at a boundary of one of its own chunks
  (`OnChunkBoundary`), and everything counted lies below where its owner stands
  (`CountedBelow`); so the chunk it adds is new. The lemmas are about the arithmetic of
  division that the stride of line 66 relies on. `TotalStaysNearItsLease`: a worker that a newer job overtakes adds the chunk it is
  on, then looks at `lease_gen` and leaves; so what is counted of older leases is one chunk of each worker at most, and a worker that still owes one
  has none of them counted (`LateInv`). The rest of the total lies in the window. For the first lease (`FirstLeaseInv`): every index of a slice below its worker's position is
  counted (`SliceDone`), and what is counted is no better than `global_best` or than what some worker is about to merge (`BestKept`). So when all
  wait, the window is exhausted (`WaitingWorkersAreDone`), and as there is one seed only, a report's index replays (`FirstLeaseReplays`).
- **`SendQueueProofs`**: `RingInvariant` (`Spec => []Inv`) and `RingImplementsFifo`
  (`Spec => FifoSpec`): initial states map to initial states, `QueuePushed` to `Put`, `QueuePopped`
  to `Take`, refusals and empty pops to theirs, every other step to a stutter. The invariant
  is needed because a step changes the abstract queue only if no other thread is inside.
- **`TransportProofs`**: `TypesAndWakeups` (`Spec => []Inv`, the types and `NoStall`), of which `NoWakeupLost` is the second half, and
  `WireStaysInOrder`. Inductive with `NoStall`: a hello is alone in
  the queue, as the first job answers it, so dropping a long one leaves nothing behind it
  (`HelloAlone`); an open connection has its handle, and a running session its context
  (`SessionHasContext`). For the order: totals grow along the wire, from the
  wire into the queue and along the queue, and none is above the last one made (`InOrder`).
- **`MessagesProofs`**: of the log, `ScreenIsFaithful` (`Spec => []Inv`), for every size of the ring and any number
  of lines. Line *n* lies in slot (*n*-1) mod `LOG_LINES` until `LOG_LINES` more are written. Of both, `MessagesUseTheLog`, that the steps of Messages do to the log only what Dashboard allows, so that its
  theorem carries over (`LogStaysFaithful`); and `ScreenNeverContradictsItself` (`MessagesSpec => []ScreenAgrees`). The argument: a line that tells of a message is written after
  the figures of that message, and the dashboard copies lines before figures; the figures only get newer, and whoever finds `stats_mutex` free finds them whole.
- **`ChunksProofs`** (assumes words wider than the board, lines of strings, `NULL` not a string: `KernelAssumption`, `ChunksAssumption`). Hypotheses of its
  theorems: the generator gives words (`GivesWords`), and keeps one of any 2^w in a row (`KeepsWords`; at most `max` - 1 of the 2^w words are rejected, and the bound
  is the model's, the code draws until it keeps one). TLC's generator satisfies both, as each of its eight words turns up in any eight draws in a row.
  `ThresholdsAgree`, that -max mod 2^w mod max, 2^w mod max and ((2^w - 1) mod max + 1) mod max are the same, and
  `PositionsEquallyLikely`, that the words that are not rejected and draw position *j* are every max-th one, so there are 2^w div max of them; from these and the
  invariant `DrawsStayUnbiased`. `ShufflesStayInWindow` (`Spec => []TypeOK`): a swap keeps an array a permutation, and a chunk lies inside its window
  whether or not `lo + chunk_size` wraps. `CommandLineIsObeyed` needs no hypothesis: what the loop of `main` has read so far is what the pairs before `i` ask for, the last of equal
  options first (`SessionInv`); `IntIsKept` and `ChunkSizeRead` say which numbers come through the conversions as they are. Without `IntsSuffice` it fails (section 6). `ComputeRunReturnsTheBest`: the array in the middle of a call is the array after as many rounds as the recursive definition of a shuffle
  takes to come to the same position, and the words since then were rejected, so the first that is kept is the one the definition
  picks; the best so far is the best of the shuffles behind it (`ExactInv`). `WindowIsDealtOut`: an index was visited once if it lies below the place that its
  owner has come to, or behind the call that is under way in its chunk, else never; the total is the number of the former (`DealtInv`).
- **`VulkanProofs`** (assumes windows of naturals whose shuffles score 0..25, a bound above the largest grid: `VulkanAssumption`; hypothesis: one
  thread, `Solo`, as with two all three theorems fail, which the run `vulkan_shared` shows for the index). `VulkanInvariance` is `Spec => []IInv`; from it `VulkanIsUsedValidly`,
  `VulkanResultsReplay` and `VulkanMissesNothing`. The invariant has a part for each thing a step relies on: whose the buffers are and that they are large enough
  (`Buffered`), what the command buffer is ready for (`Commanded`), what the shared memory of a workgroup says of the invocations that are through
  the barrier before (`MaxSoFar`, `MinSoFar`), and what a finished workgroup left behind (`GroupDone`). `Covered` says that striding invocations miss no index,
  `BestFound` what one invocation finds, `FoldFindsBest` that the loop over the workgroups' results ends with the first of the best.
  One lemma per action.
- **`GpuReduceProofs`** (assumes that lanes and warps are powers of two that the offsets of the rounds halve down to 1, that a block has no more warps than a
  warp has lanes, windows of naturals whose shuffles score 0..25: `GpuAssumption`). `ReductionInvariance` is `Spec => []IInv`; from it `GpuResultsReplay` and
  `GpuMissesNothing`, for every order in which warps and blocks finish. The butterfly (`RoundSpreads`): before the round with offset *d* a lane holds a best of
  the lanes whose numbers differ from its own by multiples of 2*d*, after it by multiples of *d*; so after the round with offset 1 every lane holds a best of
  all. Lanes may break a tie differently; lane 0 names the lane it took its result from, and the board is fetched from there. The invariant has a part for each stage a result passes: lane (`LanesDone`), warp (`WarpsDone`), block (`BlocksDone`), the atomic maximum
  (`Maximum`), the call (`Answer`); and `Barriers`, that no warp reads what another has not published and none overwrites a board that is still shuffled.
  `EveryIndexIsSeen` says that the strides of a grid leave out no index. Where nothing scores, a lane keeps what it began with, so what is
  returned is the index a block's first thread begins at; `BlocksBeginInWindow` says that it lies in the window. A window without indices never reaches the device (`ReturnEmptyStep`).
- **`CJsonListsProofs`** (no assumption). A heap has any number of items; `kids` gives each the sequence its children's links stand for
  (`LinksAre`, which TLC checks of every state of CJson, as part of `WellLinked`). A call then does to one of these sequences what its name says, and nothing to the
  others: `add_item_to_array` is `Append` (`AddAppends`), `InsertBefore` is `InsertAt` (`InsertInserts`), `DetachItemViaPointer` is `RemoveAt`
  (`DetachRemoves`), `Supplant` is `ReplaceAt` (`SupplantReplaces`); no field but next, prev and child changes (`OnlyLinks`), and the item that leaves a list leads nowhere.
  `NamedOrUnchanged`: `add_item_to_object` attaches the item under its new name and counts the copies rightly, or has changed nothing.
  Each theorem follows the assignments of its function one by one (`SetDiffers`, `SetDiffersIf`: one cell), then reads off what every item's
  links are in the end. That the other lists stay is one lemma for all of them (`OtherListsStay`): an item is in one list at most, so cells of this list and of an
  item that was in none belong to no other. These are the steps of JsonTree's forest, for heaps of any size. `ListsAreDetermined`: no other sequences
  fit the same links, so `kids` may be taken to be what following them finds.

*Induction.* The library's induction theorems take an operator as a parameter and cannot be used here. Where a loop is compared with a recursive
definition (`Rounds`, `FoldLeft`), the proof takes the least number for which the claim fails: `LeastOf` is the well-foundedness of the
naturals, `WFMin`, of which all parameters are constants, and `AllNumbers` is induction over a *set* of numbers. `FoldSteps` says the same of a reduction's `FoldLeft`:
it is a function of the number of rounds done. `ListBegins` in CJsonListsProofs goes along a list in the same way.

Only model-checked: liveness (`FirstLeaseReported`, `WorkersPickUp`, `ShutdownQuiesces`,
`QueuedIsWritten`, `ShutdownCompletes`, `WindowEnds`, `CallReturns`), which is out of the prover's reach, as is ENABLED; and what cJSON does to whole trees:
freeing, copying, comparing, parsing, printing and the walk along a list are recursive, in the code and here, and the prover supports no operator declared RECURSIVE. So
`WellLinked` and `OwnedOnce` are for TLC alone as invariants of CJson, though what one call does to the links is proved. (As recursive functions, the
same definitions took TLC several times longer.) Vulkan with several threads is for TLC alone, since there the properties do not hold.

## 6. What the code does not keep

Two are runs that TLC ends with a counterexample; `PROJECT.json` quotes the line each contradicts.

- `lease_stale_best`: a worker of the old lease merges its best after `worker_push_job` reset it;
  the reporter sends it under the new seed. The coordinator's replay must fail (BOGO_API.md:81).
- `vulkan_shared`: with two workers, one replaces the parameters or buffers of the other's call, which returns an index outside
  its window (BOGO_API.md:261 and README.md:15 allow any number of workers).

The others follow from the same models and are told here; no property states their opposite.

- A chunk of the new lease may be added before `worker_push_job` resets the total, and is then wiped out, or a chunk of the
  old one after it, which makes the total exceed the new count (BOGO_API.md:78). In the first case the total never reaches the
  count, no fresh lease comes, and the client idles for ever (BOGO_API.md:43, 46). `TotalBounded` says how much too large it can get.
- The report of the whole window can miss the window's best, which was counted (worker.c:55) but not merged yet; no later
  report follows (BOGO_API.md:79).
- Results pile up while the socket cannot be written; the full queue refuses the last one (server.c:50), and it is not made
  again (BOGO_API.md:43, 46).
- On a GPU, a window without any fixed point yields the sorted board with score 0 (BOGO_API.md:80; compute_cuda.cu:77,
  compute_hip.hip:91, compute_vulkan.comp:48). `ScoreReplays` therefore speaks of scores above 0.
- For a large `--chunk-size`, the number of blocks is cut to nothing, the kernel does not start and the result of an earlier call, or none, is
  returned (compute_cuda.cu:169; likewise compute_vulkan.cpp:224). `BestOfWindow` speaks of windows that are launched.
- A positive number of workers beyond an int is refused with the words that a positive integer is required (main.c:30-32), or cut to another number
  that is served: 2^32 + 1 gives one worker. As an invariant of its own, `WorkersAreAsAsked` fails in the instance of `chunks`, on `--workers 7` where
  an int has three bits; `SessionIsAsAsked` asks for it where ints hold the numbers (`IntsSuffice`).
- A number that no double holds (`1e999`) becomes infinite, and `compare_double` subtracts two infinities, so a copy of it is not equal to
  it (cJSON.c:592; cJSON.h:256-259). `CompareIsEquality` is about trees of finite numbers. The client never compares items.
- `--chunk-size 0`, or one that is no number, makes workers go round for ever with empty chunks (main.c:26): `WindowEnds` excludes it.
  A negative size is taken modulo 2^64, and of `2x` the 2; `AsLongChunks` speaks of sizes that are whole numbers and fit.
- Near 2^64, `lo + chunk_size` and the stride wrap round, and indices are computed again (worker.c:50, 66): `EachIndexOnce` and `WindowEnds` assume `NoWrap`.
- The recovery `code` in a welcome (BOGO_API.md:64: "Store it") is not looked at by `parse_welcome` (server.c:153).
- The doubles that cJSON takes to be equal may be next to each other: a number that is next to what it is with 15 digits is printed with those (cJSON.c:625-626, where the
  comment asks whether the *original* double can be recovered), and a finite number equals an infinite one (cJSON.c:592). `PrintsWhatWasRead` and `CompareIsEquality` allow the former.
- A byte order mark with at most one character behind it, the NUL counted, is not skipped (cJSON.c:1123 looks at index 4): `Content` has it so.
- The reason of a ban may never be shown: the session ends at once, and the dashboard may look at `running` before it prints (server.c:207).

The races of the lease engine need a worker to run between two steps of `worker_push_job` or of
another worker; they are rare, and the fix is to publish and reset under one lock,
and to merge before adding.

## 7. Not modelled

*cJSON*: references to items, custom allocators (hooks), `cJSON_Minify`, which the client does not use; escapes and UTF-16 inside a string and the
digits of a number, which are data the properties do not look into (so the parser's leniency about them, such as a leading `0` or `+` inside a number, is not seen); the error pointer. Its version and type-test functions have no state.
*GPU backends*: calls of CUDA and Vulkan whose failure the code does not look at, and the end of the process when a call of HIP fails; the fields that `init_vulkan` fills in
(it is one step). *Messages*: members that are missing or of a wrong type, which BOGO_API.md promises; the text of log lines and its cut to 256 bytes; the
client's own checks of what cJSON returns, of which there are none. *Time*: the reporter's second, the 5 ms between two messages (BOGO_API.md:209),
the dashboard's second. *Set-up*: libwebsockets' context and connection, whose failure ends the process before a thread runs. *Coordinator*: its checks
other than the replay of a report. *The generator*: its words are any sequence, fixed by seed and index. In Lease, indices do not wrap round; Chunks shows what
happens when they do.

## 8. Plan

Done: everything in section 2, and the proofs above. What remains worth doing, in this order:

1. `Client`: Lease and Transport composed through the real queue of results, with a coordinator that
   checks seeds, totals and replay; abstract specification `ReportContract` (BOGO_API.md:207-217).
2. Proofs: `OwnedOnce` and `WellLinked` as theorems of CJson, from those of CJsonListsProofs, once freeing and copying a tree are written without recursion.
3. References in cJSON (`cJSON_AddItemReferenceToArray` and its relatives), with ownership that is not a tree.

## 9. Running it

    tlc -config MCLease.cfg MCLease        # module and cfg of each run are in PROJECT.json
    tlapm LeaseProofs.tla
