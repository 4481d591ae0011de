------------------------------- MODULE Lease -------------------------------
(***************************************************************************)
(* The lease engine of src/worker.c: the service thread publishes a job    *)
(* (worker_push_job), num_workers worker threads share its index window    *)
(* chunk by chunk, and one reporter thread turns the running total and the *)
(* best shuffle into result messages.                                      *)
(*                                                                         *)
(* A step is one access to shared memory with the thread-local code next   *)
(* to it.  A critical section that writes is one step: nobody else reads   *)
(* under its lock meanwhile, and the one variable of it that is also read  *)
(* without the lock is written last.  A critical section that only reads   *)
(* holds its mutex over two steps.  A board (best_arr) is the pair         *)
(* <<seed, index>> of its shuffle, since the kernel derives it from        *)
(* nothing else.  No uint64_t wraps: count + num_workers * chunk_size is   *)
(* taken to be below 2^64.                                                 *)
(***************************************************************************)
EXTENDS Integers, FiniteSets

CONSTANTS
  num_workers,       \* --workers
  chunk_size,        \* --chunk-size
  MaxLeases,         \* bound: how many jobs the coordinator hands out
  Leases,            \* Leases[g] is the job of generation g
  FixedPoints(_, _), \* FixedPoints(seed, index): the score of one shuffle
  MidLease           \* may a job arrive before its predecessor is exhausted?

Workers == 0 .. num_workers - 1
Generations == 1 .. MaxLeases
Job == [seed : Nat, count : Nat]
Score == -1 .. 25
Board == Nat \X Nat
Result == [best_correct : Score, best_index : Nat, best_arr : Board]

ASSUME ParametersAssumption ==
  /\ num_workers \in Nat \ {0}
  /\ chunk_size \in Nat \ {0}
  /\ MaxLeases \in Nat
  /\ MidLease \in BOOLEAN

ASSUME LeasesAssumption ==
  /\ Leases \in [Generations -> Job]
  /\ \A g \in Generations : \A x \in 0 .. Leases[g].count - 1 :
       FixedPoints(Leases[g].seed, x) \in 0 .. 25

(* A fresh lease has a fresh seed.                                         *)
ASSUME FreshSeedsAssumption ==
  \A g, h \in Generations : Leases[g].seed = Leases[h].seed => g = h

(* Mutex owners are numbers: a worker's tid, the reporter, nobody.         *)
Free == -1
Reporter == num_workers

NoJob == [seed |-> 0, count |-> 0]
NoBest == [best_correct |-> -1, best_index |-> 0, best_arr |-> <<0, 0>>]
NoReport == [seed |-> 0, total_done |-> 0,
             best_correct |-> -1, best_index |-> 0, best_arr |-> <<0, 0>>]

VARIABLES
  running, started, push,                \* push: where worker_push_job is
  lease_mutex, current_job, lease_gen,
  total_done_all,
  best_mutex, global_best, global_best_correct_atomic,
  wpc, my_gen, j, i, cr,                 \* worker_thread and its locals, by tid
  rpc, current_gen, active_job, current_total, best_seen,  \* reporter_thread
  last_reported_gen, last_reported_total,
  sent,      \* the last result given to server_send_result
  counted    \* auxiliary: the shuffles <<generation, index>> in the total

service == <<running, started, push>>
lease == <<lease_mutex, current_job, lease_gen>>
total == <<total_done_all, counted>>
best == <<best_mutex, global_best, global_best_correct_atomic>>
locals == <<my_gen, j, i, cr>>
worker == <<wpc, locals>>
reported == <<last_reported_gen, last_reported_total, sent>>
reads == <<current_gen, active_job, current_total, best_seen>>
reporter == <<rpc, reads, reported>>
vars == <<service, lease, total, best, worker, reporter>>

Init ==
  /\ running = TRUE /\ started = FALSE /\ push = "idle"
  /\ lease_mutex = Free /\ current_job = NoJob /\ lease_gen = 0
  /\ total_done_all = 0 /\ counted = {}
  /\ best_mutex = Free /\ global_best = NoBest /\ global_best_correct_atomic = -1
  /\ wpc = [w \in Workers |-> "unborn"]
  /\ my_gen = [w \in Workers |-> 0] /\ j = [w \in Workers |-> NoJob]
  /\ i = [w \in Workers |-> 0] /\ cr = [w \in Workers |-> NoBest]
  /\ rpc = "unborn" /\ current_gen = 0 /\ active_job = NoJob
  /\ current_total = 0 /\ best_seen = -1
  /\ last_reported_gen = 0 /\ last_reported_total = 0
  /\ sent = NoReport

-----------------------------------------------------------------------------
(* Faulty variants of definitions below, each a slip this code invites.    *)
(* PROJECT.json pairs them with the properties that they break.            *)
LockIgnored == TRUE
ReportsForever == TRUE
AlwaysImproves(w) == TRUE
FirstChunkShared(w) == 0
FirstChunkLate(w) == (w + 1) * chunk_size
StrideTooLong == (num_workers + 1) * chunk_size
HiUncapped(w) == i[w] + chunk_size
NothingNewOffByOne == total_done_all < last_reported_total
WokenBySignal(w) ==
  wpc[w] = "wait" /\ \A v \in 0 .. w - 1 : wpc[v] # "wait"
ComputeRunStaleIndex(seed, lo, hi) ==
  {[best_correct |-> FixedPoints(seed, x), best_index |-> lo, best_arr |-> <<seed, x>>] :
     x \in {b \in lo .. hi - 1 : \A y \in lo .. hi - 1 :
              FixedPoints(seed, b) >= FixedPoints(seed, y)}}

-----------------------------------------------------------------------------
CanLockLease == lease_mutex = Free
CanLockBest == best_mutex = Free

(* The coordinator accepts a report whose board and score are those of the *)
(* shuffle it names, and hands out a fresh lease once it accepted one of   *)
(* the whole window (or, with MidLease, whenever it likes).                *)
Replays(r) ==
  /\ r.best_arr = <<r.seed, r.best_index>>
  /\ r.best_correct = FixedPoints(r.seed, r.best_index)

LeaseDue ==
  \/ MidLease
  \/ lease_gen = 0
  \/ sent.seed = current_job.seed /\ sent.total_done = current_job.count /\ Replays(sent)

(* worker_push_job on the service thread, also for a job that arrived      *)
(* together with a closing message.                                        *)
PushJob ==
  /\ push = "idle"
  /\ lease_gen < MaxLeases /\ LeaseDue
  /\ CanLockLease
  /\ current_job' = Leases[lease_gen + 1]
  /\ lease_gen' = lease_gen + 1
  /\ push' = "total"
  /\ UNCHANGED <<running, started, lease_mutex, total, best, worker, reporter>>

ResetTotal ==
  /\ push = "total"
  /\ total_done_all' = 0
  /\ counted' = {}
  /\ push' = "best"
  /\ UNCHANGED <<running, started, lease, best, worker, reporter>>

ResetBest ==
  /\ push = "best"
  /\ CanLockBest
  /\ global_best' = [global_best EXCEPT !.best_correct = -1]
  /\ global_best_correct_atomic' = -1
  /\ push' = "start"
  /\ UNCHANGED <<running, started, lease, total, best_mutex, worker, reporter>>

(* pthread_cond_broadcast wakes every worker that waits on lease_cond.     *)
Woken(w) == wpc[w] = "wait"

(* The first job creates the threads; every job wakes those that wait.     *)
StartOrWake ==
  /\ push = "start"
  /\ started' = TRUE
  /\ wpc' = [w \in Workers |-> IF wpc[w] = "unborn" \/ Woken(w) THEN "take" ELSE wpc[w]]
  /\ rpc' = IF started THEN rpc ELSE "loop"
  /\ push' = "idle"
  /\ UNCHANGED <<running, lease, total, best, locals, reads, reported>>

(* client_shutdown as the workers see it: the condition it signals is not  *)
(* the one they wait for.                                                  *)
ClientShutdown ==
  /\ push = "idle"
  /\ running
  /\ running' = FALSE
  /\ UNCHANGED <<started, push, lease, total, best, worker, reporter>>

-----------------------------------------------------------------------------
(* Worker w.                                                               *)

FirstChunk(w) == w * chunk_size
Stride == num_workers * chunk_size
Hi(w) == LET end == i[w] + chunk_size
         IN  IF end < j[w].count THEN end ELSE j[w].count
ChunkLength(w) == Hi(w) - i[w]
Overtaken(w) == lease_gen # my_gen[w]
Improves(w) == cr[w].best_correct > global_best.best_correct

(* compute_run returns a best shuffle of [lo, hi); which of several equally *)
(* good ones depends on the backend.                                       *)
ComputeRun(seed, lo, hi) ==
  {[best_correct |-> FixedPoints(seed, x), best_index |-> x, best_arr |-> <<seed, x>>] :
     x \in {b \in lo .. hi - 1 : \A y \in lo .. hi - 1 :
              FixedPoints(seed, b) >= FixedPoints(seed, y)}}

NextChunk(w) ==
  /\ wpc' = [wpc EXCEPT ![w] = "chunk"]
  /\ i' = [i EXCEPT ![w] = @ + Stride]
  /\ UNCHANGED <<my_gen, j, cr>>

WorkerExit(w) ==
  /\ wpc[w] \in {"take", "chunk"}
  /\ ~running
  /\ wpc' = [wpc EXCEPT ![w] = "exited"]
  /\ UNCHANGED <<service, lease, total, best, locals, reporter>>

(* pthread_cond_wait gives the mutex back, so a waiting worker holds none. *)
WaitForLease(w) ==
  /\ wpc[w] = "take"
  /\ running
  /\ CanLockLease
  /\ lease_gen = my_gen[w]
  /\ wpc' = [wpc EXCEPT ![w] = "wait"]
  /\ UNCHANGED <<service, lease, total, best, locals, reporter>>

(* POSIX lets pthread_cond_wait return without a signal.                   *)
SpuriousWake(w) ==
  /\ wpc[w] = "wait"
  /\ wpc' = [wpc EXCEPT ![w] = "take"]
  /\ UNCHANGED <<service, lease, total, best, locals, reporter>>

TakeLease(w) ==
  /\ wpc[w] = "take"
  /\ running
  /\ CanLockLease
  /\ lease_gen # my_gen[w]
  /\ lease_mutex' = w
  /\ wpc' = [wpc EXCEPT ![w] = "copy"]
  /\ my_gen' = [my_gen EXCEPT ![w] = lease_gen]
  /\ UNCHANGED <<service, current_job, lease_gen, total, best, j, i, cr, reporter>>

CopyJob(w) ==
  /\ wpc[w] = "copy"
  /\ lease_mutex' = Free
  /\ wpc' = [wpc EXCEPT ![w] = "chunk"]
  /\ j' = [j EXCEPT ![w] = current_job]
  /\ i' = [i EXCEPT ![w] = FirstChunk(w)]
  /\ UNCHANGED <<service, current_job, lease_gen, total, best, my_gen, cr, reporter>>

ComputeChunk(w) ==
  /\ wpc[w] = "chunk"
  /\ running
  /\ i[w] < j[w].count
  /\ ~Overtaken(w)
  /\ \E found \in ComputeRun(j[w].seed, i[w], Hi(w)) : cr' = [cr EXCEPT ![w] = found]
  /\ wpc' = [wpc EXCEPT ![w] = "add"]
  /\ UNCHANGED <<service, lease, total, best, my_gen, j, i, reporter>>

(* The slice is finished, or a newer lease is out.                         *)
LeaveLease(w) ==
  /\ wpc[w] = "chunk"
  /\ running
  /\ i[w] >= j[w].count \/ Overtaken(w)
  /\ wpc' = [wpc EXCEPT ![w] = "take"]
  /\ UNCHANGED <<service, lease, total, best, locals, reporter>>

AddTotal(w) ==
  /\ wpc[w] = "add"
  /\ total_done_all' = total_done_all + ChunkLength(w)
  /\ counted' = counted \cup {<<my_gen[w], x>> : x \in i[w] .. Hi(w) - 1}
  /\ wpc' = [wpc EXCEPT ![w] = "peek"]
  /\ UNCHANGED <<service, lease, best, locals, reporter>>

(* The unlocked look at the best score decides whether to lock at all.     *)
PeekBest(w) ==
  /\ wpc[w] = "peek"
  /\ IF cr[w].best_correct > global_best_correct_atomic
     THEN wpc' = [wpc EXCEPT ![w] = "merge"] /\ UNCHANGED locals
     ELSE NextChunk(w)
  /\ UNCHANGED <<service, lease, total, best, reporter>>

MergeBest(w) ==
  /\ wpc[w] = "merge"
  /\ CanLockBest
  /\ IF Improves(w)
     THEN /\ global_best' = cr[w]
          /\ global_best_correct_atomic' = cr[w].best_correct
     ELSE UNCHANGED <<global_best, global_best_correct_atomic>>
  /\ NextChunk(w)
  /\ UNCHANGED <<service, lease, total, best_mutex, reporter>>

-----------------------------------------------------------------------------
(* The reporter thread: running is read before the sleep, not after it.    *)

KeepsReporting == running
NothingNew == total_done_all <= last_reported_total

ReporterLoop ==
  /\ rpc = "loop"
  /\ rpc' = IF KeepsReporting THEN "awake" ELSE "exited"
  /\ UNCHANGED <<service, lease, total, best, worker, reads, reported>>

ReadLeaseGen ==
  /\ rpc = "awake"
  /\ CanLockLease
  /\ lease_mutex' = Reporter
  /\ current_gen' = lease_gen
  /\ rpc' = "job"
  /\ UNCHANGED <<service, current_job, lease_gen, total, best, worker,
                 active_job, current_total, best_seen, reported>>

ReadJob ==
  /\ rpc = "job"
  /\ lease_mutex' = Free
  /\ active_job' = current_job
  /\ last_reported_gen' = current_gen
  /\ last_reported_total' =
       IF current_gen # last_reported_gen THEN 0 ELSE last_reported_total
  /\ rpc' = "total"
  /\ UNCHANGED <<service, current_job, lease_gen, total, best, worker,
                 current_gen, current_total, best_seen, sent>>

ReadTotal ==
  /\ rpc = "total"
  /\ current_total' = total_done_all
  /\ rpc' = IF NothingNew THEN "loop" ELSE "best"
  /\ UNCHANGED <<service, lease, total, best, worker,
                 current_gen, active_job, best_seen, reported>>

ReadBest ==
  /\ rpc = "best"
  /\ CanLockBest
  /\ best_seen' = global_best.best_correct
  /\ IF global_best.best_correct >= 0
     THEN best_mutex' = Reporter /\ rpc' = "send"
     ELSE best_mutex' = best_mutex /\ rpc' = "loop"
  /\ UNCHANGED <<service, lease, total, global_best, global_best_correct_atomic,
                 worker, current_gen, active_job, current_total, reported>>

SendResult ==
  /\ rpc = "send"
  /\ best_mutex' = Free
  /\ sent' = [seed |-> active_job.seed, total_done |-> current_total,
              best_correct |-> best_seen,
              best_index |-> global_best.best_index, best_arr |-> global_best.best_arr]
  /\ last_reported_total' = current_total
  /\ rpc' = "loop"
  /\ UNCHANGED <<service, lease, total, global_best, global_best_correct_atomic,
                 worker, reads, last_reported_gen>>

-----------------------------------------------------------------------------
PushStep == ResetTotal \/ ResetBest \/ StartOrWake

WorkerStep(w) ==
  \/ WorkerExit(w) \/ WaitForLease(w) \/ TakeLease(w) \/ CopyJob(w)
  \/ ComputeChunk(w) \/ LeaveLease(w) \/ AddTotal(w) \/ PeekBest(w) \/ MergeBest(w)

ReporterStep ==
  ReporterLoop \/ ReadLeaseGen \/ ReadJob \/ ReadTotal \/ ReadBest \/ SendResult

Next ==
  \/ PushJob \/ PushStep \/ ClientShutdown
  \/ \E w \in Workers : WorkerStep(w) \/ SpuriousWake(w)
  \/ ReporterStep

Spec == Init /\ [][Next]_vars

(* The scheduler runs every thread that can run, and a thread that keeps   *)
(* asking for a mutex gets it in the end (strong fairness), as its holder  *)
(* releases it after a few instructions.  Nothing makes a job, a shutdown  *)
(* or a spurious wakeup happen.                                            *)
Fairness ==
  /\ SF_vars(PushStep)
  /\ \A w \in Workers : SF_vars(WorkerStep(w))
  /\ SF_vars(ReporterStep)

FairSpec == Spec /\ Fairness

-----------------------------------------------------------------------------
(* Properties.                                                             *)

(* Every variable of worker.c keeps its type; no total goes below zero.    *)
TypeOK ==
  /\ running \in BOOLEAN /\ started \in BOOLEAN
  /\ push \in {"idle", "total", "best", "start"}
  /\ lease_mutex \in Workers \cup {Reporter, Free}
  /\ current_job \in Job /\ lease_gen \in 0 .. MaxLeases
  /\ total_done_all \in Nat
  /\ best_mutex \in {Reporter, Free}
  /\ global_best \in Result /\ global_best_correct_atomic \in Score
  /\ wpc \in [Workers -> {"unborn", "take", "wait", "copy", "chunk", "add",
                         "peek", "merge", "exited"}]
  /\ my_gen \in [Workers -> Nat] /\ j \in [Workers -> Job]
  /\ i \in [Workers -> Nat] /\ cr \in [Workers -> Result]
  /\ rpc \in {"unborn", "loop", "awake", "job", "total", "best", "send", "exited"}
  /\ current_gen \in Nat /\ active_job \in Job
  /\ current_total \in Nat /\ best_seen \in Score
  /\ last_reported_gen \in Nat /\ last_reported_total \in Nat
  /\ sent \in [seed : Nat, total_done : Nat,
               best_correct : Score, best_index : Nat, best_arr : Board]

(* Across all leases, threads and resets, no shuffle is added to the total *)
(* twice: the slices of the workers never overlap.                         *)
TotalIsCount == total_done_all = Cardinality(counted)


(* Score, index and board of a report come from one and the same shuffle,  *)
(* though three threads read and write global_best meanwhile.              *)
ReportSelfConsistent ==
  sent # NoReport =>
    /\ sent.best_arr[2] = sent.best_index
    /\ sent.best_correct = FixedPoints(sent.best_arr[1], sent.best_arr[2])

(* A generation number is never paired with another generation's job, in a *)
(* worker's copy nor in the reporter's.                                    *)
SnapshotPaired ==
  /\ \A w \in Workers : wpc[w] \in {"chunk", "add", "peek", "merge"} =>
       j[w] = Leases[my_gen[w]]
  /\ rpc \in {"total", "best", "send"} =>
       active_job = Leases[last_reported_gen]

(* BOGO_API.md: total_done strictly increases across the reports of a      *)
(* lease.                                                                  *)
ReportsIncrease ==
  [][SendResult /\ sent'.seed = sent.seed => sent'.total_done > sent.total_done]_vars

(* Only a new job lowers the best score: two workers that both saw a lower *)
(* cached score do not overwrite the better result with the worse.         *)
BestOnlyImproves ==
  [][~ResetBest => global_best'.best_correct >= global_best.best_correct]_vars

(* What BOGO_API.md asks of best_index: the server replays the shuffle     *)
(* (seed, best_index) and must find the reported board and score.          *)
ReportReplays == sent # NoReport => Replays(sent)

(* The properties that follow promise more while one lease is all there    *)
(* was, whatever its workers and the reporter interleave to: a second job  *)
(* wipes what workers have half merged.                                    *)
OneLeaseSoFar == lease_gen <= 1

(* So long, the server's replay accepts every report.                      *)
FirstReportReplays == OneLeaseSoFar => ReportReplays

(* BOGO_API.md: total_done is at most the count of the lease it names.     *)
(* The first lease keeps to it; when a job overtakes its predecessor, late *)
(* workers smuggle at most one chunk each into the new total.              *)
TotalBounded ==
  push # "total" =>
    total_done_all <= current_job.count +
      (IF OneLeaseSoFar THEN 0 ELSE num_workers * chunk_size)

(* When every worker waits for work, the whole window was computed, and    *)
(* global_best is a best shuffle of it.                                    *)
IdleMeansExhausted ==
  OneLeaseSoFar /\ (\A w \in Workers : wpc[w] = "wait") =>
    /\ total_done_all = current_job.count
    /\ \A x \in 0 .. current_job.count - 1 :
         global_best.best_correct >= FixedPoints(current_job.seed, x)

(* BOGO_API.md: the client reports about once a second until its lease is  *)
(* exhausted.  So the first lease is reported to its end, unless the       *)
(* session ends or another job takes its place.                            *)
FirstLeaseReported ==
  lease_gen = 1 ~>
    \/ lease_gen # 1 \/ ~running
    \/ sent.seed = Leases[1].seed /\ sent.total_done = Leases[1].count

(* No lost wakeup: every worker gets to the newest lease.                  *)
WorkersPickUp ==
  \A w \in Workers :
    my_gen[w] < lease_gen ~> my_gen[w] = lease_gen \/ ~running

(* After a shutdown the reporter ends, and the workers end or stay asleep. *)
ShutdownQuiesces ==
  ~running ~> [](/\ rpc \in {"unborn", "exited"}
                 /\ \A w \in Workers : wpc[w] \in {"unborn", "wait", "exited"})
=============================================================================
