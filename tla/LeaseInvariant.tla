--------------------------- MODULE LeaseInvariant ---------------------------
(***************************************************************************)
(* The inductive invariant of Lease, in named parts.  TypeOK alone is not  *)
(* inductive: that compute_run's score is one of 0..25 depends on a worker *)
(* holding the job of its generation, and this on lease_mutex.             *)
(***************************************************************************)
EXTENDS Lease

(* A thread inside a reading critical section holds its mutex.             *)
LocksHeld ==
  /\ \A w \in Workers : wpc[w] = "copy" => lease_mutex = w
  /\ rpc = "job" => lease_mutex = Reporter
  /\ rpc = "send" => best_mutex = Reporter

(* No thread is born, or copies a job, before the first job is out.        *)
AfterFirstJob ==
  /\ push # "idle" \/ started => lease_gen > 0
  /\ rpc # "unborn" => started
  /\ lease_gen > 0 => current_job = Leases[lease_gen]

HasLease(w) == wpc[w] \in {"chunk", "add", "peek", "merge"}
HasResult(w) == wpc[w] \in {"add", "peek", "merge"}

(* Generations and jobs stay paired on their way to workers and reporter.  *)
WorkersPaired ==
  \A w \in Workers :
    /\ my_gen[w] <= lease_gen
    /\ wpc[w] = "copy" => my_gen[w] = lease_gen /\ lease_gen > 0
    /\ HasLease(w) => my_gen[w] > 0 /\ j[w] = Leases[my_gen[w]]
    /\ wpc[w] = "add" => i[w] < j[w].count

ReporterPaired ==
  /\ last_reported_gen <= lease_gen
  /\ rpc = "job" =>
       /\ current_gen = lease_gen /\ lease_gen > 0
  /\ rpc \in {"total", "best", "send"} =>
       /\ last_reported_gen > 0
       /\ active_job = Leases[last_reported_gen]

(* Score, index and board of a result belong to one shuffle.               *)
OneShuffle(r) ==
  /\ r.best_arr[2] = r.best_index
  /\ r.best_correct = FixedPoints(r.best_arr[1], r.best_arr[2])

ResultsWhole ==
  /\ \A w \in Workers : HasResult(w) => OneShuffle(cr[w])
  /\ global_best.best_correct >= 0 => OneShuffle(global_best)
  /\ rpc = "send" =>
       /\ best_seen = global_best.best_correct
       /\ global_best.best_correct >= 0
  /\ sent # NoReport => OneShuffle(sent)

(* What was reported for the generation the reporter is on is remembered.  *)
ReportsRemembered ==
  /\ sent # NoReport =>
       \E g \in 1 .. last_reported_gen : sent.seed = Leases[g].seed
  /\ last_reported_gen > 0 /\ sent.seed = Leases[last_reported_gen].seed
       => sent.total_done <= last_reported_total
  /\ rpc \in {"best", "send"} =>
       last_reported_total < current_total

(* The inductive invariant.                                                *)
IInv ==
  /\ TypeOK
  /\ LocksHeld
  /\ AfterFirstJob
  /\ WorkersPaired
  /\ ReporterPaired
  /\ ResultsWhole
  /\ ReportsRemembered

(***************************************************************************)
(* Why nothing is counted twice: the window is dealt out in chunks, chunk  *)
(* q to worker q % num_workers, and each worker only moves forward.        *)
(***************************************************************************)
Owner(x) == (x \div chunk_size) % num_workers

(* Below Done(w), worker w has counted what it owns of its current lease.  *)
Done(w) == CASE wpc[w] = "copy" -> 0
             [] wpc[w] \in {"peek", "merge"} -> i[w] + chunk_size
             [] OTHER -> i[w]

OnChunkBoundary ==
  \A w \in Workers : HasLease(w) =>
    i[w] % chunk_size = 0 /\ Owner(i[w]) = w

Passed(w, e) == e[1] < my_gen[w] \/ (e[1] = my_gen[w] /\ e[2] < Done(w))

CountedBelow ==
  /\ counted \subseteq Nat \X Nat
  /\ \A e \in counted : Passed(Owner(e[2]), e)

(* Each worker is on its own chunks, and all that was counted lies behind  *)
(* the worker that owns it: so AddTotal only ever counts new shuffles.     *)
SliceInv ==
  /\ OnChunkBoundary
  /\ CountedBelow
  /\ IsFiniteSet(counted) /\ TotalIsCount

(***************************************************************************)
(* Why a total stays near the count of its lease: a worker that a newer    *)
(* job overtakes still adds the chunk it is on, and then leaves.           *)
(***************************************************************************)
Late(e) == e[1] < lease_gen
OwesLateChunk(w) == wpc[w] = "add" /\ my_gen[w] < lease_gen

CountedInWindow ==
  \A e \in counted : e[1] > 0 /\ (e[1] = lease_gen => e[2] < current_job.count)

OneLateChunkEach ==
  /\ \A e \in counted : Late(e) => ~OwesLateChunk(Owner(e[2]))
  /\ \A e, f \in counted :
       Late(e) /\ Late(f) /\ Owner(e[2]) = Owner(f[2])
         => e[1] = f[1] /\ e[2] \div chunk_size = f[2] \div chunk_size

(* Until the total is reset it is still that of the last job.              *)
LateInv == push # "total" => CountedInWindow /\ OneLateChunkEach

(***************************************************************************)
(* What more is true while one lease is all there was.                     *)
(***************************************************************************)

(* Nothing happens before the threads exist, and they exist only once both *)
(* resets of the first push are behind them.                               *)
BornAfterResets ==
  /\ ~started =>
       counted = {} /\ \A w \in Workers : wpc[w] = "unborn" /\ my_gen[w] = 0
  /\ started => push = "idle"

(* Below Done(w) nothing of a worker's slice is left out, and it waits for *)
(* the next lease only when its slice is done.                             *)
SliceDone(w) ==
  /\ wpc[w] = "wait" => my_gen[w] = lease_gen
  /\ my_gen[w] = lease_gen =>
       /\ \A x \in 0 .. current_job.count - 1 :
            Owner(x) = w /\ x < Done(w) => <<lease_gen, x>> \in counted
       /\ wpc[w] \in {"take", "wait"} => i[w] >= current_job.count

(* The best of what was counted is in global_best, or a worker is about to *)
(* merge it.                                                               *)
BestKept ==
  \A e \in counted :
    LET score == FixedPoints(current_job.seed, e[2])
    IN  \/ score <= global_best.best_correct
        \/ \E w \in Workers :
             wpc[w] \in {"peek", "merge"} /\ score <= cr[w].best_correct

(* All boards are shuffles of the one seed there is.                       *)
OneSeed ==
  /\ \A w \in Workers : HasResult(w) => cr[w].best_arr[1] = current_job.seed
  /\ global_best.best_correct >= 0 => global_best.best_arr[1] = current_job.seed
  /\ sent # NoReport => sent.best_arr[1] = sent.seed

FirstLease ==
  lease_gen = 1 =>
    /\ BornAfterResets
    /\ \A w \in Workers : SliceDone(w)
    /\ BestKept
    /\ OneSeed

(* Before it, nothing has happened.                                        *)
BeforeFirstLease ==
  lease_gen = 0 =>
    /\ ~started /\ counted = {}
    /\ \A w \in Workers : wpc[w] = "unborn" /\ my_gen[w] = 0
    /\ global_best.best_correct = -1 /\ sent = NoReport

(* A chunk's result is the best of the chunk, and the unlocked copy of the *)
(* best score is never behind.                                             *)
BestOfChunk ==
  \A w \in Workers : wpc[w] = "add" =>
    \A x \in i[w] .. Hi(w) - 1 : FixedPoints(j[w].seed, x) <= cr[w].best_correct
AtomicIsBest == global_best_correct_atomic = global_best.best_correct

FirstLeaseInv == BeforeFirstLease /\ FirstLease /\ BestOfChunk /\ AtomicIsBest
=============================================================================
